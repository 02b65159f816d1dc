--------------------------- MODULE EdgeCallsProofs ---------------------------
(***************************************************************************)
(* Proofs about EdgeCalls, for every application, number of threads, depth *)
(* of nesting, heap and width of size_t: the store is not entered twice by *)
(* one thread, no count overflows its buffer, a call's outcome and its     *)
(* results agree, and nothing that a call allocates outlives it.           *)
(***************************************************************************)
EXTENDS EdgeCalls, FiniteSetTheorems, SequenceTheorems, WellFoundedInduction, TLAPS

(* A set of naturals has a least element; inductions are written with it. *)
LEMMA LeastElement ==
  ASSUME NEW T \in SUBSET Nat, T # {}
  PROVE  \E x \in T : \A y \in T : x <= y
<1> DEFINE Below == {1 .. n : n \in T}
           R == StrictSubsetOrdering(Nat)
<1>1. IsWellFoundedOn(R, FiniteSubsetsOf(Nat))
  BY FS_StrictSubsetOrderingWellFounded
<1>2. Below \subseteq FiniteSubsetsOf(Nat)
  <2>1. \A n \in T : IsFiniteSet(1 .. n)
    BY FS_Interval
  <2>2. \A n \in T : 1 .. n \in SUBSET Nat
    OBVIOUS
  <2>3. \A n \in T : 1 .. n \in FiniteSubsetsOf(Nat)
    BY <2>1, <2>2 DEF FiniteSubsetsOf
  <2> QED BY <2>3
<1>3. Below # {}
  OBVIOUS
<1>4. PICK s \in Below : \A t \in Below : <<t, s>> \notin R
  <2> HIDE DEF Below, R
  <2> QED BY <1>1, <1>2, <1>3, WFMin
<1>5. PICK x \in T : s = 1 .. x
  OBVIOUS
<1>6. ASSUME NEW y \in T, y < x PROVE FALSE
  <2>1. x \in 1 .. x /\ x \notin 1 .. y
    BY <1>6
  <2>2. 1 .. y \subseteq 1 .. x /\ 1 .. y # 1 .. x
    BY <1>6, <2>1
  <2>3. <<1 .. y, 1 .. x>> \in R
    BY <2>2 DEF StrictSubsetOrdering
  <2> QED BY <1>4, <1>5, <2>3
<1> QED BY <1>6

(* The element of a set that a sum takes first. *)
First(s) == CHOOSE x \in s : TRUE

(* sum[s] is the sum of f over s, for every part s of S. *)
Partial(sum, f, S) ==
  \A s \in SUBSET S : sum[s] = IF s = {} THEN 0 ELSE f[First(s)] + sum[s \ {First(s)}]

(* A smaller set without its first element. *)
LEMMA WithoutOne ==
  ASSUME NEW s, IsFiniteSet(s), NEW x \in s
  PROVE  /\ IsFiniteSet(s \ {x})
         /\ Cardinality(s) \in Nat \ {0}
         /\ Cardinality(s \ {x}) = Cardinality(s) - 1
         /\ ~(Cardinality(s) <= Cardinality(s \ {x}))
<1>1. /\ IsFiniteSet(s \ {x})
      /\ Cardinality(s) \in Nat \ {0}
      /\ Cardinality(s \ {x}) = Cardinality(s) - 1
  BY FS_RemoveElement, FS_CardinalityType, FS_EmptySet
<1> QED BY <1>1

LEMMA FirstIn == ASSUME NEW s, s # {} PROVE First(s) \in s
BY DEF First

(* A property of the parts of a finite set fails at a smallest one. *)
LEMMA SmallestPart ==
  ASSUME NEW S, IsFiniteSet(S), NEW P \in SUBSET SUBSET S, P # {}
  PROVE  \E s \in P : IsFiniteSet(s) /\ \A t \in P : Cardinality(s) <= Cardinality(t)
<1> DEFINE T == {Cardinality(s) : s \in P}
<1>1. \A s \in P : IsFiniteSet(s) /\ Cardinality(s) \in Nat
  BY FS_Subset, FS_CardinalityType
<1>2. T \in SUBSET Nat /\ T # {}
  BY <1>1
<1>3. PICK n \in T : \A m \in T : n <= m
  <2> HIDE DEF T
  <2> QED BY <1>2, LeastElement
<1> QED BY <1>1, <1>3

PartSums(g, f, S) == [s \in SUBSET S |-> IF s = {} THEN 0 ELSE f[First(s)] + g[s \ {First(s)}]]

LEMMA PartialExists ==
  ASSUME NEW S, IsFiniteSet(S), NEW f
  PROVE  \E sum : sum = PartSums(sum, f, S)
<1> DEFINE Def(g, s) == IF s = {} THEN 0 ELSE f[First(s)] + g[s \ {First(s)}]
           Upto(g, n) == \A s \in SUBSET S : Cardinality(s) <= n => g[s] = Def(g, s)
           Bad == {n \in Nat : ~ \E g : Upto(g, n)}
<1>1. \A s \in SUBSET S : IsFiniteSet(s) /\ Cardinality(s) \in Nat
  BY FS_Subset, FS_CardinalityType
<1>2. \A s \in SUBSET S : s # {} => /\ s \ {First(s)} \in SUBSET S
                                    /\ Cardinality(s) >= 1
                                    /\ Cardinality(s \ {First(s)}) = Cardinality(s) - 1
  BY <1>1, FirstIn, WithoutOne
<1>3. Bad = {}
  <2> SUFFICES ASSUME Bad # {} PROVE FALSE
    OBVIOUS
  <2>1. PICK n \in Bad : \A m \in Bad : n <= m
    <3>1. Bad \in SUBSET Nat
      OBVIOUS
    <3> HIDE DEF Bad
    <3> QED BY <3>1, LeastElement
  <2>2. n \in Nat
    OBVIOUS
  <2>3. \E g : \A s \in SUBSET S : Cardinality(s) < n => g[s] = Def(g, s)
    <3>1. CASE n = 0
      BY <1>1, <3>1
    <3>2. CASE n # 0
      <4>1. n - 1 \in Nat /\ ~(n <= n - 1)
        BY <2>2, <3>2
      <4>2. PICK g : Upto(g, n - 1)
        BY <2>1, <4>1
      <4>3. \A s \in SUBSET S : Cardinality(s) < n => Cardinality(s) <= n - 1
        BY <1>1, <2>2
      <4> QED BY <4>2, <4>3
    <3> QED BY <3>1, <3>2
  <2>4. PICK g : \A s \in SUBSET S : Cardinality(s) < n => g[s] = Def(g, s)
    BY <2>3
  <2> DEFINE h == [s \in SUBSET S |-> Def(g, s)]
  <2>5. ASSUME NEW s \in SUBSET S, Cardinality(s) <= n PROVE h[s] = Def(h, s)
    <3>1. CASE s = {}
      BY <3>1
    <3>2. CASE s # {}
      <4>1. s \ {First(s)} \in SUBSET S /\ Cardinality(s \ {First(s)}) < n
        BY <1>1, <1>2, <2>2, <2>5, <3>2
      <4>2. h[s \ {First(s)}] = g[s \ {First(s)}]
        BY <2>4, <4>1
      <4>3. h[s] = f[First(s)] + g[s \ {First(s)}]
        BY <3>2
      <4> HIDE DEF h
      <4> QED BY <3>2, <4>2, <4>3
    <3> QED BY <3>1, <3>2
  <2>6. Upto(h, n)
    BY <2>5
  <2> QED BY <2>1, <2>6
<1>4. PICK g : Upto(g, Cardinality(S))
  BY <1>1, <1>3
<1>5. \A s \in SUBSET S : Cardinality(s) <= Cardinality(S)
  BY FS_Subset
<1> DEFINE h == [s \in SUBSET S |-> g[s]]
<1>6. \A s \in SUBSET S : h[s] = Def(h, s)
  <2>1. ASSUME NEW s \in SUBSET S PROVE h[s] = Def(h, s)
    <3>1. g[s] = Def(g, s)
      BY <1>4, <1>5
    <3>2. CASE s = {}
      BY <3>1, <3>2
    <3>3. CASE s # {}
      BY <1>2, <3>1, <3>3
    <3> QED BY <3>2, <3>3
  <2> QED BY <2>1
<1>7. h = [s \in SUBSET S |-> Def(h, s)]
  <2>1. h = [s \in SUBSET S |-> h[s]]
    OBVIOUS
  <2> HIDE DEF h
  <2> QED BY <1>6, <2>1
<1> QED BY <1>7 DEF PartSums

(* The sum of a function is that of its whole domain. *)
LEMMA SumIsPartial ==
  ASSUME NEW f, IsFiniteSet(DOMAIN f)
  PROVE  \E sum : Partial(sum, f, DOMAIN f) /\ SumFunction(f) = sum[DOMAIN f]
<1> DEFINE S == DOMAIN f
           sum == CHOOSE g : g = PartSums(g, f, S)
<1>1. sum = PartSums(sum, f, S)
  <2>1. \E g : g = PartSums(g, f, S)
    BY PartialExists
  <2> QED BY <2>1
<1>2. Partial(sum, f, S)
  <2> HIDE DEF sum
  <2> QED BY <1>1 DEF Partial, PartSums
<1>3. SumFunction(f) = sum[S]
  BY DEF SumFunction, SumFunctionOnSet, FoldFunctionOnSet, MapThenFoldSet, First, PartSums
<1> QED BY <1>2, <1>3

(* Two partial sums agree where what they add does. *)
LEMMA PartialAgree ==
  ASSUME NEW U, IsFiniteSet(U), NEW S, NEW R, U \subseteq S, U \subseteq R,
         NEW f, NEW h, \A x \in U : f[x] = h[x],
         NEW sum, NEW other, Partial(sum, f, S), Partial(other, h, R)
  PROVE  sum[U] = other[U]
<1> DEFINE Bad == {s \in SUBSET U : sum[s] # other[s]}
<1> SUFFICES ASSUME Bad # {} PROVE FALSE
  OBVIOUS
<1>1. PICK s \in Bad : IsFiniteSet(s) /\ \A t \in Bad : Cardinality(s) <= Cardinality(t)
  <2>1. Bad \in SUBSET SUBSET U
    OBVIOUS
  <2> HIDE DEF Bad
  <2> QED BY <2>1, SmallestPart
<1>2. s \in SUBSET U /\ s \in SUBSET S /\ s \in SUBSET R /\ sum[s] # other[s]
  OBVIOUS
<1>3. s # {}
  BY <1>2 DEF Partial
<1>4. First(s) \in s /\ f[First(s)] = h[First(s)] /\ s \ {First(s)} \in SUBSET U
  BY <1>2, <1>3, FirstIn
<1>5. sum[s \ {First(s)}] = other[s \ {First(s)}]
  <2>1. ~(Cardinality(s) <= Cardinality(s \ {First(s)}))
    BY <1>1, <1>4, WithoutOne
  <2> QED BY <1>1, <1>4, <2>1
<1>6. sum[s] = f[First(s)] + sum[s \ {First(s)}] /\ other[s] = h[First(s)] + other[s \ {First(s)}]
  BY <1>2, <1>3 DEF Partial
<1> QED BY <1>2, <1>4, <1>5, <1>6

(* A sum may be taken in any order. *)
LEMMA PartialRemove ==
  ASSUME NEW S, IsFiniteSet(S), NEW f, \A x \in S : f[x] \in Int,
         NEW sum, Partial(sum, f, S)
  PROVE  \A s \in SUBSET S : sum[s] \in Int /\ \A x \in s : sum[s] = f[x] + sum[s \ {x}]
<1>1. \A s \in SUBSET S : sum[s] \in Int
  <2> DEFINE Bad == {s \in SUBSET S : sum[s] \notin Int}
  <2> SUFFICES ASSUME Bad # {} PROVE FALSE
    OBVIOUS
  <2>1. PICK s \in Bad : IsFiniteSet(s) /\ \A t \in Bad : Cardinality(s) <= Cardinality(t)
    <3>1. Bad \in SUBSET SUBSET S
      OBVIOUS
    <3> HIDE DEF Bad
    <3> QED BY <3>1, SmallestPart
  <2>2. s \in SUBSET S /\ sum[s] \notin Int
    OBVIOUS
  <2>3. s # {}
    BY <2>2 DEF Partial
  <2>4. First(s) \in s /\ f[First(s)] \in Int /\ s \ {First(s)} \in SUBSET S
    BY <2>2, <2>3, FirstIn
  <2>5. sum[s \ {First(s)}] \in Int
    <3>1. ~(Cardinality(s) <= Cardinality(s \ {First(s)}))
      BY <2>1, <2>4, WithoutOne
    <3> QED BY <2>1, <2>4, <3>1
  <2> QED BY <2>2, <2>3, <2>4, <2>5 DEF Partial
<1>2. \A s \in SUBSET S : \A x \in s : sum[s] = f[x] + sum[s \ {x}]
  <2> DEFINE Bad == {s \in SUBSET S : \E x \in s : sum[s] # f[x] + sum[s \ {x}]}
  <2> SUFFICES ASSUME Bad # {} PROVE FALSE
    OBVIOUS
  <2>1. PICK s \in Bad : IsFiniteSet(s) /\ \A t \in Bad : Cardinality(s) <= Cardinality(t)
    <3>1. Bad \in SUBSET SUBSET S
      OBVIOUS
    <3> HIDE DEF Bad
    <3> QED BY <3>1, SmallestPart
  <2>2. PICK x \in s : sum[s] # f[x] + sum[s \ {x}]
    OBVIOUS
  <2>3. PICK c : c = First(s)
    OBVIOUS
  <2>4. s \in SUBSET S /\ c \in s /\ sum[s] = f[c] + sum[s \ {c}]
    BY <2>2, <2>3, FirstIn DEF Partial
  <2>5. x # c
    BY <2>2, <2>4
  <2>6. ASSUME NEW y \in s PROVE \A z \in s \ {y} : sum[s \ {y}] = f[z] + sum[(s \ {y}) \ {z}]
    <3>1. s \ {y} \in SUBSET S /\ ~(Cardinality(s) <= Cardinality(s \ {y}))
      BY <2>1, <2>4, WithoutOne
    <3>2. s \ {y} \notin Bad
      BY <2>1, <3>1
    <3> QED BY <3>1, <3>2
  <2>7. PICK rest : rest = (s \ {c}) \ {x}
    OBVIOUS
  <2>8. rest = (s \ {x}) \ {c} /\ rest \in SUBSET S
    BY <2>4, <2>7
  <2>9. sum[s \ {c}] = f[x] + sum[rest] /\ sum[s \ {x}] = f[c] + sum[rest]
    <3>1. sum[s \ {c}] = f[x] + sum[(s \ {c}) \ {x}] /\ sum[s \ {x}] = f[c] + sum[(s \ {x}) \ {c}]
      <4>1. x \in s \ {c} /\ c \in s \ {x}
        BY <2>2, <2>4, <2>5
      <4> HIDE DEF Bad
      <4> QED BY <2>4, <2>6, <4>1
    <3> QED BY <2>7, <2>8, <3>1
  <2>10. f[x] \in Int /\ f[c] \in Int /\ sum[rest] \in Int
    BY <1>1, <2>4, <2>8
  <2>11. f[c] + (f[x] + sum[rest]) = f[x] + (f[c] + sum[rest])
    BY <2>10
  <2> HIDE DEF Bad
  <2> QED BY <2>2, <2>4, <2>9, <2>11
<1> QED BY <1>1, <1>2

Summable(f, S) == IsFiniteSet(S) /\ \A x \in S : f[x] \in Int

LEMMA WholeRemove ==
  ASSUME NEW S, NEW f, Summable(f, S), NEW sum, Partial(sum, f, S)
  PROVE  \A x \in S : sum[S] \in Int /\ sum[S \ {x}] \in Int /\ sum[S] = f[x] + sum[S \ {x}]
<1> TAKE x \in S
<1>1. S \in SUBSET S /\ S \ {x} \in SUBSET S
  OBVIOUS
<1>2. \A s \in SUBSET S : sum[s] \in Int /\ \A y \in s : sum[s] = f[y] + sum[s \ {y}]
  BY PartialRemove DEF Summable
<1> QED BY <1>1, <1>2

(* A sum of naturals is a natural; one that adds up nothing is 0. *)
LEMMA SumNat ==
  ASSUME NEW f, IsFiniteSet(DOMAIN f), \A x \in DOMAIN f : f[x] \in Nat
  PROVE  /\ SumFunction(f) \in Nat
         /\ (\A x \in DOMAIN f : f[x] = 0) => SumFunction(f) = 0
<1>1. PICK sum : Partial(sum, f, DOMAIN f) /\ SumFunction(f) = sum[DOMAIN f]
  BY SumIsPartial
<1> DEFINE Right(s) == sum[s] \in Nat /\ ((\A x \in DOMAIN f : f[x] = 0) => sum[s] = 0)
           Bad == {s \in SUBSET DOMAIN f : ~Right(s)}
<1>2. Bad = {}
  <2> SUFFICES ASSUME Bad # {} PROVE FALSE
    OBVIOUS
  <2>1. PICK s \in Bad : IsFiniteSet(s) /\ \A t \in Bad : Cardinality(s) <= Cardinality(t)
    <3>1. Bad \in SUBSET SUBSET DOMAIN f
      OBVIOUS
    <3> HIDE DEF Bad
    <3> QED BY <3>1, SmallestPart
  <2>2. s \in SUBSET DOMAIN f /\ ~Right(s)
    OBVIOUS
  <2>3. s # {}
    <3>1. {} \in SUBSET DOMAIN f
      OBVIOUS
    <3>2. sum[{}] = 0
      BY <1>1, <3>1 DEF Partial
    <3> QED BY <2>2, <3>2
  <2>4. First(s) \in s /\ f[First(s)] \in Nat /\ s \ {First(s)} \in SUBSET DOMAIN f
    BY <2>2, <2>3, FirstIn
  <2>5. Right(s \ {First(s)})
    <3>1. ~(Cardinality(s) <= Cardinality(s \ {First(s)}))
      BY <2>1, <2>4, WithoutOne
    <3>2. s \ {First(s)} \notin Bad
      BY <2>1, <3>1
    <3> QED BY <2>4, <3>2
  <2>6. sum[s] = f[First(s)] + sum[s \ {First(s)}]
    BY <1>1, <2>2, <2>3 DEF Partial
  <2>7. Right(s)
    BY <2>4, <2>5, <2>6
  <2> QED BY <2>2, <2>7
<1>3. Right(DOMAIN f)
  BY <1>2
<1> QED BY <1>1, <1>3

(* One more summand. *)
LEMMA SumOneMore ==
  ASSUME NEW f, IsFiniteSet(DOMAIN f), \A x \in DOMAIN f : f[x] \in Int,
         NEW x \in DOMAIN f, NEW h, DOMAIN h = DOMAIN f \ {x}, \A y \in DOMAIN h : h[y] = f[y]
  PROVE  SumFunction(f) \in Int /\ SumFunction(h) \in Int /\ SumFunction(f) = f[x] + SumFunction(h)
<1>1. IsFiniteSet(DOMAIN h)
  BY FS_RemoveElement
<1>2. PICK sum : Partial(sum, f, DOMAIN f) /\ SumFunction(f) = sum[DOMAIN f]
  BY SumIsPartial
<1>3. PICK other : Partial(other, h, DOMAIN h) /\ SumFunction(h) = other[DOMAIN h]
  BY <1>1, SumIsPartial
<1>4. sum[DOMAIN h] = other[DOMAIN h]
  BY <1>1, <1>2, <1>3, PartialAgree
<1>5. /\ sum[DOMAIN f] \in Int /\ sum[DOMAIN f \ {x}] \in Int
      /\ sum[DOMAIN f] = f[x] + sum[DOMAIN f \ {x}]
  <2>1. Summable(f, DOMAIN f)
    BY DEF Summable
  <2>2. \A y \in DOMAIN f : sum[DOMAIN f] \in Int /\ sum[DOMAIN f \ {y}] \in Int /\ sum[DOMAIN f] = f[y] + sum[DOMAIN f \ {y}]
    BY ONLY <1>2, <2>1, WholeRemove
  <2> QED BY <2>2
<1> QED BY <1>2, <1>3, <1>4, <1>5

(* One summand changes. *)
LEMMA SumOneChanged ==
  ASSUME NEW f, IsFiniteSet(DOMAIN f), \A y \in DOMAIN f : f[y] \in Int,
         NEW x \in DOMAIN f, NEW h, DOMAIN h = DOMAIN f, h[x] \in Int,
         \A y \in DOMAIN f \ {x} : h[y] = f[y]
  PROVE  SumFunction(f) \in Int /\ SumFunction(h) \in Int
         /\ SumFunction(h) = SumFunction(f) + h[x] - f[x]
<1> DEFINE rest == [y \in DOMAIN f \ {x} |-> f[y]]
<1>1. DOMAIN rest = DOMAIN f \ {x} /\ \A y \in DOMAIN rest : rest[y] = f[y] /\ rest[y] = h[y]
  OBVIOUS
<1>2. \A y \in DOMAIN h : h[y] \in Int
  OBVIOUS
<1> HIDE DEF rest
<1>3. /\ SumFunction(f) \in Int /\ SumFunction(rest) \in Int
      /\ SumFunction(f) = f[x] + SumFunction(rest)
  BY <1>1, SumOneMore
<1>4. SumFunction(h) \in Int /\ SumFunction(h) = h[x] + SumFunction(rest)
  BY <1>1, <1>2, SumOneMore
<1> QED BY <1>3, <1>4

-----------------------------------------------------------------------------
(* The tables.                                                             *)

(* What a bridge or a proxy is given beside a pointer it copies: in the    *)
(* bridges the product of a count and the unit is compared with SIZE_MAX,  *)
(* unless the unit is one byte.                                            *)
Safe(p) == p.sized => p.unit = 1 \/ (p.unit = 4 /\ p.checked)

(* A pointer parameter is a record of five fields; TRUE and FALSE are named *)
(* for the solver, which does not mix them with other values.              *)
LEMMA PointerFields ==
  ASSUME NEW d, NEW n \in Nat
  PROVE  LET p == Pointer(d, n) IN
         /\ DOMAIN p = {"dir", "unit", "sized", "checked", "string"}
         /\ p.unit = n /\ ~p.sized
<1>1. PICK b : b = FALSE
  OBVIOUS
<1>2. Pointer(d, n) = [dir |-> d, unit |-> n, sized |-> b, checked |-> b, string |-> b]
  BY <1>1, Zenon DEF Pointer
<1>3. LET p == Pointer(d, n) IN
         /\ DOMAIN p = {"dir", "unit", "sized", "checked", "string"}
         /\ p.unit = n /\ p.sized = b
  BY <1>2
<1> QED BY <1>1, <1>3

LEMMA SizedFields ==
  ASSUME NEW p, DOMAIN p = {"dir", "unit", "sized", "checked", "string"}
  PROVE  /\ DOMAIN Sized(p) = DOMAIN p /\ Sized(p).unit = p.unit
         /\ DOMAIN Checked(p) = DOMAIN p /\ Checked(p).unit = p.unit /\ Checked(p).checked
         /\ DOMAIN String(p) = DOMAIN p /\ String(p).unit = p.unit
<1>1. PICK b : b = TRUE
  OBVIOUS
<1>2. Sized(p) = [p EXCEPT !.sized = b]
  BY <1>1, Zenon DEF Sized
<1>3. Checked(p) = [p EXCEPT !.checked = b]
  BY <1>1, Zenon DEF Checked
<1>4. String(p) = [Sized(p) EXCEPT !.string = b]
  BY <1>1, Zenon DEF String
<1>5. DOMAIN Sized(p) = DOMAIN p /\ Sized(p).unit = p.unit
  BY <1>2
<1>6. DOMAIN Checked(p) = DOMAIN p /\ Checked(p).unit = p.unit /\ Checked(p).checked = b
  BY <1>3
<1>7. DOMAIN String(p) = DOMAIN p /\ String(p).unit = p.unit
  BY <1>4, <1>5
<1> QED BY <1>1, <1>5, <1>6, <1>7

LEMMA PlainUnits ==
  \A n \in Nat : In(n).unit = n /\ Out(n).unit = n /\ InOut(n).unit = n /\ UserCheck.unit = 0
                /\ ~In(n).sized /\ ~Out(n).sized /\ ~InOut(n).sized /\ ~UserCheck.sized
BY PointerFields DEF In, Out, InOut, UserCheck

LEMMA SizedUnits ==
  \A n \in Nat : /\ Sized(In(n)).unit = n /\ Sized(Out(n)).unit = n /\ Sized(InOut(n)).unit = n
                /\ String(In(n)).unit = n /\ String(InOut(n)).unit = n
                /\ Checked(Sized(InOut(n))).unit = n /\ Checked(Sized(InOut(n))).checked
<1>1. \A p : DOMAIN p = {"dir", "unit", "sized", "checked", "string"} =>
        /\ DOMAIN Sized(p) = DOMAIN p /\ Sized(p).unit = p.unit
        /\ Checked(p).unit = p.unit /\ Checked(p).checked
        /\ String(p).unit = p.unit
  BY SizedFields
<1>2. \A n \in Nat : \A p \in {In(n), Out(n), InOut(n)} :
        DOMAIN p = {"dir", "unit", "sized", "checked", "string"} /\ p.unit = n
  BY PointerFields DEF In, Out, InOut
<1> QED BY <1>1, <1>2

(* The parameters of the tables; two of them only ocalls have. *)
Params == {
  UserCheck, In(INTBYTES), Out(INTBYTES), InOut(INTBYTES), String(InOut(1)), String(In(1)),
  Sized(InOut(1)), Sized(In(1)), Checked(Sized(InOut(INTBYTES))), In(4 * INTBYTES),
  Out(4 * INTBYTES), InOut(4 * INTBYTES), In(BLOCKBYTES), Out(BLOCKBYTES), In(21), In(101), In(20)}
OcallOnly == {Sized(Out(1)), Sized(In(8))}

LEMMA Units ==
  /\ \A p \in Params : p.unit \in Nat /\ Safe(p)
  /\ \A p \in OcallOnly : p.unit \in Nat
<1>1. \A p \in {UserCheck} \cup UNION {{In(n), Out(n), InOut(n)} : n \in Nat} :
         p.unit \in Nat /\ ~p.sized
  BY PlainUnits
<1>2. \A p \in {String(InOut(1)), String(In(1)), Sized(InOut(1)), Sized(In(1))} : p.unit = 1
  BY SizedUnits
<1>3. \A p \in {Checked(Sized(InOut(4)))} : p.unit = 4 /\ p.checked
  BY SizedUnits
<1>4. \A p \in OcallOnly : p.unit \in Nat
  BY SizedUnits DEF OcallOnly
<1>5. Params \subseteq ({UserCheck} \cup UNION {{In(n), Out(n), InOut(n)} : n \in Nat})
      \cup {String(InOut(1)), String(In(1)), Sized(InOut(1)), Sized(In(1))} \cup {Checked(Sized(InOut(4)))}
  BY DEF Params, INTBYTES, BLOCKBYTES
<1> QED BY <1>1, <1>2, <1>3, <1>4, <1>5 DEF Safe

LEMMA ShortLists ==
  ASSUME NEW S
  PROVE \A p, q, r \in S : <<p>> \in Seq(S) /\ <<p, q>> \in Seq(S) /\ <<p, q, r>> \in Seq(S)
OBVIOUS

(* The lists of parameters of the bridges. *)
EcallParams == {
  <<>>, <<UserCheck>>, <<In(INTBYTES)>>, <<Out(INTBYTES)>>, <<InOut(INTBYTES)>>,
  <<String(InOut(1))>>, <<String(In(1))>>, <<Sized(InOut(1))>>, <<Sized(In(1))>>,
  <<Checked(Sized(InOut(INTBYTES)))>>, <<In(4 * INTBYTES)>>, <<Out(4 * INTBYTES)>>,
  <<InOut(4 * INTBYTES)>>, <<In(BLOCKBYTES), In(BLOCKBYTES), Out(BLOCKBYTES)>>,
  <<In(21), In(101)>>, <<In(21)>>, <<In(21), Out(BLOCKBYTES), Out(INTBYTES)>>}

LEMMA BridgeParams ==
  /\ \A params : Bridge(params).params = params /\ Returning(Bridge(params)).params = params
  /\ NoArguments.params = <<>>
<1>1. PICK b, c : b = TRUE /\ c = FALSE
  OBVIOUS
<1>2. ASSUME NEW params PROVE Bridge(params).params = params /\ Returning(Bridge(params)).params = params
  <2>1. Bridge(params) = [params |-> params, takes_ms |-> b, returns |-> c]
    BY <1>1, Zenon DEF Bridge
  <2>2. Returning(Bridge(params)) = [Bridge(params) EXCEPT !.returns = b]
    BY <1>1, Zenon DEF Returning
  <2> QED BY <2>1, <2>2
<1>3. NoArguments = [params |-> <<>>, takes_ms |-> c, returns |-> c]
  BY <1>1, Zenon DEF NoArguments
<1> QED BY <1>2, <1>3

Bridges == {
  sgx_ecall_type_char, sgx_ecall_type_int, sgx_ecall_type_float,
  sgx_ecall_type_double, sgx_ecall_type_size_t, sgx_ecall_type_wchar_t,
  sgx_ecall_type_struct, sgx_ecall_type_enum_union,
  sgx_ecall_pointer_user_check, sgx_ecall_pointer_in, sgx_ecall_pointer_out,
  sgx_ecall_pointer_in_out, sgx_ecall_pointer_string,
  sgx_ecall_pointer_string_const, sgx_ecall_pointer_size,
  sgx_ecall_pointer_count, sgx_ecall_pointer_isptr_readonly,
  sgx_ocall_pointer_attr, sgx_ecall_array_user_check, sgx_ecall_array_in,
  sgx_ecall_array_out, sgx_ecall_array_in_out, sgx_ecall_array_isary,
  sgx_ecall_function_public, sgx_ecall_function_private,
  sgx_ecall_malloc_free, sgx_ecall_sgx_cpuid, sgx_ecall_exception,
  sgx_ecall_map, sgx_ecall_increase_counter, sgx_ecall_producer,
  sgx_ecall_consumer, sgx_aes_encrypt, sgx_aes_decrypt,
  sgx_ecall_handler_init, sgx_ecall_test_handle, sgx_handle_write_val,
  sgx_handle_just, sgx_handle_read_val}

LEMMA EcallRows == \A fn \in DOMAIN g_ecall_table : g_ecall_table[fn].params \in EcallParams
<1>1. \A fn \in DOMAIN g_ecall_table : g_ecall_table[fn] \in Bridges
  BY DEF g_ecall_table, Bridges
<1>2. \A row \in Bridges : row = NoArguments \/ \E params \in EcallParams : row = Bridge(params) \/ row = Returning(Bridge(params))
  BY DEF EcallParams, Bridges,
    sgx_ecall_type_char, sgx_ecall_type_int, sgx_ecall_type_float,
    sgx_ecall_type_double, sgx_ecall_type_size_t, sgx_ecall_type_wchar_t,
    sgx_ecall_type_struct, sgx_ecall_type_enum_union,
    sgx_ecall_pointer_user_check, sgx_ecall_pointer_in, sgx_ecall_pointer_out,
    sgx_ecall_pointer_in_out, sgx_ecall_pointer_string,
    sgx_ecall_pointer_string_const, sgx_ecall_pointer_size,
    sgx_ecall_pointer_count, sgx_ecall_pointer_isptr_readonly,
    sgx_ocall_pointer_attr, sgx_ecall_array_user_check, sgx_ecall_array_in,
    sgx_ecall_array_out, sgx_ecall_array_in_out, sgx_ecall_array_isary,
    sgx_ecall_function_public, sgx_ecall_function_private,
    sgx_ecall_malloc_free, sgx_ecall_sgx_cpuid, sgx_ecall_exception,
    sgx_ecall_map, sgx_ecall_increase_counter, sgx_ecall_producer,
    sgx_ecall_consumer, sgx_aes_encrypt, sgx_aes_decrypt,
    sgx_ecall_handler_init, sgx_ecall_test_handle, sgx_handle_write_val,
    sgx_handle_just, sgx_handle_read_val
<1>3. <<>> \in EcallParams
  BY DEF EcallParams
<1> QED BY <1>1, <1>2, <1>3, BridgeParams

LEMMA EcallLists == EcallParams \subseteq Seq(Params)
<1>1. EcallParams \subseteq {<<>>} \cup {<<p>> : p \in Params} \cup {<<p, q>> : p, q \in Params}
                           \cup {<<p, q, r>> : p, q, r \in Params}
  BY DEF EcallParams, Params
<1>2. <<>> \in Seq(Params)
  OBVIOUS
<1>3. \A p, q, r \in Params : <<p>> \in Seq(Params) /\ <<p, q>> \in Seq(Params) /\ <<p, q, r>> \in Seq(Params)
  BY ShortLists
<1>4. ASSUME NEW x \in EcallParams PROVE x \in Seq(Params)
  <2>1. CASE x = <<>>
    BY <1>2, <2>1
  <2>2. CASE \E p \in Params : x = <<p>>
    BY <1>3, <2>2
  <2>3. CASE \E p, q \in Params : x = <<p, q>>
    BY <1>3, <2>3
  <2>4. CASE \E p, q, r \in Params : x = <<p, q, r>>
    BY <1>3, <2>4
  <2>5. \/ x = <<>>
        \/ \E p \in Params : x = <<p>>
        \/ \E p, q \in Params : x = <<p, q>>
        \/ \E p, q, r \in Params : x = <<p, q, r>>
    BY <1>1
  <2> QED BY <2>1, <2>2, <2>3, <2>4, <2>5
<1> QED BY <1>4

(* The parameters of the proxies.  One of them alone takes a count of what *)
(* is longer than a byte.                                                  *)
OcallPointers == {
  UserCheck, Sized(In(1)), Sized(Out(1)), Out(4 * INTBYTES), In(INTBYTES), Out(INTBYTES),
  InOut(INTBYTES), In(20), In(BLOCKBYTES), Out(BLOCKBYTES)}

OcallParams == {
  <<>>, <<UserCheck>>, <<UserCheck, UserCheck>>, <<Sized(In(1))>>, <<Sized(Out(1))>>,
  <<Out(4 * INTBYTES)>>, <<In(INTBYTES)>>, <<Out(INTBYTES)>>,
  <<InOut(INTBYTES)>>, <<In(20), Out(BLOCKBYTES)>>, <<In(20), In(BLOCKBYTES)>>}

SetMultiple == "sgx_thread_set_multiple_untrusted_events_ocall"

Proxies == {
  ocall_print_string, u_sgxssl_ftime, sgx_oc_cpuidex,
  sgx_thread_wait_untrusted_event_ocall, sgx_thread_set_untrusted_event_ocall,
  sgx_thread_setwait_untrusted_events_ocall, ocall_pointer_user_check,
  ocall_pointer_in, ocall_pointer_out, ocall_pointer_in_out,
  ocall_function_allow, ocall_read_to_buffer, ocall_write_to_file}

LEMMA ProxyParams == \A params, ms :
  /\ Proxy(params, ms).params = params /\ Returning(Proxy(params, ms)).params = params
  /\ Proxy(params, ms).ms = ms /\ Returning(Proxy(params, ms)).ms = ms
<1>1. PICK b, c : b = TRUE /\ c = FALSE
  OBVIOUS
<1>2. TAKE params, ms
<1>3. Proxy(params, ms) = [params |-> params, ms |-> ms, returns |-> c]
  BY <1>1, Zenon DEF Proxy
<1>4. Returning(Proxy(params, ms)) = [Proxy(params, ms) EXCEPT !.returns = b]
  BY <1>1, Zenon DEF Returning
<1> QED BY <1>3, <1>4

LEMMA OcallRows ==
  \A fn \in DOMAIN ocall_table :
    /\ ocall_table[fn].ms \in Nat
    /\ IF fn = SetMultiple THEN ocall_table[fn].params = <<Sized(In(8))>>
       ELSE ocall_table[fn].params \in OcallParams
<1>1. \A fn \in DOMAIN ocall_table \ {SetMultiple} : ocall_table[fn] \in Proxies
  BY DEF ocall_table, Proxies, SetMultiple
<1>2. \A row \in Proxies : \E params \in OcallParams, ms \in Nat :
        row = Proxy(params, ms) \/ row = Returning(Proxy(params, ms))
  BY DEF OcallParams, Proxies,
    ocall_print_string, u_sgxssl_ftime, sgx_oc_cpuidex,
    sgx_thread_wait_untrusted_event_ocall,
    sgx_thread_set_untrusted_event_ocall,
    sgx_thread_setwait_untrusted_events_ocall, ocall_pointer_user_check,
    ocall_pointer_in, ocall_pointer_out, ocall_pointer_in_out,
    ocall_function_allow, ocall_read_to_buffer, ocall_write_to_file
<1>3. ocall_table[SetMultiple] = Returning(Proxy(<<Sized(In(8))>>, 24))
  BY DEF ocall_table, SetMultiple, sgx_thread_set_multiple_untrusted_events_ocall
<1> QED BY <1>1, <1>2, <1>3, ProxyParams

LEMMA OcallLists == OcallParams \subseteq Seq(OcallPointers)
<1> DEFINE S == OcallPointers
<1>1. OcallParams \subseteq {<<>>} \cup {<<p>> : p \in S} \cup {<<p, q>> : p, q \in S}
  BY DEF OcallParams, OcallPointers
<1> HIDE DEF S
<1>2. <<>> \in Seq(S)
  OBVIOUS
<1>3. \A p, q \in S : <<p>> \in Seq(S) /\ <<p, q>> \in Seq(S)
  BY ShortLists
<1>4. ASSUME NEW x \in OcallParams PROVE x \in Seq(S)
  <2>1. CASE x = <<>>
    BY <1>2, <2>1
  <2>2. CASE \E p \in S : x = <<p>>
    BY <1>3, <2>2
  <2>3. CASE \E p, q \in S : x = <<p, q>>
    BY <1>3, <2>3
  <2>5. x = <<>> \/ (\E p \in S : x = <<p>>) \/ (\E p, q \in S : x = <<p, q>>)
    BY <1>1
  <2> QED BY <2>1, <2>2, <2>3, <2>5
<1> QED
  <2>1. OcallParams \subseteq Seq(S)
    BY <1>4
  <2> QED BY <2>1 DEF S

LEMMA Tables ==
  /\ \A fn \in DOMAIN g_ecall_table : g_ecall_table[fn].params \in Seq(Params)
  /\ \A fn \in DOMAIN ocall_table :
       ocall_table[fn].params \in Seq(Params \cup OcallOnly) /\ ocall_table[fn].ms \in Nat
<1>1. \A fn \in DOMAIN g_ecall_table : g_ecall_table[fn].params \in Seq(Params)
  BY EcallRows, EcallLists
<1>2. OcallPointers \subseteq Params \cup OcallOnly /\ Sized(In(8)) \in Params \cup OcallOnly
  BY DEF OcallPointers, Params, OcallOnly
<1>3. \A params \in Seq(OcallPointers) : params \in Seq(Params \cup OcallOnly)
  BY <1>2
<1>4. <<Sized(In(8))>> \in Seq(Params \cup OcallOnly)
  BY <1>2, ShortLists
<1> QED BY <1>1, <1>3, <1>4, OcallRows, OcallLists

(* The counts of the proxies are of bytes, but for the one. *)
LEMMA SizedOcalls ==
  ASSUME NEW fn \in DOMAIN ocall_table, NEW i \in 1 .. Len(ocall_table[fn].params),
         NEW p, p = ocall_table[fn].params[i], p.sized
  PROVE  p.unit = 1 \/ (p.unit = 8 /\ fn = SetMultiple)
<1>1. CASE fn = SetMultiple
  <2>1. p = Sized(In(8))
    BY <1>1, OcallRows
  <2> QED BY <1>1, <2>1, SizedUnits
<1>2. CASE fn # SetMultiple
  <2>1. ocall_table[fn].params \in Seq(OcallPointers)
    BY <1>2, OcallRows, OcallLists
  <2>2. p \in OcallPointers
    BY <2>1
  <2>3. \A q \in {UserCheck} \cup UNION {{In(n), Out(n), InOut(n)} : n \in Nat} : ~q.sized
    BY PlainUnits
  <2>4. \A q \in {Sized(In(1)), Sized(Out(1))} : q.unit = 1
    BY SizedUnits
  <2>5. OcallPointers \subseteq ({UserCheck} \cup UNION {{In(n), Out(n), InOut(n)} : n \in Nat})
                               \cup {Sized(In(1)), Sized(Out(1))}
    BY DEF OcallPointers, INTBYTES, BLOCKBYTES
  <2> QED BY <2>2, <2>3, <2>4, <2>5
<1> QED BY <1>1, <1>2

LEMMA StoreNames ==
  /\ "ecall_function_private" \notin StoreEcalls
  /\ StoreEcalls \cap DOMAIN ocall_table = {}
BY DEF StoreEcalls, ocall_table

-----------------------------------------------------------------------------
(* Calls, one at a time.                                                   *)

Frames == [kind : {"ecall", "ocall"}, fn : DOMAIN g_ecall_table \cup DOMAIN ocall_table,
           at : {"in", "outside", "out", "err"},
           next : Nat \ {0}, n : 0 .. SIZE_MAX, inner_nul : BOOLEAN, ptr : Seq(Where),
           mem : Seq({"caller"}), buf : Seq(Contents \cup {None}), wrote : BOOLEAN,
           ret : {"caller", "body"}, status : Statuses]

(* What is copied, and what stands in the copy. *)
Content(p, wrote) ==
  IF CopiesOut(p) /\ wrote THEN "body" ELSE IF CopiesIn(p) THEN "caller" ELSE "zero"

BufferInv(c) ==
  \A i \in DOMAIN c.buf :
    /\ c.buf[i] # None => Copied(c, i) /\ c.buf[i] = Content(ParamsOf(c)[i], c.wrote)
    /\ (Copied(c, i) /\ c.at # "err" /\ (c.at = "in" => i < c.next)) => c.buf[i] # None
    /\ (c.at = "in" /\ i >= c.next) => c.buf[i] = None

(* A call as it goes on. *)
FrameInv(c) ==
  /\ c.fn \in (IF c.kind = "ecall" THEN DOMAIN g_ecall_table ELSE DOMAIN ocall_table)
  /\ c.at \in (IF c.kind = "ecall" THEN {"in", "out", "err"} ELSE {"outside", "out", "err"})
  /\ Len(c.ptr) = Len(ParamsOf(c)) /\ Len(c.mem) = Len(ParamsOf(c)) /\ Len(c.buf) = Len(ParamsOf(c))
  /\ (c.status = "SUCCESS") <=> (c.at # "err")
  /\ c.ret = IF c.kind = "ecall" /\ c.at = "out" /\ Returns(c) THEN "body" ELSE "caller"
  /\ c.at \in {"in", "outside"} => ~c.wrote
  /\ c.kind = "ecall" => CountFits(c)
  /\ BufferInv(c)

Call(c) == c \in Frames /\ FrameInv(c)

LEMMA WordSize == SIZE_MAX \in Nat /\ SIZE_MAX + 1 \in Nat \ {0}
<1>1. PICK m : m = 2^WORDBITS
  OBVIOUS
<1>2. m \in Nat \ {0}
  BY <1>1, EdgeAssumption
<1> QED BY <1>1, <1>2 DEF SIZE_MAX

LEMMA SizeType ==
  ASSUME NEW p, p.unit \in Nat, NEW n \in Nat
  PROVE  Size(p, n) \in Nat
<1>1. PICK k : k = p.unit * (IF p.sized THEN n ELSE 1)
  OBVIOUS
<1>2. k \in Nat
  <2>1. CASE p.sized
    BY <1>1, <2>1
  <2>2. CASE ~p.sized
    BY <1>1, <2>2
  <2> QED BY <2>1, <2>2
<1>3. PICK m : m = SIZE_MAX + 1
  OBVIOUS
<1>4. Size(p, n) = k % m
  BY <1>1, <1>3 DEF Size
<1>5. m \in Nat \ {0}
  BY <1>3, WordSize
<1> QED BY <1>2, <1>4, <1>5

(* The parameters of a call. *)
LEMMA CallParams ==
  ASSUME NEW c, c.kind \in {"ecall", "ocall"},
         c.fn \in (IF c.kind = "ecall" THEN DOMAIN g_ecall_table ELSE DOMAIN ocall_table)
  PROVE  /\ ParamsOf(c) \in Seq(Params \cup OcallOnly)
         /\ c.kind = "ecall" => ParamsOf(c) \in Seq(Params)
         /\ \A i \in 1 .. Len(ParamsOf(c)) : ParamsOf(c)[i].unit \in Nat
<1>1. c.kind = "ecall" => ParamsOf(c) \in Seq(Params)
  BY Tables DEF ParamsOf
<1>2. c.kind = "ocall" => ParamsOf(c) \in Seq(Params \cup OcallOnly)
  BY Tables DEF ParamsOf
<1>3. ParamsOf(c) \in Seq(Params \cup OcallOnly)
  BY <1>1, <1>2
<1>4. \A i \in 1 .. Len(ParamsOf(c)) : ParamsOf(c)[i] \in Params \cup OcallOnly
  BY <1>3
<1> QED BY <1>1, <1>3, <1>4, Units

(* Pointers and lengths as Step picks them. *)
Arguments(params, ptr, n) == ptr \in [DOMAIN params -> Where] /\ n \in Lengths \cup {0}

LEMMA ArgumentsTyped ==
  ASSUME NEW params \in Seq(Params \cup OcallOnly), NEW ptr, NEW n, Arguments(params, ptr, n)
  PROVE  /\ ptr \in Seq(Where) /\ Len(ptr) = Len(params) /\ DOMAIN ptr = 1 .. Len(params)
         /\ n \in 0 .. SIZE_MAX
<1>1. DOMAIN params = 1 .. Len(params) /\ Len(params) \in Nat
  OBVIOUS
<1>2. ptr \in [1 .. Len(params) -> Where]
  BY <1>1 DEF Arguments
<1>3. ptr \in Seq(Where) /\ Len(ptr) = Len(params) /\ DOMAIN ptr = 1 .. Len(params)
  BY <1>1, <1>2
<1>4. Lengths \subseteq 0 .. SIZE_MAX
  BY EdgeAssumption DEF SIZE_MAX
<1>5. n \in 0 .. SIZE_MAX
  BY <1>4, WordSize DEF Arguments
<1> QED BY <1>3, <1>5

(* A call when it is made. *)
MadeAs(kind, fn, params, ptr, n, nul, c) ==
  /\ kind \in {"ecall", "ocall"}
  /\ fn \in (IF kind = "ecall" THEN DOMAIN g_ecall_table ELSE DOMAIN ocall_table)
  /\ params = (IF kind = "ecall" THEN g_ecall_table[fn].params ELSE ocall_table[fn].params)
  /\ Arguments(params, ptr, n) /\ nul \in BOOLEAN /\ c = Frame(kind, fn, ptr, n, nul)

LEMMA NewFrame ==
  ASSUME NEW kind, NEW fn, NEW params, NEW ptr, NEW n, NEW nul, NEW c,
         MadeAs(kind, fn, params, ptr, n, nul, c)
  PROVE  /\ c \in Frames /\ ParamsOf(c) = params
         /\ c.kind = kind /\ c.fn = fn /\ c.ptr = ptr /\ c.n = n
         /\ c.at = "in" /\ c.next = 1 /\ c.status = "SUCCESS" /\ c.ret = "caller" /\ ~c.wrote
         /\ Len(c.ptr) = Len(params) /\ Len(c.mem) = Len(params) /\ Len(c.buf) = Len(params)
         /\ \A i \in DOMAIN c.buf : c.buf[i] = None
         /\ \A i \in DOMAIN c.mem : c.mem[i] = "caller"
<1> USE DEF MadeAs
<1>1. /\ c.kind = kind /\ c.fn = fn /\ c.ptr = ptr /\ c.n = n /\ c.at = "in" /\ c.next = 1
      /\ c.status = "SUCCESS" /\ c.ret = "caller" /\ ~c.wrote
      /\ c.mem = [i \in DOMAIN ptr |-> "caller"] /\ c.buf = [i \in DOMAIN ptr |-> None]
  BY DEF Frame
<1>2. ParamsOf(c) = params
  BY <1>1 DEF ParamsOf
<1>3. params \in Seq(Params \cup OcallOnly)
  BY <1>1, <1>2, CallParams
<1>4. /\ ptr \in Seq(Where) /\ Len(ptr) = Len(params) /\ DOMAIN ptr = 1 .. Len(params)
      /\ n \in 0 .. SIZE_MAX /\ Len(params) \in Nat
  BY <1>3, ArgumentsTyped
<1>5. /\ c.mem \in Seq({"caller"}) /\ Len(c.mem) = Len(params)
      /\ c.buf \in Seq(Contents \cup {None}) /\ Len(c.buf) = Len(params)
  BY <1>1, <1>4
<1>6. c \in Frames
  <2>1. PICK mem, buf : mem = c.mem /\ buf = c.buf
    OBVIOUS
  <2>4. PICK wrote \in BOOLEAN : wrote = FALSE
    OBVIOUS
  <2>2. c = [kind |-> kind, fn |-> fn, at |-> "in", next |-> 1, n |-> n, inner_nul |-> nul,
             ptr |-> ptr, mem |-> mem, buf |-> buf, wrote |-> wrote, ret |-> "caller", status |-> "SUCCESS"]
    BY <1>1, <2>1, <2>4, Zenon DEF Frame
  <2>3. "SUCCESS" \in Statuses
    BY DEF Statuses
  <2> QED BY <1>4, <1>5, <2>1, <2>2, <2>3, <2>4 DEF Frames
<1>7. /\ \A i \in DOMAIN c.buf : c.buf[i] = None
      /\ \A i \in DOMAIN c.mem : c.mem[i] = "caller"
  BY <1>1
<1> QED BY <1>1, <1>2, <1>4, <1>5, <1>6, <1>7

LEMMA EcallMade ==
  ASSUME NEW c \in Frames, c.kind = "ecall", c.fn \in DOMAIN g_ecall_table, c.at = "in", c.next = 1,
         c.status = "SUCCESS", c.ret = "caller", ~c.wrote, \A i \in DOMAIN c.buf : c.buf[i] = None,
         Len(c.ptr) = Len(ParamsOf(c)), Len(c.mem) = Len(ParamsOf(c)), Len(c.buf) = Len(ParamsOf(c)),
         CountFits(c)
  PROVE  Call(c)
<1>1. c.buf \in Seq(Contents \cup {None})
  BY DEF Frames
<1>2. BufferInv(c)
  BY <1>1 DEF BufferInv
<1> QED BY <1>2 DEF Call, FrameInv

(* What a step of a call leaves alone. *)
Kept(c, d) == d.kind = c.kind /\ d.fn = c.fn /\ d.n = c.n /\ d.ptr = c.ptr /\ d.mem = c.mem

LEMMA KeptFacts ==
  ASSUME NEW c, NEW d, Kept(c, d)
  PROVE  /\ ParamsOf(d) = ParamsOf(c)
         /\ \A i : Copied(d, i) = Copied(c, i)
         /\ CountFits(d) = CountFits(c)
         /\ OcallBytes(d) = OcallBytes(c)
         /\ Returns(d) = Returns(c)
<1>1. ParamsOf(d) = ParamsOf(c)
  BY DEF Kept, ParamsOf
<1>2. \A i : Copied(d, i) = Copied(c, i)
  BY <1>1 DEF Kept, Copied
<1>3. CountFits(d) = CountFits(c)
  BY <1>1 DEF Kept, CountFits
<1>4. OcallBytes(d) = OcallBytes(c)
  BY <1>1, <1>2 DEF Kept, OcallBytes
<1>5. Returns(d) = Returns(c)
  BY DEF Kept, Returns
<1> QED BY <1>1, <1>2, <1>3, <1>4, <1>5

(* A pointer is skipped. *)
LEMMA Skipped ==
  ASSUME NEW c, Call(c), c.kind = "ecall", c.at = "in", c.next <= Len(c.ptr), ~Copied(c, c.next),
         NEW d, d = [c EXCEPT !.next = @ + 1]
  PROVE  Call(d) /\ Kept(c, d) /\ d.buf = c.buf
<1>1. c \in Frames /\ FrameInv(c)
  BY DEF Call
<1>2. d \in Frames /\ Kept(c, d) /\ d.buf = c.buf /\ d.next = c.next + 1 /\ c.next \in Nat
      /\ d.at = c.at /\ d.ret = c.ret /\ d.status = c.status /\ d.wrote = c.wrote
  <2>1. c.next \in Nat
    BY <1>1 DEF Frames
  <2>2. PICK k \in Nat \ {0} : k = c.next + 1
    BY <2>1
  <2>3. d = [c EXCEPT !.next = k]
    BY <2>2
  <2> QED BY <1>1, <2>1, <2>2, <2>3 DEF Frames, Kept
<1>3. ParamsOf(d) = ParamsOf(c) /\ (\A i : Copied(d, i) = Copied(c, i)) /\ CountFits(d) = CountFits(c)
      /\ Returns(d) = Returns(c)
  BY <1>2, KeptFacts
<1>4. BufferInv(d)
  <2>1. BufferInv(c) /\ c.buf \in Seq(Contents \cup {None})
    BY <1>1 DEF FrameInv, Frames
  <2>2. \A i \in DOMAIN c.buf : i \in Nat /\ (i < c.next + 1 => i < c.next \/ i = c.next) /\ (i >= c.next + 1 => i >= c.next)
    BY <1>2, <2>1
  <2> QED BY <1>2, <1>3, <2>1, <2>2 DEF BufferInv
<1>5. FrameInv(d)
  <2>1. d.kind = c.kind /\ d.fn = c.fn /\ d.ptr = c.ptr /\ d.mem = c.mem
    BY <1>2 DEF Kept
  <2> QED BY <1>1, <1>2, <1>3, <1>4, <2>1 DEF FrameInv
<1> QED BY <1>2, <1>5 DEF Call

(* There is no room for the copy. *)
LEMMA Failed ==
  ASSUME NEW c, Call(c), c.kind = "ecall", c.at = "in",
         NEW d, d = [c EXCEPT !.at = "err", !.status = "OUT_OF_MEMORY"]
  PROVE  Call(d) /\ Kept(c, d) /\ d.buf = c.buf
<1>1. c \in Frames /\ FrameInv(c)
  BY DEF Call
<1>2. d \in Frames /\ Kept(c, d) /\ d.buf = c.buf /\ d.at = "err" /\ d.ret = c.ret /\ d.status = "OUT_OF_MEMORY"
      /\ d.wrote = c.wrote
  BY <1>1 DEF Frames, Kept, Statuses
<1>3. ParamsOf(d) = ParamsOf(c) /\ (\A i : Copied(d, i) = Copied(c, i)) /\ CountFits(d) = CountFits(c)
      /\ Returns(d) = Returns(c)
  BY <1>2, KeptFacts
<1>4. BufferInv(d)
  <2>1. BufferInv(c)
    BY <1>1 DEF FrameInv
  <2> QED BY <1>2, <1>3, <2>1 DEF BufferInv
<1>5. FrameInv(d)
  <2>1. d.kind = c.kind /\ d.fn = c.fn /\ d.ptr = c.ptr /\ d.mem = c.mem
    BY <1>2 DEF Kept
  <2> QED BY <1>1, <1>2, <1>3, <1>4, <2>1 DEF FrameInv
<1> QED BY <1>2, <1>5 DEF Call

(* A parameter is copied in; a string without its end is an error then. *)
FilledTo(c, v, e, d) ==
  /\ c.kind = "ecall" /\ c.at = "in" /\ c.next <= Len(c.ptr) /\ Copied(c, c.next)
  /\ v = (IF CopiesIn(ParamsOf(c)[c.next]) THEN "caller" ELSE "zero")
  /\ e = [c EXCEPT !.buf[c.next] = v]
  /\ \/ d = [e EXCEPT !.next = @ + 1]
     \/ d = [e EXCEPT !.at = "err", !.status = "UNEXPECTED"]

LEMMA Filled ==
  ASSUME NEW c, Call(c), NEW v, NEW e, NEW d, FilledTo(c, v, e, d)
  PROVE  /\ Call(d) /\ Kept(c, d)
         /\ c.next \in DOMAIN c.buf /\ c.buf[c.next] = None /\ v # None
         /\ d.buf = [c.buf EXCEPT ![c.next] = v]
<1> USE DEF FilledTo
<1>1. c \in Frames /\ FrameInv(c)
  BY DEF Call
<1>2. c.next \in Nat \ {0} /\ c.buf \in Seq(Contents \cup {None}) /\ BufferInv(c)
  BY <1>1 DEF Frames, FrameInv
<1>3. c.next \in DOMAIN c.buf
  <2>1. Len(c.ptr) = Len(c.buf)
    BY <1>1 DEF FrameInv
  <2>2. DOMAIN c.buf = 1 .. Len(c.buf) /\ Len(c.buf) \in Nat
    BY <1>2
  <2> QED BY <1>2, <2>1, <2>2
<1>4. v \in Contents /\ v # None
  BY NoneAssumption DEF Contents
<1>5. e \in Frames /\ Kept(c, e) /\ e.buf = [c.buf EXCEPT ![c.next] = v] /\ e.next = c.next
      /\ e.at = c.at /\ e.ret = c.ret /\ e.status = c.status /\ e.wrote = c.wrote
  <2>1. PICK b : b = [c.buf EXCEPT ![c.next] = v]
    OBVIOUS
  <2>2. b \in Seq(Contents \cup {None})
    BY <1>2, <1>3, <1>4, <2>1
  <2>3. e = [c EXCEPT !.buf = b]
    BY <2>1
  <2> QED BY <1>1, <2>1, <2>2, <2>3 DEF Frames, Kept
<1>6. d \in Frames /\ Kept(c, d) /\ d.buf = e.buf /\ d.ret = c.ret /\ d.wrote = c.wrote
      /\ \/ d.next = c.next + 1 /\ d.at = c.at /\ d.status = c.status
         \/ d.at = "err" /\ d.status = "UNEXPECTED"
  <2>1. CASE d = [e EXCEPT !.next = @ + 1]
    <3>1. PICK k \in Nat \ {0} : k = c.next + 1
      BY <1>2
    <3>2. d = [e EXCEPT !.next = k]
      BY <1>5, <2>1, <3>1
    <3> QED BY <1>5, <3>1, <3>2 DEF Frames, Kept
  <2>2. CASE d = [e EXCEPT !.at = "err", !.status = "UNEXPECTED"]
    <3>1. PICK a \in {"err"}, status \in Statuses : a = "err" /\ status = "UNEXPECTED"
      BY DEF Statuses
    <3>2. d = [e EXCEPT !.at = a, !.status = status]
      BY <2>2, <3>1
    <3>3. d \in Frames /\ d.at = a /\ d.status = status
      BY <1>5, <3>1, <3>2 DEF Frames
    <3>4. Kept(e, d) /\ d.buf = e.buf /\ d.ret = e.ret /\ d.wrote = e.wrote
      BY <1>5, <3>2 DEF Frames, Kept
    <3> QED BY <1>5, <3>1, <3>3, <3>4 DEF Kept
  <2> QED BY <2>1, <2>2
<1>7. ParamsOf(d) = ParamsOf(c) /\ (\A i : Copied(d, i) = Copied(c, i)) /\ CountFits(d) = CountFits(c)
      /\ Returns(d) = Returns(c)
  BY <1>6, KeptFacts
<1>8. /\ DOMAIN d.buf = DOMAIN c.buf /\ Len(d.buf) = Len(c.buf) /\ d.buf[c.next] = v
      /\ \A i \in DOMAIN c.buf \ {c.next} : d.buf[i] = c.buf[i]
  BY <1>2, <1>3, <1>4, <1>5, <1>6
<1>9. BufferInv(d)
  <2>1. \A i \in DOMAIN c.buf : i \in Nat
    BY <1>2
  <2>2. ASSUME NEW i \in DOMAIN c.buf
        PROVE  /\ d.buf[i] # None => Copied(d, i) /\ d.buf[i] = Content(ParamsOf(d)[i], d.wrote)
               /\ (Copied(d, i) /\ d.at # "err" /\ (d.at = "in" => i < d.next)) => d.buf[i] # None
               /\ (d.at = "in" /\ i >= d.next) => d.buf[i] = None
    <3>1. CASE i = c.next
      <4>1. ~d.wrote
        BY <1>1, <1>6 DEF FrameInv
      <4>2. v = Content(ParamsOf(d)[i], d.wrote)
        BY <1>7, <3>1, <4>1 DEF Content
      <4> QED BY <1>2, <1>4, <1>6, <1>7, <1>8, <3>1, <4>2
    <3>2. CASE i # c.next
      <4>1. d.buf[i] = c.buf[i]
        BY <1>8, <3>2
      <4>2. (i < c.next + 1 => i < c.next) /\ (i >= c.next + 1 => i >= c.next)
        BY <1>2, <2>1, <3>2
      <4> QED BY <1>2, <1>6, <1>7, <4>1, <4>2 DEF BufferInv
    <3> QED BY <3>1, <3>2
  <2> QED BY <1>8, <2>2 DEF BufferInv
<1>10. FrameInv(d)
  <2>1. d.kind = c.kind /\ d.fn = c.fn /\ d.ptr = c.ptr /\ d.mem = c.mem
    BY <1>6 DEF Kept
  <2> QED BY <1>1, <1>6, <1>7, <1>8, <1>9, <2>1 DEF FrameInv
<1>11. c.buf[c.next] = None
  BY <1>2, <1>3 DEF BufferInv
<1> QED BY <1>3, <1>4, <1>5, <1>6, <1>10, <1>11 DEF Call

(* The callee writes the outputs that are copied back, or leaves them. *)
LEMMA WrittenBuffers ==
  ASSUME NEW c, c.buf \in Seq(Contents \cup {None}), BufferInv(c), ~c.wrote,
         NEW wrote, NEW b, b = Written(c, wrote)
  PROVE  /\ b \in Seq(Contents \cup {None}) /\ DOMAIN b = DOMAIN c.buf /\ Len(b) = Len(c.buf)
         /\ \A i \in DOMAIN b : /\ b[i] # None => b[i] = Content(ParamsOf(c)[i], wrote)
                                /\ (b[i] = None) <=> (c.buf[i] = None)
<1>1. "body" \in Contents /\ "body" # None
  BY NoneAssumption DEF Contents
<1>2. DOMAIN c.buf = 1 .. Len(c.buf) /\ Len(c.buf) \in Nat
  OBVIOUS
<1>3. DOMAIN b = DOMAIN c.buf
  BY DEF Written
<1>4. \A i \in DOMAIN b :
        b[i] = IF c.buf[i] # None /\ CopiesOut(ParamsOf(c)[i]) /\ wrote THEN "body" ELSE c.buf[i]
  BY DEF Written
<1>5. \A i \in DOMAIN b : b[i] \in Contents \cup {None} /\ ((b[i] = None) <=> (c.buf[i] = None))
  BY <1>1, <1>3, <1>4
<1>6. ASSUME NEW i \in DOMAIN b, b[i] # None PROVE b[i] = Content(ParamsOf(c)[i], wrote)
  <2>1. c.buf[i] # None /\ c.buf[i] = Content(ParamsOf(c)[i], c.wrote)
    BY <1>3, <1>5, <1>6 DEF BufferInv
  <2>2. c.buf[i] = IF CopiesIn(ParamsOf(c)[i]) THEN "caller" ELSE "zero"
    BY <2>1 DEF Content
  <2>3. CASE CopiesOut(ParamsOf(c)[i]) /\ wrote
    BY <1>4, <2>1, <2>3 DEF Content
  <2>4. CASE ~(CopiesOut(ParamsOf(c)[i]) /\ wrote)
    BY <1>4, <2>2, <2>4 DEF Content
  <2> QED BY <2>3, <2>4
<1>7. b = [i \in 1 .. Len(c.buf) |-> b[i]]
  BY <1>2 DEF Written
<1>8. b \in [1 .. Len(c.buf) -> Contents \cup {None}]
  BY <1>2, <1>3, <1>5, <1>7
<1> QED BY <1>2, <1>3, <1>5, <1>6, <1>8

(* The enclave's function returns. *)
RanTo(c, wrote, ret, d) ==
  /\ c.kind = "ecall" /\ c.at = "in" /\ c.next > Len(c.ptr)
  /\ wrote \in BOOLEAN /\ ret = (IF Returns(c) THEN "body" ELSE c.ret)
  /\ d = [c EXCEPT !.at = "out", !.ret = ret, !.wrote = wrote, !.buf = Written(c, wrote)]

LEMMA Ran ==
  ASSUME NEW c, Call(c), NEW wrote, NEW ret, NEW d, RanTo(c, wrote, ret, d)
  PROVE  /\ Call(d) /\ Kept(c, d) /\ DOMAIN d.buf = DOMAIN c.buf
         /\ \A i \in DOMAIN d.buf : (d.buf[i] = None) <=> (c.buf[i] = None)
<1> USE DEF RanTo
<1>1. c \in Frames /\ FrameInv(c)
  BY DEF Call
<1>2. c.next \in Nat \ {0} /\ c.buf \in Seq(Contents \cup {None}) /\ BufferInv(c) /\ ~c.wrote
  BY <1>1 DEF Frames, FrameInv
<1>3. PICK b : b = Written(c, wrote)
  OBVIOUS
<1>4. /\ b \in Seq(Contents \cup {None}) /\ DOMAIN b = DOMAIN c.buf /\ Len(b) = Len(c.buf)
      /\ \A i \in DOMAIN b : /\ b[i] # None => b[i] = Content(ParamsOf(c)[i], wrote)
                             /\ (b[i] = None) <=> (c.buf[i] = None)
  BY <1>2, <1>3, WrittenBuffers
<1>5. ret \in {"caller", "body"}
  BY <1>1 DEF Frames
<1>6. d = [c EXCEPT !.at = "out", !.ret = ret, !.wrote = wrote, !.buf = b]
  BY <1>3
<1>7. d \in Frames /\ Kept(c, d) /\ d.buf = b /\ d.at = "out" /\ d.status = c.status
      /\ d.ret = ret /\ d.wrote = wrote
  BY <1>1, <1>4, <1>5, <1>6 DEF Frames, Kept
<1>8. ParamsOf(d) = ParamsOf(c) /\ (\A i : Copied(d, i) = Copied(c, i)) /\ CountFits(d) = CountFits(c)
      /\ Returns(d) = Returns(c)
  BY <1>7, KeptFacts
<1>9. \A i \in DOMAIN c.buf : i < c.next
  <2>1. DOMAIN c.buf = 1 .. Len(c.ptr) /\ Len(c.ptr) \in Nat
    BY <1>1, <1>2 DEF FrameInv
  <2> QED BY <1>2, <2>1
<1>10. BufferInv(d)
  BY <1>1, <1>2, <1>4, <1>7, <1>8, <1>9 DEF BufferInv
<1>11. FrameInv(d)
  <2>1. d.kind = c.kind /\ d.fn = c.fn /\ d.ptr = c.ptr /\ d.mem = c.mem
    BY <1>7 DEF Kept
  <2> QED BY <1>1, <1>4, <1>7, <1>8, <1>10, <2>1 DEF FrameInv
<1> QED BY <1>4, <1>7, <1>11 DEF Call

(* An ocall is on its way, its inputs copied. *)
LEMMA Entered ==
  ASSUME NEW c \in Frames, c.kind = "ocall", c.fn \in DOMAIN ocall_table,
         c.status = "SUCCESS", c.ret = "caller", ~c.wrote,
         Len(c.ptr) = Len(ParamsOf(c)), Len(c.mem) = Len(ParamsOf(c)), Len(c.buf) = Len(ParamsOf(c)),
         NEW d, d = Enter(c)
  PROVE  Call(d) /\ Kept(c, d)
<1>1. PICK b : b = [i \in DOMAIN c.ptr |->
                      IF ~Copied(c, i) THEN None
                      ELSE IF CopiesIn(ParamsOf(c)[i]) THEN "caller" ELSE "zero"]
  OBVIOUS
<1>2. c.ptr \in Seq(Where)
  BY DEF Frames
<1>3. {"caller", "zero"} \subseteq Contents /\ None \notin {"caller", "zero"}
  BY NoneAssumption DEF Contents
<1>4. /\ DOMAIN b = DOMAIN c.ptr
      /\ \A i \in DOMAIN b : b[i] = IF ~Copied(c, i) THEN None
                                    ELSE IF CopiesIn(ParamsOf(c)[i]) THEN "caller" ELSE "zero"
  BY <1>1
<1>5. \A i \in DOMAIN b : b[i] \in Contents \cup {None}
  BY <1>3, <1>4
<1>6. b \in Seq(Contents \cup {None}) /\ Len(b) = Len(c.ptr)
  <2>1. DOMAIN c.ptr = 1 .. Len(c.ptr) /\ Len(c.ptr) \in Nat
    BY <1>2
  <2>2. b = [i \in 1 .. Len(c.ptr) |-> b[i]]
    BY <1>1, <2>1
  <2>3. b \in [1 .. Len(c.ptr) -> Contents \cup {None}]
    BY <1>4, <1>5, <2>1, <2>2
  <2> QED BY <2>1, <2>3
<1>7. d = [c EXCEPT !.at = "outside", !.buf = b]
  BY <1>1 DEF Enter
<1>8. d \in Frames /\ Kept(c, d) /\ d.buf = b /\ d.at = "outside" /\ d.status = c.status /\ d.ret = c.ret
      /\ d.wrote = c.wrote
  BY <1>6, <1>7 DEF Frames, Kept
<1>9. ParamsOf(d) = ParamsOf(c) /\ (\A i : Copied(d, i) = Copied(c, i))
  BY <1>8, KeptFacts
<1>10. BufferInv(d)
  BY <1>3, <1>4, <1>8, <1>9 DEF BufferInv, Content
<1>11. FrameInv(d)
  <2>1. d.kind = c.kind /\ d.fn = c.fn /\ d.ptr = c.ptr /\ d.mem = c.mem
    BY <1>8 DEF Kept
  <2> QED BY <1>6, <1>8, <1>9, <1>10, <2>1 DEF FrameInv
<1> QED BY <1>8, <1>11 DEF Call

(* The application's function returns, or the call fails. *)
LEMMA OcallRan ==
  ASSUME NEW c, Call(c), c.kind = "ocall", c.at = "outside", NEW wrote \in BOOLEAN,
         NEW status \in {"SUCCESS", "UNEXPECTED"},
         NEW at, at = (IF status = "SUCCESS" THEN "out" ELSE "err"),
         NEW d, d = [c EXCEPT !.at = at, !.status = status, !.wrote = wrote, !.buf = Written(c, wrote)]
  PROVE  Call(d) /\ Kept(c, d)
<1>1. c \in Frames /\ FrameInv(c)
  BY DEF Call
<1>2. c.buf \in Seq(Contents \cup {None}) /\ BufferInv(c) /\ ~c.wrote
  BY <1>1 DEF Frames, FrameInv
<1>3. PICK b : b = Written(c, wrote)
  OBVIOUS
<1>4. /\ b \in Seq(Contents \cup {None}) /\ DOMAIN b = DOMAIN c.buf /\ Len(b) = Len(c.buf)
      /\ \A i \in DOMAIN b : /\ b[i] # None => b[i] = Content(ParamsOf(c)[i], wrote)
                             /\ (b[i] = None) <=> (c.buf[i] = None)
  BY <1>2, <1>3, WrittenBuffers
<1>5. d = [c EXCEPT !.at = at, !.status = status, !.wrote = wrote, !.buf = b]
  BY <1>3
<1>6. d \in Frames /\ Kept(c, d) /\ d.buf = b /\ d.at = at /\ d.status = status /\ d.ret = c.ret
      /\ d.wrote = wrote
  BY <1>1, <1>4, <1>5 DEF Frames, Kept, Statuses
<1>7. ParamsOf(d) = ParamsOf(c) /\ (\A i : Copied(d, i) = Copied(c, i))
  BY <1>6, KeptFacts
<1>8. BufferInv(d)
  BY <1>1, <1>2, <1>4, <1>6, <1>7 DEF BufferInv
<1>9. FrameInv(d)
  <2>1. d.kind = c.kind /\ d.fn = c.fn /\ d.ptr = c.ptr /\ d.mem = c.mem
    BY <1>6 DEF Kept
  <2> QED BY <1>1, <1>4, <1>6, <1>7, <1>8, <2>1 DEF FrameInv
<1> QED BY <1>6, <1>9 DEF Call

(* How a call is answered. *)
Answers(r, c, status) == r = [Reply(c) EXCEPT !.status = status]

LEMMA ReplyFields ==
  ASSUME NEW c, NEW status, NEW r, Answers(r, c, status)
  PROVE  /\ r.kind = c.kind /\ r.fn = c.fn /\ r.n = c.n /\ r.ptr = c.ptr /\ r.mem = c.mem
         /\ r.ret = c.ret /\ r.wrote = c.wrote /\ r.status = status
         /\ ParamsOf(r) = ParamsOf(c) /\ \A i : Copied(r, i) = Copied(c, i)
<1>1. /\ r.kind = c.kind /\ r.fn = c.fn /\ r.n = c.n /\ r.ptr = c.ptr /\ r.mem = c.mem
      /\ r.ret = c.ret /\ r.wrote = c.wrote /\ r.status = status
  BY DEF Reply, Answers
<1>2. Kept(c, r)
  BY <1>1 DEF Kept
<1> QED BY <1>1, <1>2, KeptFacts

(* A call that is refused leaves its caller's memory alone. *)
LEMMA Refused ==
  ASSUME NEW c, c.ret = "caller", \A i \in DOMAIN c.mem : c.mem[i] = "caller",
         NEW status \in Statuses, status # "SUCCESS",
         NEW r, Answers(r, c, status)
  PROVE  Matches(r) /\ r.status \in Statuses
<1>1. r.mem = c.mem /\ r.ret = c.ret /\ r.status = status
  BY ReplyFields
<1> QED BY <1>1 DEF Matches

(* A call that ends copies its results, unless it failed. *)
Ended(c, d) ==
  /\ d.kind = c.kind /\ d.fn = c.fn /\ d.n = c.n /\ d.ptr = c.ptr /\ d.wrote = c.wrote
  /\ d.status = c.status /\ d.mem = Results(c) /\ d.ret = ReturnValue(c)

LEMMA Left ==
  ASSUME NEW c, Call(c), c.at \in {"out", "err"},
         NEW d, Ended(c, d),
         NEW r, Answers(r, d, d.status)
  PROVE  Matches(r) /\ r.status \in Statuses
<1>1. c \in Frames /\ FrameInv(c) /\ BufferInv(c)
  BY DEF Call, FrameInv
<1>2. PICK m : m = Results(c)
  OBVIOUS
<1>4. /\ r.kind = c.kind /\ r.fn = c.fn /\ r.n = c.n /\ r.ptr = c.ptr /\ r.ret = ReturnValue(c)
      /\ r.status = c.status /\ r.wrote = c.wrote /\ r.mem = m
  <2>1. /\ r.kind = d.kind /\ r.fn = d.fn /\ r.n = d.n /\ r.ptr = d.ptr /\ r.mem = d.mem
        /\ r.ret = d.ret /\ r.wrote = d.wrote /\ r.status = d.status
    BY ONLY Answers(r, d, d.status), ReplyFields
  <2> QED BY <1>2, <2>1 DEF Ended
<1>5. ParamsOf(r) = ParamsOf(c) /\ Returns(r) = Returns(c) /\ \A i : Copied(r, i) = Copied(c, i)
  <2>1. ParamsOf(r) = ParamsOf(c) /\ Returns(r) = Returns(c)
    BY <1>4 DEF ParamsOf, Returns
  <2> QED BY <1>4, <2>1 DEF Copied
<1>6. \A i \in DOMAIN c.mem : c.mem[i] = "caller"
  <2>1. c.mem \in Seq({"caller"})
    BY <1>1 DEF Frames
  <2> QED BY <2>1
<1>7. DOMAIN m = DOMAIN c.mem /\ \A i \in DOMAIN m :
        m[i] = IF c.at = "out" /\ c.buf[i] # None /\ CopiesOut(ParamsOf(c)[i]) THEN c.buf[i] ELSE c.mem[i]
  BY <1>2 DEF Results
<1>8. CASE c.at = "err"
  <2>1. c.status # "SUCCESS" /\ ReturnValue(c) = "caller"
    BY <1>1, <1>8 DEF FrameInv, ReturnValue
  <2>2. \A i \in DOMAIN m : m[i] = "caller"
    BY <1>6, <1>7, <1>8
  <2>3. r.status # "SUCCESS" /\ r.ret = "caller" /\ \A i \in DOMAIN r.mem : r.mem[i] = "caller"
    BY <1>4, <2>1, <2>2
  <2> QED BY <1>1, <1>4, <2>3 DEF Matches, Frames
<1>9. CASE c.at = "out"
  <2>1. c.status = "SUCCESS"
    BY <1>1, <1>9 DEF FrameInv
  <2>2. DOMAIN c.mem = DOMAIN c.buf
    <3>1. c.mem \in Seq({"caller"}) /\ c.buf \in Seq(Contents \cup {None}) /\ Len(c.mem) = Len(c.buf)
      BY <1>1 DEF Frames, FrameInv
    <3> QED BY <3>1
  <2>3. ASSUME NEW i \in DOMAIN m
        PROVE  m[i] = IF CopiesOut(ParamsOf(c)[i]) /\ Copied(c, i)
                      THEN (IF c.wrote THEN "body" ELSE IF CopiesIn(ParamsOf(c)[i]) THEN "caller" ELSE "zero")
                      ELSE "caller"
    <3>1. i \in DOMAIN c.buf /\ i \in DOMAIN c.mem
      BY <1>7, <2>2
    <3>2. Copied(c, i) <=> (c.buf[i] # None)
      BY <1>1, <1>9, <3>1 DEF BufferInv
    <3>3. CASE ~(CopiesOut(ParamsOf(c)[i]) /\ Copied(c, i))
      BY <1>6, <1>7, <3>1, <3>2, <3>3
    <3>4. CASE CopiesOut(ParamsOf(c)[i]) /\ Copied(c, i)
      <4>1. m[i] = c.buf[i] /\ c.buf[i] # None
        BY <1>7, <1>9, <3>2, <3>4
      <4>2. c.buf[i] = Content(ParamsOf(c)[i], c.wrote)
        BY <1>1, <3>1, <4>1 DEF BufferInv
      <4> QED BY <3>4, <4>1, <4>2 DEF Content
    <3> QED BY <3>3, <3>4
  <2>4. r.ret = IF Returns(r) THEN "body" ELSE "caller"
    BY <1>1, <1>4, <1>5, <1>9 DEF FrameInv, ReturnValue
  <2>5. r.status = "SUCCESS" /\ r.status \in Statuses
    BY <1>4, <2>1 DEF Statuses
  <2>6. ASSUME NEW i \in DOMAIN r.mem
        PROVE  r.mem[i] = IF CopiesOut(ParamsOf(r)[i]) /\ Copied(r, i)
                          THEN (IF r.wrote THEN "body" ELSE IF CopiesIn(ParamsOf(r)[i]) THEN "caller" ELSE "zero")
                          ELSE "caller"
    BY <1>4, <1>5, <2>3
  <2> QED BY <2>4, <2>5, <2>6 DEF Matches
<1> QED BY <1>8, <1>9

-----------------------------------------------------------------------------
(* The stacks of calls, and what the calls on them hold.                   *)

Stacks(s, D) ==
  /\ DOMAIN s = Threads
  /\ \A u \in Threads : /\ s[u] \in Seq(Frames) /\ Len(s[u]) <= D
                        /\ \A i \in 1 .. Len(s[u]) : FrameInv(s[u][i])

InProgress(s, D, kind) ==
  {f \in Threads \X (1 .. D) : f[2] <= Len(s[f[1]]) /\ s[f[1]][f[2]].kind = kind}

Buffers(s, D) == [f \in InProgress(s, D, "ecall") |-> Bytes(s[f[1]][f[2]])]
Outgoing(s, D, t) == {g \in InProgress(s, D, "ocall") : g[1] = t}
Copies(s, D, t) == [f \in Outgoing(s, D, t) |-> OcallBytes(s[t][f[2]])]

Held(s, D) == SumFunction(Buffers(s, D))
Lent(s, D, t) == SumFunction(Copies(s, D, t))

LEMMA BytesType ==
  ASSUME NEW c, Call(c)
  PROVE  Bytes(c) \in Nat /\ (c.kind = "ocall" => OcallBytes(c) \in Nat)
<1>1. c \in Frames /\ FrameInv(c)
  BY DEF Call
<1>2. /\ c.n \in Nat /\ c.kind \in {"ecall", "ocall"}
      /\ c.buf \in Seq(Contents \cup {None}) /\ c.ptr \in Seq(Where)
      /\ Len(c.buf) = Len(ParamsOf(c)) /\ Len(c.ptr) = Len(ParamsOf(c))
      /\ c.fn \in (IF c.kind = "ecall" THEN DOMAIN g_ecall_table ELSE DOMAIN ocall_table)
  <2>1. \A n \in 0 .. SIZE_MAX : n \in Nat
    BY WordSize
  <2> QED BY <1>1, <2>1 DEF Frames, FrameInv
<1>3. \A i \in 1 .. Len(ParamsOf(c)) : Size(ParamsOf(c)[i], c.n) \in Nat
  <2>1. \A i \in 1 .. Len(ParamsOf(c)) : ParamsOf(c)[i].unit \in Nat
    BY <1>2, CallParams
  <2> QED BY <1>2, <2>1, SizeType
<1>4. DOMAIN c.buf = 1 .. Len(ParamsOf(c)) /\ DOMAIN c.ptr = 1 .. Len(ParamsOf(c)) /\ Len(ParamsOf(c)) \in Nat
  BY <1>2
<1>5. IsFiniteSet(DOMAIN c.buf) /\ IsFiniteSet(DOMAIN c.ptr)
  BY <1>4, FS_Interval
<1>6. Bytes(c) \in Nat
  <2>1. PICK f : f = [i \in DOMAIN c.buf |-> IF c.buf[i] = None THEN 0 ELSE Size(ParamsOf(c)[i], c.n)]
    OBVIOUS
  <2>2. DOMAIN f = DOMAIN c.buf /\ \A i \in DOMAIN f : f[i] \in Nat
    BY <1>3, <1>4, <2>1
  <2>3. SumFunction(f) \in Nat
    BY <1>5, <2>2, SumNat
  <2> QED BY <2>1, <2>3 DEF Bytes
<1>7. ASSUME c.kind = "ocall" PROVE OcallBytes(c) \in Nat
  <2>1. PICK f : f = [i \in DOMAIN c.ptr |-> IF Copied(c, i) THEN Size(ParamsOf(c)[i], c.n) ELSE 0]
    OBVIOUS
  <2>2. DOMAIN f = DOMAIN c.ptr /\ \A i \in DOMAIN f : f[i] \in Nat
    BY <1>3, <1>4, <2>1
  <2>3. SumFunction(f) \in Nat
    BY <1>5, <2>2, SumNat
  <2>4. ocall_table[c.fn].ms \in Nat
    BY <1>2, <1>7, Tables
  <2>5. OcallBytes(c) = ocall_table[c.fn].ms + SumFunction(f)
    BY <2>1 DEF OcallBytes
  <2> QED BY <2>3, <2>4, <2>5
<1> QED BY <1>6, <1>7

(* One more buffer. *)
LEMMA BytesFilled ==
  ASSUME NEW c, Call(c), NEW d, Call(d), Kept(c, d), NEW k \in DOMAIN c.buf,
         c.buf[k] = None, NEW v, v # None, d.buf = [c.buf EXCEPT ![k] = v]
  PROVE  Bytes(d) = Bytes(c) + Size(ParamsOf(c)[k], c.n)
<1>1. c \in Frames /\ FrameInv(c)
  BY DEF Call
<1>2. /\ c.n \in Nat /\ c.kind \in {"ecall", "ocall"}
      /\ c.buf \in Seq(Contents \cup {None})
      /\ Len(c.buf) = Len(ParamsOf(c))
      /\ c.fn \in (IF c.kind = "ecall" THEN DOMAIN g_ecall_table ELSE DOMAIN ocall_table)
  <2>1. \A n \in 0 .. SIZE_MAX : n \in Nat
    BY WordSize
  <2> QED BY <1>1, <2>1 DEF Frames, FrameInv
<1>3. \A i \in 1 .. Len(ParamsOf(c)) : Size(ParamsOf(c)[i], c.n) \in Nat
  <2>1. \A i \in 1 .. Len(ParamsOf(c)) : ParamsOf(c)[i].unit \in Nat
    BY <1>2, CallParams
  <2> QED BY <1>2, <2>1, SizeType
<1>4. DOMAIN c.buf = 1 .. Len(ParamsOf(c)) /\ Len(ParamsOf(c)) \in Nat
  BY <1>2
<1>5. ParamsOf(d) = ParamsOf(c) /\ d.n = c.n /\ DOMAIN d.buf = DOMAIN c.buf
  BY KeptFacts DEF Kept
<1>6. PICK f : f = [i \in DOMAIN c.buf |-> IF c.buf[i] = None THEN 0 ELSE Size(ParamsOf(c)[i], c.n)]
  OBVIOUS
<1>7. PICK h : h = [i \in DOMAIN d.buf |-> IF d.buf[i] = None THEN 0 ELSE Size(ParamsOf(d)[i], d.n)]
  OBVIOUS
<1>8. /\ IsFiniteSet(DOMAIN f) /\ DOMAIN f = DOMAIN c.buf /\ DOMAIN h = DOMAIN c.buf
      /\ \A i \in DOMAIN f : f[i] \in Int
      /\ f[k] = 0 /\ h[k] = Size(ParamsOf(c)[k], c.n) /\ h[k] \in Int
      /\ \A i \in DOMAIN f \ {k} : h[i] = f[i]
  <2>1. IsFiniteSet(DOMAIN f) /\ DOMAIN f = DOMAIN c.buf /\ DOMAIN h = DOMAIN c.buf
    BY <1>4, <1>5, <1>6, <1>7, FS_Interval
  <2>2. \A i \in DOMAIN f : f[i] \in Int
    BY <1>3, <1>4, <1>6
  <2>3. d.buf[k] = v /\ \A i \in DOMAIN c.buf \ {k} : d.buf[i] = c.buf[i]
    BY <1>2
  <2>4. f[k] = 0 /\ h[k] = Size(ParamsOf(c)[k], c.n)
    BY <1>5, <1>6, <1>7, <2>3
  <2>5. h[k] \in Int
    BY <1>3, <1>4, <2>4
  <2>6. \A i \in DOMAIN f \ {k} : h[i] = f[i]
    BY <1>5, <1>6, <1>7, <2>3
  <2> QED BY <2>1, <2>2, <2>4, <2>5, <2>6
<1>9. SumFunction(f) \in Int /\ SumFunction(h) = SumFunction(f) + h[k] - f[k]
  BY ONLY <1>6, <1>8, SumOneChanged
<1>10. Bytes(c) = SumFunction(f) /\ Bytes(d) = SumFunction(h)
  BY <1>6, <1>7 DEF Bytes
<1> QED BY <1>8, <1>9, <1>10

(* The same buffers. *)
LEMMA BytesSame ==
  ASSUME NEW c, NEW d, Kept(c, d), DOMAIN d.buf = DOMAIN c.buf,
         \A i \in DOMAIN d.buf : (d.buf[i] = None) <=> (c.buf[i] = None)
  PROVE  Bytes(d) = Bytes(c)
<1>1. ParamsOf(d) = ParamsOf(c) /\ d.n = c.n
  BY KeptFacts DEF Kept
<1>2. PICK f : f = [i \in DOMAIN c.buf |-> IF c.buf[i] = None THEN 0 ELSE Size(ParamsOf(c)[i], c.n)]
  OBVIOUS
<1>3. f = [i \in DOMAIN d.buf |-> IF d.buf[i] = None THEN 0 ELSE Size(ParamsOf(d)[i], d.n)]
  BY <1>1, <1>2
<1>4. Bytes(c) = SumFunction(f) /\ Bytes(d) = SumFunction(f)
  BY <1>2, <1>3 DEF Bytes
<1> QED BY <1>4

(* What all calls hold are sums of naturals over finite sets. *)
LEMMA HeldType ==
  ASSUME NEW s, NEW D \in Nat, Stacks(s, D)
  PROVE  /\ IsFiniteSet(DOMAIN Buffers(s, D))
         /\ \A f \in DOMAIN Buffers(s, D) : Buffers(s, D)[f] \in Nat
         /\ Held(s, D) \in Nat
         /\ \A t \in Threads : /\ IsFiniteSet(DOMAIN Copies(s, D, t))
                               /\ \A f \in DOMAIN Copies(s, D, t) : Copies(s, D, t)[f] \in Nat
                               /\ Lent(s, D, t) \in Nat
<1>1. IsFiniteSet(Threads \X (1 .. D))
  <2>1. IsFiniteSet(Threads) /\ IsFiniteSet(1 .. D)
    BY FS_Interval, EdgeAssumption
  <2> QED BY <2>1, FS_Product
<1>2. \A kind : IsFiniteSet(InProgress(s, D, kind))
  <2>1. \A kind : InProgress(s, D, kind) \subseteq Threads \X (1 .. D)
    BY DEF InProgress
  <2> QED BY <1>1, <2>1, FS_Subset
<1>3. \A kind : \A f \in InProgress(s, D, kind) :
        /\ f[1] \in Threads /\ f[2] \in 1 .. Len(s[f[1]])
        /\ Call(s[f[1]][f[2]]) /\ s[f[1]][f[2]].kind = kind
  <2>1. \A u \in Threads : \A i \in 1 .. Len(s[u]) : Call(s[u][i])
    BY DEF Stacks, Call
  <2>2. \A kind : \A f \in InProgress(s, D, kind) :
          f[1] \in Threads /\ f[2] \in 1 .. Len(s[f[1]]) /\ s[f[1]][f[2]].kind = kind
    BY DEF InProgress, Stacks
  <2> QED BY <2>1, <2>2
<1>4. DOMAIN Buffers(s, D) = InProgress(s, D, "ecall")
  BY DEF Buffers
<1>5. \A f \in DOMAIN Buffers(s, D) : Buffers(s, D)[f] \in Nat
  <2>1. \A f \in InProgress(s, D, "ecall") : Buffers(s, D)[f] = Bytes(s[f[1]][f[2]])
    BY DEF Buffers
  <2> QED BY <1>3, <1>4, <2>1, BytesType
<1>6. ASSUME NEW t \in Threads
      PROVE  /\ IsFiniteSet(DOMAIN Copies(s, D, t))
             /\ \A f \in DOMAIN Copies(s, D, t) : Copies(s, D, t)[f] \in Nat
  <2>1. DOMAIN Copies(s, D, t) = Outgoing(s, D, t)
    BY DEF Copies
  <2>2. Outgoing(s, D, t) \subseteq InProgress(s, D, "ocall")
    BY DEF Outgoing
  <2>3. \A f \in Outgoing(s, D, t) : Copies(s, D, t)[f] = OcallBytes(s[t][f[2]]) /\ f[1] = t
    BY DEF Copies, Outgoing
  <2>4. \A f \in Outgoing(s, D, t) : OcallBytes(s[t][f[2]]) \in Nat
    BY <1>3, <2>2, <2>3, BytesType
  <2> QED BY <1>2, <2>1, <2>2, <2>3, <2>4, FS_Subset
<1>7. Held(s, D) \in Nat
  BY <1>2, <1>4, <1>5, SumNat DEF Held
<1>8. \A t \in Threads : Lent(s, D, t) \in Nat
  BY <1>6, SumNat DEF Lent
<1> QED BY <1>2, <1>4, <1>5, <1>6, <1>7, <1>8

(* The innermost call of a thread goes on. *)
Changed(s, z, t, d) ==
  /\ DOMAIN z = Threads /\ \A u \in Threads \ {t} : z[u] = s[u]
  /\ z[t] \in Seq(Frames) /\ Len(z[t]) = Len(s[t]) /\ z[t][Len(s[t])] = d
  /\ \A i \in 1 .. Len(s[t]) : i # Len(s[t]) => z[t][i] = s[t][i]

(* A call is made; seen from its end, a call returns. *)
Pushed(s, z, t, d) ==
  /\ DOMAIN z = Threads /\ \A u \in Threads \ {t} : z[u] = s[u]
  /\ z[t] \in Seq(Frames) /\ Len(z[t]) = Len(s[t]) + 1 /\ z[t][Len(z[t])] = d
  /\ \A i \in 1 .. Len(s[t]) : z[t][i] = s[t][i]

GoesOnFrom(s, D, t, c, d) ==
  /\ D \in Nat /\ Stacks(s, D) /\ t \in Threads /\ s[t] # <<>>
  /\ c = s[t][Len(s[t])] /\ Call(d) /\ Kept(c, d)

LEMMA ChangedSums ==
  ASSUME NEW s, NEW D, NEW t, NEW c, NEW d, GoesOnFrom(s, D, t, c, d), NEW z, Changed(s, z, t, d)
  PROVE  /\ Stacks(z, D)
         /\ c.kind = "ecall" => Held(z, D) = Held(s, D) + Bytes(d) - Bytes(c)
         /\ c.kind # "ecall" => Held(z, D) = Held(s, D)
         /\ \A u \in Threads : Lent(z, D, u) = Lent(s, D, u)
<1> USE DEF GoesOnFrom
<1>1. /\ s[t] \in Seq(Frames) /\ Len(s[t]) \in Nat /\ Len(s[t]) \in 1 .. Len(s[t])
      /\ Len(s[t]) \in 1 .. D /\ d.kind = c.kind
  BY DEF Stacks, Kept
<1>2. Stacks(z, D)
  <2>1. ASSUME NEW u \in Threads
        PROVE  /\ z[u] \in Seq(Frames) /\ Len(z[u]) <= D
               /\ \A i \in 1 .. Len(z[u]) : FrameInv(z[u][i])
    <3>1. CASE u = t
      <4>1. z[t] \in Seq(Frames) /\ Len(z[t]) = Len(s[t]) /\ Len(z[t]) <= D
        BY <1>1 DEF Changed, Stacks
      <4>2. \A i \in 1 .. Len(s[t]) : FrameInv(z[t][i])
        BY DEF Changed, Stacks, Call
      <4> QED BY <3>1, <4>1, <4>2
    <3>2. CASE u # t
      BY <3>2 DEF Changed, Stacks
    <3> QED BY <3>1, <3>2
  <2> QED BY <2>1 DEF Stacks, Changed
<1>3. \A f \in Threads \X (1 .. D) :
        /\ f[1] \in Threads /\ f[2] \in Nat /\ Len(z[f[1]]) = Len(s[f[1]])
        /\ f = <<t, Len(s[t])>> => z[f[1]][f[2]] = d /\ s[f[1]][f[2]] = c
        /\ (f # <<t, Len(s[t])>> /\ f[2] <= Len(s[f[1]])) => z[f[1]][f[2]] = s[f[1]][f[2]]
  <2> TAKE f \in Threads \X (1 .. D)
  <2>1. f = <<f[1], f[2]>> /\ f[1] \in Threads /\ f[2] \in 1 .. D
    OBVIOUS
  <2>2. CASE f[1] = t
    <3>1. f[2] <= Len(s[t]) => f[2] \in 1 .. Len(s[t])
      BY <1>1, <2>1
    <3> QED BY <2>1, <2>2, <3>1 DEF Changed
  <2>3. CASE f[1] # t
    BY <2>1, <2>3 DEF Changed
  <2> QED BY <2>2, <2>3
<1>4. \A kind : InProgress(z, D, kind) = InProgress(s, D, kind)
  <2>1. ASSUME NEW kind, NEW f \in Threads \X (1 .. D)
        PROVE  (f[2] <= Len(z[f[1]]) /\ z[f[1]][f[2]].kind = kind)
               <=> (f[2] <= Len(s[f[1]]) /\ s[f[1]][f[2]].kind = kind)
    BY <1>1, <1>3
  <2> QED BY <2>1 DEF InProgress
<1>5. \A kind : \A f \in InProgress(s, D, kind) :
        f # <<t, Len(s[t])>> => z[f[1]][f[2]] = s[f[1]][f[2]]
  BY <1>3 DEF InProgress
<1>6. \A kind : <<t, Len(s[t])>> \in InProgress(s, D, kind) <=> (c.kind = kind)
  BY <1>1 DEF InProgress
<1>7. Buffers(s, D) = [f \in InProgress(s, D, "ecall") |-> Bytes(s[f[1]][f[2]])]
      /\ Buffers(z, D) = [f \in InProgress(s, D, "ecall") |-> Bytes(z[f[1]][f[2]])]
  BY <1>4 DEF Buffers
<1>8. ASSUME c.kind = "ecall" PROVE Held(z, D) = Held(s, D) + Bytes(d) - Bytes(c)
  <2>1. PICK f, h, x : f = Buffers(s, D) /\ h = Buffers(z, D) /\ x = <<t, Len(s[t])>>
    OBVIOUS
  <2>2. DOMAIN h = DOMAIN f /\ x \in DOMAIN f /\ f[x] = Bytes(c) /\ h[x] = Bytes(d)
    <3>1. x \in InProgress(s, D, "ecall")
      BY <1>6, <1>8, <2>1
    <3>2. s[x[1]][x[2]] = c /\ z[x[1]][x[2]] = d
      BY <1>3, <2>1, <3>1 DEF InProgress
    <3> QED BY <1>7, <2>1, <3>1, <3>2
  <2>3. \A y \in DOMAIN f \ {x} : h[y] = f[y]
    BY <1>5, <1>7, <2>1
  <2>4. IsFiniteSet(DOMAIN f) /\ (\A y \in DOMAIN f : f[y] \in Int) /\ h[x] \in Int
    <3>1. IsFiniteSet(DOMAIN f) /\ (\A y \in DOMAIN f : f[y] \in Nat)
      BY <2>1, HeldType
    <3>2. Bytes(d) \in Nat
      BY BytesType
    <3> QED BY <2>2, <3>1, <3>2
  <2>5. SumFunction(h) = SumFunction(f) + h[x] - f[x]
    BY ONLY <2>2, <2>3, <2>4, SumOneChanged
  <2> QED BY <2>1, <2>2, <2>5 DEF Held
<1>9. ASSUME c.kind # "ecall" PROVE Held(z, D) = Held(s, D)
  <2>1. \A f \in InProgress(s, D, "ecall") : z[f[1]][f[2]] = s[f[1]][f[2]]
    BY <1>5, <1>6, <1>9
  <2>2. Buffers(z, D) = Buffers(s, D)
    BY <1>7, <2>1
  <2> QED BY <2>2 DEF Held
<1>10. ASSUME NEW u \in Threads PROVE Lent(z, D, u) = Lent(s, D, u)
  <2>1. Outgoing(z, D, u) = Outgoing(s, D, u)
    BY <1>4 DEF Outgoing
  <2>2. ASSUME NEW f \in Outgoing(s, D, u) PROVE OcallBytes(z[u][f[2]]) = OcallBytes(s[u][f[2]])
    <3>1. f \in InProgress(s, D, "ocall") /\ f[1] = u /\ f \in Threads \X (1 .. D)
      BY <2>2 DEF Outgoing, InProgress
    <3>2. CASE f = <<t, Len(s[t])>>
      <4>1. z[u][f[2]] = d /\ s[u][f[2]] = c
        BY <1>3, <3>1, <3>2
      <4> QED BY <4>1, KeptFacts
    <3>3. CASE f # <<t, Len(s[t])>>
      BY <1>5, <3>1, <3>3
    <3> QED BY <3>2, <3>3
  <2>3. Copies(z, D, u) = Copies(s, D, u)
    BY <2>1, <2>2 DEF Copies
  <2> QED BY <2>3 DEF Lent
<1> QED BY <1>2, <1>8, <1>9, <1>10

IsMadeOn(s, D, t, z, d) ==
  D \in Nat /\ Stacks(s, D) /\ Stacks(z, D) /\ t \in Threads /\ Pushed(s, z, t, d)

LEMMA PushedSums ==
  ASSUME NEW s, NEW D, NEW t, NEW z, NEW d, IsMadeOn(s, D, t, z, d)
  PROVE  /\ d.kind = "ecall" => /\ Held(z, D) = Bytes(d) + Held(s, D)
                                /\ \A u \in Threads : Lent(z, D, u) = Lent(s, D, u)
         /\ d.kind = "ocall" => /\ Held(z, D) = Held(s, D)
                                /\ Lent(z, D, t) = OcallBytes(d) + Lent(s, D, t)
                                /\ \A u \in Threads \ {t} : Lent(z, D, u) = Lent(s, D, u)
<1> USE DEF IsMadeOn
<1>1. PICK x : x = <<t, Len(z[t])>>
  OBVIOUS
<1>2. /\ s[t] \in Seq(Frames) /\ Len(s[t]) \in Nat /\ Len(z[t]) = Len(s[t]) + 1
      /\ x \in Threads \X (1 .. D) /\ x[1] = t /\ x[2] = Len(s[t]) + 1
  BY <1>1 DEF Stacks, Pushed
<1>3. \A f \in Threads \X (1 .. D) :
        /\ f[1] \in Threads /\ f[2] \in 1 .. D
        /\ f # x => /\ (f[2] <= Len(z[f[1]])) <=> (f[2] <= Len(s[f[1]]))
                    /\ f[2] <= Len(s[f[1]]) => z[f[1]][f[2]] = s[f[1]][f[2]]
  <2> TAKE f \in Threads \X (1 .. D)
  <2>1. f = <<f[1], f[2]>> /\ f[1] \in Threads /\ f[2] \in 1 .. D
    OBVIOUS
  <2>2. CASE f[1] = t
    <3>1. f[2] <= Len(s[t]) => f[2] \in 1 .. Len(s[t])
      BY <1>2, <2>1
    <3>2. f # x => f[2] # Len(s[t]) + 1
      BY <1>1, <1>2, <2>1, <2>2
    <3> QED BY <1>2, <2>1, <2>2, <3>1, <3>2 DEF Pushed
  <2>3. CASE f[1] # t
    BY <2>1, <2>3 DEF Pushed
  <2> QED BY <2>1, <2>2, <2>3
<1>4. z[x[1]][x[2]] = d /\ x[2] <= Len(z[x[1]]) /\ ~(x[2] <= Len(s[x[1]]))
  BY <1>2 DEF Pushed
<1>5. \A kind : /\ x \notin InProgress(s, D, kind)
                /\ x \in InProgress(z, D, kind) <=> (d.kind = kind)
  BY <1>2, <1>4 DEF InProgress
<1>6. \A kind : InProgress(s, D, kind) = InProgress(z, D, kind) \ {x}
  <2>1. ASSUME NEW kind, NEW f \in Threads \X (1 .. D), f # x
        PROVE  (f[2] <= Len(z[f[1]]) /\ z[f[1]][f[2]].kind = kind)
               <=> (f[2] <= Len(s[f[1]]) /\ s[f[1]][f[2]].kind = kind)
    BY <1>3, <2>1
  <2>2. \A kind : x \notin InProgress(s, D, kind)
    BY <1>5
  <2> QED BY <2>1, <2>2 DEF InProgress
<1>7. \A kind : \A f \in InProgress(s, D, kind) : z[f[1]][f[2]] = s[f[1]][f[2]]
  <2>1. \A kind : \A f \in InProgress(s, D, kind) :
          f \in Threads \X (1 .. D) /\ f # x /\ f[2] <= Len(s[f[1]])
    BY <1>5 DEF InProgress
  <2> QED BY <1>3, <2>1
<1>8. /\ DOMAIN Buffers(s, D) = InProgress(s, D, "ecall") /\ DOMAIN Buffers(z, D) = InProgress(z, D, "ecall")
      /\ \A f \in DOMAIN Buffers(s, D) : Buffers(s, D)[f] = Bytes(s[f[1]][f[2]])
      /\ \A f \in DOMAIN Buffers(z, D) : Buffers(z, D)[f] = Bytes(z[f[1]][f[2]])
  BY DEF Buffers
<1>9. \A f \in DOMAIN Buffers(s, D) : Buffers(s, D)[f] = Bytes(z[f[1]][f[2]])
  BY <1>7, <1>8
<1>10. ASSUME d.kind = "ecall" PROVE Held(z, D) = Bytes(d) + Held(s, D)
  <2>1. PICK f, h : f = Buffers(z, D) /\ h = Buffers(s, D)
    OBVIOUS
  <2>2. x \in DOMAIN f /\ f[x] = Bytes(d) /\ DOMAIN h = DOMAIN f \ {x}
    BY <1>4, <1>5, <1>6, <1>8, <1>10, <2>1
  <2>3. \A y \in DOMAIN h : h[y] = f[y]
    BY <1>6, <1>8, <1>9, <2>1
  <2>4. IsFiniteSet(DOMAIN f) /\ \A y \in DOMAIN f : f[y] \in Int
    <3>1. IsFiniteSet(DOMAIN f) /\ \A y \in DOMAIN f : f[y] \in Nat
      BY <2>1, HeldType
    <3> QED BY <3>1
  <2>5. SumFunction(f) = f[x] + SumFunction(h)
    BY ONLY <2>2, <2>3, <2>4, SumOneMore
  <2> QED BY <2>1, <2>2, <2>5 DEF Held
<1>11. ASSUME d.kind # "ecall" PROVE Held(z, D) = Held(s, D)
  <2>1. InProgress(s, D, "ecall") = InProgress(z, D, "ecall")
    BY <1>5, <1>6, <1>11
  <2>2. Buffers(s, D) = Buffers(z, D)
    BY <1>7, <2>1 DEF Buffers
  <2> QED BY <2>2 DEF Held
<1>12. \A u : /\ DOMAIN Copies(s, D, u) = Outgoing(s, D, u) /\ DOMAIN Copies(z, D, u) = Outgoing(z, D, u)
              /\ \A f \in DOMAIN Copies(s, D, u) : Copies(s, D, u)[f] = OcallBytes(s[u][f[2]])
              /\ \A f \in DOMAIN Copies(z, D, u) : Copies(z, D, u)[f] = OcallBytes(z[u][f[2]])
  BY DEF Copies
<1>13. \A u : /\ Outgoing(s, D, u) = Outgoing(z, D, u) \ {x}
              /\ \A f \in Outgoing(s, D, u) : z[u][f[2]] = s[u][f[2]]
  BY <1>6, <1>7 DEF Outgoing
<1>14. ASSUME NEW u \in Threads, d.kind # "ocall" \/ u # t PROVE Lent(z, D, u) = Lent(s, D, u)
  <2>1. x \notin Outgoing(z, D, u)
    BY <1>2, <1>5, <1>14 DEF Outgoing
  <2>2. Outgoing(z, D, u) = Outgoing(s, D, u)
    BY <1>13, <2>1
  <2>3. Copies(z, D, u) = Copies(s, D, u)
    BY <1>13, <2>2 DEF Copies
  <2> QED BY <2>3 DEF Lent
<1>15. ASSUME d.kind = "ocall" PROVE Lent(z, D, t) = OcallBytes(d) + Lent(s, D, t)
  <2>1. PICK f, h : f = Copies(z, D, t) /\ h = Copies(s, D, t)
    OBVIOUS
  <2>2. x \in Outgoing(z, D, t)
    BY <1>2, <1>5, <1>15 DEF Outgoing
  <2>3. x \in DOMAIN f /\ f[x] = OcallBytes(d) /\ DOMAIN h = DOMAIN f \ {x}
    <3>1. z[t][x[2]] = d
      BY <1>2, <1>4
    <3>2. DOMAIN f = Outgoing(z, D, t) /\ DOMAIN h = Outgoing(s, D, t)
      BY <1>12, <2>1
    <3>3. f[x] = OcallBytes(z[t][x[2]])
      BY <1>12, <2>1, <2>2, <3>2
    <3> QED BY <1>13, <2>2, <3>1, <3>2, <3>3
  <2>4. \A y \in DOMAIN h : h[y] = f[y]
    BY <1>12, <1>13, <2>1
  <2>5. IsFiniteSet(DOMAIN f) /\ \A y \in DOMAIN f : f[y] \in Int
    <3>1. IsFiniteSet(DOMAIN f) /\ \A y \in DOMAIN f : f[y] \in Nat
      BY <2>1, HeldType
    <3> QED BY <3>1
  <2>6. SumFunction(f) = f[x] + SumFunction(h)
    BY ONLY <2>3, <2>4, <2>5, SumOneMore
  <2> QED BY <2>1, <2>3, <2>6 DEF Lent
<1> QED BY <1>10, <1>11, <1>14, <1>15

(* Which functions are in progress: below an ecall there is none of the store's. *)
Named(c, a, i) ==
  /\ c.fn \in (IF c.kind = "ecall" THEN a.ecalls ELSE a.ocalls)
  /\ i # 1 => c.fn \notin StoreEcalls

Names(s, a) == \A u \in Threads : \A i \in 1 .. Len(s[u]) : Named(s[u][i], a, i)

LEMMA GoesOn ==
  ASSUME NEW s, NEW D \in Nat, Stacks(s, D), NEW a, Names(s, a), NEW t \in Threads, s[t] # <<>>,
         NEW d, Call(d), Kept(s[t][Len(s[t])], d), NEW z, z = [s EXCEPT ![t][Len(s[t])] = d]
  PROVE  Changed(s, z, t, d) /\ Names(z, a)
<1>1. s[t] \in Seq(Frames) /\ Len(s[t]) \in Nat /\ Len(s[t]) \in 1 .. Len(s[t]) /\ d \in Frames
  BY DEF Stacks, Call
<1>2. PICK q : q = [s[t] EXCEPT ![Len(s[t])] = d]
  OBVIOUS
<1>3. q \in Seq(Frames) /\ Len(q) = Len(s[t]) /\ q[Len(s[t])] = d
      /\ \A i \in 1 .. Len(s[t]) : i # Len(s[t]) => q[i] = s[t][i]
  BY <1>1, <1>2
<1>4. z[t] = q /\ DOMAIN z = Threads /\ \A u \in Threads \ {t} : z[u] = s[u]
  BY <1>2 DEF Stacks
<1>5. Changed(s, z, t, d)
  BY <1>3, <1>4 DEF Changed
<1>6. Named(d, a, Len(s[t]))
  <2>1. Named(s[t][Len(s[t])], a, Len(s[t]))
    BY <1>1 DEF Names
  <2> QED BY <2>1 DEF Named, Kept
<1>7. \A i \in 1 .. Len(z[t]) : Named(z[t][i], a, i)
  BY <1>3, <1>4, <1>6 DEF Names
<1>8. Names(z, a)
  BY <1>4, <1>7 DEF Names
<1> QED BY <1>5, <1>8

LEMMA IsMade ==
  ASSUME NEW s, NEW D \in Nat, Stacks(s, D), NEW a, Names(s, a), NEW t \in Threads, Len(s[t]) < D,
         NEW d, Call(d), Named(d, a, Len(s[t]) + 1), NEW z, z = [s EXCEPT ![t] = Append(@, d)]
  PROVE  Pushed(s, z, t, d) /\ Stacks(z, D) /\ Names(z, a)
<1>1. s[t] \in Seq(Frames) /\ Len(s[t]) \in Nat /\ d \in Frames
  BY DEF Stacks, Call
<1>2. PICK q : q = Append(s[t], d)
  OBVIOUS
<1>3. q \in Seq(Frames) /\ Len(q) = Len(s[t]) + 1 /\ q[Len(q)] = d
      /\ \A i \in 1 .. Len(s[t]) : q[i] = s[t][i]
  BY <1>1, <1>2
<1>4. z[t] = q /\ DOMAIN z = Threads /\ \A u \in Threads \ {t} : z[u] = s[u]
  BY <1>2 DEF Stacks
<1>5. Pushed(s, z, t, d)
  BY <1>3, <1>4 DEF Pushed
<1>6. \A i \in 1 .. Len(q) : i \in 1 .. Len(s[t]) \/ (i = Len(q) /\ i = Len(s[t]) + 1)
  BY <1>1, <1>3
<1>7. \A i \in 1 .. Len(q) : FrameInv(q[i]) /\ Named(q[i], a, i)
  BY <1>3, <1>6 DEF Stacks, Names, Call
<1>8. Stacks(z, D)
  <2>1. Len(q) <= D
    BY <1>1, <1>3
  <2> QED BY <1>3, <1>4, <1>7, <2>1 DEF Stacks
<1>9. Names(z, a)
  BY <1>4, <1>7 DEF Names
<1> QED BY <1>5, <1>8, <1>9

ReturnsFrom(s, D, a, t, c, z) ==
  /\ D \in Nat /\ Stacks(s, D) /\ Names(s, a) /\ t \in Threads /\ s[t] # <<>>
  /\ c = s[t][Len(s[t])] /\ z = [s EXCEPT ![t] = Pop(@)]

LEMMA IsReturned ==
  ASSUME NEW s, NEW D, NEW a, NEW t, NEW c, NEW z, ReturnsFrom(s, D, a, t, c, z)
  PROVE  Pushed(z, s, t, c) /\ Stacks(z, D) /\ Names(z, a)
<1> USE DEF ReturnsFrom
<1>1. s[t] \in Seq(Frames) /\ Len(s[t]) \in Nat \ {0} /\ Len(s[t]) <= D
  BY DEF Stacks
<1>2. PICK q : q = SubSeq(s[t], 1, Len(s[t]) - 1)
  OBVIOUS
<1>3. /\ q \in Seq(Frames) /\ Len(q) = Len(s[t]) - 1 /\ Len(q) <= D
      /\ \A i \in 1 .. Len(q) : q[i] = s[t][i] /\ i \in 1 .. Len(s[t])
  BY <1>1, <1>2
<1>4. z[t] = q /\ DOMAIN z = Threads /\ \A u \in Threads \ {t} : z[u] = s[u]
  BY <1>2 DEF Stacks, Pop
<1>5. Pushed(z, s, t, c)
  <2>1. Len(s[t]) = Len(z[t]) + 1 /\ \A i \in 1 .. Len(z[t]) : s[t][i] = z[t][i]
    BY <1>1, <1>3, <1>4
  <2>2. DOMAIN s = Threads /\ \A u \in Threads \ {t} : s[u] = z[u]
    BY <1>4 DEF Stacks
  <2> QED BY <1>1, <2>1, <2>2 DEF Pushed
<1>6. \A i \in 1 .. Len(q) : FrameInv(q[i]) /\ Named(q[i], a, i)
  BY <1>3 DEF Stacks, Names
<1>7. Stacks(z, D)
  BY <1>3, <1>4, <1>6 DEF Stacks
<1>8. Names(z, a)
  BY <1>4, <1>6 DEF Names
<1> QED BY <1>5, <1>7, <1>8

-----------------------------------------------------------------------------
(* The inductive invariant.                                                *)

Replies(r) ==
  /\ DOMAIN r = Threads
  /\ \A t \in Threads : r[t] # None => Matches(r[t]) /\ r[t].status \in Statuses

(* What is allocated is what the calls in progress hold, and the keys. *)
Allocated(h, k, o, s, D) ==
  /\ k \in 0 .. MaxInits /\ h \in 0 .. HEAPMAXSIZE /\ h = k * 2 * KEYBYTES + Held(s, D)
  /\ o \in [Threads -> 0 .. UNTRUSTEDSTACK]
  /\ \A t \in Threads : o[t] = Lent(s, D, t)

EdgeInv ==
  /\ app \in Applications
  /\ Stacks(stack, app.depth)
  /\ Names(stack, app)
  /\ Replies(reply)
  /\ Allocated(heap, inits, ocalloc, stack, app.depth)

LEMMA TopCall ==
  ASSUME EdgeInv, NEW t \in Threads, stack[t] # <<>>
  PROVE  /\ Call(Top(t)) /\ app.depth \in Nat
         /\ stack[t] \in Seq(Frames) /\ Len(stack[t]) \in 1 .. Len(stack[t])
<1>1. stack[t] \in Seq(Frames) /\ Len(stack[t]) \in 1 .. Len(stack[t])
  BY DEF EdgeInv, Stacks
<1>2. Call(Top(t))
  BY <1>1 DEF EdgeInv, Stacks, Call, Top
<1> QED BY <1>1, <1>2, EdgeAssumption DEF EdgeInv

(* The innermost call of a thread goes on. *)
LEMMA TopGoesOn ==
  ASSUME EdgeInv, app' = app, NEW t \in Threads, stack[t] # <<>>,
         NEW c, c = Top(t), NEW d, Call(d), Kept(c, d), SetTop(t, d), UNCHANGED <<ocalloc, reply>>,
         inits' \in 0 .. MaxInits, heap' \in 0 .. HEAPMAXSIZE,
         c.kind = "ecall" => heap' = heap + Bytes(d) - Bytes(c) + (inits' - inits) * 2 * KEYBYTES,
         c.kind # "ecall" => UNCHANGED <<heap, inits>>
  PROVE  EdgeInv'
<1>1. PICK s, z, D, a : s = stack /\ z = stack' /\ D = app.depth /\ a = app
  OBVIOUS
<1>2. /\ Stacks(s, D) /\ Names(s, a) /\ D \in Nat /\ s[t] # <<>> /\ Call(c)
      /\ c = s[t][Len(s[t])] /\ z = [s EXCEPT ![t][Len(s[t])] = d]
  BY <1>1, TopCall DEF EdgeInv, Top, SetTop
<1>3. Changed(s, z, t, d) /\ Names(z, a)
  BY <1>2, GoesOn
<1>4. /\ Stacks(z, D)
      /\ c.kind = "ecall" => Held(z, D) = Held(s, D) + Bytes(d) - Bytes(c)
      /\ c.kind # "ecall" => Held(z, D) = Held(s, D)
      /\ \A u \in Threads : Lent(z, D, u) = Lent(s, D, u)
  <2>1. GoesOnFrom(s, D, t, c, d)
    BY <1>2 DEF GoesOnFrom
  <2> QED BY ONLY <1>3, <2>1, ChangedSums
<1>5. Allocated(heap, inits, ocalloc, s, D)
  BY <1>1 DEF EdgeInv
<1>6. Allocated(heap', inits', ocalloc', z, D)
  <2>1. heap' = inits' * 2 * KEYBYTES + Held(z, D)
    <3>1. Bytes(c) \in Nat /\ Bytes(d) \in Nat /\ Held(s, D) \in Nat /\ inits \in Nat /\ inits' \in Nat
      BY <1>2, <1>5, BytesType, HeldType, EdgeAssumption DEF Allocated
    <3>2. heap = inits * 64 + Held(s, D)
      BY <1>5, <3>1 DEF Allocated, KEYBYTES
    <3>3. CASE c.kind = "ecall"
      <4>1. heap' = heap + Bytes(d) - Bytes(c) + (inits' - inits) * 64
        BY <3>1, <3>3 DEF KEYBYTES
      <4>2. heap' = inits' * 64 + Held(z, D)
        BY <1>4, <3>1, <3>2, <3>3, <4>1
      <4> QED BY <3>1, <4>2 DEF KEYBYTES
    <3>4. CASE c.kind # "ecall"
      BY <1>4, <1>5, <3>4 DEF Allocated
    <3> QED BY <3>3, <3>4
  <2> QED BY <1>4, <1>5, <2>1 DEF Allocated
<1> QED BY <1>1, <1>3, <1>4, <1>6 DEF EdgeInv

LEMMA SkipPointerKeeps ==
  ASSUME EdgeInv, app' = app, NEW t \in Threads, SkipPointer(t)
  PROVE  EdgeInv'
<1>1. PICK c, d : c = Top(t) /\ d = [c EXCEPT !.next = @ + 1]
  OBVIOUS
<1>2. /\ stack[t] # <<>> /\ c.kind = "ecall" /\ c.at = "in" /\ c.next <= Len(c.ptr)
      /\ ~Copied(c, c.next) /\ SetTop(t, d) /\ UNCHANGED <<heap, inits, ocalloc, reply>>
  BY <1>1 DEF SkipPointer, Copying, InEcall
<1>3. Call(c)
  BY <1>1, <1>2, TopCall
<1>4. Call(d) /\ Kept(c, d) /\ d.buf = c.buf
  BY ONLY <1>1, <1>2, <1>3, Skipped
<1>5. Bytes(d) = Bytes(c) /\ Bytes(c) \in Nat
  BY <1>3, <1>4, BytesSame, BytesType
<1>6. inits \in 0 .. MaxInits /\ heap \in 0 .. HEAPMAXSIZE
  BY DEF EdgeInv, Allocated
<1>7. heap' = heap + Bytes(d) - Bytes(c) + (inits' - inits) * 2 * KEYBYTES
  BY <1>2, <1>5, <1>6, EdgeAssumption DEF KEYBYTES
<1> QED BY <1>1, <1>2, <1>4, <1>6, <1>7, TopGoesOn

LEMMA OutOfMemoryKeeps ==
  ASSUME EdgeInv, app' = app, NEW t \in Threads, OutOfMemory(t)
  PROVE  EdgeInv'
<1>1. PICK c, d : c = Top(t) /\ d = [c EXCEPT !.at = "err", !.status = "OUT_OF_MEMORY"]
  OBVIOUS
<1>2. /\ stack[t] # <<>> /\ c.kind = "ecall" /\ c.at = "in"
      /\ SetTop(t, d) /\ UNCHANGED <<heap, inits, ocalloc, reply>>
  BY <1>1 DEF OutOfMemory, Copying, InEcall
<1>3. Call(c)
  BY <1>1, <1>2, TopCall
<1>4. Call(d) /\ Kept(c, d) /\ d.buf = c.buf
  BY ONLY <1>1, <1>2, <1>3, Failed
<1>5. Bytes(d) = Bytes(c) /\ Bytes(c) \in Nat
  BY <1>3, <1>4, BytesSame, BytesType
<1>6. inits \in 0 .. MaxInits /\ heap \in 0 .. HEAPMAXSIZE
  BY DEF EdgeInv, Allocated
<1>7. heap' = heap + Bytes(d) - Bytes(c) + (inits' - inits) * 2 * KEYBYTES
  BY <1>2, <1>5, <1>6, EdgeAssumption DEF KEYBYTES
<1> QED BY <1>1, <1>2, <1>4, <1>6, <1>7, TopGoesOn

LEMMA CopyInKeeps ==
  ASSUME EdgeInv, app' = app, NEW t \in Threads, CopyIn(t)
  PROVE  EdgeInv'
<1>1. PICK c, v, e, w : /\ c = Top(t) /\ v = (IF CopiesIn(ParamsOf(c)[c.next]) THEN "caller" ELSE "zero")
                        /\ e = [c EXCEPT !.buf[c.next] = v] /\ w = Size(ParamsOf(c)[c.next], c.n)
  OBVIOUS
<1>2. /\ stack[t] # <<>> /\ c.kind = "ecall" /\ c.at = "in" /\ c.next <= Len(c.ptr)
      /\ Copied(c, c.next) /\ Fits(w) /\ heap' = heap + w /\ UNCHANGED <<inits, ocalloc, reply>>
  BY <1>1 DEF CopyIn, Copying, InEcall
<1>3. PICK d : /\ SetTop(t, d)
               /\ \/ d = [e EXCEPT !.next = @ + 1]
                  \/ d = [e EXCEPT !.at = "err", !.status = "UNEXPECTED"]
  <2>1. SetTop(t, IF ParamsOf(c)[c.next].string /\ c.inner_nul
                  THEN [e EXCEPT !.at = "err", !.status = "UNEXPECTED"]
                  ELSE [e EXCEPT !.next = @ + 1])
    BY Zenon, <1>1 DEF CopyIn
  <2> QED BY <2>1
<1>4. Call(c)
  BY <1>1, <1>2, TopCall
<1>5. /\ Call(d) /\ Kept(c, d) /\ c.next \in DOMAIN c.buf /\ c.buf[c.next] = None /\ v # None
      /\ d.buf = [c.buf EXCEPT ![c.next] = v]
  <2>1. FilledTo(c, v, e, d)
    BY <1>1, <1>2, <1>3 DEF FilledTo
  <2> QED BY ONLY <1>4, <2>1, Filled
<1>6. PICK k : k = c.next
  OBVIOUS
<1>7. Bytes(d) = Bytes(c) + w
  BY ONLY <1>1, <1>4, <1>5, <1>6, BytesFilled
<1>8. Bytes(c) \in Nat /\ Bytes(d) \in Nat
  BY <1>4, <1>5, BytesType
<1>9. w \in Nat
  <2>1. c.n \in 0 .. SIZE_MAX /\ c.next \in 1 .. Len(ParamsOf(c))
    <3>1. c \in Frames /\ FrameInv(c)
      BY <1>4 DEF Call
    <3>2. c.buf \in Seq(Contents \cup {None}) /\ Len(c.buf) = Len(ParamsOf(c))
      BY <3>1 DEF Frames, FrameInv
    <3>3. DOMAIN c.buf = 1 .. Len(c.buf)
      BY <3>2
    <3> QED BY <1>5, <3>1, <3>2, <3>3 DEF Frames
  <2>2. ParamsOf(c)[c.next].unit \in Nat
    <3>1. c.kind \in {"ecall", "ocall"} /\ c.fn \in (IF c.kind = "ecall" THEN DOMAIN g_ecall_table ELSE DOMAIN ocall_table)
      BY <1>4 DEF Call, Frames, FrameInv
    <3> QED BY <2>1, <3>1, CallParams
  <2>3. c.n \in Nat
    BY <2>1, WordSize
  <2> QED BY <1>1, <2>2, <2>3, SizeType
<1>10. inits \in 0 .. MaxInits /\ heap \in 0 .. HEAPMAXSIZE
  BY DEF EdgeInv, Allocated
<1>11. heap' \in 0 .. HEAPMAXSIZE
  BY <1>2, <1>9, <1>10, EdgeAssumption DEF Fits
<1>12. heap' = heap + Bytes(d) - Bytes(c) + (inits' - inits) * 2 * KEYBYTES
  BY <1>2, <1>7, <1>8, <1>9, <1>10, EdgeAssumption DEF KEYBYTES
<1> QED BY <1>1, <1>2, <1>3, <1>5, <1>10, <1>11, <1>12, TopGoesOn

LEMMA BodyKeeps ==
  ASSUME EdgeInv, app' = app, NEW t \in Threads, NEW wrote \in BOOLEAN, Body(t, wrote)
  PROVE  EdgeInv'
<1>1. PICK c, ret, b, d : /\ c = Top(t) /\ ret = (IF Returns(c) THEN "body" ELSE c.ret)
                          /\ b = Written(c, wrote)
                          /\ d = [c EXCEPT !.at = "out", !.ret = ret, !.wrote = wrote, !.buf = b]
  OBVIOUS
<1>2. /\ stack[t] # <<>> /\ c.kind = "ecall" /\ c.at = "in" /\ c.next > Len(c.ptr)
      /\ UNCHANGED <<ocalloc, reply>>
      /\ \/ /\ inits < MaxInits /\ Fits(2 * KEYBYTES)
            /\ inits' = inits + 1 /\ heap' = heap + 2 * KEYBYTES
         \/ UNCHANGED <<inits, heap>>
  BY <1>1 DEF Body, InBody, InEcall
<1>3. SetTop(t, d)
  BY <1>1 DEF Body
<1>4. Call(c)
  BY <1>1, <1>2, TopCall
<1>5. /\ Call(d) /\ Kept(c, d) /\ DOMAIN d.buf = DOMAIN c.buf
      /\ \A i \in DOMAIN d.buf : (d.buf[i] = None) <=> (c.buf[i] = None)
  <2>1. RanTo(c, wrote, ret, d)
    BY <1>1, <1>2 DEF RanTo
  <2> QED BY ONLY <1>4, <2>1, Ran
<1>6. Bytes(d) = Bytes(c) /\ Bytes(c) \in Nat
  BY <1>4, <1>5, BytesSame, BytesType
<1>7. inits \in 0 .. MaxInits /\ heap \in 0 .. HEAPMAXSIZE /\ MaxInits \in Nat /\ HEAPMAXSIZE \in Nat
  BY EdgeAssumption DEF EdgeInv, Allocated
<1>8. inits' \in 0 .. MaxInits /\ heap' \in 0 .. HEAPMAXSIZE
  BY <1>2, <1>7 DEF Fits, KEYBYTES
<1>9. heap' = heap + Bytes(d) - Bytes(c) + (inits' - inits) * 2 * KEYBYTES
  BY <1>2, <1>6, <1>7 DEF KEYBYTES
<1> QED BY <1>1, <1>2, <1>3, <1>5, <1>8, <1>9, TopGoesOn

LEMMA OcallBodyKeeps ==
  ASSUME EdgeInv, app' = app, NEW t \in Threads, NEW wrote \in BOOLEAN, NEW status \in {"SUCCESS", "UNEXPECTED"},
         OcallBody(t, wrote, status)
  PROVE  EdgeInv'
<1>1. PICK c, at, b, d : /\ c = Top(t) /\ at = (IF status = "SUCCESS" THEN "out" ELSE "err")
                         /\ b = Written(c, wrote)
                         /\ d = [c EXCEPT !.at = at, !.status = status, !.wrote = wrote, !.buf = b]
  OBVIOUS
<1>2. /\ stack[t] # <<>> /\ c.kind = "ocall" /\ c.at = "outside"
      /\ UNCHANGED <<heap, inits, ocalloc, reply>>
  BY <1>1 DEF OcallBody
<1>3. SetTop(t, d)
  BY <1>1 DEF OcallBody
<1>4. Call(c)
  BY <1>1, <1>2, TopCall
<1>5. Call(d) /\ Kept(c, d)
  <2>1. status \in {"SUCCESS", "UNEXPECTED"} /\ wrote \in BOOLEAN
    OBVIOUS
  <2> QED BY ONLY <1>1, <1>2, <1>4, <2>1, OcallRan
<1>6. inits' \in 0 .. MaxInits /\ heap' \in 0 .. HEAPMAXSIZE
  BY <1>2 DEF EdgeInv, Allocated
<1> QED BY <1>1, <1>2, <1>3, <1>5, <1>6, TopGoesOn

LEMMA RepliesSet ==
  ASSUME NEW r, Replies(r), NEW t \in Threads, NEW v, v = None \/ (Matches(v) /\ v.status \in Statuses),
         NEW z, z = [r EXCEPT ![t] = v]
  PROVE  Replies(z)
BY DEF Replies

(* A call returns, from the enclave or to it. *)
LEMMA TopReturns ==
  ASSUME EdgeInv, app' = app, NEW t \in Threads, stack[t] # <<>>, NEW c, c = Top(t),
         c.at \in {"out", "err"}, NEW d, Ended(c, d), Return(t, d), UNCHANGED inits,
         c.kind = "ecall" => heap' = heap - Bytes(c) /\ UNCHANGED ocalloc,
         c.kind = "ocall" => ocalloc' = [ocalloc EXCEPT ![t] = @ - OcallBytes(c)] /\ UNCHANGED heap
  PROVE  EdgeInv'
<1>1. PICK s, z, D, a : s = stack /\ z = stack' /\ D = app.depth /\ a = app
  OBVIOUS
<1>2. PICK r : r = [Reply(d) EXCEPT !.status = d.status]
  OBVIOUS
<1>3. /\ Stacks(s, D) /\ Names(s, a) /\ D \in Nat /\ s[t] # <<>> /\ Call(c)
      /\ c = s[t][Len(s[t])] /\ z = [s EXCEPT ![t] = Pop(@)]
      /\ reply' = [reply EXCEPT ![t] = r]
  BY <1>1, <1>2, TopCall DEF EdgeInv, Top, Return, Answer
<1>4. Replies(reply')
  <2>1. Answers(r, d, d.status)
    BY <1>2 DEF Answers
  <2>2. Matches(r) /\ r.status \in Statuses
    BY <1>2, <1>3, <2>1, Left
  <2>3. Replies(reply)
    BY DEF EdgeInv
  <2> QED BY <1>3, <2>2, <2>3, RepliesSet
<1>5. Pushed(z, s, t, c) /\ Stacks(z, D) /\ Names(z, a)
  <2>1. ReturnsFrom(s, D, a, t, c, z)
    BY <1>3 DEF ReturnsFrom
  <2> QED BY ONLY <2>1, IsReturned
<1>6. /\ c.kind = "ecall" => /\ Held(s, D) = Bytes(c) + Held(z, D)
                             /\ \A u \in Threads : Lent(s, D, u) = Lent(z, D, u)
      /\ c.kind = "ocall" => /\ Held(s, D) = Held(z, D)
                             /\ Lent(s, D, t) = OcallBytes(c) + Lent(z, D, t)
                             /\ \A u \in Threads \ {t} : Lent(s, D, u) = Lent(z, D, u)
  <2>1. IsMadeOn(z, D, t, s, c)
    BY <1>3, <1>5 DEF IsMadeOn
  <2> QED BY ONLY <2>1, PushedSums
<1>7. /\ Allocated(heap, inits, ocalloc, s, D) /\ c.kind \in {"ecall", "ocall"}
      /\ Bytes(c) \in Nat /\ (c.kind = "ocall" => OcallBytes(c) \in Nat)
      /\ Held(s, D) \in Nat /\ Held(z, D) \in Nat
      /\ \A u \in Threads : Lent(s, D, u) \in Nat /\ Lent(z, D, u) \in Nat
  <2>1. Bytes(c) \in Nat /\ (c.kind = "ocall" => OcallBytes(c) \in Nat)
    BY <1>3, BytesType
  <2>2. Held(s, D) \in Nat /\ \A u \in Threads : Lent(s, D, u) \in Nat
    BY <1>3, HeldType
  <2>3. Held(z, D) \in Nat /\ \A u \in Threads : Lent(z, D, u) \in Nat
    BY <1>3, <1>5, HeldType
  <2> QED BY <1>1, <1>3, <2>1, <2>2, <2>3 DEF EdgeInv, Call, Frames
<1>8. inits \in Nat /\ HEAPMAXSIZE \in Nat /\ UNTRUSTEDSTACK \in Nat /\ heap = inits * 64 + Held(s, D)
  BY <1>7, EdgeAssumption DEF Allocated, KEYBYTES
<1>9. CASE c.kind = "ecall"
  <2>1. heap' = inits * 64 + Held(z, D) /\ heap' \in Nat /\ heap' <= heap
    BY <1>6, <1>7, <1>8, <1>9
  <2>2. inits' \in 0 .. MaxInits /\ heap' \in 0 .. HEAPMAXSIZE
    <3>1. inits \in 0 .. MaxInits /\ heap \in 0 .. HEAPMAXSIZE
      BY <1>7 DEF Allocated
    <3> QED BY <1>8, <2>1, <3>1
  <2>3. heap' = inits' * 2 * KEYBYTES + Held(z, D)
    BY <1>8, <2>1 DEF KEYBYTES
  <2>4. ocalloc' = ocalloc /\ \A u \in Threads : Lent(s, D, u) = Lent(z, D, u)
    BY <1>6, <1>9
  <2>5. Allocated(heap', inits', ocalloc', z, D)
    BY <1>7, <2>2, <2>3, <2>4 DEF Allocated
  <2> QED BY <1>1, <1>4, <1>5, <2>5 DEF EdgeInv
<1>10. CASE c.kind = "ocall"
  <2>1. /\ ocalloc \in [Threads -> 0 .. UNTRUSTEDSTACK] /\ ocalloc' = [ocalloc EXCEPT ![t] = @ - OcallBytes(c)]
        /\ \A u \in Threads : ocalloc[u] = Lent(s, D, u)
    BY <1>7, <1>10 DEF Allocated
  <2>2. ocalloc'[t] = Lent(z, D, t) /\ \A u \in Threads \ {t} : ocalloc'[u] = Lent(z, D, u)
    BY <1>6, <1>7, <1>10, <2>1
  <2>3. \A u \in Threads : ocalloc'[u] = Lent(z, D, u) /\ ocalloc'[u] \in 0 .. UNTRUSTEDSTACK
    <3>1. Lent(z, D, t) <= Lent(s, D, t)
      BY <1>6, <1>7, <1>10
    <3>2. \A u \in Threads : Lent(s, D, u) \in 0 .. UNTRUSTEDSTACK
      BY <2>1
    <3>3. Lent(z, D, t) \in 0 .. UNTRUSTEDSTACK
      BY <1>7, <1>8, <3>1, <3>2
    <3> QED BY <1>6, <1>10, <2>2, <3>2, <3>3
  <2>4. ocalloc' \in [Threads -> 0 .. UNTRUSTEDSTACK]
    BY <2>1, <2>3
  <2>5. heap' = inits * 64 + Held(z, D)
    BY <1>6, <1>8, <1>10
  <2>6. Allocated(heap', inits', ocalloc', z, D)
    BY <1>7, <1>8, <1>10, <2>3, <2>4, <2>5 DEF Allocated, KEYBYTES
  <2> QED BY <1>1, <1>4, <1>5, <2>6 DEF EdgeInv
<1> QED BY <1>7, <1>9, <1>10

LEMMA LeaveEcallKeeps ==
  ASSUME EdgeInv, app' = app, NEW t \in Threads, LeaveEcall(t)
  PROVE  EdgeInv'
<1>1. PICK c, m, d : c = Top(t) /\ m = Results(c) /\ d = [c EXCEPT !.mem = m]
  OBVIOUS
<1>2. /\ stack[t] # <<>> /\ c.kind = "ecall" /\ c.at \in {"out", "err"}
      /\ heap' = heap - Bytes(c) /\ Return(t, d)
      /\ UNCHANGED <<inits, ocalloc>>
  BY <1>1 DEF LeaveEcall, InEcall, Freed
<1>3. c \in Frames /\ FrameInv(c)
  BY <1>1, <1>2, TopCall DEF Call
<1>4. ReturnValue(c) = c.ret
  BY <1>2, <1>3 DEF FrameInv, ReturnValue
<1>5. Ended(c, d)
  BY <1>1, <1>3, <1>4 DEF Ended, Frames
<1> QED BY <1>1, <1>2, <1>5, TopReturns

LEMMA LeaveOcallKeeps ==
  ASSUME EdgeInv, app' = app, NEW t \in Threads, LeaveOcall(t)
  PROVE  EdgeInv'
<1>1. PICK c, m, v, d : /\ c = Top(t) /\ m = Results(c) /\ v = ReturnValue(c)
                        /\ d = [c EXCEPT !.mem = m, !.ret = v]
  OBVIOUS
<1>2. /\ stack[t] # <<>> /\ c.kind = "ocall" /\ c.at \in {"out", "err"}
      /\ ocalloc' = [ocalloc EXCEPT ![t] = @ - OcallBytes(c)]
      /\ Return(t, d)
      /\ UNCHANGED <<heap, inits>>
  BY <1>1 DEF LeaveOcall, OcallFreed
<1>3. c \in Frames
  BY <1>1, <1>2, TopCall DEF Call
<1>4. Ended(c, d)
  BY <1>1, <1>3 DEF Ended, Frames
<1> QED BY <1>1, <1>2, <1>4, TopReturns

(* A call is refused. *)
LEMMA AnswerKeeps ==
  ASSUME EdgeInv, app' = app, NEW t \in Threads, NEW c, c.ret = "caller",
         \A i \in DOMAIN c.mem : c.mem[i] = "caller",
         NEW status \in Statuses, status # "SUCCESS", Answer(t, c, status),
         UNCHANGED <<stack, heap, inits, ocalloc>>
  PROVE  EdgeInv'
<1>1. PICK r : r = [Reply(c) EXCEPT !.status = status]
  OBVIOUS
<1>2. Answers(r, c, status) /\ reply' = [reply EXCEPT ![t] = r]
  BY <1>1 DEF Answers, Answer
<1>3. Matches(r) /\ r.status \in Statuses
  BY <1>2, Refused
<1>4. Replies(reply')
  <2>1. Replies(reply)
    BY DEF EdgeInv
  <2> QED BY <1>2, <1>3, <2>1, RepliesSet
<1> QED BY <1>4 DEF EdgeInv

LEMMA Pushes ==
  ASSUME EdgeInv, app' = app, NEW t \in Threads, Len(stack[t]) < app.depth,
         NEW d, Call(d), Named(d, app, Len(stack[t]) + 1), Push(t, d), UNCHANGED <<heap, inits>>,
         d.kind = "ecall" => Bytes(d) = 0 /\ UNCHANGED ocalloc,
         d.kind = "ocall" => /\ ocalloc[t] + OcallBytes(d) <= UNTRUSTEDSTACK
                             /\ ocalloc' = [ocalloc EXCEPT ![t] = @ + OcallBytes(d)]
  PROVE  EdgeInv'
<1>1. PICK s, z, D, a : s = stack /\ z = stack' /\ D = app.depth /\ a = app
  OBVIOUS
<1>2. /\ Stacks(s, D) /\ Names(s, a) /\ D \in Nat /\ z = [s EXCEPT ![t] = Append(@, d)]
      /\ Len(s[t]) < D /\ Named(d, a, Len(s[t]) + 1) /\ reply' = [reply EXCEPT ![t] = None]
  BY <1>1, EdgeAssumption DEF EdgeInv, Push
<1>3. Replies(reply')
  BY <1>2, RepliesSet DEF EdgeInv
<1>4. Pushed(s, z, t, d) /\ Stacks(z, D) /\ Names(z, a)
  BY <1>2, IsMade
<1>5. /\ d.kind = "ecall" => /\ Held(z, D) = Bytes(d) + Held(s, D)
                             /\ \A u \in Threads : Lent(z, D, u) = Lent(s, D, u)
      /\ d.kind = "ocall" => /\ Held(z, D) = Held(s, D)
                             /\ Lent(z, D, t) = OcallBytes(d) + Lent(s, D, t)
                             /\ \A u \in Threads \ {t} : Lent(z, D, u) = Lent(s, D, u)
  <2>1. IsMadeOn(s, D, t, z, d)
    BY <1>2, <1>4 DEF IsMadeOn
  <2> QED BY ONLY <2>1, PushedSums
<1>6. /\ Allocated(heap, inits, ocalloc, s, D) /\ d.kind \in {"ecall", "ocall"}
      /\ Bytes(d) \in Nat /\ (d.kind = "ocall" => OcallBytes(d) \in Nat)
      /\ Held(s, D) \in Nat /\ \A u \in Threads : Lent(s, D, u) \in Nat
  <2>1. Bytes(d) \in Nat /\ (d.kind = "ocall" => OcallBytes(d) \in Nat)
    BY BytesType
  <2>2. Held(s, D) \in Nat /\ \A u \in Threads : Lent(s, D, u) \in Nat
    BY <1>2, HeldType
  <2> QED BY <1>1, <2>1, <2>2 DEF EdgeInv, Call, Frames
<1>7. Held(z, D) = Held(s, D)
  BY <1>5, <1>6
<1>8. ocalloc' \in [Threads -> 0 .. UNTRUSTEDSTACK] /\ \A u \in Threads : ocalloc'[u] = Lent(z, D, u)
  <2>1. ocalloc \in [Threads -> 0 .. UNTRUSTEDSTACK] /\ \A u \in Threads : ocalloc[u] = Lent(s, D, u)
    BY <1>6 DEF Allocated
  <2>2. CASE d.kind = "ecall"
    BY <1>5, <2>1, <2>2
  <2>3. CASE d.kind = "ocall"
    <3>1. ocalloc'[t] = Lent(z, D, t) /\ \A u \in Threads \ {t} : ocalloc'[u] = ocalloc[u]
      BY <1>5, <1>6, <2>1, <2>3
    <3>2. ocalloc[t] + OcallBytes(d) \in 0 .. UNTRUSTEDSTACK
      BY <1>6, <2>1, <2>3, EdgeAssumption
    <3>3. ocalloc' \in [Threads -> 0 .. UNTRUSTEDSTACK]
      BY <2>1, <2>3, <3>2
    <3> QED BY <1>5, <2>1, <2>3, <3>1, <3>3
  <2> QED BY <1>6, <2>2, <2>3
<1>9. Allocated(heap', inits', ocalloc', z, D)
  BY <1>6, <1>7, <1>8 DEF Allocated
<1> QED BY <1>1, <1>3, <1>4, <1>9 DEF EdgeInv

LEMMA EcallKeeps ==
  ASSUME EdgeInv, app' = app, NEW t \in Threads, NEW fn \in app.ecalls, NEW ms, NEW ptr, NEW n,
         Arguments(g_ecall_table[fn].params, ptr, n), NEW nul \in BOOLEAN, Ecall(t, fn, ms, ptr, n, nul)
  PROVE  EdgeInv'
<1>1. PICK c, params : c = Frame("ecall", fn, ptr, n, nul) /\ params = g_ecall_table[fn].params
  OBVIOUS
<1>2. fn \in DOMAIN g_ecall_table
  BY EdgeAssumption DEF EdgeInv
<1>3. /\ c \in Frames /\ ParamsOf(c) = params /\ c.kind = "ecall" /\ c.fn = fn
      /\ c.at = "in" /\ c.next = 1 /\ c.status = "SUCCESS" /\ c.ret = "caller" /\ ~c.wrote
      /\ Len(c.ptr) = Len(params) /\ Len(c.mem) = Len(params) /\ Len(c.buf) = Len(params)
      /\ \A i \in DOMAIN c.buf : c.buf[i] = None
      /\ \A i \in DOMAIN c.mem : c.mem[i] = "caller"
  <2>1. MadeAs("ecall", fn, params, ptr, n, nul, c)
    BY <1>1, <1>2 DEF MadeAs
  <2> QED BY ONLY <2>1, NewFrame
<1>4. /\ Outside(t) /\ Len(stack[t]) < app.depth /\ UNCHANGED <<heap, inits, ocalloc>>
      /\ \/ Answer(t, c, "ECALL_NOT_ALLOWED") /\ UNCHANGED stack
         \/ Admitted(t, fn) /\ CountFits(c) /\ Push(t, c)
         \/ Answer(t, c, "INVALID_PARAMETER") /\ UNCHANGED stack
  BY <1>1 DEF Ecall
<1>5. ASSUME NEW status \in {"ECALL_NOT_ALLOWED", "INVALID_PARAMETER"}, Answer(t, c, status), UNCHANGED stack
      PROVE  EdgeInv'
  <2>1. status \in Statuses /\ status # "SUCCESS"
    BY DEF Statuses
  <2> QED BY <1>3, <1>4, <1>5, <2>1, AnswerKeeps
<1>6. ASSUME Admitted(t, fn), CountFits(c), Push(t, c) PROVE EdgeInv'
  <2>1. Call(c)
    BY <1>2, <1>3, <1>6, EcallMade
  <2>2. Named(c, app, Len(stack[t]) + 1)
    <3>1. Len(stack[t]) + 1 # 1 => fn = "ecall_function_private"
      <4>1. stack[t] \in Seq(Frames)
        BY DEF EdgeInv, Stacks
      <4>2. stack[t] # <<>> => fn = "ecall_function_private"
        BY <1>6 DEF Admitted, g_dyn_entry_table
      <4> QED BY <4>1, <4>2
    <3>2. "ecall_function_private" \notin StoreEcalls
      BY StoreNames
    <3> QED BY <1>3, <3>1, <3>2 DEF Named
  <2>3. Bytes(c) = 0
    <3>1. PICK f : f = [i \in DOMAIN c.buf |-> IF c.buf[i] = None THEN 0 ELSE Size(ParamsOf(c)[i], c.n)]
      OBVIOUS
    <3>2. DOMAIN f = DOMAIN c.buf /\ \A i \in DOMAIN f : f[i] = 0
      BY <1>3, <3>1
    <3>3. IsFiniteSet(DOMAIN f)
      <4>1. c.buf \in Seq(Contents \cup {None})
        BY <1>3 DEF Frames
      <4>2. DOMAIN f = 1 .. Len(c.buf) /\ Len(c.buf) \in Nat
        BY <3>2, <4>1
      <4> QED BY <4>2, FS_Interval
    <3>4. \A i \in DOMAIN f : f[i] \in Nat
      BY <3>2
    <3>5. SumFunction(f) = 0
      BY ONLY <3>2, <3>3, <3>4, SumNat
    <3> QED BY <3>1, <3>5 DEF Bytes
  <2> QED BY <1>3, <1>4, <1>6, <2>1, <2>2, <2>3, Pushes
<1> QED BY <1>4, <1>5, <1>6

LEMMA OcallKeeps ==
  ASSUME EdgeInv, app' = app, NEW t \in Threads, NEW fn \in app.ocalls, NEW ptr, NEW n,
         Arguments(ocall_table[fn].params, ptr, n), Ocall(t, fn, ptr, n)
  PROVE  EdgeInv'
<1>1. PICK nul \in BOOLEAN : nul = FALSE
  OBVIOUS
<1>2. PICK c, params : c = Frame("ocall", fn, ptr, n, nul) /\ params = ocall_table[fn].params
  OBVIOUS
<1>3. fn \in DOMAIN ocall_table
  BY EdgeAssumption DEF EdgeInv
<1>4. /\ c \in Frames /\ ParamsOf(c) = params /\ c.kind = "ocall" /\ c.fn = fn
      /\ c.at = "in" /\ c.next = 1 /\ c.status = "SUCCESS" /\ c.ret = "caller" /\ ~c.wrote
      /\ Len(c.ptr) = Len(params) /\ Len(c.mem) = Len(params) /\ Len(c.buf) = Len(params)
      /\ \A i \in DOMAIN c.mem : c.mem[i] = "caller"
  <2>1. MadeAs("ocall", fn, params, ptr, n, nul, c)
    BY <1>2, <1>3 DEF MadeAs
  <2> QED BY ONLY <2>1, NewFrame
<1>5. PICK d : d = Enter(c)
  OBVIOUS
<1>6. /\ Len(stack[t]) < app.depth /\ UNCHANGED <<heap, inits>>
      /\ \/ Answer(t, c, "INVALID_PARAMETER") /\ UNCHANGED <<stack, ocalloc>>
         \/ Answer(t, c, "UNEXPECTED") /\ UNCHANGED <<stack, ocalloc>>
         \/ /\ ocalloc[t] + OcallBytes(c) <= UNTRUSTEDSTACK /\ Push(t, d)
            /\ ocalloc' = [ocalloc EXCEPT ![t] = @ + OcallBytes(c)]
  BY Zenon, <1>1, <1>2, <1>5 DEF Ocall
<1>7. ASSUME NEW status \in {"UNEXPECTED", "INVALID_PARAMETER"}, Answer(t, c, status), UNCHANGED <<stack, ocalloc>>
      PROVE  EdgeInv'
  <2>1. status \in Statuses /\ status # "SUCCESS"
    BY DEF Statuses
  <2> QED BY <1>4, <1>6, <1>7, <2>1, AnswerKeeps
<1>8. ASSUME ocalloc[t] + OcallBytes(c) <= UNTRUSTEDSTACK, Push(t, d),
             ocalloc' = [ocalloc EXCEPT ![t] = @ + OcallBytes(c)]
      PROVE  EdgeInv'
  <2>1. Call(d) /\ Kept(c, d)
    BY <1>3, <1>4, <1>5, Entered
  <2>2. OcallBytes(d) = OcallBytes(c) /\ d.kind = "ocall" /\ d.fn = fn
    BY <1>4, <2>1, KeptFacts DEF Kept
  <2>3. Named(d, app, Len(stack[t]) + 1)
    BY <1>3, <2>2, StoreNames DEF Named
  <2> QED BY <1>6, <1>8, <2>1, <2>2, <2>3, Pushes
<1> QED BY <1>6, <1>7, <1>8

LEMMA InitHolds == Init => EdgeInv
<1> SUFFICES ASSUME Init PROVE EdgeInv
  OBVIOUS
<1>1. PICK s, D : s = stack /\ D = app.depth
  OBVIOUS
<1>2. /\ app \in Applications /\ D \in Nat /\ DOMAIN s = Threads /\ \A t \in Threads : s[t] = <<>>
      /\ heap = 0 /\ inits = 0 /\ ocalloc = [t \in Threads |-> 0] /\ reply = [t \in Threads |-> None]
  BY <1>1, EdgeAssumption DEF Init
<1>3. \A t \in Threads : s[t] \in Seq(Frames) /\ Len(s[t]) = 0 /\ 1 .. Len(s[t]) = {}
  <2>1. PICK q : q = <<>>
    OBVIOUS
  <2>2. q \in Seq(Frames) /\ Len(q) = 0 /\ 1 .. Len(q) = {}
    BY <2>1
  <2>3. \A t \in Threads : s[t] = q
    BY <1>2, <2>1
  <2> QED BY <2>2, <2>3
<1>4. Stacks(s, D) /\ Names(s, app)
  BY <1>2, <1>3 DEF Stacks, Names
<1>5. \A kind : InProgress(s, D, kind) = {}
  <2>1. \A f \in Threads \X (1 .. D) : ~(f[2] <= Len(s[f[1]]))
    BY <1>2, <1>3
  <2> QED BY <2>1 DEF InProgress
<1>6. Held(s, D) = 0
  <2>1. DOMAIN Buffers(s, D) = {}
    BY <1>5 DEF Buffers
  <2> QED BY <2>1, FS_EmptySet, SumNat DEF Held
<1>7. \A t \in Threads : Lent(s, D, t) = 0
  <2>1. \A t : DOMAIN Copies(s, D, t) = {}
    BY <1>5 DEF Copies, Outgoing
  <2> QED BY <2>1, FS_EmptySet, SumNat DEF Lent
<1>8. Allocated(heap, inits, ocalloc, s, D)
  BY <1>2, <1>6, <1>7, EdgeAssumption DEF Allocated, KEYBYTES
<1>9. Replies(reply)
  BY <1>2 DEF Replies
<1> QED BY <1>1, <1>2, <1>4, <1>8, <1>9 DEF EdgeInv

LEMMA NextKeeps == EdgeInv /\ [Next]_vars => EdgeInv'
<1> SUFFICES ASSUME EdgeInv, [Next]_vars PROVE EdgeInv'
  OBVIOUS
<1>1. CASE UNCHANGED vars
  BY <1>1 DEF vars, EdgeInv
<1>2. CASE Next
  <2>1. PICK t \in Threads : Step(t)
    BY <1>2, EdgeAssumption DEF Next, EdgeInv
  <2>2. app' = app
    BY <1>2 DEF Next
  <2>3. CASE \E fn \in app.ecalls, ms \in Where :
               LET params == g_ecall_table[fn].params
               IN  \E ptr \in Pointers(params), n \in LengthsOf(params), nul \in InnerNuls(params) :
                     Ecall(t, fn, ms, ptr, n, nul)
    <3>1. PICK fn \in app.ecalls, ms \in Where :
             \E ptr \in Pointers(g_ecall_table[fn].params), n \in LengthsOf(g_ecall_table[fn].params),
                nul \in InnerNuls(g_ecall_table[fn].params) : Ecall(t, fn, ms, ptr, n, nul)
      BY <2>3
    <3>2. PICK ptr \in Pointers(g_ecall_table[fn].params), n \in LengthsOf(g_ecall_table[fn].params),
               nul \in InnerNuls(g_ecall_table[fn].params) : Ecall(t, fn, ms, ptr, n, nul)
      BY <3>1
    <3>3. Arguments(g_ecall_table[fn].params, ptr, n) /\ nul \in BOOLEAN
      BY DEF Arguments, Pointers, LengthsOf, InnerNuls
    <3> QED BY <2>2, <3>2, <3>3, EcallKeeps
  <2>4. CASE SkipPointer(t)
    BY <2>2, <2>4, SkipPointerKeeps
  <2>5. CASE CopyIn(t)
    BY <2>2, <2>5, CopyInKeeps
  <2>6. CASE OutOfMemory(t)
    BY <2>2, <2>6, OutOfMemoryKeeps
  <2>7. CASE \E wrote \in BOOLEAN : Body(t, wrote)
    BY <2>2, <2>7, BodyKeeps
  <2>8. CASE LeaveEcall(t)
    BY <2>2, <2>8, LeaveEcallKeeps
  <2>9. CASE \E fn \in app.ocalls :
               LET params == ocall_table[fn].params
               IN  \E ptr \in Pointers(params), n \in LengthsOf(params) : Ocall(t, fn, ptr, n)
    <3>1. PICK fn \in app.ocalls :
             \E ptr \in Pointers(ocall_table[fn].params), n \in LengthsOf(ocall_table[fn].params) :
               Ocall(t, fn, ptr, n)
      BY <2>9
    <3>2. PICK ptr \in Pointers(ocall_table[fn].params), n \in LengthsOf(ocall_table[fn].params) :
             Ocall(t, fn, ptr, n)
      BY <3>1
    <3>3. Arguments(ocall_table[fn].params, ptr, n)
      BY DEF Arguments, Pointers, LengthsOf
    <3> QED BY <2>2, <3>2, <3>3, OcallKeeps
  <2>10. CASE \E wrote \in BOOLEAN, status \in {"SUCCESS", "UNEXPECTED"} : OcallBody(t, wrote, status)
    BY <2>2, <2>10, OcallBodyKeeps
  <2>11. CASE LeaveOcall(t)
    BY <2>2, <2>11, LeaveOcallKeeps
  <2> QED BY Zenon, <2>1, <2>3, <2>4, <2>5, <2>6, <2>7, <2>8, <2>9, <2>10, <2>11 DEF Step
<1> QED BY <1>1, <1>2

(* The invariant: every call on every stack is as its progress through the *)
(* bridge or proxy has left it, the store's functions are outermost, the   *)
(* replies match, and what is allocated is what the calls hold.            *)
THEOREM EdgeInvariant == Spec => []EdgeInv
BY InitHolds, NextKeeps, PTL DEF Spec

-----------------------------------------------------------------------------
(* What follows from it.                                                   *)

(* The types of the calls, the counters and the replies; in particular no  *)
(* bridge frees more than was allocated, and nothing exceeds the heap or   *)
(* the untrusted stack.                                                    *)
THEOREM EdgeTypes == Spec => []TypeOK
<1>1. EdgeInv => TypeOK
  <2> SUFFICES ASSUME EdgeInv PROVE TypeOK
    OBVIOUS
  <2>1. ASSUME NEW t \in Threads, NEW i \in 1 .. Len(stack[t]) PROVE FrameOK(stack[t][i])
    <3>1. PICK c : c = stack[t][i]
      OBVIOUS
    <3>2. c \in Frames /\ FrameInv(c) /\ Named(c, app, i)
      BY <3>1 DEF EdgeInv, Stacks, Names
    <3>3. /\ c.mem \in Seq({"caller"}) /\ c.buf \in Seq(Contents \cup {None}) /\ c.ptr \in Seq(Where)
          /\ Len(c.ptr) = Len(ParamsOf(c)) /\ Len(c.mem) = Len(ParamsOf(c)) /\ Len(c.buf) = Len(ParamsOf(c))
          /\ c.kind \in {"ecall", "ocall"} /\ c.status \in Statuses
          /\ c.at \in {"in", "outside", "out", "err"}
      BY <3>2 DEF Frames, FrameInv
    <3>4. ParamsOf(c) \in Seq(Params \cup OcallOnly)
      BY <3>2, <3>3, CallParams DEF FrameInv
    <3>5. DOMAIN c.ptr = 1 .. Len(ParamsOf(c)) /\ DOMAIN ParamsOf(c) = 1 .. Len(ParamsOf(c))
      BY <3>3, <3>4
    <3>6. c.mem \in [1 .. Len(ParamsOf(c)) -> {"caller"}] /\ c.buf \in [1 .. Len(ParamsOf(c)) -> Contents \cup {None}]
      BY <3>3
    <3>7. c.mem \in [DOMAIN c.ptr -> Contents] /\ c.buf \in [DOMAIN c.ptr -> Contents \cup {None}]
      BY <3>5, <3>6 DEF Contents
    <3> QED BY <3>1, <3>2, <3>3, <3>5, <3>7 DEF FrameOK, Named
  <2>2. app \in Applications /\ \A t \in Threads : reply[t] # None => reply[t].status \in Statuses
    BY DEF EdgeInv, Replies
  <2> QED BY <2>1, <2>2 DEF TypeOK, EdgeInv, Allocated
<1> QED BY <1>1, EdgeInvariant, PTL

(* A call that reports success has handed over every output, as the callee *)
(* left it, and the value it returned; any other has left its caller's     *)
(* memory as it was.                                                       *)
THEOREM RepliesMatch == Spec => []ReplyMatchesStatus
<1>1. EdgeInv => ReplyMatchesStatus
  BY DEF EdgeInv, Replies, ReplyMatchesStatus
<1> QED BY <1>1, EdgeInvariant, PTL

(* A product that does not wrap. *)
LEMMA ExactProduct ==
  ASSUME NEW m \in Nat \ {0}, NEW k \in {1, 4, 8}, NEW n \in Nat, n < m, k = 1 \/ n <= (m - 1) \div k
  PROVE  (k * n) % m = k * n
<1>1. CASE k = 1
  BY <1>1
<1>2. CASE k = 4
  <2>1. 4 * n < m
    BY <1>2
  <2> QED BY <1>2, <2>1
<1>3. CASE k = 8
  <2>1. 8 * n < m
    BY <1>3
  <2> QED BY <1>3, <2>1
<1> QED BY <1>1, <1>2, <1>3

(* The copy that a call takes along for a count holds that many elements,  *)
(* but for the waiters of set_multiple when they are too many.             *)
THEOREM CountsHeld == Spec => []BufferHoldsCount
<1>1. EdgeInv => BufferHoldsCount
  <2> SUFFICES ASSUME EdgeInv, NEW f \in Calls("ecall") \cup Calls("ocall"), NEW c, c = stack[f[1]][f[2]],
                      NEW i \in DOMAIN c.buf, ParamsOf(c)[i].sized, ~TooManyWaiters(c)
               PROVE  Size(ParamsOf(c)[i], c.n) = ParamsOf(c)[i].unit * c.n
    BY DEF BufferHoldsCount
  <2>1. c \in Frames /\ FrameInv(c)
    BY DEF Calls, EdgeInv, Stacks
  <2>2. /\ c.n \in 0 .. SIZE_MAX /\ i \in 1 .. Len(ParamsOf(c)) /\ i \in DOMAIN c.ptr
        /\ c.kind \in {"ecall", "ocall"}
        /\ c.fn \in (IF c.kind = "ecall" THEN DOMAIN g_ecall_table ELSE DOMAIN ocall_table)
        /\ c.kind = "ecall" => CountFits(c)
    <3>1. c.buf \in Seq(Contents \cup {None}) /\ c.ptr \in Seq(Where)
          /\ Len(c.buf) = Len(ParamsOf(c)) /\ Len(c.ptr) = Len(ParamsOf(c))
      BY <2>1 DEF Frames, FrameInv
    <3>2. i \in 1 .. Len(c.buf) /\ DOMAIN c.ptr = 1 .. Len(c.ptr)
      BY <3>1
    <3>3. /\ c.n \in 0 .. SIZE_MAX /\ c.kind \in {"ecall", "ocall"}
          /\ c.kind = "ecall" => CountFits(c)
          /\ c.fn \in (IF c.kind = "ecall" THEN DOMAIN g_ecall_table ELSE DOMAIN ocall_table)
      BY <2>1 DEF Frames, FrameInv
    <3> QED BY <3>1, <3>2, <3>3
  <2>3. PICK p, m : p = ParamsOf(c)[i] /\ m = SIZE_MAX + 1
    OBVIOUS
  <2>4. m \in Nat \ {0} /\ c.n \in Nat /\ c.n < m /\ SIZE_MAX = m - 1
    BY <2>2, <2>3, WordSize
  <2>5. Size(p, c.n) = (p.unit * c.n) % m
    BY <2>3 DEF Size
  <2>6. p.unit \in {1, 4, 8} /\ (p.unit = 1 \/ c.n <= (m - 1) \div p.unit)
    <3>1. CASE c.kind = "ecall"
      <4>1. p \in Params
        <5>1. ParamsOf(c) \in Seq(Params)
          BY <2>2, <3>1, CallParams
        <5> QED BY <2>2, <2>3, <5>1
      <4>2. p.unit = 1 \/ (p.unit = 4 /\ p.checked)
        BY <2>3, <4>1, Units DEF Safe
      <4>3. p.checked => c.n <= SIZE_MAX \div p.unit
        BY <2>2, <2>3, <3>1 DEF CountFits
      <4> QED BY <2>4, <4>2, <4>3
    <3>2. CASE c.kind = "ocall"
      <4>1. ParamsOf(c) = ocall_table[c.fn].params /\ c.fn \in DOMAIN ocall_table
        BY <2>2, <3>2 DEF ParamsOf
      <4>2. p.unit = 1 \/ (p.unit = 8 /\ c.fn = SetMultiple)
        BY <2>2, <2>3, <4>1, SizedOcalls
      <4>3. CASE p.unit = 8
        BY <2>2, <2>4, <4>2, <4>3 DEF TooManyWaiters, SetMultiple
      <4> QED BY <4>2, <4>3
    <3> QED BY <2>2, <3>1, <3>2
  <2> QED BY <2>3, <2>4, <2>5, <2>6, ExactProduct
<1> QED BY <1>1, EdgeInvariant, PTL

(* Every way out of a bridge frees what was allocated for the call, and    *)
(* every ocall gives its part of the untrusted stack back.                 *)
THEOREM NothingLost == Spec => []NothingLeaks
<1>1. EdgeInv => NothingLeaks
  BY DEF EdgeInv, Allocated, NothingLeaks, Held, Lent, Buffers, Copies, Outgoing, InProgress, Calls
<1> QED BY <1>1, EdgeInvariant, PTL

(* A thread that is in the store does not enter it again from an ocall.    *)
THEOREM StoreEnteredOnce == Spec => []StoreNotReentered
<1>1. EdgeInv => StoreNotReentered
  BY DEF EdgeInv, Names, Named, StoreNotReentered
<1> QED BY <1>1, EdgeInvariant, PTL
=============================================================================
