--------------------------- MODULE AccountingProofs ---------------------------
(***************************************************************************)
(* Proofs about the components of MCMoney that add up amounts: the         *)
(* exposure of the portfolio, the losses of the day and week, the          *)
(* quantities of completed trades, the rows of trades, and the matching of *)
(* trades; for any quantities, prices, limits and estimates, and any number*)
(* of strategies, entries, exits, calls and trades.                        *)
(***************************************************************************)
EXTENDS MCMoney, FiniteSetTheorems, SequenceTheorems, TLAPS

\* A step is one of a component, and leaves the others alone.
LEMMA PartsApart ==
    ASSUME [Next]_vars
    PROVE  /\ Risk!Next \/ UNCHANGED riskVars
           /\ Orders!Next \/ UNCHANGED orderVars
           /\ Guard!Next \/ UNCHANGED protectionVars
           /\ Manual!Next \/ UNCHANGED manualVars
           /\ Serial!Next \/ UNCHANGED loopVars
           /\ Portfolio!Next \/ UNCHANGED exposureVars
           /\ Limits!Next \/ UNCHANGED limitVars
           /\ Trades!Next \/ UNCHANGED tradeVars
           /\ Recorded!Next \/ UNCHANGED rowVars
           /\ Fifo!Next \/ UNCHANGED matchingVars
BY DEF Next, vars, RiskNext, TradesNext, ProtectionNext, ManualNext, PortfolioNext, SerialNext,
       OrdersNext, MatchingNext, RowsNext, LimitsNext, riskVars, tradeVars, protectionVars,
       manualVars, exposureVars, loopVars, orderVars, matchingVars, rowVars, limitVars

-----------------------------------------------------------------------------
(* Sums over finite sets, of which the smallest counterexample is refuted. *)

\* A member of a set, what a set adds up to given what smaller ones do, the functions that say so
\* of all subsets, and the sum.
AnyOf(T) == CHOOSE x \in T : TRUE
AddUp(f, sums, T) == IF T = {} THEN 0 ELSE f[AnyOf(T)] + sums[T \ {AnyOf(T)}]
AreSums(sums, f, S) == sums = [T \in SUBSET S |-> AddUp(f, sums, T)]
Sums(f, S) == CHOOSE sums : AreSums(sums, f, S)
Sum(f, S) == Sums(f, S)[S]

\* A set of finite sets, if it is not empty, has a member of which it has no smaller one.
LEMMA Smallest ==
    ASSUME NEW S, IsFiniteSet(S), NEW Q \in SUBSET SUBSET S, Q # {}
    PROVE  \E T \in Q : \A U \in Q : U \subseteq T => U = T
<1>1. SUBSET S = FiniteSubsetsOf(S)
    BY FS_FiniteSubsetsOfFinite
<1>2. IsWellFoundedOn(StrictSubsetOrdering(S), SUBSET S)
    BY <1>1, FS_StrictSubsetOrderingWellFounded
<1>3. \E T \in Q : \A U \in Q : ~ (<<U, T>> \in StrictSubsetOrdering(S))
    BY <1>2, WFMin
<1>4. \A T, U \in Q : U \subseteq T /\ U # T => <<U, T>> \in StrictSubsetOrdering(S)
    BY DEF StrictSubsetOrdering
<1> QED BY <1>3, <1>4

\* Of a set that is not empty a member is chosen.
LEMMA AnyOfIsIn ==
    ASSUME NEW T, T # {}
    PROVE  AnyOf(T) \in T
BY DEF AnyOf

\* ... and of each set the sum is a member and the sum of the others.
LEMMA SumsOf ==
    ASSUME NEW sums, NEW f, NEW S, AreSums(sums, f, S), NEW T \in SUBSET S
    PROVE  sums[T] = AddUp(f, sums, T)
<1> HIDE DEF AddUp
<1> QED BY DEF AreSums

\* The sums of a set are those of any set that contains it.
LEMMA SumsAgree ==
    ASSUME NEW f, NEW S, NEW R, IsFiniteSet(S), NEW sums, NEW others,
           AreSums(sums, f, S), AreSums(others, f, R), NEW T \in SUBSET S, T \in SUBSET R
    PROVE  sums[T] = others[T]
<1> DEFINE Q == {U \in SUBSET S : U \in SUBSET R /\ sums[U] # others[U]}
<1> SUFFICES ASSUME Q # {} PROVE FALSE
    OBVIOUS
<1>1. PICK U \in Q : \A V \in Q : V \subseteq U => V = U
  <2>1. Q \in SUBSET SUBSET S
      OBVIOUS
  <2> HIDE DEF Q
  <2> QED BY <2>1, Smallest
<1>2. sums[U] = AddUp(f, sums, U) /\ others[U] = AddUp(f, others, U)
    BY SumsOf
<1>3. U # {}
    BY <1>2 DEF AddUp
<1>4. AnyOf(U) \in U
    BY <1>3, AnyOfIsIn
<1>5. sums[U \ {AnyOf(U)}] = others[U \ {AnyOf(U)}]
    BY <1>1, <1>4
<1> QED BY <1>2, <1>3, <1>5 DEF AddUp

\* There are such functions: the sums of the smallest set without them could be made of those
\* of the set without a member.
LEMMA SumsExist ==
    ASSUME NEW f, NEW S, IsFiniteSet(S)
    PROVE  \E sums : AreSums(sums, f, S)
<1> DEFINE Q == {U \in SUBSET S : ~ \E sums : AreSums(sums, f, U)}
<1> SUFFICES ASSUME Q # {} PROVE FALSE
    OBVIOUS
<1>1. PICK U \in Q : \A V \in Q : V \subseteq U => V = U
  <2>1. Q \in SUBSET SUBSET S
      OBVIOUS
  <2> HIDE DEF Q
  <2> QED BY <2>1, Smallest
<1> DEFINE Of(V) == Sums(f, V)
           rest(V) == V \ {AnyOf(V)}
           sums == [V \in SUBSET U |-> IF V = {} THEN 0 ELSE f[AnyOf(V)] + Of(rest(V))[rest(V)]]
<1>2. ASSUME NEW V \in SUBSET U, V # U PROVE AreSums(Of(V), f, V)
  <2>1. \E h : AreSums(h, f, V)
      BY <1>1, <1>2
  <2> HIDE DEF AreSums
  <2> QED BY <2>1 DEF Sums
<1>3. \A V \in SUBSET U : V # {} => rest(V) \in SUBSET U /\ rest(V) # U /\ rest(V) \in SUBSET V
    BY AnyOfIsIn
<1>4. ASSUME NEW V \in SUBSET U, V # U PROVE sums[V] = Of(V)[V]
  <2>1. Of(V)[V] = AddUp(f, Of(V), V)
    <3>1. AreSums(Of(V), f, V) /\ V \in SUBSET V
        BY <1>2, <1>4
    <3> HIDE DEF Of
    <3> QED BY <3>1, SumsOf
  <2>2. CASE V = {}
      BY <2>1, <2>2 DEF AddUp
  <2>3. CASE V # {}
    <3>1. rest(V) \in SUBSET V /\ rest(V) \in SUBSET U /\ rest(V) # U
        BY <1>3, <2>3
    <3>2. AreSums(Of(V), f, V) /\ AreSums(Of(rest(V)), f, rest(V))
        BY <1>2, <1>4, <3>1
    <3>3. IsFiniteSet(V)
        BY FS_Subset
    <3>4. Of(V)[rest(V)] = Of(rest(V))[rest(V)]
      <4> DEFINE A == Of(V)
                 B == Of(rest(V))
                 W == rest(V)
      <4>1. W \in SUBSET V /\ W \in SUBSET W /\ AreSums(A, f, V) /\ AreSums(B, f, W)
          BY <3>1, <3>2
      <4> HIDE DEF A, B, W
      <4>2. A[W] = B[W]
          BY <4>1, <3>3, SumsAgree
      <4> QED BY <4>2 DEF A, B, W
    <3> QED BY <2>1, <2>3, <3>4 DEF AddUp
  <2> QED BY <2>2, <2>3
<1>5. sums = [V \in SUBSET U |-> AddUp(f, sums, V)]
  <2>1. ASSUME NEW V \in SUBSET U PROVE sums[V] = AddUp(f, sums, V)
    <3>1. CASE V = {}
        BY <3>1 DEF AddUp
    <3>2. CASE V # {}
      <4>1. sums[rest(V)] = Of(rest(V))[rest(V)]
          BY <1>3, <1>4, <3>2
      <4>2. sums[V] = f[AnyOf(V)] + Of(rest(V))[rest(V)]
          BY <3>2
      <4> QED BY <3>2, <4>1, <4>2 DEF AddUp
    <3> QED BY <3>1, <3>2
  <2> HIDE DEF Of, rest
  <2> QED BY <2>1
<1>6. AreSums(sums, f, U)
  <2> HIDE DEF sums
  <2> QED BY <1>5 DEF AreSums
<1> QED BY <1>1, <1>6

\* Sums is one of them.
LEMMA SumsAre ==
    ASSUME NEW f, NEW S, IsFiniteSet(S)
    PROVE  AreSums(Sums(f, S), f, S)
<1> HIDE DEF AreSums
<1> QED BY SumsExist DEF Sums

\* Nothing adds up to zero.
LEMMA SumEmpty ==
    ASSUME NEW f
    PROVE  Sum(f, {}) = 0
BY FS_EmptySet, SumsAre, SumsOf DEF Sum, AddUp

\* Sums is what the iteration sets it to.
LEMMA SumFirst ==
    ASSUME NEW f, NEW S, IsFiniteSet(S), S # {}
    PROVE  Sum(f, S) = f[AnyOf(S)] + Sum(f, S \ {AnyOf(S)})
<1> DEFINE T == S \ {AnyOf(S)}
           a == Sums(f, S)
           b == Sums(f, T)
<1>1. IsFiniteSet(T) /\ T \in SUBSET S /\ T \in SUBSET T
    BY FS_Subset
<1>2. AreSums(a, f, S) /\ AreSums(b, f, T)
    BY <1>1, SumsAre
<1>3. a[S] = f[AnyOf(S)] + a[T]
    BY <1>2, SumsOf DEF AddUp
<1> HIDE DEF T, a, b
<1>4. a[T] = b[T]
    BY <1>1, <1>2, SumsAgree
<1> QED BY <1>3, <1>4 DEF a, b, T, Sum

\* A sum of integers is one.
LEMMA SumInt ==
    ASSUME NEW f, NEW S, IsFiniteSet(S), \A x \in S : f[x] \in Int
    PROVE  Sum(f, S) \in Int
<1> DEFINE Q == {T \in SUBSET S : Sum(f, T) \notin Int}
<1> SUFFICES ASSUME Q # {} PROVE FALSE
    OBVIOUS
<1>1. PICK T \in Q : \A U \in Q : U \subseteq T => U = T
  <2>1. Q \in SUBSET SUBSET S
      OBVIOUS
  <2> HIDE DEF Q
  <2> QED BY <2>1, Smallest
<1>2. T # {}
    BY SumEmpty
<1>3. AnyOf(T) \in T
    BY <1>2, AnyOfIsIn
<1>4. Sum(f, T \ {AnyOf(T)}) \in Int
    BY <1>1, <1>3
<1>5. Sum(f, T) = f[AnyOf(T)] + Sum(f, T \ {AnyOf(T)})
    BY <1>2, FS_Subset, SumFirst
<1> QED BY <1>3, <1>4, <1>5

\* Any element may be taken out of a sum.
LEMMA SumWithout ==
    ASSUME NEW f, NEW S, IsFiniteSet(S), \A x \in S : f[x] \in Int, NEW y \in S
    PROVE  Sum(f, S) = f[y] + Sum(f, S \ {y})
<1> DEFINE Q == {T \in SUBSET S : \E x \in T : Sum(f, T) # f[x] + Sum(f, T \ {x})}
<1> SUFFICES ASSUME Q # {} PROVE FALSE
    OBVIOUS
<1>1. PICK T \in Q : \A U \in Q : U \subseteq T => U = T
  <2>1. Q \in SUBSET SUBSET S
      OBVIOUS
  <2> HIDE DEF Q
  <2> QED BY <2>1, Smallest
<1>2. PICK x \in T : Sum(f, T) # f[x] + Sum(f, T \ {x})
    OBVIOUS
<1> DEFINE c == AnyOf(T)
<1>3. c \in T /\ IsFiniteSet(T) /\ IsFiniteSet(T \ {x})
    BY <1>2, FS_Subset, AnyOfIsIn
<1>4. Sum(f, T) = f[c] + Sum(f, T \ {c})
    BY <1>2, <1>3, SumFirst
<1>5. x # c
    BY <1>2, <1>4
<1>6. Sum(f, T \ {c}) = f[x] + Sum(f, (T \ {c}) \ {x})
  <2>1. T \ {c} \notin Q /\ T \ {c} \in SUBSET S /\ x \in T \ {c}
      BY <1>1, <1>3, <1>5
  <2> QED BY <2>1
<1>7. Sum(f, T \ {x}) = f[c] + Sum(f, (T \ {x}) \ {c})
  <2>1. T \ {x} \notin Q /\ T \ {x} \in SUBSET S /\ c \in T \ {x}
      BY <1>1, <1>2, <1>3, <1>5
  <2> QED BY <2>1
<1>8. (T \ {c}) \ {x} = (T \ {x}) \ {c}
    OBVIOUS
<1>9. f[x] \in Int /\ f[c] \in Int /\ Sum(f, (T \ {x}) \ {c}) \in Int
  <2>1. IsFiniteSet((T \ {x}) \ {c}) /\ \A z \in (T \ {x}) \ {c} : f[z] \in Int
      BY <1>3, FS_Subset
  <2> QED BY <1>2, <1>3, <2>1, SumInt
<1> HIDE DEF c, Q
<1>10. Sum(f, T) = f[c] + (f[x] + Sum(f, (T \ {x}) \ {c}))
    BY <1>4, <1>6, <1>8
<1> QED BY <1>2, <1>7, <1>9, <1>10

\* Zeros add up to zero.
LEMMA SumZero ==
    ASSUME NEW f, NEW S, IsFiniteSet(S), \A x \in S : f[x] = 0
    PROVE  Sum(f, S) = 0
<1> DEFINE Q == {T \in SUBSET S : Sum(f, T) # 0}
<1> SUFFICES ASSUME Q # {} PROVE FALSE
    OBVIOUS
<1>1. PICK T \in Q : \A U \in Q : U \subseteq T => U = T
  <2>1. Q \in SUBSET SUBSET S
      OBVIOUS
  <2> HIDE DEF Q
  <2> QED BY <2>1, Smallest
<1>2. T # {}
    BY SumEmpty
<1>3. AnyOf(T) \in T /\ Sum(f, T \ {AnyOf(T)}) = 0
    BY <1>1, <1>2, AnyOfIsIn
<1>4. Sum(f, T) = f[AnyOf(T)] + Sum(f, T \ {AnyOf(T)})
    BY <1>2, FS_Subset, SumFirst
<1> QED BY <1>3, <1>4

\* More is no less: each summand is, and what a larger set has besides is not negative.
LEMMA SumAtMost ==
    ASSUME NEW f, NEW g, NEW S, NEW R, IsFiniteSet(R), S \subseteq R,
           \A x \in R : f[x] \in Nat /\ g[x] \in Nat /\ (x \in S => f[x] <= g[x])
    PROVE  Sum(f, S) <= Sum(g, R)
<1> DEFINE Q == {T \in SUBSET R : ~ (Sum(f, S \cap T) <= Sum(g, T))}
<1>0. S \cap R = S
    OBVIOUS
<1> SUFFICES ASSUME Q # {} PROVE FALSE
    BY <1>0
<1>1. PICK T \in Q : \A U \in Q : U \subseteq T => U = T
  <2>1. Q \in SUBSET SUBSET R
      OBVIOUS
  <2> HIDE DEF Q
  <2> QED BY <2>1, Smallest
<1>2. T # {}
  <2>1. S \cap {} = {}
      OBVIOUS
  <2> QED BY <2>1, SumEmpty
<1>3. PICK x \in T : TRUE
    BY <1>2
<1>4. Sum(f, S \cap (T \ {x})) <= Sum(g, T \ {x})
    BY <1>1, <1>3
<1>5. /\ IsFiniteSet(T) /\ IsFiniteSet(S \cap T) /\ IsFiniteSet(T \ {x})
      /\ IsFiniteSet(S \cap (T \ {x}))
    BY FS_Subset
<1>6. Sum(g, T) = g[x] + Sum(g, T \ {x})
    BY <1>3, <1>5, SumWithout
<1>7. Sum(g, T \ {x}) \in Int /\ Sum(f, S \cap (T \ {x})) \in Int
    BY <1>5, SumInt
<1>8. CASE x \in S
  <2>1. Sum(f, S \cap T) = f[x] + Sum(f, (S \cap T) \ {x})
      BY <1>3, <1>5, <1>8, SumWithout
  <2>2. (S \cap T) \ {x} = S \cap (T \ {x})
      OBVIOUS
  <2> QED BY <1>3, <1>4, <1>6, <1>7, <1>8, <2>1, <2>2
<1>9. CASE x \notin S
  <2>1. S \cap T = S \cap (T \ {x})
      BY <1>9
  <2>2. Sum(f, S \cap T) = Sum(f, S \cap (T \ {x}))
      BY <2>1, Zenon
  <2>3. Sum(f, S \cap T) <= Sum(g, T)
    <3>1. x \in R
        OBVIOUS
    <3> HIDE DEF Q
    <3> QED BY <1>3, <1>4, <1>6, <1>7, <2>2, <3>1
  <2> QED BY <2>3
<1> QED BY <1>8, <1>9

\* The sum is of the values in the set, whatever the function's others are.
LEMMA SumSame ==
    ASSUME NEW f, NEW g, NEW S, IsFiniteSet(S),
           \A x \in S : f[x] = g[x] /\ f[x] \in Int
    PROVE  Sum(f, S) = Sum(g, S)
<1> DEFINE Q == {T \in SUBSET S : Sum(f, T) # Sum(g, T)}
<1> SUFFICES ASSUME Q # {} PROVE FALSE
    OBVIOUS
<1>1. PICK T \in Q : \A U \in Q : U \subseteq T => U = T
  <2>1. Q \in SUBSET SUBSET S
      OBVIOUS
  <2> HIDE DEF Q
  <2> QED BY <2>1, Smallest
<1>2. T # {}
    BY SumEmpty
<1>3. AnyOf(T) \in T /\ IsFiniteSet(T)
    BY <1>2, AnyOfIsIn, FS_Subset
<1>4. Sum(f, T \ {AnyOf(T)}) = Sum(g, T \ {AnyOf(T)})
    BY <1>1, <1>3
<1>5. Sum(f, T) = f[AnyOf(T)] + Sum(f, T \ {AnyOf(T)}) /\ Sum(g, T) = g[AnyOf(T)] + Sum(g, T \ {AnyOf(T)})
    BY <1>2, <1>3, SumFirst
<1> QED BY <1>3, <1>4, <1>5

\* With one summand another one the sum differs by as much.
LEMMA SumChanged ==
    ASSUME NEW f, NEW g, NEW S, IsFiniteSet(S), NEW y \in S,
           \A x \in S : f[x] \in Int /\ g[x] \in Int /\ (x # y => f[x] = g[x])
    PROVE  Sum(g, S) = Sum(f, S) + g[y] - f[y]
<1>1. IsFiniteSet(S \ {y})
    BY FS_Subset
<1>2. Sum(f, S) = f[y] + Sum(f, S \ {y}) /\ Sum(g, S) = g[y] + Sum(g, S \ {y})
    BY SumWithout
<1>3. Sum(f, S \ {y}) = Sum(g, S \ {y}) /\ Sum(f, S \ {y}) \in Int
    BY <1>1, SumSame, SumInt
<1> QED BY <1>2, <1>3

\* The sum of sums is the sum of the functions' sum.
LEMMA SumPlus ==
    ASSUME NEW f, NEW g, NEW h, NEW S, IsFiniteSet(S),
           \A x \in S : f[x] \in Int /\ g[x] \in Int /\ h[x] = f[x] + g[x]
    PROVE  Sum(h, S) = Sum(f, S) + Sum(g, S)
<1> DEFINE Q == {T \in SUBSET S : Sum(h, T) # Sum(f, T) + Sum(g, T)}
<1> SUFFICES ASSUME Q # {} PROVE FALSE
    OBVIOUS
<1>1. PICK T \in Q : \A U \in Q : U \subseteq T => U = T
  <2>1. Q \in SUBSET SUBSET S
      OBVIOUS
  <2> HIDE DEF Q
  <2> QED BY <2>1, Smallest
<1>2. IsFiniteSet(T) /\ \A x \in T : f[x] \in Int /\ g[x] \in Int /\ h[x] = f[x] + g[x]
    BY FS_Subset
<1>3. T # {}
  <2>1. Sum(h, {}) = 0 /\ Sum(f, {}) = 0 /\ Sum(g, {}) = 0
      BY SumEmpty
  <2>2. Sum(h, T) # Sum(f, T) + Sum(g, T)
      OBVIOUS
  <2> HIDE DEF Q
  <2>3. Sum(h, {}) = Sum(f, {}) + Sum(g, {})
      BY <2>1
  <2> QED BY <2>2, <2>3
<1>4. PICK y \in T : TRUE
    BY <1>3
<1>5. Sum(h, T \ {y}) = Sum(f, T \ {y}) + Sum(g, T \ {y})
    BY <1>1, <1>4
<1>6. /\ Sum(h, T) = h[y] + Sum(h, T \ {y})
      /\ Sum(f, T) = f[y] + Sum(f, T \ {y})
      /\ Sum(g, T) = g[y] + Sum(g, T \ {y})
  <2>1. \A x \in T : h[x] \in Int
      BY <1>2
  <2> QED BY <1>2, <2>1, SumWithout
<1>7. Sum(f, T \ {y}) \in Int /\ Sum(g, T \ {y}) \in Int
    BY <1>2, FS_Subset, SumInt
<1> QED BY <1>2, <1>4, <1>5, <1>6, <1>7

\* Numbers that are at most others and add up to no less are those.
LEMMA SumEqual ==
    ASSUME NEW f, NEW g, NEW S, IsFiniteSet(S),
           \A x \in S : f[x] \in Nat /\ g[x] \in Nat /\ f[x] <= g[x],
           Sum(g, S) <= Sum(f, S), NEW y \in S
    PROVE  f[y] = g[y]
<1>1. IsFiniteSet(S \ {y}) /\ \A x \in S : f[x] \in Int /\ g[x] \in Int
    BY FS_Subset
<1>2. Sum(f, S) = f[y] + Sum(f, S \ {y}) /\ Sum(g, S) = g[y] + Sum(g, S \ {y})
    BY <1>1, SumWithout
<1>3. Sum(f, S \ {y}) <= Sum(g, S \ {y})
  <2>1. S \ {y} \subseteq S \ {y}
      OBVIOUS
  <2>2. \A x \in S \ {y} : f[x] \in Nat /\ g[x] \in Nat /\ (x \in S \ {y} => f[x] <= g[x])
      OBVIOUS
  <2> QED BY <1>1, <2>1, <2>2, SumAtMost
<1>4. Sum(f, S \ {y}) \in Int /\ Sum(g, S \ {y}) \in Int
    BY <1>1, SumInt
<1> QED BY <1>2, <1>3, <1>4

\* The entries of a matrix add up to the same by rows and by columns.
Row(m, e, X) == [x \in X |-> m[e][x]]
Column(m, x, E) == [e \in E |-> m[e][x]]

\* A table's rows and its columns add up to the same.
LEMMA RowsAndColumns ==
    ASSUME NEW m, NEW E, NEW X, IsFiniteSet(E), IsFiniteSet(X),
           \A e \in E, x \in X : m[e][x] \in Int
    PROVE  Sum([e \in E |-> Sum(Row(m, e, X), X)], E) = Sum([x \in X |-> Sum(Column(m, x, E), E)], X)
<1> DEFINE rows == [e \in E |-> Sum(Row(m, e, X), X)]
           ColumnOf(x) == Column(m, x, E)
           Part(T) == [x \in X |-> Sum(ColumnOf(x), T)]
           Q == {T \in SUBSET E : Sum(rows, T) # Sum(Part(T), X)}
<1> SUFFICES ASSUME Q # {} PROVE FALSE
    OBVIOUS
<1>1. PICK T \in Q : \A U \in Q : U \subseteq T => U = T
  <2>1. Q \in SUBSET SUBSET E
      OBVIOUS
  <2> HIDE DEF Q
  <2> QED BY <2>1, Smallest
<1>2. IsFiniteSet(T) /\ T \in SUBSET E /\ Sum(rows, T) # Sum(Part(T), X)
    BY FS_Subset
<1>3. \A x \in X : \A e \in E : ColumnOf(x)[e] = m[e][x] /\ ColumnOf(x)[e] \in Int
    BY DEF Column
<1>4. \A e \in E : rows[e] = Sum(Row(m, e, X), X) /\ rows[e] \in Int
  <2>1. ASSUME NEW e \in E PROVE rows[e] = Sum(Row(m, e, X), X) /\ rows[e] \in Int
    <3>1. \A x \in X : Row(m, e, X)[x] \in Int
        BY DEF Row
    <3> QED BY <3>1, SumInt
  <2> QED BY <2>1
<1>5. ASSUME T = {} PROVE FALSE
  <2>1. \A x \in X : Part(T)[x] = 0
      BY <1>5, SumEmpty
  <2>2. Sum(Part(T), X) = 0
    <3> HIDE DEF Part
    <3> QED BY <2>1, SumZero
  <2>3. Sum(rows, T) = 0
      BY <1>5, SumEmpty
  <2> QED BY <1>2, <2>2, <2>3
<1>6. PICK y \in T : TRUE
    BY <1>5
<1>7. Sum(rows, T \ {y}) = Sum(Part(T \ {y}), X)
  <2>1. T \ {y} \in SUBSET E /\ T \ {y} \subseteq T /\ T \ {y} # T
      BY <1>2, <1>6
  <2>2. T \ {y} \notin Q
    <3> HIDE DEF Q
    <3> QED BY <1>1, <2>1
  <2> HIDE DEF rows, Part
  <2> QED BY <2>1, <2>2
<1>8. Sum(rows, T) = rows[y] + Sum(rows, T \ {y})
  <2> HIDE DEF rows
  <2> QED BY <1>2, <1>4, <1>6, SumWithout
<1>9. \A x \in X : Part(T)[x] = m[y][x] + Part(T \ {y})[x] /\ Part(T \ {y})[x] \in Int
  <2>1. ASSUME NEW x \in X PROVE Part(T)[x] = m[y][x] + Part(T \ {y})[x] /\ Part(T \ {y})[x] \in Int
    <3> DEFINE c == ColumnOf(x)
    <3>1. \A e \in T : c[e] = m[e][x] /\ c[e] \in Int
        BY <1>2, <1>3
    <3>2. IsFiniteSet(T \ {y}) /\ \A e \in T \ {y} : c[e] \in Int
        BY <1>2, <3>1, FS_Subset
    <3> HIDE DEF c
    <3>0. IsFiniteSet(T) /\ y \in T /\ \A e \in T : c[e] \in Int
        BY <1>2, <1>6, <3>1
    <3> HIDE DEF Q
    <3>3. Sum(c, T) = c[y] + Sum(c, T \ {y})
        BY <3>0, SumWithout
    <3>4. Sum(c, T \ {y}) \in Int
        BY <3>2, SumInt
    <3>5. Part(T)[x] = Sum(c, T) /\ Part(T \ {y})[x] = Sum(c, T \ {y})
        BY DEF c
    <3> QED BY <1>6, <3>1, <3>3, <3>4, <3>5
  <2> QED BY <2>1
<1>10. Sum(Part(T), X) = Sum(Row(m, y, X), X) + Sum(Part(T \ {y}), X)
  <2> DEFINE h == Part(T)
             f == Row(m, y, X)
             g == Part(T \ {y})
  <2>1. \A x \in X : f[x] \in Int /\ g[x] \in Int /\ h[x] = f[x] + g[x]
      BY <1>2, <1>6, <1>9 DEF Row
  <2> HIDE DEF h, f, g
  <2>2. Sum(h, X) = Sum(f, X) + Sum(g, X)
      BY <2>1, SumPlus
  <2> QED BY <2>2 DEF h, f, g
<1>11. y \in E
    BY <1>2, <1>6
<1> HIDE DEF rows, Part
<1> QED BY <1>2, <1>4, <1>7, <1>8, <1>10, <1>11

-----------------------------------------------------------------------------
(* Exposure.                                                               *)

\* The strategies that have reserved, what, and those whose order is on its way.
Held == {s \in Three : Portfolio!Reserved(s)}
Amounts == [s \in Three |-> reservation[s].amount]
OnWay == {s \in ordering : exposed[s] = 0}

\* Who has an order on its way has reserved what it may come to.
InFullReserved ==
    \A s \in ordering : reservation[s] = [status |-> "reserved", amount |-> Estimate[s]]

\* The inductive invariant of Exposure.
ExposureInv == Portfolio!TypeOK /\ InFullReserved /\ Portfolio!WithinLimit

\* What Exposure adds up are sums, before and after a step.
LEMMA ExposureSums ==
    /\ Portfolio!RealExposure = Sum(exposed, Three)
    /\ Portfolio!WithinLimit <=> Sum(exposed, Three) + Sum(Estimate, OnWay) <= ExposureLimit
    /\ Portfolio!WithinLimit' <=> Sum(exposed', Three) + Sum(Estimate, OnWay') <= ExposureLimit
BY DEF Portfolio!RealExposure, Portfolio!WithinLimit, Portfolio!OnTheWay, OnWay,
       Portfolio!MapThenSumSet, Portfolio!MapThenFoldSet,
       Sum, Sums, AreSums, AddUp, AnyOf

\* What is reserved is a sum.
LEMMA ReservedSum ==
    ASSUME Portfolio!TypeOK
    PROVE  Portfolio!ReservedExposure = Sum(Amounts, Held)
<1> DEFINE Fold(h) == h = [T \in SUBSET Held |->
                             IF T = {} THEN 0
                             ELSE reservation[AnyOf(T)].amount + h[T \ {AnyOf(T)}]]
           fold == CHOOSE h : Fold(h)
<1>1. Portfolio!ReservedExposure = fold[Held]
    BY DEF Portfolio!ReservedExposure, Portfolio!MapThenSumSet, Portfolio!MapThenFoldSet, Held, AnyOf
<1>2. \A T \in SUBSET Held : T # {} => Amounts[AnyOf(T)] = reservation[AnyOf(T)].amount
    BY AnyOfIsIn DEF Held, Amounts
<1>3. ASSUME NEW h PROVE Fold(h) <=> AreSums(h, Amounts, Held)
  <2>1. \A T \in SUBSET Held : AddUp(Amounts, h, T) =
            IF T = {} THEN 0 ELSE reservation[AnyOf(T)].amount + h[T \ {AnyOf(T)}]
      BY <1>2 DEF AddUp
  <2> HIDE DEF AddUp
  <2> QED BY <2>1 DEF AreSums
<1>4. IsFiniteSet(Held)
    BY ConstantsAssumption, FS_Subset DEF Held
<1>5. \E h : Fold(h)
    BY <1>3, <1>4, SumsExist
<1>6. Fold(fold)
  <2> HIDE DEF Fold
  <2> QED BY <1>5
<1> HIDE DEF fold, Fold
<1>7. AreSums(fold, Amounts, Held) /\ AreSums(Sums(Amounts, Held), Amounts, Held)
    BY <1>3, <1>4, <1>6, SumsAre
<1> QED BY <1>1, <1>4, <1>7, SumsAgree DEF Sum

\* The sets are finite, and the amounts numbers.
LEMMA ExposureNumbers ==
    ASSUME Portfolio!TypeOK
    PROVE  /\ ordering \in SUBSET Three /\ exposed \in [Three -> Nat]
           /\ IsFiniteSet(Three) /\ IsFiniteSet(OnWay) /\ IsFiniteSet(Held)
           /\ OnWay \in SUBSET Three /\ Held \in SUBSET Three
           /\ \A s \in Three : Estimate[s] \in Nat /\ Estimate[s] > 0
           /\ ExposureLimit \in Nat
           /\ Sum(exposed, Three) \in Int /\ Sum(Estimate, OnWay) \in Int
           /\ Sum(Amounts, Held) \in Int
           /\ \A s \in Held : Amounts[s] \in Nat
<1>1. /\ ordering \in SUBSET Three /\ exposed \in [Three -> Nat]
      /\ OnWay \in SUBSET Three /\ Held \in SUBSET Three
      /\ \A s \in Three : Estimate[s] \in Nat /\ Estimate[s] > 0
      /\ ExposureLimit \in Nat
    BY ConstantsAssumption DEF Portfolio!TypeOK, OnWay, Held, Portfolio!ConstantsOK
<1>2. IsFiniteSet(Three) /\ IsFiniteSet(OnWay) /\ IsFiniteSet(Held)
    BY <1>1, ConstantsAssumption, FS_Subset
<1>3. \A s \in Held : Amounts[s] \in Nat
    BY DEF Held, Amounts, Portfolio!TypeOK, Portfolio!Reserved, Portfolio!Reservations
<1> QED BY <1>1, <1>2, <1>3, SumInt

\* The limit is kept when an order arrives, or a position is given up.
LEMMA LimitKept ==
    ASSUME ExposureInv, NEW s \in Three, NEW n \in Nat, exposed' = [exposed EXCEPT ![s] = n],
           ordering' = ordering \ {s}, Portfolio!TypeOK',
           n <= exposed[s] \/ (n <= Estimate[s] /\ s \in OnWay)
    PROVE  Portfolio!WithinLimit'
<1>1. Portfolio!TypeOK /\ Sum(exposed, Three) + Sum(Estimate, OnWay) <= ExposureLimit
    BY ExposureSums DEF ExposureInv
<1>2. /\ exposed[s] \in Nat /\ exposed'[s] = n /\ exposed' \in [Three -> Nat]
      /\ \A t \in Three : t # s => exposed'[t] = exposed[t]
    BY <1>1 DEF Portfolio!TypeOK
<1>3. Sum(exposed', Three) = Sum(exposed, Three) + n - exposed[s]
  <2> DEFINE f == exposed
             g == exposed'
  <2>1. IsFiniteSet(Three)
      BY ConstantsAssumption
  <2>2. \A t \in Three : f[t] \in Int /\ g[t] \in Int /\ (t # s => f[t] = g[t])
      BY <1>1, <1>2 DEF Portfolio!TypeOK
  <2> HIDE DEF f, g
  <2>3. Sum(g, Three) = Sum(f, Three) + g[s] - f[s]
      BY <2>1, <2>2, SumChanged
  <2> QED BY <1>2, <2>3 DEF f, g
<1>4. OnWay' = OnWay \ {s}
    BY <1>1, <1>2, ExposureNumbers DEF OnWay
<1>5. IsFiniteSet(OnWay) /\ IsFiniteSet(OnWay \ {s}) /\ OnWay \ {s} \in SUBSET Three
    BY <1>1, ExposureNumbers, FS_Subset
<1>6. Sum(Estimate, OnWay \ {s}) \in Int
    BY <1>5, ExposureNumbers, <1>1, SumInt
<1>7. s \in OnWay => Sum(Estimate, OnWay) = Estimate[s] + Sum(Estimate, OnWay \ {s})
    BY <1>1, <1>5, ExposureNumbers, SumWithout
<1>8. s \notin OnWay => Sum(Estimate, OnWay \ {s}) = Sum(Estimate, OnWay)
  <2>1. s \notin OnWay => OnWay \ {s} = OnWay
      OBVIOUS
  <2> QED BY <2>1
<1>9. s \in OnWay => exposed[s] = 0
    BY DEF OnWay
<1>10. Sum(exposed', Three) + Sum(Estimate, OnWay \ {s}) <= ExposureLimit
    BY <1>1, <1>2, <1>3, <1>6, <1>7, <1>8, <1>9, ExposureNumbers
<1> QED BY <1>4, <1>10, ExposureSums

\* The check keeps the limit: what is on its way has been reserved, and counts.
LEMMA CheckExposure ==
    ASSUME ExposureInv, NEW s \in Three, Portfolio!Check(s)
    PROVE  ExposureInv'
<1>1. /\ s \notin ordering /\ ordering' = ordering \cup {s} /\ exposed' = exposed
      /\ reservation' = [reservation EXCEPT ![s] = [status |-> "reserved", amount |-> Estimate[s]]]
      /\ Portfolio!RealExposure + Portfolio!ReservedExposure + Estimate[s] <= ExposureLimit
    BY DEF Portfolio!Check, Portfolio!Fits
<1>2. Portfolio!TypeOK /\ InFullReserved
    BY DEF ExposureInv
<1>3. Portfolio!TypeOK'
    BY <1>1, <1>2, ExposureNumbers DEF Portfolio!TypeOK, Portfolio!Reservations, Portfolio!Statuses
<1>4. InFullReserved'
    BY <1>1, <1>2 DEF Portfolio!TypeOK, InFullReserved
<1>5. OnWay \in SUBSET Held /\ \A t \in OnWay : Amounts[t] = Estimate[t]
  <2>1. \A t \in OnWay : t \in Three /\ Estimate[t] \in Nat /\ reservation[t] = [status |-> "reserved", amount |-> Estimate[t]]
      BY <1>2, ExposureNumbers DEF OnWay, InFullReserved, Portfolio!TypeOK
  <2>2. ASSUME NEW t \in OnWay PROVE Amounts[t] = Estimate[t] /\ Portfolio!Reserved(t)
    <3> DEFINE m == Estimate[t]
    <3>0. t \in Three /\ m \in Nat /\ reservation[t] = [status |-> "reserved", amount |-> m]
        BY <2>1
    <3> HIDE DEF m
    <3>1. reservation[t].amount = m /\ reservation[t].status = "reserved"
        BY <3>0
    <3>2. reservation[t] \in Portfolio!Reservations
        BY <3>0 DEF Portfolio!Reservations, Portfolio!Statuses
    <3>3. reservation[t] # None
        BY <3>2, ConstantsAssumption DEF Portfolio!ConstantsOK
    <3>4. Amounts[t] = reservation[t].amount
        BY <2>1 DEF Amounts
    <3> QED BY <3>1, <3>3, <3>4 DEF Portfolio!Reserved, m
  <2> QED BY <2>1, <2>2 DEF Held
<1>6. Sum(Estimate, OnWay) <= Sum(Amounts, Held)
  <2>1. \A t \in Held : Estimate[t] \in Nat /\ Amounts[t] \in Nat /\ (t \in OnWay => Estimate[t] <= Amounts[t])
      BY <1>2, <1>5, ExposureNumbers
  <2> QED BY <1>2, <1>5, <2>1, ExposureNumbers, SumAtMost
<1>7. Sum(Estimate, OnWay \cup {s}) = Estimate[s] + Sum(Estimate, OnWay)
  <2>1. IsFiniteSet(OnWay \cup {s}) /\ s \in OnWay \cup {s} /\ OnWay \cup {s} \in SUBSET Three
      BY <1>2, ExposureNumbers, FS_AddElement
  <2>2. (OnWay \cup {s}) \ {s} = OnWay
      BY <1>1 DEF OnWay
  <2>3. \A t \in OnWay \cup {s} : Estimate[t] \in Int
      BY <1>2, <2>1, ExposureNumbers
  <2>4. Sum(Estimate, OnWay \cup {s}) = Estimate[s] + Sum(Estimate, (OnWay \cup {s}) \ {s})
      BY <2>1, <2>3, SumWithout
  <2> QED BY <2>1, <2>2, <2>3, <2>4
<1>8. Sum(Estimate, OnWay') <= Sum(Estimate, OnWay \cup {s})
  <2>1. OnWay' \subseteq OnWay \cup {s} /\ IsFiniteSet(OnWay \cup {s}) /\ OnWay \cup {s} \in SUBSET Three
      BY <1>1, <1>2, ExposureNumbers, FS_AddElement DEF OnWay
  <2>2. \A t \in OnWay \cup {s} : Estimate[t] \in Nat /\ Estimate[t] <= Estimate[t]
      BY <1>2, <2>1, ExposureNumbers
  <2> DEFINE W == OnWay'
             V == OnWay \cup {s}
  <2>3. W \subseteq V /\ IsFiniteSet(V)
      BY <2>1
  <2> HIDE DEF W, V
  <2>4. \A t \in V : Estimate[t] \in Nat /\ Estimate[t] \in Nat /\ (t \in W => Estimate[t] <= Estimate[t])
      BY <2>2 DEF V
  <2>5. Sum(Estimate, W) <= Sum(Estimate, V)
      BY <2>3, <2>4, SumAtMost
  <2> QED BY <2>5 DEF W, V
<1>9. Sum(exposed, Three) + Sum(Amounts, Held) + Estimate[s] <= ExposureLimit
    BY <1>1, <1>2, ExposureSums, ReservedSum
<1>10. Sum(Estimate, OnWay') \in Int
  <2>1. OnWay' \in SUBSET Three
      BY <1>3 DEF OnWay, Portfolio!TypeOK
  <2> DEFINE W == OnWay'
  <2>2. IsFiniteSet(W) /\ \A t \in W : Estimate[t] \in Int
      BY <1>2, <2>1, ExposureNumbers, FS_Subset
  <2> HIDE DEF W
  <2>3. Sum(Estimate, W) \in Int
      BY <2>2, SumInt
  <2> QED BY <2>3 DEF W
<1>11. Sum(exposed', Three) + Sum(Estimate, OnWay') <= ExposureLimit
  <2>1. Sum(exposed', Three) = Sum(exposed, Three)
      BY <1>1
  <2>2. /\ Sum(exposed, Three) \in Int /\ Sum(Amounts, Held) \in Int
        /\ Sum(Estimate, OnWay) \in Int /\ Sum(Estimate, OnWay \cup {s}) \in Int
      BY <1>2, <1>7, ExposureNumbers
  <2> DEFINE a == Sum(exposed, Three)
             b == Sum(Amounts, Held)
             c == Sum(Estimate, OnWay)
             d == Sum(Estimate, OnWay \cup {s})
             e == Sum(Estimate, OnWay')
             m == Estimate[s]
  <2>3. a \in Int /\ b \in Int /\ c \in Int /\ d \in Int /\ e \in Int
        /\ m \in Nat /\ ExposureLimit \in Nat
        /\ c <= b /\ d = m + c /\ e <= d /\ a + b + m <= ExposureLimit
      BY <1>2, <2>2, ExposureNumbers, <1>6, <1>7, <1>8, <1>9, <1>10
  <2> HIDE DEF a, b, c, d, e, m
  <2>4. a + e <= ExposureLimit
      BY <2>3
  <2> QED BY <2>1, <2>4 DEF a, e
<1> QED BY <1>3, <1>4, <1>11, ExposureSums DEF ExposureInv

\* No step exceeds the limit.
LEMMA ExposureStep ==
    ASSUME ExposureInv, Portfolio!Next \/ UNCHANGED exposureVars
    PROVE  ExposureInv'
<1>1. Portfolio!TypeOK /\ InFullReserved /\ Portfolio!WithinLimit
    BY DEF ExposureInv
<1>2. ASSUME NEW s \in Three, Portfolio!Check(s) PROVE ExposureInv'
    BY <1>2, CheckExposure
<1>3. ASSUME NEW s \in Three, NEW n \in Nat, exposed' = [exposed EXCEPT ![s] = n],
             n <= exposed[s] \/ (n <= Estimate[s] /\ s \in OnWay),
             ordering' = ordering \ {s}, Portfolio!TypeOK',
             \A t \in Three : t # s => reservation'[t] = reservation[t]
      PROVE  ExposureInv'
  <2>1. InFullReserved'
      BY <1>1, <1>3 DEF InFullReserved, Portfolio!TypeOK
  <2> QED BY <1>3, <2>1, LimitKept DEF ExposureInv
<1>4. ASSUME NEW s \in Three PROVE exposed[s] \in Nat /\ exposed = [exposed EXCEPT ![s] = exposed[s]]
    BY <1>1 DEF Portfolio!TypeOK
<1>5. ASSUME NEW s \in Three, Portfolio!Abandon(s) \/ Portfolio!Fail(s) PROVE ExposureInv'
  <2>1. ordering' = ordering \ {s} /\ exposed' = exposed
        /\ reservation' \in {reservation, [reservation EXCEPT ![s] = None]}
      BY <1>5 DEF Portfolio!Abandon, Portfolio!Fail
  <2>2. Portfolio!TypeOK' /\ \A t \in Three : t # s => reservation'[t] = reservation[t]
      BY <1>1, <2>1 DEF Portfolio!TypeOK
  <2>3. exposed' = [exposed EXCEPT ![s] = exposed[s]] /\ exposed[s] <= exposed[s]
      BY <1>4, <2>1
  <2> QED BY <1>3, <1>4, <2>1, <2>2, <2>3
<1>6. ASSUME NEW s \in Three, Portfolio!Execute(s) PROVE ExposureInv'
  <2>1. PICK done \in 0..Estimate[s], filled \in BOOLEAN :
          /\ s \in ordering
          /\ exposed[s] > 0 => done <= exposed[s]
          /\ ordering' = ordering \ {s}
          /\ reservation' = [reservation EXCEPT ![s] = Portfolio!Confirmed(s, done, filled)]
          /\ exposed' = [exposed EXCEPT ![s] = IF exposed[s] = 0 THEN done ELSE @ - done]
      BY <1>6 DEF Portfolio!Execute
  <2> DEFINE n == IF exposed[s] = 0 THEN done ELSE exposed[s] - done
  <2>2. n \in Nat /\ exposed' = [exposed EXCEPT ![s] = n]
        /\ (n <= exposed[s] \/ (n <= Estimate[s] /\ s \in OnWay))
      BY <1>4, <2>1 DEF OnWay
  <2>3. Portfolio!Confirmed(s, done, filled) \in Portfolio!Reservations
      BY <2>1 DEF Portfolio!Confirmed, Portfolio!Reservations, Portfolio!Statuses
  <2>4. Portfolio!TypeOK' /\ \A t \in Three : t # s => reservation'[t] = reservation[t]
    <3> HIDE DEF n
    <3> QED BY <1>1, <2>1, <2>2, <2>3 DEF Portfolio!TypeOK
  <2> HIDE DEF n
  <2> QED BY <1>3, <2>1, <2>2, <2>4
<1>7. ASSUME NEW s \in Three, Portfolio!Closed(s) PROVE ExposureInv'
  <2>1. /\ s \notin ordering /\ exposed' = [exposed EXCEPT ![s] = 0]
        /\ ordering' = ordering /\ reservation' = reservation
      BY <1>7 DEF Portfolio!Closed
  <2>2. ordering' = ordering \ {s} /\ 0 <= exposed[s]
      BY <1>4, <2>1
  <2>3. Portfolio!TypeOK'
      BY <1>1, <2>1 DEF Portfolio!TypeOK
  <2> QED BY <1>3, <2>1, <2>2, <2>3
<1>8. ASSUME Portfolio!Restart \/ UNCHANGED exposureVars PROVE ExposureInv'
  <2>1. /\ ordering' = ordering /\ exposed' = exposed
        /\ reservation' = reservation \/ (ordering = {} /\ reservation' = [s \in Three |-> None])
      BY <1>8 DEF Portfolio!Restart, exposureVars
  <2>2. Portfolio!TypeOK' /\ InFullReserved'
      BY <1>1, <2>1 DEF Portfolio!TypeOK, InFullReserved
  <2>3. OnWay' = OnWay
      BY <2>1 DEF OnWay
  <2>4. Portfolio!WithinLimit'
      BY <1>1, <2>1, <2>3, ExposureSums
  <2> QED BY <2>2, <2>4 DEF ExposureInv
<1> QED BY <1>2, <1>5, <1>6, <1>7, <1>8 DEF Portfolio!Next

\* Nothing is exposed at first.
LEMMA ExposureStarts ==
    ASSUME Portfolio!Init
    PROVE  ExposureInv
<1>1. Portfolio!TypeOK /\ InFullReserved
    BY DEF Portfolio!Init, Portfolio!TypeOK, InFullReserved
<1>2. OnWay = {} /\ \A s \in Three : exposed[s] = 0
    BY DEF Portfolio!Init, OnWay
<1>3. Sum(Estimate, OnWay) = 0
    BY <1>2, SumEmpty
<1>4. Sum(exposed, Three) = 0
    BY <1>2, ConstantsAssumption, SumZero
<1> QED BY <1>1, <1>3, <1>4, ExposureSums, ConstantsAssumption DEF ExposureInv, Portfolio!ConstantsOK

-----------------------------------------------------------------------------
(* RiskLimits.                                                             *)

\* What each strategy has gained since the strategy's window began.
SinceStart(s, w) == [x \in Strategies |-> realized[x][Limits!Start(s, w)]]

\* What the strategies of an account have lost is a number.
LEMMA AccountLossInt ==
    ASSUME Limits!TypeOK, NEW s \in Strategies, NEW w \in Limits!Windows
    PROVE  Limits!AccountLoss(s, w) \in Int
<1> DEFINE f == SinceStart(s, w)
           t == Limits!Start(s, w)
           Fold(h) == h = [T \in SUBSET Strategies |->
                             IF T = {} THEN 0
                             ELSE realized[AnyOf(T)][t] + h[T \ {AnyOf(T)}]]
           fold == CHOOSE h : Fold(h)
<1>1. Limits!AccountLoss(s, w) = fold[Strategies]
    BY DEF Limits!AccountLoss, Limits!MapThenSumSet, Limits!MapThenFoldSet, AnyOf
<1>2. \A T \in SUBSET Strategies : T # {} => f[AnyOf(T)] = realized[AnyOf(T)][t]
    BY AnyOfIsIn DEF SinceStart
<1> HIDE DEF f
<1>3. ASSUME NEW h PROVE Fold(h) <=> AreSums(h, f, Strategies)
  <2>1. \A T \in SUBSET Strategies : AddUp(f, h, T) =
            IF T = {} THEN 0 ELSE realized[AnyOf(T)][t] + h[T \ {AnyOf(T)}]
      BY <1>2 DEF AddUp
  <2> HIDE DEF AddUp, t
  <2> QED BY <2>1 DEF AreSums
<1>4. IsFiniteSet(Strategies)
    BY ConstantsAssumption
<1>5. \E h : Fold(h)
    BY <1>3, <1>4, SumsExist
<1>6. Fold(fold)
  <2> HIDE DEF Fold
  <2> QED BY <1>5
<1>7. \A x \in Strategies : f[x] \in Int
    BY DEF f, SinceStart, Limits!TypeOK, Limits!Start, Limits!Starts
<1> HIDE DEF fold, Fold
<1>8. AreSums(fold, f, Strategies) /\ AreSums(Sums(f, Strategies), f, Strategies)
    BY <1>3, <1>4, <1>6, SumsAre
<1>9. fold[Strategies] = Sum(f, Strategies)
    BY <1>4, <1>8, SumsAgree DEF Sum
<1> QED BY <1>1, <1>4, <1>7, <1>9, SumInt

\* Where the limits are of one unit, the lower one is the one that counts.
LEMMA MergedLimits ==
    ASSUME NEW a \in Limits!LimitType, NEW b \in Limits!LimitType, NEW n \in Int,
           ~Limits!Exceeded(n, Limits!Merged(a, b)),
           (a.usdt = 0 /\ b.usdt = 0) \/ (a.pct = 0 /\ b.pct = 0)
    PROVE  ~Limits!Exceeded(n, a)
<1> DEFINE Unit == Balance \div 100
<1>1. Unit \in Nat /\ Balance = 100 * Unit
    BY ConstantsAssumption DEF Limits!ConstantsOK
<1> HIDE DEF Unit
<1>2. ASSUME NEW l \in Limits!LimitType
      PROVE  Limits!Amount(l) = IF l.usdt # 0 THEN l.usdt ELSE l.pct * Unit
  <2>1. l.pct \in Nat
      BY DEF Limits!LimitType
  <2>2. l.pct * Unit \in Nat /\ l.pct * Balance = 100 * (l.pct * Unit)
      BY <1>1, <2>1
  <2>3. (l.pct * Balance) \div 100 = l.pct * Unit
      BY <2>2
  <2> QED BY <2>3 DEF Limits!Amount
<1>3. Limits!Merged(a, b) \in Limits!LimitType
    BY DEF Limits!Merged, Limits!Lower, Limits!LimitType
<1>4. /\ Limits!Merged(a, b).usdt = Limits!Lower(a.usdt, b.usdt)
      /\ Limits!Merged(a, b).pct = Limits!Lower(a.pct, b.pct)
    BY DEF Limits!Merged
<1>5. \A p, q \in Nat : p * Unit \in Nat /\ (p < q => p * Unit <= q * Unit)
    BY <1>1
<1>6. \A p \in Nat : p # 0 /\ Unit # 0 => p * Unit # 0
    BY <1>1
<1> QED BY <1>1, <1>2, <1>3, <1>4, <1>5, <1>6 DEF Limits!Lower, Limits!Exceeded, Limits!LimitType

\* A limit that is not set is not exceeded.
LEMMA UnsetLimits ==
    ASSUME NEW l \in Limits!LimitType, NEW n, ~Limits!IsSet(l)
    PROVE  ~Limits!Exceeded(n, l)
BY ConstantsAssumption DEF Limits!IsSet, Limits!Exceeded, Limits!Amount, Limits!LimitType, Limits!ConstantsOK

\* What the check does not refuse, neither the account's limits nor the strategy's own forbid.
LEMMA Allowed ==
    ASSUME Limits!TypeOK, NEW s \in Strategies, NEW w \in Limits!Windows,
           Limits!Refused(s, w) = "no", Limits!OneUnit(s, w)
    PROVE  /\ Limits!UnderAccount(s) => ~Limits!Exceeded(Limits!AccountLoss(s, w), limited[w])
           /\ own[s] # None => ~Limits!Exceeded(Limits!OwnLoss(s, w), own[s].limits[w])
<1>1. Limits!AccountLoss(s, w) \in Int
    BY AccountLossInt
<1>2. limited[w] \in Limits!LimitType
    BY ConstantsAssumption DEF Limits!TypeOK, Limits!ConstantsOK
<1>3. CASE own[s] = None
    BY <1>3 DEF Limits!Refused, Limits!Specific, Limits!Effective
<1>4. CASE own[s] # None
  <2>1. own[s].limits[w] \in Limits!LimitType
      BY <1>4, ConstantsAssumption DEF Limits!TypeOK, Limits!ConstantsOK
  <2>2. ~Limits!IsSet(own[s].limits[w]) => ~Limits!Exceeded(Limits!OwnLoss(s, w), own[s].limits[w])
      BY <2>1, UnsetLimits
  <2>3. CASE own[s].mode = "restrictive"
    <3>1. ~Limits!Exceeded(Limits!AccountLoss(s, w), Limits!Merged(limited[w], own[s].limits[w]))
        BY <1>4, <2>3 DEF Limits!Refused, Limits!Effective
    <3>2. ~Limits!Exceeded(Limits!AccountLoss(s, w), limited[w])
        BY <1>1, <1>2, <1>4, <2>1, <3>1, MergedLimits DEF Limits!OneUnit
    <3>3. Limits!IsSet(own[s].limits[w]) => ~Limits!Exceeded(Limits!OwnLoss(s, w), own[s].limits[w])
        BY <1>4, <2>3 DEF Limits!Refused, Limits!Specific
    <3> QED BY <2>2, <3>2, <3>3
  <2>4. CASE own[s].mode # "restrictive"
    <3>1. Limits!IsSet(own[s].limits[w]) => ~Limits!Exceeded(Limits!OwnLoss(s, w), own[s].limits[w])
        BY <1>4, <2>4 DEF Limits!Refused, Limits!Specific, Limits!Effective
    <3> QED BY <1>4, <2>2, <2>4, <3>1 DEF Limits!UnderAccount
  <2> QED BY <2>3, <2>4
<1> QED BY <1>3, <1>4

\* A strategy that stops closes its position, and is allowed no order.
LEMMA StoppedLimits ==
    ASSUME Limits!TypeOK, NEW x \in Strategies, Limits!Stopped(x)
    PROVE  /\ looping' \subseteq Strategies /\ allowed' \subseteq looping' /\ allowed' \subseteq allowed
           /\ openings' \subseteq Strategies
           /\ realized' \in [Strategies -> [Limits!Starts -> Int]] /\ closed' \in 0..MaxClosed
<1>1. looping' \subseteq Strategies /\ allowed' \subseteq looping' /\ allowed' \subseteq allowed
    BY DEF Limits!Stopped, Limits!TypeOK
<1>2. ASSUME NEW gain \in Gains, Limits!Realize(x, gain)
      PROVE  /\ openings' \subseteq Strategies
             /\ realized' \in [Strategies -> [Limits!Starts -> Int]] /\ closed' \in 0..MaxClosed
    BY <1>2, ConstantsAssumption DEF Limits!Realize, Limits!TypeOK, Limits!ConstantsOK
<1> QED BY <1>1, <1>2 DEF Limits!Stopped, Limits!TypeOK

\* An order is allowed by the check alone, which has just found the limits kept.
LEMMA LimitsStep ==
    ASSUME Limits!TypeOK, Limits!Next \/ UNCHANGED limitVars
    PROVE  /\ Limits!TypeOK'
           /\ \A s \in Strategies : s \in allowed' /\ s \notin allowed => Limits!WithinLimits(s)
<1> DEFINE Respected ==
      \A s \in Strategies : s \in allowed' /\ s \notin allowed => Limits!WithinLimits(s)
<1>1. ASSUME NEW s \in Strategies, Limits!Allow(s) PROVE Limits!TypeOK' /\ Respected
  <2>1. allowed' = allowed \cup {s} /\ s \in looping /\ Limits!Verdict(s) = "no"
        /\ UNCHANGED <<limited, own, clock, realized, openings, looping, pausing, closed>>
      BY <1>1 DEF Limits!Allow, Limits!Asking
  <2>2. Limits!TypeOK'
      BY <2>1 DEF Limits!TypeOK
  <2>3. Limits!Refused(s, "day") = "no" /\ Limits!Refused(s, "week") = "no"
      BY <2>1 DEF Limits!Verdict
  <2>4. Limits!WithinLimits(s)
      BY <2>3, Allowed DEF Limits!WithinLimits, Limits!Windows
  <2> QED BY <2>1, <2>2, <2>4
<1>2. ASSUME NEW s \in Strategies, Limits!Place(s) PROVE Limits!TypeOK' /\ Respected
  <2>1. allowed' = allowed \ {s} /\ UNCHANGED <<limited, own, clock, looping, pausing>>
      BY <1>2 DEF Limits!Place
  <2>2. ASSUME NEW gain \in Gains, Limits!Realize(s, gain)
        PROVE  /\ openings' \subseteq Strategies
               /\ realized' \in [Strategies -> [Limits!Starts -> Int]] /\ closed' \in 0..MaxClosed
      BY <2>2, ConstantsAssumption DEF Limits!Realize, Limits!TypeOK, Limits!ConstantsOK
  <2>3. /\ openings' \subseteq Strategies
        /\ realized' \in [Strategies -> [Limits!Starts -> Int]] /\ closed' \in 0..MaxClosed
      BY <1>2, <2>2 DEF Limits!Place, Limits!TypeOK
  <2> QED BY <2>1, <2>3 DEF Limits!TypeOK
<1>3. ASSUME NEW s \in Strategies, Limits!StopSelf(s) PROVE Limits!TypeOK' /\ Respected
  <2>1. Limits!Stopped(s) /\ UNCHANGED <<limited, own, clock, pausing>>
      BY <1>3 DEF Limits!StopSelf
  <2> QED BY <2>1, StoppedLimits DEF Limits!TypeOK
<1>4. ASSUME NEW s \in Strategies, Limits!BeginPause(s) PROVE Limits!TypeOK' /\ Respected
    BY <1>4 DEF Limits!BeginPause, Limits!TypeOK
<1>5. ASSUME NEW s \in Strategies, Limits!PauseNext(s) PROVE Limits!TypeOK' /\ Respected
  <2>1. PICK x \in pausing[s] :
          /\ Limits!Stopped(x) /\ UNCHANGED <<limited, own, clock>>
          /\ pausing' = IF x = s THEN [pausing EXCEPT ![s] = {}]
                        ELSE [pausing EXCEPT ![x] = {}, ![s] = @ \ {x}]
      BY <1>5 DEF Limits!PauseNext
  <2>2. x \in Strategies /\ pausing' \in [Strategies -> SUBSET Strategies]
      BY <2>1 DEF Limits!TypeOK
  <2> QED BY <2>1, <2>2, StoppedLimits DEF Limits!TypeOK
<1>6. ASSUME NEW s \in Strategies, Limits!Run(s) PROVE Limits!TypeOK' /\ Respected
    BY <1>6 DEF Limits!Run, Limits!TypeOK
<1>7. ASSUME Limits!Tick PROVE Limits!TypeOK' /\ Respected
    BY <1>7 DEF Limits!Tick, Limits!TypeOK
<1>8. ASSUME UNCHANGED limitVars PROVE Limits!TypeOK' /\ Respected
    BY <1>8 DEF limitVars, Limits!TypeOK
<1> QED BY <1>1, <1>2, <1>3, <1>4, <1>5, <1>6, <1>7, <1>8 DEF Limits!Next

\* The types hold at first.
LEMMA LimitsStart ==
    ASSUME Limits!Init
    PROVE  Limits!TypeOK
BY ConstantsAssumption DEF Limits!Init, Limits!TypeOK, Limits!ConstantsOK

\* The limit of the portfolio holds of what is exposed and of what the orders on their way
\* may come to; and no order is allowed that the losses of its strategy or account forbid.
THEOREM LimitsAreKept == Spec => LimitsKept
<1>1. Init => ExposureInv /\ Limits!TypeOK
    BY ExposureStarts, LimitsStart DEF Init
<1>2. ExposureInv /\ Limits!TypeOK /\ [Next]_vars => (ExposureInv /\ Limits!TypeOK)'
    BY PartsApart, ExposureStep, LimitsStep
<1>3. ExposureInv => Portfolio!WithinLimit
    BY DEF ExposureInv
<1>4. Limits!TypeOK /\ [Next]_vars =>
        [\A s \in Strategies : s \in allowed' /\ s \notin allowed => Limits!WithinLimits(s)]_(Limits!vars)
    BY PartsApart, LimitsStep
<1> QED BY <1>1, <1>2, <1>3, <1>4, PTL DEF Spec, LimitsKept, Limits!LimitsRespected

-----------------------------------------------------------------------------
(* CompletedTrades.                                                        *)

\* The entries; what a table m of matched quantities has of an entry, of an exit from some
\* entries, and of an exit.
Ins == Trades!Entries
AllocatedIn(m, e) == Sum(Row(m, e, Exits), Exits)
MatchedOf(m, x, S) == Sum(Column(m, x, Ins), S)
MatchedIn(m, x) == MatchedOf(m, x, Ins)

\* A call that goes through its entries, an exit with such a call, what is used up and full.
Matching(c) == at[c] \in {"match", "commit"}
BeingMatched(x) == \E c \in Calls : ExitOf[c] = x /\ Matching(c)
UsedUp(e) == Trades!Allocated(e) = EntryQty[e]
InFull(x) == Trades!Matched(x) = ExitQty[x]
\* What the exit of c has of the entries that c has gone through.
Passed(c) ==
    Trades!FoldFunctionOnSet(+, 0, Column(matched, ExitOf[c], Ins), Ins \ todo[c])
\* The entries of the position suffice for all exits.
Enough == Trades!Total(ExitQty) <= Trades!Total(Trades!NamedQty)

\* What a call carries from one step to the next covers what is left: another call may have
\* matched more since, never less.
CallRight(c) ==
    /\ at[c] = "asleep" => c \in External
    /\ at[c] = "commit" => unmatched[c] > 0 /\ todo[c] # {}
    /\ Matching(c) =>
         /\ unmatched[c] <= ExitQty[ExitOf[c]]
         /\ ExitQty[ExitOf[c]] <= unmatched[c] + Passed(c)
         /\ \A e \in todo[c] :
              /\ remaining[c][e] > 0
              /\ EntryQty[e] <= remaining[c][e] + Trades!Allocated(e)

\* A call goes on to the next entry when the last one is used up, or its exit is.
PassedUsedUp(c) ==
    Matching(c) /\ ExitOf[c] \notin cut /\ unmatched[c] > 0 =>
        \A e \in Named \ todo[c] : UsedUp(e) \/ InFull(ExitOf[c])

CallsRight == \A c \in Calls : CallRight(c) /\ PassedUsedUp(c)

\* What is matched uses up the entry or fills the exit.
PairsFill ==
    \A e \in Ins, x \in Exits : matched[e][x] > 0 => UsedUp(e) \/ InFull(x)

\* An exit that no call gave up is untouched, being matched, or full.
ExitRight(x) ==
    x \notin cut =>
      /\ BeingMatched(x) \/ Trades!Matched(x) = 0 \/ InFull(x)
      /\ (\E c \in Calls \ External : ExitOf[c] = x /\ at[c] = "done") =>
             BeingMatched(x) \/ InFull(x)

ExitsRight == Enough => \A x \in Exits : ExitRight(x)

\* The inductive invariant of CompletedTrades.
TradesInv ==
    /\ Trades!TypeOK /\ Trades!WithinQuantities
    /\ CallsRight /\ PairsFill /\ ExitsRight

\* Natural numbers add up to one.
LEMMA SumNat ==
    ASSUME NEW f, NEW S, IsFiniteSet(S), \A x \in S : f[x] \in Nat
    PROVE  Sum(f, S) \in Nat
<1>1. Sum(f, {}) <= Sum(f, S)
  <2>1. {} \subseteq S /\ \A x \in S : f[x] \in Nat /\ f[x] \in Nat /\ (x \in {} => f[x] <= f[x])
      OBVIOUS
  <2> QED BY <2>1, SumAtMost
<1>2. Sum(f, S) \in Int
  <2>1. \A x \in S : f[x] \in Int
      OBVIOUS
  <2> QED BY <2>1, SumInt
<1> QED BY <1>1, <1>2, SumEmpty

\* Tables of what is matched.
Pairs == [Ins -> [Exits -> Nat]]

\* The sets are finite, and the quantities positive.
LEMMA TradeSizes ==
    /\ IsFiniteSet(Ins) /\ IsFiniteSet(Exits) /\ Ins \subseteq Nat
    /\ \A e \in Ins : EntryQty[e] \in Nat
    /\ \A x \in Exits : ExitQty[x] \in Nat
    /\ \A c \in Calls : ExitOf[c] \in Exits
    /\ DOMAIN ExitQty = Exits /\ DOMAIN EntryQty = Ins
<1>1. /\ IsFiniteSet(Exits)
      /\ \A x \in Exits : ExitQty[x] \in Nat
      /\ \A c \in Calls : ExitOf[c] \in Exits
      /\ DOMAIN ExitQty = Exits /\ DOMAIN EntryQty = Ins
  <2>0. Trades!ConstantsOK
      BY ConstantsAssumption
  <2>1. ExitQty \in [Exits -> Nat] /\ Trades!IsFiniteSet(Exits) /\ ExitOf \in [Calls -> Exits]
      BY <2>0 DEF Trades!ConstantsOK
  <2>2. DOMAIN EntryQty = Ins
      BY DEF Ins, Trades!Entries
  <2>3. IsFiniteSet(Exits)
      BY <2>1 DEF Trades!IsFiniteSet, IsFiniteSet
  <2> QED BY <2>1, <2>2, <2>3
<1>2. Ins = 1..Len(EntryQty) /\ Len(EntryQty) \in Nat /\ \A e \in Ins : EntryQty[e] \in Nat
    BY ConstantsAssumption DEF Trades!ConstantsOK, Ins, Trades!Entries
<1>3. IsFiniteSet(1..Len(EntryQty))
  <2>1. 1 \in Int /\ Len(EntryQty) \in Int
      BY <1>2
  <2> QED BY <2>1, FS_Interval, Zenon
<1>4. IsFiniteSet(Ins)
    BY <1>2, <1>3, Zenon
<1> QED BY <1>1, <1>2, <1>4

\* The entries of the position are entries.
LEMMA NamedSizes == Named \subseteq Ins /\ IsFiniteSet(Named)
<1>1. Named \in SUBSET Ins
    BY ConstantsAssumption DEF Trades!ConstantsOK, Ins, Trades!Entries
<1>2. IsFiniteSet(Ins)
    BY TradeSizes
<1> QED BY <1>1, <1>2, FS_Subset

\* What CompletedTrades adds up are sums of the table, before and after a step.
LEMMA TradeSums ==
    ASSUME Trades!TypeOK
    PROVE  /\ matched \in Pairs
           /\ \A e \in Ins : Trades!Allocated(e) = AllocatedIn(matched, e)
           /\ \A x \in Exits : Trades!Matched(x) = MatchedIn(matched, x)
           /\ \A c \in Calls : Passed(c) = MatchedOf(matched, ExitOf[c], Ins \ todo[c])
           /\ \A e \in Ins : Trades!Allocated(e)' = AllocatedIn(matched', e)
           /\ \A x \in Exits : Trades!Matched(x)' = MatchedIn(matched', x)
           /\ \A c \in Calls : Passed(c)' = MatchedOf(matched', ExitOf[c], Ins \ todo'[c])
           /\ Enough <=> Sum(ExitQty, Exits) <= Sum(EntryQty, Named)
<1>1. matched \in Pairs
    BY DEF Trades!TypeOK, Pairs, Ins
<1>2. \A e \in Ins : Trades!Allocated(e) = AllocatedIn(matched, e)
                     /\ Trades!Allocated(e)' = AllocatedIn(matched', e)
    BY DEF Trades!Allocated, Trades!Total, Trades!FoldFunction, Trades!FoldFunctionOnSet,
           Trades!MapThenFoldSet, AllocatedIn, Row, Sum, Sums, AreSums, AddUp, AnyOf
<1>3. \A x \in Exits : Trades!Matched(x) = MatchedIn(matched, x)
                       /\ Trades!Matched(x)' = MatchedIn(matched', x)
    BY DEF Trades!Matched, Trades!Total, Trades!FoldFunction, Trades!FoldFunctionOnSet,
           Trades!MapThenFoldSet, MatchedIn, MatchedOf, Column, Ins, Sum, Sums, AreSums, AddUp, AnyOf
<1>4. \A c \in Calls : Passed(c) = MatchedOf(matched, ExitOf[c], Ins \ todo[c])
                       /\ Passed(c)' = MatchedOf(matched', ExitOf[c], Ins \ todo'[c])
    BY DEF Passed, Trades!FoldFunctionOnSet,
           Trades!MapThenFoldSet, MatchedOf, Column, Sum, Sums, AreSums, AddUp, AnyOf
<1>5. Enough <=> Sum(ExitQty, Exits) <= Sum(EntryQty, Named)
  <2> DEFINE n == Trades!NamedQty
  <2>1. /\ Trades!Total(ExitQty) = Sum(ExitQty, DOMAIN ExitQty)
        /\ Trades!Total(n) = Sum(n, DOMAIN n)
      BY DEF Trades!Total, Trades!FoldFunction, Trades!FoldFunctionOnSet,
           Trades!MapThenFoldSet, Sum, Sums, AreSums, AddUp, AnyOf
  <2>2. DOMAIN n = Named /\ \A e \in Named : n[e] = EntryQty[e] /\ n[e] \in Int
      BY TradeSizes, NamedSizes DEF Trades!NamedQty
  <2> HIDE DEF n
  <2>3. Sum(n, Named) = Sum(EntryQty, Named)
      BY <2>2, NamedSizes, SumSame
  <2> QED BY <2>1, <2>2, <2>3, TradeSizes DEF Enough, n
<1> QED BY <1>1, <1>2, <1>3, <1>4, <1>5

\* Sums of a table are natural numbers, and no part is more than the whole.
LEMMA PairSums ==
    ASSUME NEW m \in Pairs
    PROVE  /\ \A e \in Ins : AllocatedIn(m, e) \in Nat
           /\ \A x \in Exits : \A S \in SUBSET Ins :
                MatchedOf(m, x, S) \in Nat /\ MatchedOf(m, x, S) <= MatchedIn(m, x)
           /\ \A x \in Exits : MatchedIn(m, x) \in Nat
<1>1. ASSUME NEW e \in Ins PROVE AllocatedIn(m, e) \in Nat
  <2>1. \A x \in Exits : Row(m, e, Exits)[x] \in Nat
      BY DEF Row, Pairs
  <2> QED BY <2>1, TradeSizes, SumNat DEF AllocatedIn
<1>2. ASSUME NEW x \in Exits, NEW S \in SUBSET Ins
      PROVE  MatchedOf(m, x, S) \in Nat /\ MatchedOf(m, x, S) <= MatchedIn(m, x)
  <2> DEFINE f == Column(m, x, Ins)
  <2>1. \A e \in Ins : f[e] \in Nat /\ f[e] \in Nat /\ (e \in S => f[e] <= f[e])
      BY DEF Column, Pairs
  <2> HIDE DEF f
  <2>2. IsFiniteSet(S) /\ \A e \in S : f[e] \in Nat
      BY <2>1, TradeSizes, FS_Subset
  <2>3. Sum(f, S) \in Nat
      BY <2>2, SumNat
  <2>4. Sum(f, S) <= Sum(f, Ins)
      BY <2>1, TradeSizes, SumAtMost
  <2> QED BY <2>3, <2>4 DEF MatchedOf, MatchedIn, f
<1>3. \A x \in Exits : MatchedIn(m, x) \in Nat
    BY <1>2 DEF MatchedIn
<1> QED BY <1>1, <1>2, <1>3

\* More in one place of a table is as much more in its row and in its column, and nowhere else.
LEMMA PairAdded ==
    ASSUME NEW m \in Pairs, NEW n \in Pairs, NEW e \in Ins, NEW x \in Exits, NEW q \in Nat,
           n[e][x] = m[e][x] + q,
           \A f \in Ins, y \in Exits : f # e \/ y # x => n[f][y] = m[f][y]
    PROVE  /\ AllocatedIn(n, e) = AllocatedIn(m, e) + q
           /\ MatchedIn(n, x) = MatchedIn(m, x) + q
           /\ \A f \in Ins : f # e => AllocatedIn(n, f) = AllocatedIn(m, f)
           /\ \A y \in Exits : y # x => MatchedIn(n, y) = MatchedIn(m, y)
           /\ \A y \in Exits : \A S \in SUBSET Ins : MatchedOf(m, y, S) <= MatchedOf(n, y, S)
<1>2. \A f \in Ins, y \in Exits : m[f][y] \in Nat /\ n[f][y] \in Nat /\ m[f][y] <= n[f][y]
    BY DEF Pairs
<1>3. AllocatedIn(n, e) = AllocatedIn(m, e) + q
  <2> DEFINE f == Row(m, e, Exits)
             g == Row(n, e, Exits)
  <2>1. \A y \in Exits : f[y] \in Int /\ g[y] \in Int /\ (y # x => f[y] = g[y])
      BY <1>2 DEF Row
  <2>2. g[x] = f[x] + q /\ f[x] \in Int
      BY <1>2 DEF Row
  <2> HIDE DEF f, g
  <2>3. Sum(g, Exits) = Sum(f, Exits) + g[x] - f[x]
      BY <2>1, TradeSizes, SumChanged
  <2>4. Sum(f, Exits) \in Int
      BY <2>1, TradeSizes, SumInt
  <2> QED BY <2>2, <2>3, <2>4 DEF AllocatedIn, f, g
<1>4. MatchedIn(n, x) = MatchedIn(m, x) + q
  <2> DEFINE f == Column(m, x, Ins)
             g == Column(n, x, Ins)
  <2>1. \A d \in Ins : f[d] \in Int /\ g[d] \in Int /\ (d # e => f[d] = g[d])
      BY <1>2 DEF Column
  <2>2. g[e] = f[e] + q /\ f[e] \in Int
      BY <1>2 DEF Column
  <2> HIDE DEF f, g
  <2>0. IsFiniteSet(Ins) /\ e \in Ins
      BY TradeSizes
  <2>3. Sum(g, Ins) = Sum(f, Ins) + g[e] - f[e]
      BY ONLY <2>0, <2>1, SumChanged
  <2>4. Sum(f, Ins) \in Int
      BY <2>1, TradeSizes, SumInt
  <2> QED BY <2>2, <2>3, <2>4 DEF MatchedIn, MatchedOf, f, g
<1>5. \A f \in Ins : f # e => AllocatedIn(n, f) = AllocatedIn(m, f)
  <2>1. \A f \in Ins : f # e => Row(n, f, Exits) = Row(m, f, Exits)
      BY <1>2 DEF Row
  <2> QED BY <2>1 DEF AllocatedIn
<1>6. \A y \in Exits : y # x => MatchedIn(n, y) = MatchedIn(m, y)
  <2>1. \A y \in Exits : y # x => \A f \in Ins : n[f][y] = m[f][y]
      BY <1>2
  <2>2. \A y \in Exits : y # x => Column(n, y, Ins) = Column(m, y, Ins)
      BY <2>1 DEF Column
  <2> QED BY <2>2 DEF MatchedIn, MatchedOf
<1>7. ASSUME NEW y \in Exits, NEW S \in SUBSET Ins
      PROVE  MatchedOf(m, y, S) <= MatchedOf(n, y, S)
  <2> DEFINE f == Column(m, y, Ins)
             g == Column(n, y, Ins)
  <2>1. \A d \in S : f[d] \in Nat /\ g[d] \in Nat /\ (d \in S => f[d] <= g[d])
      BY <1>2 DEF Column
  <2> HIDE DEF f, g
  <2>2. IsFiniteSet(S) /\ S \subseteq S
      BY TradeSizes, FS_Subset
  <2>3. Sum(f, S) <= Sum(g, S)
      BY <2>1, <2>2, SumAtMost
  <2> QED BY <2>3 DEF MatchedOf, f, g
<1> QED BY <1>3, <1>4, <1>5, <1>6, <1>7

\* An entry more that has been passed.
LEMMA PairPassed ==
    ASSUME NEW m \in Pairs, NEW x \in Exits, NEW S \in SUBSET Ins, NEW e \in Ins, e \notin S
    PROVE  MatchedOf(m, x, S \cup {e}) = m[e][x] + MatchedOf(m, x, S)
<1> DEFINE f == Column(m, x, Ins)
           T == S \cup {e}
<1>1. \A d \in T : f[d] \in Int
    BY DEF Column, Pairs
<1>2. f[e] = m[e][x] /\ T \ {e} = S /\ e \in T
    BY DEF Column
<1>3. IsFiniteSet(T)
  <2>1. T \in SUBSET Ins
      OBVIOUS
  <2>2. IsFiniteSet(Ins)
      BY TradeSizes
  <2> QED BY <2>1, <2>2, FS_Subset
<1> HIDE DEF f, T
<1>4. Sum(f, T) = f[e] + Sum(f, T \ {e})
    BY <1>1, <1>2, <1>3, SumWithout
<1> QED BY <1>2, <1>4 DEF MatchedOf, f, T

\* Entries that are used up suffice for all exits.
LEMMA AllInFull ==
    ASSUME NEW m \in Pairs, Sum(ExitQty, Exits) <= Sum(EntryQty, Named),
           \A e \in Named : AllocatedIn(m, e) = EntryQty[e],
           \A x \in Exits : MatchedIn(m, x) <= ExitQty[x], NEW y \in Exits
    PROVE  MatchedIn(m, y) = ExitQty[y]
<1> DEFINE a == [e \in Ins |-> Sum(Row(m, e, Exits), Exits)]
           b == [x \in Exits |-> Sum(Column(m, x, Ins), Ins)]
<1>1. Sum(a, Ins) = Sum(b, Exits)
  <2>1. \A e \in Ins, x \in Exits : m[e][x] \in Int
      BY DEF Pairs
  <2>2. IsFiniteSet(Ins) /\ IsFiniteSet(Exits)
      BY TradeSizes
  <2>3. Sum([e \in Ins |-> Sum(Row(m, e, Exits), Exits)], Ins)
          = Sum([x \in Exits |-> Sum(Column(m, x, Ins), Ins)], Exits)
      BY <2>1, <2>2, RowsAndColumns
  <2> QED BY <2>3, Zenon
<1>2. \A e \in Ins : /\ EntryQty[e] \in Nat /\ a[e] \in Nat
                     /\ e \in Named => EntryQty[e] <= a[e]
    BY TradeSizes, PairSums DEF AllocatedIn
<1>3. \A x \in Exits : b[x] \in Nat /\ ExitQty[x] \in Nat /\ b[x] <= ExitQty[x]
    BY PairSums, TradeSizes DEF MatchedIn, MatchedOf
<1>4. b[y] = MatchedIn(m, y)
    BY DEF MatchedIn, MatchedOf
<1> HIDE DEF a, b
<1>5. Sum(EntryQty, Named) <= Sum(a, Ins)
    BY <1>2, TradeSizes, NamedSizes, SumAtMost
<1>6. Sum(ExitQty, Exits) <= Sum(b, Exits)
  <2>1. /\ \A x \in Exits : ExitQty[x] \in Int
        /\ \A e \in Named : EntryQty[e] \in Int
        /\ \A e \in Ins : a[e] \in Int
        /\ IsFiniteSet(Exits) /\ IsFiniteSet(Ins) /\ IsFiniteSet(Named)
      BY <1>2, TradeSizes, NamedSizes, FS_Subset
  <2>2. Sum(ExitQty, Exits) \in Int /\ Sum(EntryQty, Named) \in Int /\ Sum(a, Ins) \in Int
      BY <2>1, SumInt
  <2> QED BY <1>1, <1>5, <2>2
<1>7. b[y] = ExitQty[y]
    BY <1>3, <1>6, TradeSizes, SumEqual
<1> QED BY <1>4, <1>7

\* What is added up is a natural number, before and after a step.
LEMMA TradeNumbers ==
    /\ Trades!TypeOK =>
         /\ \A e \in Ins : Trades!Allocated(e) \in Nat
         /\ \A x \in Exits : Trades!Matched(x) \in Nat
         /\ \A c \in Calls : Passed(c) \in Nat /\ Passed(c) <= Trades!Matched(ExitOf[c])
         /\ todo \in [Calls -> SUBSET Ins] /\ remaining \in [Calls -> [Ins -> Nat]]
         /\ unmatched \in [Calls -> Nat]
    /\ Trades!TypeOK /\ Trades!TypeOK' =>
         /\ \A e \in Ins : Trades!Allocated(e)' \in Nat
         /\ \A x \in Exits : Trades!Matched(x)' \in Nat
         /\ \A c \in Calls : Passed(c)' \in Nat /\ Passed(c)' <= Trades!Matched(ExitOf[c])'
         /\ todo' \in [Calls -> SUBSET Ins] /\ remaining' \in [Calls -> [Ins -> Nat]]
         /\ unmatched' \in [Calls -> Nat]
<1>1. ASSUME Trades!TypeOK
      PROVE  /\ \A e \in Ins : Trades!Allocated(e) \in Nat
             /\ \A x \in Exits : Trades!Matched(x) \in Nat
             /\ \A c \in Calls : Passed(c) \in Nat /\ Passed(c) <= Trades!Matched(ExitOf[c])
  <2>1. \A c \in Calls : ExitOf[c] \in Exits /\ Ins \ todo[c] \in SUBSET Ins
      BY TradeSizes
  <2> QED BY <1>1, <2>1, TradeSums, PairSums
<1>2. ASSUME Trades!TypeOK, Trades!TypeOK'
      PROVE  /\ \A e \in Ins : Trades!Allocated(e)' \in Nat
             /\ \A x \in Exits : Trades!Matched(x)' \in Nat
             /\ \A c \in Calls : Passed(c)' \in Nat /\ Passed(c)' <= Trades!Matched(ExitOf[c])'
  <2>1. matched' \in Pairs
      BY <1>2 DEF Trades!TypeOK, Pairs, Ins
  <2>2. \A c \in Calls : ExitOf[c] \in Exits /\ Ins \ todo'[c] \in SUBSET Ins
      BY TradeSizes
  <2> DEFINE n == matched'
  <2>3. n \in Pairs
      BY <2>1
  <2> HIDE DEF n
  <2>4. /\ \A e \in Ins : AllocatedIn(n, e) \in Nat
        /\ \A x \in Exits : \A S \in SUBSET Ins :
                MatchedOf(n, x, S) \in Nat /\ MatchedOf(n, x, S) <= MatchedIn(n, x)
        /\ \A x \in Exits : MatchedIn(n, x) \in Nat
      BY <2>3, PairSums
  <2> QED BY <1>2, <2>2, <2>4, TradeSums DEF n
<1>3. /\ Trades!TypeOK => /\ todo \in [Calls -> SUBSET Ins] /\ remaining \in [Calls -> [Ins -> Nat]]
                          /\ unmatched \in [Calls -> Nat]
      /\ Trades!TypeOK' => /\ todo' \in [Calls -> SUBSET Ins] /\ remaining' \in [Calls -> [Ins -> Nat]]
                           /\ unmatched' \in [Calls -> Nat]
    BY DEF Trades!TypeOK, Ins
<1> QED BY <1>1, <1>2, <1>3

\* The entries and exits have been matched with no less.
Grown ==
    /\ \A e \in Ins : Trades!Allocated(e) <= Trades!Allocated(e)'
    /\ \A x \in Exits : \A S \in SUBSET Ins : MatchedOf(matched, x, S) <= MatchedOf(matched', x, S)

\* What is used up, and what is matched in full, stays so.
LEMMA StaysFull ==
    ASSUME Trades!TypeOK, Trades!TypeOK', Trades!WithinQuantities', Grown
    PROVE  /\ \A e \in Ins : UsedUp(e) => UsedUp(e)'
           /\ \A x \in Exits : Trades!Matched(x) <= Trades!Matched(x)' /\ (InFull(x) => InFull(x)')
<1>1. \A x \in Exits : Trades!Matched(x) <= Trades!Matched(x)'
  <2>1. \A x \in Exits : MatchedIn(matched, x) <= MatchedIn(matched', x)
      BY DEF Grown, MatchedIn
  <2> QED BY <2>1, TradeSums
<1>2. /\ \A e \in Ins : Trades!Allocated(e)' <= EntryQty[e]
      /\ \A x \in Exits : Trades!Matched(x)' <= ExitQty[x]
    BY DEF Trades!WithinQuantities, Ins
<1>3. ASSUME NEW e \in Ins, UsedUp(e) PROVE UsedUp(e)'
  <2>1. /\ Trades!Allocated(e) = EntryQty[e] /\ Trades!Allocated(e) <= Trades!Allocated(e)'
        /\ Trades!Allocated(e)' <= EntryQty[e]
        /\ EntryQty[e] \in Nat /\ Trades!Allocated(e)' \in Nat
      BY <1>2, <1>3, TradeNumbers, TradeSizes DEF Grown, UsedUp
  <2> QED BY <2>1 DEF UsedUp
<1>4. ASSUME NEW x \in Exits, InFull(x) PROVE InFull(x)'
  <2>1. /\ Trades!Matched(x) = ExitQty[x] /\ Trades!Matched(x) <= Trades!Matched(x)'
        /\ Trades!Matched(x)' <= ExitQty[x]
        /\ ExitQty[x] \in Nat /\ Trades!Matched(x)' \in Nat
      BY <1>1, <1>2, <1>4, TradeNumbers, TradeSizes DEF InFull
  <2> QED BY <2>1 DEF InFull
<1> QED BY <1>1, <1>3, <1>4

\* Of a call that does not move all stays true.
LEMMA CallKept ==
    ASSUME TradesInv, Trades!TypeOK', Trades!WithinQuantities', Grown, cut \subseteq cut',
           NEW d \in Calls, at'[d] = at[d], todo'[d] = todo[d],
           remaining'[d] = remaining[d], unmatched'[d] = unmatched[d]
    PROVE  CallRight(d)' /\ PassedUsedUp(d)'
<1>1. Trades!TypeOK /\ CallRight(d) /\ PassedUsedUp(d) /\ ExitOf[d] \in Exits
    BY TradeSizes DEF TradesInv, CallsRight
<1>2. Passed(d) <= Passed(d)'
  <2>1. Ins \ todo[d] \in SUBSET Ins
      OBVIOUS
  <2>2. MatchedOf(matched, ExitOf[d], Ins \ todo[d]) <= MatchedOf(matched', ExitOf[d], Ins \ todo[d])
      BY <1>1, <2>1 DEF Grown
  <2> QED BY <1>1, <2>2, TradeSums
<1>3. Matching(d)' <=> Matching(d)
    BY DEF Matching
<1>4. CallRight(d)'
  <2>1. ASSUME Matching(d)
        PROVE  /\ unmatched[d] <= ExitQty[ExitOf[d]]
               /\ ExitQty[ExitOf[d]] <= unmatched[d] + Passed(d)'
               /\ \A e \in todo[d] :
                    /\ remaining[d][e] > 0
                    /\ EntryQty[e] <= remaining[d][e] + Trades!Allocated(e)'
    <3>1. /\ unmatched[d] <= ExitQty[ExitOf[d]]
          /\ ExitQty[ExitOf[d]] <= unmatched[d] + Passed(d)
          /\ \A e \in todo[d] :
               /\ remaining[d][e] > 0
               /\ EntryQty[e] <= remaining[d][e] + Trades!Allocated(e)
        BY <1>1, <2>1 DEF CallRight
    <3>2. \A e \in todo[d] : e \in Ins /\ EntryQty[e] \in Nat /\ remaining[d][e] \in Nat
                             /\ Trades!Allocated(e) \in Nat /\ Trades!Allocated(e)' \in Nat
                             /\ Trades!Allocated(e) <= Trades!Allocated(e)'
        BY <1>1, TradeNumbers, TradeSizes DEF Grown
    <3>3. /\ Passed(d) \in Nat /\ Passed(d)' \in Nat /\ unmatched[d] \in Nat
          /\ ExitQty[ExitOf[d]] \in Nat
        BY <1>1, TradeNumbers, TradeSizes
    <3> QED BY <1>2, <3>1, <3>2, <3>3
  <2> QED BY <1>1, <1>3, <2>1 DEF CallRight
<1>5. PassedUsedUp(d)'
  <2>1. /\ \A e \in Ins : UsedUp(e) => UsedUp(e)'
        /\ InFull(ExitOf[d]) => InFull(ExitOf[d])'
      BY <1>1, StaysFull
  <2> QED BY <1>1, <1>3, <2>1, TradeSizes, NamedSizes DEF PassedUsedUp
<1> QED BY <1>4, <1>5

\* A step of a call keeps the invariant if it leaves the call, and its exit, as they have to be.
LEMMA StepKept ==
    ASSUME TradesInv, Trades!TypeOK', Trades!WithinQuantities', PairsFill', Grown,
           NEW c \in Calls, NEW p, at' = [at EXCEPT ![c] = p],
           \A d \in Calls : d # c =>
               todo'[d] = todo[d] /\ remaining'[d] = remaining[d] /\ unmatched'[d] = unmatched[d],
           cut \subseteq cut', cut' \subseteq cut \cup {ExitOf[c]},
           \A y \in Exits : y # ExitOf[c] => Trades!Matched(y)' = Trades!Matched(y),
           CallRight(c)', PassedUsedUp(c)',
           \/ ExitOf[c] \in cut' \/ Matching(c)' \/ (Enough => InFull(ExitOf[c])')
           \/ /\ matched' = matched /\ ~Matching(c)
              /\ p = "done" /\ c \notin External /\ Enough =>
                    BeingMatched(ExitOf[c]) \/ InFull(ExitOf[c])
    PROVE  TradesInv'
<1>1. Trades!TypeOK /\ CallsRight /\ ExitsRight /\ at \in [Calls -> Trades!Places]
    BY DEF TradesInv, Trades!TypeOK
<1>2. at'[c] = p /\ \A d \in Calls : d # c => at'[d] = at[d]
    BY <1>1
<1>3. CallsRight'
    BY <1>2, CallKept DEF CallsRight
<1>4. ASSUME NEW y \in Exits, y # ExitOf[c], ExitRight(y)
      PROVE  ExitRight(y)'
  <2>1. BeingMatched(y)' <=> BeingMatched(y)
      BY <1>2, <1>4 DEF BeingMatched, Matching
  <2>2. InFull(y)' <=> InFull(y)
      BY <1>4 DEF InFull
  <2>3. (\E d \in Calls \ External : ExitOf[d] = y /\ at'[d] = "done")
          => (\E d \in Calls \ External : ExitOf[d] = y /\ at[d] = "done")
      BY <1>2, <1>4
  <2>4. y \notin cut' => y \notin cut
      OBVIOUS
  <2>5. Trades!Matched(y)' = Trades!Matched(y)
      BY <1>4
  <2> QED BY <1>4, <2>1, <2>2, <2>3, <2>4, <2>5 DEF ExitRight
<1> DEFINE x == ExitOf[c]
<1>5. ASSUME Enough, ExitRight(x) PROVE ExitRight(x)'
  <2>1. CASE x \in cut' \/ Matching(c)' \/ InFull(x)'
      BY <2>1 DEF ExitRight, BeingMatched
  <2>2. CASE x \notin cut' /\ matched' = matched /\ ~Matching(c) /\ ~Matching(c)'
             /\ (p = "done" /\ c \notin External => BeingMatched(x) \/ InFull(x))
    <3>1. BeingMatched(x)' <=> BeingMatched(x)
        BY <1>2, <2>2 DEF BeingMatched, Matching
    <3>2. Trades!Matched(x)' = Trades!Matched(x) /\ (InFull(x)' <=> InFull(x))
        BY <2>2 DEF InFull, Trades!Matched
    <3>3. (\E d \in Calls \ External : ExitOf[d] = x /\ at'[d] = "done")
            => (\E d \in Calls \ External : ExitOf[d] = x /\ at[d] = "done")
               \/ (p = "done" /\ c \notin External)
        BY <1>2
    <3>4. x \notin cut
        BY <2>2
    <3> HIDE DEF x
    <3> QED BY <1>5, <2>2, <3>1, <3>2, <3>3, <3>4 DEF ExitRight
  <2> QED BY <1>5, <2>1, <2>2
<1>6. ExitsRight'
  <2>1. Enough' <=> Enough
      BY DEF Enough
  <2>2. ASSUME Enough, NEW y \in Exits PROVE ExitRight(y)'
    <3>1. ExitRight(y)
        BY <1>1, <2>2 DEF ExitsRight
    <3> QED BY <1>4, <1>5, <2>2, <3>1
  <2> QED BY <2>1, <2>2 DEF ExitsRight
<1> QED BY <1>3, <1>6 DEF TradesInv

\* A step that matches nothing changes no sum.
LEMMA NothingMatched ==
    ASSUME TradesInv, Trades!TypeOK', matched' = matched
    PROVE  /\ Trades!WithinQuantities' /\ PairsFill' /\ Grown
           /\ \A y \in Exits : Trades!Matched(y)' = Trades!Matched(y)
           /\ \A e \in Ins : Trades!Allocated(e)' = Trades!Allocated(e)
<1>1. /\ \A y \in Exits : Trades!Matched(y)' = Trades!Matched(y)
      /\ \A e \in Ins : Trades!Allocated(e)' = Trades!Allocated(e)
    BY DEF Trades!Matched, Trades!Allocated
<1>2. Trades!WithinQuantities'
    BY <1>1 DEF TradesInv, Trades!WithinQuantities, Ins
<1>3. PairsFill'
    BY <1>1 DEF TradesInv, PairsFill, UsedUp, InFull
<1>4. Grown
  <2>1. \A e \in Ins : Trades!Allocated(e) <= Trades!Allocated(e)'
      BY <1>1, TradeNumbers DEF TradesInv
  <2>2. \A x \in Exits : \A S \in SUBSET Ins : MatchedOf(matched, x, S) <= MatchedOf(matched', x, S)
    <3>1. matched \in Pairs
        BY TradeSums DEF TradesInv
    <3> QED BY <3>1, PairSums
  <2> QED BY <2>1, <2>2 DEF Grown
<1> QED BY <1>1, <1>2, <1>3, <1>4

\* A finite set of numbers has a least one.
LEMMA LeastOf ==
    ASSUME NEW S, IsFiniteSet(S), S \subseteq Int, S # {}
    PROVE  \E m \in S : \A n \in S : m <= n
<1> DEFINE Q == {T \in SUBSET S : T # {} /\ ~ (\E m \in T : \A n \in T : m <= n)}
<1> SUFFICES ASSUME Q # {} PROVE FALSE
    OBVIOUS
<1>1. PICK T \in Q : \A U \in Q : U \subseteq T => U = T
  <2>1. Q \in SUBSET SUBSET S
      OBVIOUS
  <2>2. IsFiniteSet(S) /\ Q # {}
      OBVIOUS
  <2> HIDE DEF Q
  <2> QED BY ONLY <2>1, <2>2, Smallest
<1>2. PICK x \in T : TRUE
    OBVIOUS
<1>3. T \ {x} # {}
    BY <1>2
<1>4. PICK m \in T \ {x} : \A n \in T \ {x} : m <= n
  <2>1. T \ {x} \in SUBSET S /\ T \ {x} \subseteq T /\ T \ {x} # T
      BY <1>2
  <2>2. T \ {x} \notin Q
    <3> HIDE DEF Q
    <3> QED BY <1>1, <2>1
  <2> QED BY <1>3, <2>1, <2>2
<1> QED BY <1>2, <1>4

\* Whoever has an entry to match has an oldest one.
LEMMA OldestIn ==
    ASSUME Trades!TypeOK, NEW c \in Calls, todo[c] # {}
    PROVE  Trades!Oldest(c) \in todo[c] /\ Trades!Oldest(c) \in Ins
<1> DEFINE S == todo[c]
<1>1. S \in SUBSET Ins /\ S \subseteq Nat /\ S # {}
    BY TradeNumbers, TradeSizes
<1>2. \E e \in S : \A d \in S : e <= d
  <2>1. IsFiniteSet(S) /\ S \subseteq Int
      BY <1>1, TradeSizes, FS_Subset
  <2> QED BY <1>1, <2>1, LeastOf
<1> HIDE DEF S
<1>3. (CHOOSE e \in S : \A d \in S : e <= d) \in S
    BY <1>2
<1>4. Trades!Oldest(c) \in S
    BY <1>3 DEF Trades!Oldest, Trades!Min, S
<1> QED BY <1>1, <1>4 DEF S

\* What is matched next is no more than either side has left, and uses one of them up.
LEMMA QuantityOf ==
    ASSUME Trades!TypeOK, NEW c \in Calls, todo[c] # {}
    PROVE  /\ Trades!Quantity(c) \in Nat
           /\ Trades!Quantity(c) <= unmatched[c]
           /\ Trades!Quantity(c) <= remaining[c][Trades!Oldest(c)]
           /\ Trades!Quantity(c) \in {unmatched[c], remaining[c][Trades!Oldest(c)]}
<1> DEFINE a == unmatched[c]
           b == remaining[c][Trades!Oldest(c)]
<1>1. a \in Nat /\ b \in Nat
    BY OldestIn, TradeNumbers
<1> HIDE DEF a, b
<1>2. \E i \in {a, b} : \A j \in {a, b} : i <= j
    BY <1>1
<1> DEFINE q == CHOOSE i \in {a, b} : \A j \in {a, b} : i <= j
<1>3. q \in {a, b} /\ \A j \in {a, b} : q <= j
    BY <1>2
<1>4. Trades!Quantity(c) = q
    BY DEF Trades!Quantity, Trades!Min, a, b
<1> HIDE DEF q
<1> QED BY <1>1, <1>3, <1>4 DEF a, b

\* A call that is not matching holds no lock.
LEMMA UnlockedBy ==
    ASSUME Trades!TypeOK, NEW c \in Calls, NEW p \in Trades!Places,
           at' = [at EXCEPT ![c] = p],
           Trades!Release(c) \/ (UNCHANGED <<entryLock, exitLock>> /\ (p \in {"match", "commit"} \/ ~Matching(c)))
    PROVE  /\ entryLock' \in [Ins -> Calls \cup {None}] /\ exitLock' \in [Exits -> Calls \cup {None}]
           /\ at' \in [Calls -> Trades!Places]
           /\ \A e \in Ins : entryLock'[e] # None => at'[entryLock'[e]] \in {"match", "commit"}
           /\ \A x \in Exits : exitLock'[x] # None => at'[exitLock'[x]] \in {"match", "commit"}
<1>1. /\ entryLock \in [Ins -> Calls \cup {None}] /\ exitLock \in [Exits -> Calls \cup {None}]
      /\ at \in [Calls -> Trades!Places]
      /\ \A e \in Ins : entryLock[e] # None => at[entryLock[e]] \in {"match", "commit"}
      /\ \A x \in Exits : exitLock[x] # None => at[exitLock[x]] \in {"match", "commit"}
    BY DEF Trades!TypeOK, Ins
<1>2. at' \in [Calls -> Trades!Places] /\ at'[c] = p /\ \A d \in Calls : d # c => at'[d] = at[d]
    BY <1>1
<1>3. CASE Trades!Release(c)
  <2>1. /\ entryLock' = [e \in Ins |-> IF entryLock[e] = c THEN None ELSE entryLock[e]]
        /\ exitLock' = [x \in Exits |-> IF exitLock[x] = c THEN None ELSE exitLock[x]]
      BY <1>1, <1>3 DEF Trades!Release, Trades!Unlocked
  <2>2. entryLock' \in [Ins -> Calls \cup {None}] /\ exitLock' \in [Exits -> Calls \cup {None}]
      BY <1>1, <2>1
  <2>3. /\ \A e \in Ins : entryLock'[e] # None => entryLock'[e] = entryLock[e] /\ entryLock[e] # c
        /\ \A x \in Exits : exitLock'[x] # None => exitLock'[x] = exitLock[x] /\ exitLock[x] # c
      BY <2>1
  <2> QED BY <1>1, <1>2, <2>2, <2>3
<1>4. CASE UNCHANGED <<entryLock, exitLock>> /\ (p \in {"match", "commit"} \/ ~Matching(c))
  <2>1. /\ \A e \in Ins : entryLock[e] # None => at'[entryLock[e]] \in {"match", "commit"}
        /\ \A x \in Exits : exitLock[x] # None => at'[exitLock[x]] \in {"match", "commit"}
      BY <1>1, <1>2, <1>4 DEF Matching
  <2> QED BY <1>1, <1>2, <1>4, <2>1
<1> QED BY <1>3, <1>4

\* A call ends.
LEMMA EndTyped ==
    ASSUME Trades!TypeOK, NEW c \in Calls, Trades!Ends(c), UNCHANGED <<saved, matched>>,
           cut' \in SUBSET Exits
    PROVE  /\ Trades!TypeOK'
           /\ at' = [at EXCEPT ![c] = "done"]
           /\ \A d \in Calls : d # c =>
                todo'[d] = todo[d] /\ remaining'[d] = remaining[d] /\ unmatched'[d] = unmatched[d]
           /\ CallRight(c)' /\ PassedUsedUp(c)'
<1>1. /\ at' = [at EXCEPT ![c] = "done"] /\ Trades!Release(c)
      /\ todo' = [todo EXCEPT ![c] = {}]
      /\ remaining' = [remaining EXCEPT ![c] = [e \in Ins |-> 0]]
      /\ unmatched' = [unmatched EXCEPT ![c] = 0]
    BY DEF Trades!Ends, Trades!Goes, Ins
<1>2. "done" \in Trades!Places
    BY DEF Trades!Places
<1>3. /\ entryLock' \in [Ins -> Calls \cup {None}] /\ exitLock' \in [Exits -> Calls \cup {None}]
      /\ at' \in [Calls -> Trades!Places]
      /\ \A e \in Ins : entryLock'[e] # None => at'[entryLock'[e]] \in {"match", "commit"}
      /\ \A x \in Exits : exitLock'[x] # None => at'[exitLock'[x]] \in {"match", "commit"}
    BY <1>1, <1>2, UnlockedBy
<1>4. /\ todo' \in [Calls -> SUBSET Ins] /\ remaining' \in [Calls -> [Ins -> Nat]]
      /\ unmatched' \in [Calls -> Nat]
      /\ \A d \in Calls : d # c =>
           todo'[d] = todo[d] /\ remaining'[d] = remaining[d] /\ unmatched'[d] = unmatched[d]
    BY <1>1, TradeNumbers
<1>5. Trades!TypeOK'
    BY <1>3, <1>4 DEF Trades!TypeOK, Ins
<1>6. at'[c] = "done"
    BY <1>1 DEF Trades!TypeOK
<1> QED BY <1>1, <1>4, <1>5, <1>6 DEF CallRight, PassedUsedUp, Matching

\* A call may end early if its exit counts as cut short, is matched in full, or was matched by
\* another.
LEMMA EndKept ==
    ASSUME TradesInv, NEW c \in Calls, Trades!Ends(c), UNCHANGED <<saved, matched>>,
           cut \subseteq cut', cut' \subseteq cut \cup {ExitOf[c]},
           \/ ExitOf[c] \in cut' \/ (Enough => InFull(ExitOf[c]))
           \/ ~Matching(c) /\ (c \notin External /\ Enough => BeingMatched(ExitOf[c]) \/ InFull(ExitOf[c]))
    PROVE  TradesInv'
<1>1. Trades!TypeOK /\ cut' \in SUBSET Exits
    BY TradeSizes DEF TradesInv, Trades!TypeOK
<1>2. /\ Trades!TypeOK'
      /\ at' = [at EXCEPT ![c] = "done"]
      /\ \A d \in Calls : d # c =>
            todo'[d] = todo[d] /\ remaining'[d] = remaining[d] /\ unmatched'[d] = unmatched[d]
      /\ CallRight(c)' /\ PassedUsedUp(c)'
    BY <1>1, EndTyped
<1>3. /\ Trades!WithinQuantities' /\ PairsFill' /\ Grown
      /\ \A y \in Exits : Trades!Matched(y)' = Trades!Matched(y)
    BY <1>2, NothingMatched
<1>4. InFull(ExitOf[c]) => InFull(ExitOf[c])'
    BY <1>3, TradeSizes DEF InFull
<1> DEFINE p == "done"
<1>5. at' = [at EXCEPT ![c] = p]
    BY <1>2
<1>6. \/ ExitOf[c] \in cut' \/ Matching(c)' \/ (Enough => InFull(ExitOf[c])')
      \/ /\ matched' = matched /\ ~Matching(c)
         /\ p = "done" /\ c \notin External /\ Enough =>
               BeingMatched(ExitOf[c]) \/ InFull(ExitOf[c])
    BY <1>4
<1> HIDE DEF p
<1> QED BY <1>2, <1>3, <1>5, <1>6, StepKept

\* A call moves on.
LEMMA MoveKept ==
    ASSUME TradesInv, NEW c \in Calls, NEW p \in Trades!Places, at' = [at EXCEPT ![c] = p],
           ~Matching(c), p \notin {"match", "commit"},
           p = "done" => c \in External, p = "asleep" => c \in External,
           saved' \in [Exits -> {"no", "external", "strategy"}],
           UNCHANGED <<matched, entryLock, exitLock, todo, remaining, unmatched, cut>>
    PROVE  TradesInv'
<1>1. Trades!TypeOK
    BY DEF TradesInv
<1>2. Trades!TypeOK'
  <2>1. /\ entryLock' \in [Ins -> Calls \cup {None}] /\ exitLock' \in [Exits -> Calls \cup {None}]
        /\ at' \in [Calls -> Trades!Places]
        /\ \A e \in Ins : entryLock'[e] # None => at'[entryLock'[e]] \in {"match", "commit"}
        /\ \A x \in Exits : exitLock'[x] # None => at'[exitLock'[x]] \in {"match", "commit"}
      BY <1>1, UnlockedBy
  <2> QED BY <1>1, <2>1 DEF Trades!TypeOK, Ins
<1>3. /\ Trades!WithinQuantities' /\ PairsFill' /\ Grown
      /\ \A y \in Exits : Trades!Matched(y)' = Trades!Matched(y)
    BY <1>2, NothingMatched
<1>4. CallRight(c)' /\ PassedUsedUp(c)'
  <2>1. at'[c] = p
      BY <1>1 DEF Trades!TypeOK
  <2> QED BY <2>1 DEF CallRight, PassedUsedUp, Matching
<1> QED BY <1>2, <1>3, <1>4, StepKept

\* What a call does before it looks for entries.
LEMMA EarlyKept ==
    ASSUME TradesInv, NEW c \in Calls,
           Trades!SaveExit(c) \/ Trades!NoticeClose(c) \/ Trades!SaveExternal(c)
    PROVE  TradesInv'
<1>1. /\ saved \in [Exits -> {"no", "external", "strategy"}] /\ ExitOf[c] \in Exits
      /\ at[c] = "asleep" => c \in External
    BY TradeSizes DEF TradesInv, Trades!TypeOK, CallsRight, CallRight
<1>2. {"check", "asleep", "done"} \subseteq Trades!Places
    BY DEF Trades!Places
<1>3. PICK p \in {"check", "asleep", "done"} :
        /\ at' = [at EXCEPT ![c] = p] /\ at[c] \in {"idle", "asleep"}
        /\ saved' \in [Exits -> {"no", "external", "strategy"}]
        /\ UNCHANGED <<matched, entryLock, exitLock, todo, remaining, unmatched, cut>>
        /\ p = "done" => c \in External
        /\ p = "asleep" => c \in External
  <2>1. CASE Trades!SaveExit(c)
      BY <1>1, <2>1 DEF Trades!SaveExit, Trades!Goes, Trades!locks
  <2>2. CASE Trades!NoticeClose(c)
      BY <1>1, <2>2 DEF Trades!NoticeClose, Trades!Goes, Trades!locks
  <2>3. CASE Trades!SaveExternal(c)
      BY <1>1, <2>3 DEF Trades!SaveExternal, Trades!Goes, Trades!locks
  <2> QED BY <2>1, <2>2, <2>3
<1>4. ~Matching(c)
    BY <1>3 DEF Matching
<1> QED BY <1>2, <1>3, <1>4, MoveKept

\* A call that finds its exit matched leaves it, all of it, to another.
LEMMA CheckKept ==
    ASSUME TradesInv, NEW c \in Calls, Trades!Check(c)
    PROVE  TradesInv'
<1> DEFINE x == ExitOf[c]
<1>1. /\ at[c] = "check" /\ UNCHANGED <<saved, matched, cut>>
      /\ \/ Trades!Matched(x) > 0 /\ Trades!Ends(c)
         \/ /\ at' = [at EXCEPT ![c] = "find"]
            /\ UNCHANGED <<entryLock, exitLock, todo, remaining, unmatched>>
    BY DEF Trades!Check, Trades!Goes, Trades!locks
<1>2. ~Matching(c) /\ x \in Exits
    BY <1>1, TradeSizes DEF Matching
<1>3. CASE Trades!Matched(x) > 0 /\ Trades!Ends(c)
  <2>1. Enough /\ x \notin cut => BeingMatched(x) \/ InFull(x)
    <3>1. Trades!Matched(x) # 0
        BY <1>2, <1>3, TradeNumbers DEF TradesInv
    <3> QED BY <1>2, <3>1 DEF TradesInv, ExitsRight, ExitRight
  <2> QED BY <1>1, <1>2, <1>3, <2>1, EndKept
<1>4. CASE at' = [at EXCEPT ![c] = "find"] /\ UNCHANGED <<entryLock, exitLock, todo, remaining, unmatched>>
  <2> DEFINE p == "find"
  <2>1. /\ p \in Trades!Places /\ p \notin {"match", "commit"} /\ p # "done" /\ p # "asleep"
        /\ at' = [at EXCEPT ![c] = p]
        /\ saved' \in [Exits -> {"no", "external", "strategy"}]
      BY <1>1, <1>4 DEF Trades!Places, TradesInv, Trades!TypeOK
  <2> HIDE DEF p
  <2> QED BY <1>1, <1>2, <1>4, <2>1, MoveKept
<1> QED BY <1>1, <1>3, <1>4

\* A call that ends after its last entry has used up the exit or all entries.
LEMMA FinishKept ==
    ASSUME TradesInv, NEW c \in Calls, Trades!Finish(c)
    PROVE  TradesInv'
<1> DEFINE x == ExitOf[c]
<1>1. /\ at[c] = "match" /\ (unmatched[c] = 0 \/ todo[c] = {}) /\ Trades!Ends(c)
      /\ UNCHANGED <<saved, matched, cut>>
    BY DEF Trades!Finish
<1>2. x \in Exits /\ Matching(c) /\ CallRight(c) /\ PassedUsedUp(c)
    BY <1>1, TradeSizes DEF Matching, TradesInv, CallsRight
<1>3. /\ unmatched[c] \in Nat /\ Passed(c) \in Nat /\ Passed(c) <= Trades!Matched(x)
      /\ Trades!Matched(x) \in Nat /\ Trades!Matched(x) <= ExitQty[x] /\ ExitQty[x] \in Nat
      /\ ExitQty[x] <= unmatched[c] + Passed(c)
    BY <1>2, TradeNumbers, TradeSizes DEF TradesInv, CallRight, Trades!WithinQuantities
<1>4. CASE unmatched[c] = 0
  <2>1. InFull(x)
      BY <1>3, <1>4 DEF InFull
  <2> QED BY <1>1, <2>1, EndKept
<1>5. CASE unmatched[c] # 0 /\ x \in cut
    BY <1>1, <1>5, EndKept
<1>6. CASE unmatched[c] # 0 /\ x \notin cut
  <2>1. ASSUME Enough PROVE InFull(x)
    <3>1. \A e \in Named : UsedUp(e) \/ InFull(x)
        BY <1>1, <1>2, <1>3, <1>6, TradeSizes, NamedSizes DEF PassedUsedUp
    <3>2. ASSUME \A e \in Named : UsedUp(e) PROVE InFull(x)
      <4>1. /\ matched \in Pairs /\ Sum(ExitQty, Exits) <= Sum(EntryQty, Named)
            /\ \A e \in Named : AllocatedIn(matched, e) = EntryQty[e]
            /\ \A y \in Exits : MatchedIn(matched, y) <= ExitQty[y]
            /\ Trades!Matched(x) = MatchedIn(matched, x)
          BY <1>2, <2>1, <3>2, TradeSums, TradeSizes, NamedSizes DEF UsedUp, TradesInv, Trades!WithinQuantities
      <4> QED BY <1>2, <4>1, AllInFull DEF InFull
    <3> QED BY <3>1, <3>2
  <2> QED BY <1>1, <2>1, EndKept
<1> QED BY <1>4, <1>5, <1>6

\* A call that has the lock of its exit matches it alone.
LEMMA LockKept ==
    ASSUME TradesInv, NEW c \in Calls, Trades!Lock(c)
    PROVE  TradesInv'
<1> DEFINE e == Trades!Oldest(c)
           x == ExitOf[c]
<1>1. /\ at[c] = "match" /\ unmatched[c] > 0 /\ todo[c] # {} /\ UNCHANGED <<saved, matched>>
      /\ \/ Trades!Ends(c) /\ cut' = cut \cup {x}
         \/ /\ entryLock' = [entryLock EXCEPT ![e] = c]
            /\ exitLock' = [exitLock EXCEPT ![x] = c]
            /\ at' = [at EXCEPT ![c] = "commit"]
            /\ UNCHANGED <<todo, remaining, unmatched, cut>>
    BY DEF Trades!Lock, Trades!Goes, Trades!CutShort
<1>2. CASE Trades!Ends(c) /\ cut' = cut \cup {x}
    BY <1>1, <1>2, EndKept
<1>3. CASE /\ entryLock' = [entryLock EXCEPT ![e] = c]
           /\ exitLock' = [exitLock EXCEPT ![x] = c]
           /\ at' = [at EXCEPT ![c] = "commit"]
           /\ UNCHANGED <<todo, remaining, unmatched, cut>>
  <2>1. Trades!TypeOK /\ x \in Exits /\ e \in Ins
      BY <1>1, OldestIn, TradeSizes DEF TradesInv
  <2> HIDE DEF e, x
  <2>2. at' \in [Calls -> Trades!Places] /\ at'[c] = "commit" /\ \A d \in Calls : d # c => at'[d] = at[d]
      BY <1>3, <2>1 DEF Trades!TypeOK, Trades!Places
  <2>3. Trades!TypeOK'
    <3>1. /\ entryLock' \in [Ins -> Calls \cup {None}] /\ exitLock' \in [Exits -> Calls \cup {None}]
          /\ \A d \in Ins : entryLock'[d] \in {c, entryLock[d]}
          /\ \A y \in Exits : exitLock'[y] \in {c, exitLock[y]}
        BY <1>3, <2>1 DEF Trades!TypeOK, Ins
    <3>2. /\ \A d \in Ins : entryLock'[d] # None => at'[entryLock'[d]] \in {"match", "commit"}
          /\ \A y \in Exits : exitLock'[y] # None => at'[exitLock'[y]] \in {"match", "commit"}
      <4>1. /\ \A d \in Ins : entryLock[d] # None => entryLock[d] \in Calls /\ at[entryLock[d]] \in {"match", "commit"}
            /\ \A y \in Exits : exitLock[y] # None => exitLock[y] \in Calls /\ at[exitLock[y]] \in {"match", "commit"}
          BY <2>1 DEF Trades!TypeOK, Ins
      <4>2. \A d \in Calls : at[d] \in {"match", "commit"} => at'[d] \in {"match", "commit"}
          BY <2>2
      <4> QED BY <2>2, <3>1, <4>1, <4>2
    <3> QED BY <1>1, <1>3, <2>1, <2>2, <3>1, <3>2 DEF Trades!TypeOK, Ins
  <2>4. /\ Trades!WithinQuantities' /\ PairsFill' /\ Grown
        /\ \A y \in Exits : Trades!Matched(y)' = Trades!Matched(y)
        /\ \A d \in Ins : Trades!Allocated(d)' = Trades!Allocated(d)
      BY <1>1, <2>3, NothingMatched
  <2>5. Matching(c) /\ Matching(c)' /\ CallRight(c) /\ PassedUsedUp(c)
      BY <1>1, <2>2 DEF Matching, TradesInv, CallsRight
  <2>6. Passed(c)' = Passed(c)
      BY <1>1, <1>3, <2>1, TradeSums
  <2>7. CallRight(c)'
    <3>1. todo[c] \subseteq Ins
        BY <2>1, TradeNumbers
    <3> QED BY <1>1, <1>3, <2>2, <2>4, <2>5, <2>6, <3>1 DEF CallRight
  <2>8. PassedUsedUp(c)'
    <3>1. /\ \A d \in Ins : UsedUp(d) => UsedUp(d)'
          /\ \A y \in Exits : InFull(y) => InFull(y)'
        BY <2>4 DEF UsedUp, InFull
    <3>2. ExitOf[c] \in Exits
        BY TradeSizes
    <3> QED BY <1>3, <2>5, <3>1, <3>2, TradeSizes, NamedSizes DEF PassedUsedUp
  <2> DEFINE p == "commit"
  <2>9. at' = [at EXCEPT ![c] = p]
      BY <1>3
  <2> HIDE DEF p
  <2> QED BY <1>3, <2>3, <2>4, <2>5, <2>7, <2>8, <2>9, StepKept
<1> QED BY <1>1, <1>2, <1>3

\* Entries that are all used up have sufficed for every exit, if they suffice for all.
LEMMA AllUsedUp ==
    ASSUME TradesInv, Enough, \A e \in Named : UsedUp(e), NEW x \in Exits
    PROVE  InFull(x)
<1>1. /\ matched \in Pairs /\ Sum(ExitQty, Exits) <= Sum(EntryQty, Named)
      /\ \A e \in Named : AllocatedIn(matched, e) = EntryQty[e]
      /\ \A y \in Exits : MatchedIn(matched, y) <= ExitQty[y]
      /\ Trades!Matched(x) = MatchedIn(matched, x)
    BY TradeSums, TradeSizes, NamedSizes DEF UsedUp, TradesInv, Trades!WithinQuantities
<1> QED BY <1>1, AllInFull DEF InFull

\* What a call finds is what is left of the entries that no other call has locked.
LEMMA FindKept ==
    ASSUME TradesInv, NEW c \in Calls, Trades!Find(c)
    PROVE  TradesInv'
<1> DEFINE x == ExitOf[c]
           all == {e \in Ins : entryLock[e] = None}
           found == IF all \cap Named # {} THEN all \cap Named ELSE all \ Named
           rest == [e \in Ins |-> IF e \in found THEN EntryQty[e] - Trades!Allocated(e) ELSE 0]
           free == {e \in Ins : rest[e] > 0}
<1>1. /\ at[c] = "find" /\ UNCHANGED <<saved, matched>>
      /\ cut' = IF Named \subseteq found THEN cut ELSE cut \cup {x}
      /\ \/ free = {} /\ Trades!Ends(c)
         \/ /\ entryLock' = [e \in Ins |-> IF e \in found THEN c ELSE entryLock[e]]
            /\ todo' = [todo EXCEPT ![c] = free]
            /\ remaining' = [remaining EXCEPT ![c] = rest]
            /\ unmatched' = [unmatched EXCEPT ![c] = ExitQty[x]]
            /\ at' = [at EXCEPT ![c] = "match"]
            /\ UNCHANGED exitLock
    BY DEF Trades!Find, Trades!Goes, Ins
<1>2. x \in Exits /\ ~Matching(c) /\ Trades!TypeOK
    BY <1>1, TradeSizes DEF Matching, TradesInv
<1>3. \A e \in Ins : /\ EntryQty[e] \in Nat /\ Trades!Allocated(e) \in Nat
                     /\ Trades!Allocated(e) <= EntryQty[e]
    BY <1>2, TradeNumbers, TradeSizes DEF TradesInv, Trades!WithinQuantities, Ins
<1>4. rest \in [Ins -> Nat] /\ free \in SUBSET Ins
    BY <1>3
<1>5. Named \subseteq found => \A e \in Named : e \notin free => UsedUp(e)
  <2>1. ASSUME Named \subseteq found, NEW e \in Named, e \notin free PROVE UsedUp(e)
    <3>1. e \in Ins /\ rest[e] = EntryQty[e] - Trades!Allocated(e) /\ ~ (rest[e] > 0)
        BY <2>1, TradeSizes, NamedSizes
    <3> QED BY <1>3, <3>1 DEF UsedUp
  <2> QED BY <2>1
<1>6. \A e \in free : rest[e] > 0 /\ rest[e] = EntryQty[e] - Trades!Allocated(e)
    OBVIOUS
<1> HIDE DEF rest, free
<1>7. CASE free = {} /\ Trades!Ends(c)
  <2>1. x \in cut' \/ (Enough => InFull(x))
      BY <1>1, <1>2, <1>5, <1>7, AllUsedUp
  <2> HIDE DEF found
  <2> QED BY <1>1, <1>2, <1>7, <2>1, EndKept
<1>8. CASE /\ entryLock' = [e \in Ins |-> IF e \in found THEN c ELSE entryLock[e]]
           /\ todo' = [todo EXCEPT ![c] = free]
           /\ remaining' = [remaining EXCEPT ![c] = rest]
           /\ unmatched' = [unmatched EXCEPT ![c] = ExitQty[x]]
           /\ at' = [at EXCEPT ![c] = "match"]
           /\ UNCHANGED exitLock
  <2>1. at' \in [Calls -> Trades!Places] /\ at'[c] = "match" /\ \A d \in Calls : d # c => at'[d] = at[d]
      BY <1>2, <1>8 DEF Trades!TypeOK, Trades!Places
  <2>2. /\ todo' \in [Calls -> SUBSET Ins] /\ todo'[c] = free
        /\ remaining' \in [Calls -> [Ins -> Nat]] /\ remaining'[c] = rest
        /\ unmatched' \in [Calls -> Nat] /\ unmatched'[c] = ExitQty[x]
        /\ \A d \in Calls : d # c =>
             todo'[d] = todo[d] /\ remaining'[d] = remaining[d] /\ unmatched'[d] = unmatched[d]
      BY <1>2, <1>4, <1>8, TradeNumbers, TradeSizes
  <2>3. cut' \in SUBSET Exits
      BY <1>1, <1>2 DEF Trades!TypeOK
  <2>4. Trades!TypeOK'
    <3>1. /\ entryLock' \in [Ins -> Calls \cup {None}]
          /\ \A d \in Ins : entryLock'[d] \in {c, entryLock[d]}
        BY <1>2, <1>8 DEF Trades!TypeOK, Ins
    <3>2. /\ \A d \in Ins : entryLock'[d] # None => at'[entryLock'[d]] \in {"match", "commit"}
          /\ \A y \in Exits : exitLock'[y] # None => at'[exitLock'[y]] \in {"match", "commit"}
      <4>1. /\ \A d \in Ins : entryLock[d] # None => entryLock[d] \in Calls /\ at[entryLock[d]] \in {"match", "commit"}
            /\ \A y \in Exits : exitLock[y] # None => exitLock[y] \in Calls /\ at[exitLock[y]] \in {"match", "commit"}
          BY <1>2 DEF Trades!TypeOK, Ins
      <4>2. \A d \in Calls : at[d] \in {"match", "commit"} => at'[d] \in {"match", "commit"}
          BY <2>1
      <4> QED BY <1>8, <2>1, <3>1, <4>1, <4>2
    <3> QED BY <1>1, <1>2, <1>8, <2>1, <2>2, <2>3, <3>1, <3>2 DEF Trades!TypeOK, Ins
  <2>5. /\ Trades!WithinQuantities' /\ PairsFill' /\ Grown
        /\ \A y \in Exits : Trades!Matched(y)' = Trades!Matched(y)
        /\ \A d \in Ins : Trades!Allocated(d)' = Trades!Allocated(d)
      BY <1>1, <2>4, NothingMatched
  <2>6. CallRight(c)'
    <3>1. Passed(c)' \in Nat /\ ExitQty[x] \in Nat
        BY <1>2, <2>4, TradeNumbers, TradeSizes
    <3>2. \A e \in free : rest[e] > 0 /\ EntryQty[e] <= rest[e] + Trades!Allocated(e)'
        BY <1>3, <1>4, <1>6, <2>5
    <3> QED BY <2>1, <2>2, <3>1, <3>2 DEF CallRight
  <2>7. PassedUsedUp(c)'
    <3>1. x \notin cut' => \A e \in Named \ free : e \in Ins /\ UsedUp(e)
        BY <1>1, <1>5, TradeSizes, NamedSizes
    <3>2. \A e \in Ins : UsedUp(e) => UsedUp(e)'
        BY <2>5 DEF UsedUp
    <3> QED BY <2>2, <3>1, <3>2 DEF PassedUsedUp
  <2>8. cut \subseteq cut' /\ cut' \subseteq cut \cup {x} /\ Matching(c)'
      BY <1>1, <2>1 DEF Matching
  <2> DEFINE p == "match"
  <2>9. at' = [at EXCEPT ![c] = p]
      BY <1>8
  <2> HIDE DEF p, found
  <2> QED BY <2>2, <2>4, <2>5, <2>6, <2>7, <2>8, <2>9, StepKept
<1> QED BY <1>1, <1>7, <1>8

\* A call has matched an entry, or found it matched, and goes on to the next one.
LEMMA NextKept ==
    ASSUME TradesInv, NEW c \in Calls, at[c] = "commit", Trades!NextEntry(c), Trades!TypeOK',
           NEW e, e = Trades!Oldest(c), NEW q, q = Trades!Quantity(c),
           Trades!WithinQuantities', Grown, UNCHANGED cut,
           matched'[e][ExitOf[c]] >= q,
           q < remaining[c][e] \/ UsedUp(e)' \/ InFull(ExitOf[c])'
    PROVE  CallRight(c)' /\ PassedUsedUp(c)' /\ Matching(c)'
<1> DEFINE x == ExitOf[c]
<1>1. /\ Trades!TypeOK /\ Matching(c) /\ CallRight(c) /\ PassedUsedUp(c) /\ x \in Exits
      /\ unmatched[c] > 0 /\ todo[c] # {}
    BY TradeSizes DEF TradesInv, CallsRight, CallRight, Matching
<1>2. e \in todo[c] /\ e \in Ins /\ todo[c] \in SUBSET Ins
    BY <1>1, OldestIn, TradeNumbers
<1>3. /\ q \in Nat /\ q <= unmatched[c] /\ q <= remaining[c][e] /\ q \in {unmatched[c], remaining[c][e]}
      /\ unmatched[c] \in Nat /\ remaining[c] \in [Ins -> Nat]
    BY <1>1, QuantityOf, TradeNumbers
<1>4. /\ todo' = [todo EXCEPT ![c] = todo[c] \ {e}]
      /\ unmatched' = [unmatched EXCEPT ![c] = unmatched[c] - q]
      /\ at' = [at EXCEPT ![c] = "match"] /\ remaining' = remaining
    BY DEF Trades!NextEntry, Trades!Goes
<1>5. matched'[e][x] >= q /\ (q < remaining[c][e] \/ UsedUp(e)' \/ InFull(x)')
    OBVIOUS
<1> HIDE DEF x
<1>6. at'[c] = "match" /\ todo'[c] = todo[c] \ {e} /\ unmatched'[c] = unmatched[c] - q
    BY <1>1, <1>4, TradeNumbers DEF Trades!TypeOK
<1>7. Ins \ todo'[c] = (Ins \ todo[c]) \cup {e}
    BY <1>2, <1>6
<1>8. CallRight(c)'
  <2>1. Passed(c) + q <= Passed(c)'
    <3> DEFINE n == matched'
               S == Ins \ todo[c]
               T == Ins \ todo'[c]
    <3>1. n \in Pairs /\ S \in SUBSET Ins /\ e \notin S /\ T = S \cup {e} /\ n[e][x] >= q
          /\ n[e][x] \in Nat
        BY <1>1, <1>2, <1>5, <1>7 DEF Trades!TypeOK, Pairs, Ins
    <3>2. Passed(c) = MatchedOf(matched, x, S) /\ Passed(c)' = MatchedOf(n, x, T)
        BY <1>1, TradeSums DEF x
    <3>3. MatchedOf(matched, x, S) <= MatchedOf(n, x, S)
        BY <1>1, <3>1 DEF Grown
    <3>4. MatchedOf(matched, x, S) \in Nat
        BY <1>1, <3>1, PairSums, TradeSums
    <3> HIDE DEF n, S, T
    <3>5. MatchedOf(n, x, S \cup {e}) = n[e][x] + MatchedOf(n, x, S)
        BY <1>1, <1>2, <3>1, PairPassed
    <3>6. MatchedOf(n, x, S) \in Nat
        BY <1>1, <3>1, PairSums
    <3>7. MatchedOf(n, x, T) = MatchedOf(n, x, S \cup {e})
        BY <3>1, Zenon
    <3> QED BY <1>3, <3>1, <3>2, <3>3, <3>4, <3>5, <3>6, <3>7
  <2>2. /\ unmatched[c] <= ExitQty[x] /\ ExitQty[x] <= unmatched[c] + Passed(c)
        /\ \A d \in todo[c] :
             /\ remaining[c][d] > 0
             /\ EntryQty[d] <= remaining[c][d] + Trades!Allocated(d)
      BY <1>1 DEF CallRight, x
  <2>3. ExitQty[x] \in Nat /\ Passed(c) \in Nat /\ Passed(c)' \in Nat
      BY <1>1, TradeNumbers, TradeSizes
  <2>4. /\ unmatched[c] - q <= ExitQty[x]
        /\ ExitQty[x] <= (unmatched[c] - q) + Passed(c)'
      BY <1>3, <2>1, <2>2, <2>3
  <2>5. \A d \in todo[c] \ {e} :
             /\ remaining[c][d] > 0
             /\ EntryQty[d] <= remaining[c][d] + Trades!Allocated(d)'
    <3>1. ASSUME NEW d \in todo[c] \ {e}
          PROVE  EntryQty[d] <= remaining[c][d] + Trades!Allocated(d)'
      <4>1. /\ d \in Ins /\ EntryQty[d] \in Nat /\ remaining[c][d] \in Nat
            /\ Trades!Allocated(d) \in Nat /\ Trades!Allocated(d)' \in Nat
            /\ Trades!Allocated(d) <= Trades!Allocated(d)'
            /\ EntryQty[d] <= remaining[c][d] + Trades!Allocated(d)
          BY <1>1, <1>2, <1>3, <2>2, TradeNumbers, TradeSizes DEF Grown
      <4> QED BY <4>1
    <3> QED BY <2>2, <3>1
  <2> QED BY <1>4, <1>6, <2>4, <2>5 DEF CallRight, x
<1>9. PassedUsedUp(c)'
  <2>1. ASSUME x \notin cut', unmatched'[c] > 0, NEW d \in Named \ todo'[c]
        PROVE  UsedUp(d)' \/ InFull(x)'
    <3>0. d \in Ins
        BY TradeSizes, NamedSizes
    <3>1. CASE d = e
      <4>1. q = remaining[c][e]
          BY <1>3, <1>6, <2>1
      <4>2. ~ (q < remaining[c][e])
          BY <1>3, <4>1
      <4>3. UsedUp(e)' => UsedUp(d)'
          BY <3>1 DEF UsedUp
      <4> QED BY <1>5, <4>2, <4>3
    <3>2. CASE d # e
      <4>1. d \in Named \ todo[c]
          BY <1>7, <2>1, <3>2, NamedSizes
      <4>2. UsedUp(d) \/ InFull(x)
          BY <1>1, <2>1, <4>1 DEF PassedUsedUp, x
      <4> QED BY <1>1, <3>0, <4>2, StaysFull
    <3> QED BY <3>1, <3>2
  <2> QED BY <2>1 DEF PassedUsedUp, x
<1> QED BY <1>6, <1>8, <1>9 DEF Matching

\* A commit matches what the call has computed, unless another call has matched it meanwhile.
LEMMA CommitKept ==
    ASSUME TradesInv, NEW c \in Calls, Trades!Commit(c)
    PROVE  TradesInv'
<1> DEFINE x == ExitOf[c]
<1>0. PICK e, q : e = Trades!Oldest(c) /\ q = Trades!Quantity(c)
    OBVIOUS
<1>1. /\ at[c] = "commit" /\ UNCHANGED saved
      /\ \/ /\ matched[e][x] = q /\ Trades!NextEntry(c)
            /\ UNCHANGED <<matched, entryLock, exitLock, cut>>
         \/ /\ Trades!Allocated(e) + q <= EntryQty[e]
            /\ Trades!Matched(x) + q <= ExitQty[x]
            /\ matched' = [matched EXCEPT ![e][x] = @ + q]
            /\ Trades!NextEntry(c) /\ Trades!Release(c) /\ UNCHANGED cut
         \/ /\ Trades!Ends(c) /\ cut' = cut \cup {x} /\ UNCHANGED matched
    BY <1>0 DEF Trades!Commit, Trades!CutShort, Trades!locks
<1>2. /\ Trades!TypeOK /\ Matching(c) /\ CallRight(c) /\ PassedUsedUp(c) /\ x \in Exits
      /\ unmatched[c] > 0 /\ todo[c] # {}
    BY <1>1, TradeSizes DEF TradesInv, CallsRight, CallRight, Matching
<1>3. e \in todo[c] /\ e \in Ins
    BY <1>0, <1>2, OldestIn
<1>4. /\ q \in Nat /\ q <= unmatched[c] /\ q <= remaining[c][e] /\ q \in {unmatched[c], remaining[c][e]}
      /\ unmatched[c] \in Nat /\ remaining[c] \in [Ins -> Nat] /\ q > 0
      /\ EntryQty[e] <= remaining[c][e] + Trades!Allocated(e)
  <2>1. remaining[c][e] > 0 /\ EntryQty[e] <= remaining[c][e] + Trades!Allocated(e)
      BY <1>2, <1>3 DEF CallRight
  <2> QED BY <1>0, <1>2, <2>1, QuantityOf, TradeNumbers
<1>5. CASE Trades!Ends(c) /\ cut' = cut \cup {x} /\ UNCHANGED matched
    BY <1>1, <1>5, EndKept
<1> DEFINE p == "match"
<1>6. ASSUME Trades!NextEntry(c), UNCHANGED cut,
             matched' \in Pairs,
             Trades!Release(c) \/ UNCHANGED <<entryLock, exitLock>>
      PROVE  /\ Trades!TypeOK' /\ at' = [at EXCEPT ![c] = p]
             /\ \A d \in Calls : d # c =>
                  todo'[d] = todo[d] /\ remaining'[d] = remaining[d] /\ unmatched'[d] = unmatched[d]
  <2>1. /\ todo' = [todo EXCEPT ![c] = todo[c] \ {e}]
        /\ unmatched' = [unmatched EXCEPT ![c] = unmatched[c] - q]
        /\ at' = [at EXCEPT ![c] = p] /\ remaining' = remaining
      BY <1>0, <1>6 DEF Trades!NextEntry, Trades!Goes
  <2>2. p \in Trades!Places /\ p \in {"match", "commit"}
      BY DEF Trades!Places
  <2> HIDE DEF p
  <2>3. /\ entryLock' \in [Ins -> Calls \cup {None}] /\ exitLock' \in [Exits -> Calls \cup {None}]
        /\ at' \in [Calls -> Trades!Places]
        /\ \A d \in Ins : entryLock'[d] # None => at'[entryLock'[d]] \in {"match", "commit"}
        /\ \A y \in Exits : exitLock'[y] # None => at'[exitLock'[y]] \in {"match", "commit"}
      BY <1>2, <1>6, <2>1, <2>2, UnlockedBy
  <2>4. /\ todo' \in [Calls -> SUBSET Ins] /\ remaining' \in [Calls -> [Ins -> Nat]]
        /\ unmatched' \in [Calls -> Nat]
        /\ \A d \in Calls : d # c =>
             todo'[d] = todo[d] /\ remaining'[d] = remaining[d] /\ unmatched'[d] = unmatched[d]
    <3>1. unmatched[c] - q \in Nat
        BY <1>4
    <3>2. todo \in [Calls -> SUBSET Ins] /\ remaining \in [Calls -> [Ins -> Nat]]
          /\ unmatched \in [Calls -> Nat]
        BY <1>2, TradeNumbers
    <3> QED BY <2>1, <3>1, <3>2
  <2> QED BY <1>1, <1>2, <1>6, <2>1, <2>3, <2>4 DEF Trades!TypeOK, Ins, Pairs
<1>7. CASE /\ matched[e][x] = q /\ Trades!NextEntry(c)
           /\ UNCHANGED <<matched, entryLock, exitLock, cut>>
  <2>1. matched' \in Pairs
      BY <1>2, <1>7, TradeSums
  <2>2. /\ Trades!TypeOK' /\ at' = [at EXCEPT ![c] = p]
        /\ \A d \in Calls : d # c =>
             todo'[d] = todo[d] /\ remaining'[d] = remaining[d] /\ unmatched'[d] = unmatched[d]
      BY <1>6, <1>7, <2>1
  <2>3. /\ Trades!WithinQuantities' /\ PairsFill' /\ Grown
        /\ \A y \in Exits : Trades!Matched(y)' = Trades!Matched(y)
        /\ \A d \in Ins : Trades!Allocated(d)' = Trades!Allocated(d)
      BY <1>7, <2>2, NothingMatched
  <2>4. matched'[e][x] >= q
      BY <1>4, <1>7
  <2>5. UsedUp(e)' \/ InFull(x)'
    <3>1. UsedUp(e) \/ InFull(x)
        BY <1>2, <1>3, <1>4, <1>7 DEF TradesInv, PairsFill
    <3> QED BY <1>2, <1>3, <3>1, <2>2, <2>3, StaysFull
  <2>6. CallRight(c)' /\ PassedUsedUp(c)' /\ Matching(c)'
      BY <1>0, <1>1, <1>7, <2>2, <2>3, <2>4, <2>5, NextKept
  <2> HIDE DEF p
  <2> QED BY <1>7, <2>2, <2>3, <2>6, StepKept
<1>8. CASE /\ Trades!Allocated(e) + q <= EntryQty[e]
           /\ Trades!Matched(x) + q <= ExitQty[x]
           /\ matched' = [matched EXCEPT ![e][x] = @ + q]
           /\ Trades!NextEntry(c) /\ Trades!Release(c) /\ UNCHANGED cut
  <2> DEFINE n == matched'
  <2>1. matched \in Pairs /\ n = [matched EXCEPT ![e][x] = @ + q]
      BY <1>2, <1>8, TradeSums
  <2> HIDE DEF n
  <2>0. e \in Ins /\ x \in Exits /\ q \in Nat
      BY <1>2, <1>3, <1>4
  <2>1a. /\ n \in Pairs /\ matched \in Pairs /\ n[e][x] = matched[e][x] + q
         /\ \A f \in Ins, y \in Exits : f # e \/ y # x => n[f][y] = matched[f][y]
      BY <2>0, <2>1 DEF Pairs
  <2> HIDE DEF x
  <2>2. /\ n \in Pairs
        /\ AllocatedIn(n, e) = AllocatedIn(matched, e) + q
        /\ MatchedIn(n, x) = MatchedIn(matched, x) + q
        /\ \A d \in Ins : d # e => AllocatedIn(n, d) = AllocatedIn(matched, d)
        /\ \A y \in Exits : y # x => MatchedIn(n, y) = MatchedIn(matched, y)
        /\ \A y \in Exits : \A S \in SUBSET Ins : MatchedOf(matched, y, S) <= MatchedOf(n, y, S)
      BY ONLY <2>0, <2>1a, PairAdded
  <2> USE DEF x
  <2>3. /\ Trades!TypeOK' /\ at' = [at EXCEPT ![c] = p]
        /\ \A d \in Calls : d # c =>
             todo'[d] = todo[d] /\ remaining'[d] = remaining[d] /\ unmatched'[d] = unmatched[d]
      BY <1>6, <1>8, <2>2 DEF n
  <2>4. /\ Trades!Allocated(e)' = Trades!Allocated(e) + q
        /\ Trades!Matched(x)' = Trades!Matched(x) + q
        /\ \A d \in Ins : d # e => Trades!Allocated(d)' = Trades!Allocated(d)
        /\ \A y \in Exits : y # x => Trades!Matched(y)' = Trades!Matched(y)
      BY <1>2, <1>3, <2>2, TradeSums DEF n
  <2>5. Trades!WithinQuantities'
    <3>1. /\ \A d \in Ins : Trades!Allocated(d) <= EntryQty[d]
          /\ \A y \in Exits : Trades!Matched(y) <= ExitQty[y]
        BY DEF TradesInv, Trades!WithinQuantities, Ins
    <3>2. /\ \A d \in Ins : Trades!Allocated(d)' <= EntryQty[d]
          /\ \A y \in Exits : Trades!Matched(y)' <= ExitQty[y]
        BY <1>8, <2>4, <3>1
    <3> QED BY <3>2 DEF Trades!WithinQuantities, Ins
  <2>6. Grown
    <3>1. \A d \in Ins : Trades!Allocated(d) <= Trades!Allocated(d)'
        BY <1>2, <1>4, <2>4, TradeNumbers
    <3> QED BY <2>2, <3>1 DEF Grown, n
  <2>7. /\ \A d \in Ins : UsedUp(d) => UsedUp(d)'
        /\ \A y \in Exits : InFull(y) => InFull(y)'
      BY <1>2, <2>3, <2>5, <2>6, StaysFull
  <2>8. n[e][x] = matched[e][x] + q /\ matched[e][x] \in Nat
      BY <1>2, <1>3, <2>1 DEF Pairs
  <2>9. q = remaining[c][e] => UsedUp(e)'
    <3>1. EntryQty[e] <= q + Trades!Allocated(e) \/ q # remaining[c][e]
        BY <1>4
    <3>2. Trades!Allocated(e) \in Nat /\ EntryQty[e] \in Nat
        BY <1>2, <1>3, TradeNumbers, TradeSizes
    <3> QED BY <1>4, <1>8, <2>4, <3>1, <3>2 DEF UsedUp
  <2>10. CallRight(c)' /\ PassedUsedUp(c)' /\ Matching(c)'
    <3>1. matched'[e][ExitOf[c]] >= q
        BY <1>4, <2>8 DEF n
    <3>2. q < remaining[c][e] \/ UsedUp(e)'
        BY <1>3, <1>4, <2>9
    <3>3. UNCHANGED cut /\ Trades!NextEntry(c)
        BY <1>8
    <3> HIDE DEF p
    <3> QED BY <1>0, <1>1, <2>3, <2>5, <2>6, <3>1, <3>2, <3>3, NextKept
  <2>11. PairsFill'
    <3>1. ASSUME NEW d \in Ins, NEW y \in Exits, matched'[d][y] > 0
          PROVE  UsedUp(d)' \/ InFull(y)'
      <4>1. CASE d = e /\ y = x
        <5>1. CASE q = remaining[c][e]
            BY <2>9, <4>1, <5>1
        <5>2. CASE q = unmatched[c]
          <6>1. ExitQty[x] <= unmatched[c] + Passed(c)
              BY <1>2 DEF CallRight
          <6>2. /\ Passed(c) <= Trades!Matched(x) /\ Passed(c) \in Nat /\ Trades!Matched(x) \in Nat
                /\ ExitQty[x] \in Nat
              BY <1>2, TradeNumbers, TradeSizes
          <6>3. Trades!Matched(x)' = ExitQty[x]
              BY <1>4, <1>8, <2>4, <5>2, <6>1, <6>2
          <6> QED BY <4>1, <6>3 DEF InFull
        <5> QED BY <1>4, <5>1, <5>2
      <4>2. CASE ~ (d = e /\ y = x)
        <5>1. n[d][y] = matched[d][y]
            BY <1>2, <1>3, <2>1, <4>2 DEF Pairs
        <5>2. UsedUp(d) \/ InFull(y)
            BY <3>1, <5>1 DEF TradesInv, PairsFill, n
        <5> QED BY <2>7, <5>2
      <4> QED BY <4>1, <4>2
    <3> QED BY <3>1 DEF PairsFill
  <2> HIDE DEF p
  <2> QED BY <1>8, <2>3, <2>4, <2>5, <2>6, <2>10, <2>11, StepKept
<1> QED BY <1>1, <1>5, <1>7, <1>8

\* A crash cuts short what was on its way.
LEMMA CrashKept ==
    ASSUME TradesInv, Trades!Crash
    PROVE  TradesInv'
<1> DEFINE running == {c \in Calls : at[c] \notin {"idle", "done"}}
<1>1. /\ at' = [c \in Calls |-> IF c \in running THEN "done" ELSE at[c]]
      /\ entryLock' = [e \in Ins |-> None] /\ exitLock' = [x \in Exits |-> None]
      /\ todo' = [c \in Calls |-> {}] /\ remaining' = [c \in Calls |-> [e \in Ins |-> 0]]
      /\ unmatched' = [c \in Calls |-> 0]
      /\ cut' = cut \cup {ExitOf[c] : c \in running} /\ UNCHANGED <<saved, matched>>
    BY DEF Trades!Crash, Ins
<1>2. Trades!TypeOK
    BY DEF TradesInv
<1>3. at' \in [Calls -> Trades!Places] /\ \A c \in Calls : at'[c] \in {"idle", "done"}
    BY <1>1, <1>2 DEF Trades!TypeOK, Trades!Places
<1>4. cut' \in SUBSET Exits
    BY <1>1, <1>2, TradeSizes DEF Trades!TypeOK
<1>5. Trades!TypeOK'
    BY <1>1, <1>2, <1>3, <1>4 DEF Trades!TypeOK, Ins
<1>6. /\ Trades!WithinQuantities' /\ PairsFill'
      /\ \A y \in Exits : Trades!Matched(y)' = Trades!Matched(y)
    BY <1>1, <1>5, NothingMatched
<1>7. CallsRight'
    BY <1>3 DEF CallsRight, CallRight, PassedUsedUp, Matching
<1>8. ExitsRight'
  <2>1. Enough' <=> Enough
      BY DEF Enough
  <2>2. ASSUME Enough, NEW x \in Exits, x \notin cut' PROVE ExitRight(x)'
    <3>1. \A c \in Calls : ExitOf[c] = x => c \notin running
        BY <1>1, <2>2
    <3>2. ~BeingMatched(x)
        BY <3>1 DEF BeingMatched, Matching
    <3>3. \A c \in Calls : ExitOf[c] = x => at'[c] = at[c]
        BY <1>1, <3>1
    <3>4. ExitRight(x) /\ x \notin cut
        BY <1>1, <2>2 DEF TradesInv, ExitsRight
    <3>5. Trades!Matched(x)' = Trades!Matched(x) /\ (InFull(x)' <=> InFull(x))
        BY <1>6 DEF InFull
    <3> QED BY <3>2, <3>3, <3>4, <3>5 DEF ExitRight
  <2>3. \A x \in Exits : x \in cut' => ExitRight(x)'
      BY DEF ExitRight
  <2> QED BY <2>1, <2>2, <2>3 DEF ExitsRight
<1> QED BY <1>5, <1>6, <1>7, <1>8 DEF TradesInv

\* Every step keeps the invariant.
LEMMA TradesStep ==
    ASSUME TradesInv, Trades!Next \/ UNCHANGED tradeVars
    PROVE  TradesInv'
<1>1. ASSUME NEW c \in Calls, Trades!Step(c) PROVE TradesInv'
    BY <1>1, EarlyKept, CheckKept, FindKept, FinishKept, LockKept, CommitKept DEF Trades!Step
<1>2. ASSUME UNCHANGED tradeVars PROVE TradesInv'
  <2>1. UNCHANGED <<saved, matched, entryLock, exitLock, at, todo, remaining, unmatched, cut>>
      BY <1>2 DEF tradeVars
  <2>2. Trades!TypeOK'
      BY <2>1 DEF TradesInv, Trades!TypeOK
  <2>3. /\ Trades!WithinQuantities' /\ PairsFill' /\ Grown
        /\ \A y \in Exits : Trades!Matched(y)' = Trades!Matched(y)
      BY <2>1, <2>2, NothingMatched
  <2>4. CallsRight'
      BY <2>1, <2>2, <2>3, CallKept DEF CallsRight
  <2>5. ASSUME NEW x \in Exits, ExitRight(x) PROVE ExitRight(x)'
    <3>1. Trades!Matched(x)' = Trades!Matched(x) /\ (InFull(x)' <=> InFull(x))
        BY <2>3 DEF InFull
    <3>2. BeingMatched(x)' <=> BeingMatched(x)
        BY <2>1 DEF BeingMatched, Matching
    <3> QED BY <2>1, <2>5, <3>1, <3>2 DEF ExitRight
  <2>6. ExitsRight'
      BY <2>5 DEF TradesInv, ExitsRight, Enough
  <2> QED BY <2>2, <2>3, <2>4, <2>6 DEF TradesInv
<1> QED BY <1>1, <1>2, CrashKept DEF Trades!Next

\* Nothing is matched at first.
LEMMA TradesStart ==
    ASSUME Trades!Init
    PROVE  TradesInv
<1>1. Trades!TypeOK
    BY TradeSizes DEF Trades!Init, Trades!TypeOK, Trades!Places
<1>2. \A e \in Ins, x \in Exits : matched[e][x] = 0
    BY DEF Trades!Init, Ins
<1>3. \A e \in Ins : Trades!Allocated(e) = 0
  <2>1. \A e \in Ins : AllocatedIn(matched, e) = 0
    <3>1. ASSUME NEW e \in Ins PROVE AllocatedIn(matched, e) = 0
      <4>1. \A x \in Exits : Row(matched, e, Exits)[x] = 0
          BY <1>2 DEF Row
      <4> QED BY <4>1, TradeSizes, SumZero DEF AllocatedIn
    <3> QED BY <3>1
  <2> QED BY <1>1, <2>1, TradeSums
<1>4. \A x \in Exits : Trades!Matched(x) = 0
  <2>1. \A x \in Exits : MatchedIn(matched, x) = 0
    <3>1. ASSUME NEW x \in Exits PROVE MatchedIn(matched, x) = 0
      <4>1. \A e \in Ins : Column(matched, x, Ins)[e] = 0
          BY <1>2 DEF Column
      <4> QED BY <4>1, TradeSizes, SumZero DEF MatchedIn, MatchedOf
    <3> QED BY <3>1
  <2> QED BY <1>1, <2>1, TradeSums
<1>5. Trades!WithinQuantities
    BY <1>3, <1>4, TradeSizes DEF Trades!WithinQuantities, Ins
<1>6. PairsFill
    BY <1>2 DEF PairsFill
<1>7. \A c \in Calls : at[c] = "idle"
    BY DEF Trades!Init
<1>8. CallsRight
    BY <1>7 DEF CallsRight, CallRight, PassedUsedUp, Matching
<1>9. ExitsRight
    BY <1>4, <1>7 DEF ExitsRight, ExitRight
<1> QED BY <1>1, <1>5, <1>6, <1>8, <1>9 DEF TradesInv

\* The invariant says what was to be shown.
LEMMA AccountedFor ==
    ASSUME TradesInv
    PROVE  AccountedOnce
<1>1. Trades!WithinQuantities
    BY DEF TradesInv
<1>2. ASSUME Enough, NEW x \in Exits, x \notin cut,
             \E c \in Calls : ExitOf[c] = x /\ c \notin External /\ at[c] = "done",
             \A c \in Calls : ExitOf[c] = x => at[c] \in {"idle", "done"}
      PROVE  Trades!Matched(x) = ExitQty[x]
  <2>1. ~BeingMatched(x)
      BY <1>2 DEF BeingMatched, Matching
  <2> QED BY <1>2, <2>1 DEF TradesInv, ExitsRight, ExitRight, InFull
<1>3. Trades!MatchedInFull
    BY <1>2 DEF Trades!MatchedInFull, Enough
<1> QED BY <1>1, <1>3 DEF AccountedOnce

\* No quantity of an entry or of an exit is accounted for twice, whatever calls match an exit
\* at a time; and an exit whose calls have ended without being cut short is matched in full.
THEOREM QuantitiesOnce == Spec => []AccountedOnce
<1>1. Init => TradesInv
    BY TradesStart DEF Init
<1>2. TradesInv /\ [Next]_vars => TradesInv'
    BY PartsApart, TradesStep
<1> QED BY <1>1, <1>2, AccountedFor, PTL DEF Spec

-----------------------------------------------------------------------------
(* TradeRows.                                                              *)

\* The orders that have a row.
Known == DOMAIN tradeRows

\* Rows of exits have a reason, and what a task has still to do concerns exits.
RowsReasoned ==
    /\ \A k \in Known : executed[k].exit => tradeRows[k] # None
    /\ noticed # None => executed[noticed].exit
    /\ \A k \in closing : executed[k].exit

\* The sorted set is finite, and its members are of orders.
CacheKnown == IsFiniteSet(cache) /\ \A e \in cache : e.order \in Recorded!Orders

\* The inductive invariant of TradeRows.
RowsInv ==
    /\ Recorded!TypeOK /\ CacheKnown
    /\ RowsReasoned /\ Recorded!ReasonsAgree /\ Recorded!NothingHidden

\* The sizes are numbers, and the reasons differ from none.
LEMMA RowSizes ==
    /\ ReadLimit \in Nat \ {0} /\ MaxOrders \in Nat
    /\ None \notin {"SIGNAL", "EXTERNAL_CLOSE"}
    /\ \A S : Recorded!Cardinality(S) = Cardinality(S)
BY ConstantsAssumption DEF Recorded!ConstantsOK, Recorded!Cardinality, Cardinality

\* There are finitely many rows.
LEMMA KnownFinite ==
    ASSUME Recorded!TypeOK
    PROVE  IsFiniteSet(Known) /\ Known \subseteq Recorded!Orders /\ Cardinality(Known) \in Nat
<1>1. Recorded!Orders = 1..Len(executed) /\ Len(executed) \in Nat
    BY DEF Recorded!TypeOK, Recorded!Orders
<1>2. IsFiniteSet(1..Len(executed))
  <2>1. 1 \in Int /\ Len(executed) \in Int
      BY <1>1
  <2> QED BY <2>1, FS_Interval, Zenon
<1>3. Known \subseteq Recorded!Orders
    BY DEF Recorded!TypeOK, Known
<1>4. Known \subseteq 1..Len(executed)
    BY <1>1, <1>3
<1> QED BY <1>2, <1>3, <1>4, FS_Subset, FS_CardinalityType

\* How many an answer has.
LEMMA AnswerNumber ==
    ASSUME NEW orderSet, NEW n \in Nat
    PROVE  /\ Recorded!Answer(orderSet, n).orders = orderSet
           /\ Recorded!Answer(orderSet, n).number \in 0..ReadLimit
           /\ Recorded!Answer(orderSet, n).number < ReadLimit => n < ReadLimit
           /\ orderSet \subseteq Recorded!Orders =>
                Recorded!Answer(orderSet, n) \in [orders : SUBSET Recorded!Orders, number : 0..ReadLimit]
<1> DEFINE m == CHOOSE x \in {ReadLimit, n} : \A y \in {ReadLimit, n} : x <= y
<1>1. \E x \in {ReadLimit, n} : \A y \in {ReadLimit, n} : x <= y
    BY RowSizes
<1>2. m \in {ReadLimit, n} /\ \A y \in {ReadLimit, n} : m <= y
    BY <1>1
<1>3. Recorded!Answer(orderSet, n) = [orders |-> orderSet, number |-> m]
    BY DEF Recorded!Answer, Recorded!Min
<1> HIDE DEF m
<1>4. m \in 0..ReadLimit /\ (m < ReadLimit => n < ReadLimit)
    BY <1>2, RowSizes
<1> QED BY <1>3, <1>4

\* Rows that are fewer than were asked for are all read.
LEMMA LatestOf ==
    ASSUME Recorded!TypeOK
    PROVE  /\ Recorded!Latest \in [orders : SUBSET Recorded!Orders, number : 0..ReadLimit]
           /\ Recorded!Latest.orders \subseteq Known
           /\ Recorded!Latest.number < ReadLimit => Recorded!Latest.orders = Known
<1> DEFINE some == {k \in Known : Cardinality({j \in Known : j > k}) < ReadLimit}
<1>1. Recorded!Latest = Recorded!Answer(some, Cardinality(Known))
    BY RowSizes DEF Recorded!Latest, Known
<1>2. some \subseteq Known /\ Known \subseteq Recorded!Orders /\ Cardinality(Known) \in Nat
    BY KnownFinite
<1>3. ASSUME Cardinality(Known) < ReadLimit PROVE some = Known
  <2>1. ASSUME NEW k \in Known PROVE Cardinality({j \in Known : j > k}) < ReadLimit
    <3> DEFINE T == {j \in Known : j > k}
    <3>1. T \in SUBSET Known
        OBVIOUS
    <3> HIDE DEF T
    <3>2. Cardinality(T) <= Cardinality(Known) /\ Cardinality(T) \in Nat
        BY <3>1, KnownFinite, FS_Subset, FS_CardinalityType
    <3>3. Cardinality(T) < ReadLimit
        BY <1>2, <1>3, <3>2, RowSizes
    <3> QED BY <3>3 DEF T
  <2> QED BY <2>1
<1> HIDE DEF some
<1> QED BY <1>1, <1>2, <1>3, AnswerNumber

\* What the sorted set answers: it is full, or it is not a hit.
LEMMA RecentOf ==
    ASSUME RowsInv
    PROVE  Recorded!Recent \in [orders : SUBSET Recorded!Orders, number : 0..ReadLimit]
<1> DEFINE entries == {e \in cache : e.order > old}
           some == {e.order : e \in {e \in entries : Cardinality({d \in entries : d.order < e.order}) < ReadLimit}}
<1>1. Recorded!Recent = Recorded!Answer(some, Cardinality(entries))
    BY RowSizes DEF Recorded!Recent
<1>2. some \subseteq Recorded!Orders
    BY DEF RowsInv, CacheKnown
<1>3. Cardinality(entries) \in Nat
  <2>1. entries \in SUBSET cache /\ IsFiniteSet(cache)
      BY DEF RowsInv, CacheKnown
  <2> QED BY <2>1, FS_Subset, FS_CardinalityType
<1> HIDE DEF some, entries
<1> QED BY <1>1, <1>2, <1>3, AnswerNumber

\* What a set of orders is added to the sorted set as.
LEMMA CachedFinite ==
    ASSUME RowsInv, NEW S, IsFiniteSet(S), S \subseteq Recorded!Entries,
           \A e \in S : e.order \in Recorded!Orders,
           Recorded!Cached(S) \/ Recorded!CachedSaved(S)
    PROVE  /\ IsFiniteSet(cache') /\ cache' \subseteq Recorded!Entries
           /\ \A e \in cache' : e.order \in Recorded!Orders
<1>1. cache' \in SUBSET (cache \cup S)
    BY DEF Recorded!Cached, Recorded!CachedSaved, Recorded!Newest
<1>2. IsFiniteSet(cache) /\ cache \subseteq Recorded!Entries /\ \A e \in cache : e.order \in Recorded!Orders
    BY DEF RowsInv, CacheKnown, Recorded!TypeOK
<1>3. IsFiniteSet(cache \cup S)
    BY <1>2, FS_Union
<1>4. IsFiniteSet(cache')
    BY <1>1, <1>3, FS_Subset
<1> QED BY <1>1, <1>2, <1>4

\* Entries are of their order.
LEMMA EntryOf ==
    ASSUME RowsInv, NEW k \in Recorded!Orders, NEW reason \in Recorded!Reasons,
           NEW form \in {"answer", "trades", "row"}
    PROVE  /\ Recorded!Entry(k, reason, form) \in Recorded!Entries
           /\ Recorded!Entry(k, reason, form).order = k
           /\ Recorded!Form(k, form) \in {"answer", "trades", "row"}
<1>1. k \in 1..MaxOrders
    BY RowSizes DEF RowsInv, Recorded!TypeOK, Recorded!Orders
<1> QED BY <1>1 DEF Recorded!Entry, Recorded!Entries, Recorded!Form

\* One order is added to the sorted set.
LEMMA CachedOne ==
    ASSUME RowsInv, NEW k \in Recorded!Orders, NEW reason \in Recorded!Reasons,
           NEW form \in {"answer", "trades", "row"},
           Recorded!CachedSaved({Recorded!Entry(k, reason, form)})
    PROVE  /\ IsFiniteSet(cache') /\ cache' \subseteq Recorded!Entries
           /\ \A e \in cache' : e.order \in Recorded!Orders
<1> DEFINE e == Recorded!Entry(k, reason, form)
<1>1. e \in Recorded!Entries /\ e.order = k
    BY EntryOf
<1> HIDE DEF e
<1>2. IsFiniteSet({e})
    BY FS_Singleton
<1> QED BY <1>1, <1>2, CachedFinite DEF e

\* The rows read are added.
LEMMA CachedLatest ==
    ASSUME RowsInv,
           Recorded!Cached({Recorded!Entry(k, tradeRows[k], "row") : k \in Recorded!Latest.orders})
    PROVE  /\ IsFiniteSet(cache') /\ cache' \subseteq Recorded!Entries
           /\ \A e \in cache' : e.order \in Recorded!Orders
<1> DEFINE K == Recorded!Latest.orders
           S == {Recorded!Entry(k, tradeRows[k], "row") : k \in K}
           f == [k \in K |-> Recorded!Entry(k, tradeRows[k], "row")]
<1>1. K \in SUBSET Known /\ Known \subseteq Recorded!Orders /\ IsFiniteSet(Known)
    BY LatestOf, KnownFinite DEF RowsInv
<1>2. \A k \in K : tradeRows[k] \in Recorded!Reasons /\ k \in Recorded!Orders
    BY <1>1 DEF RowsInv, Recorded!TypeOK, Known
<1>3. IsFiniteSet(K)
    BY <1>1, FS_Subset
<1>4. Recorded!Cached(S)
    OBVIOUS
<1>5. \A e \in S : e \in Recorded!Entries /\ e.order \in Recorded!Orders
    BY <1>2, EntryOf
<1>6. IsFiniteSet(S)
  <2>1. f \in Surjection(K, S)
      BY DEF Surjection
  <2> HIDE DEF f, S, K
  <2> QED BY <1>3, <2>1, FS_Surjection
<1> HIDE DEF S
<1> QED BY <1>4, <1>5, <1>6, CachedFinite

\* A function with one more value, or another.
LEMMA WithOf ==
    ASSUME NEW f, NEW k, NEW v, NEW g, g = Recorded!With(f, k, v)
    PROVE  /\ DOMAIN g = DOMAIN f \cup {k}
           /\ g[k] = v
           /\ \A j \in DOMAIN f : j # k => g[j] = f[j]
BY DEF Recorded!With

\* A step that writes at most one row, and the completed trade that goes with it.
LEMMA RowsKept ==
    ASSUME RowsInv, executed' = executed, old' = old, shown' = None,
           Recorded!Orders' = Recorded!Orders,
           IsFiniteSet(cache'), cache' \subseteq Recorded!Entries,
           \A e \in cache' : e.order \in Recorded!Orders,
           saving' \in {saving, None}, noticed' \in {noticed, None},
           NEW k \in Recorded!Orders,
           DOMAIN tradeRows' \subseteq Known \cup {k}, Known \subseteq DOMAIN tradeRows',
           \A j \in Known : j # k => tradeRows'[j] = tradeRows[j],
           DOMAIN completed' \subseteq DOMAIN completed \cup {k},
           \A j \in DOMAIN completed : j # k => completed'[j] = completed[j],
           closing' \subseteq closing \cup {k},
           k \in DOMAIN tradeRows' =>
               tradeRows'[k] \in Recorded!Reasons /\ (executed[k].exit => tradeRows'[k] # None),
           k \in DOMAIN completed' => k \in DOMAIN tradeRows' /\ completed'[k] = tradeRows'[k],
           k \in closing' =>
               executed[k].exit /\ k \in DOMAIN tradeRows' /\ tradeRows'[k] = Recorded!Reason(k)
    PROVE  RowsInv'
<1>1. /\ Recorded!TypeOK /\ RowsReasoned /\ Recorded!ReasonsAgree
    BY DEF RowsInv
<1>2. Recorded!ReasonsAgree'
  <2>1. \A j \in DOMAIN completed' : j \in DOMAIN tradeRows' /\ completed'[j] = tradeRows'[j]
      BY <1>1 DEF Recorded!ReasonsAgree, Known
  <2>2. \A j \in closing' : tradeRows'[j] = Recorded!Reason(j)
      BY <1>1 DEF Recorded!ReasonsAgree, Recorded!TypeOK, Known
  <2>3. \A j : Recorded!Reason(j)' = Recorded!Reason(j)
      BY DEF Recorded!Reason
  <2> QED BY <2>1, <2>2, <2>3 DEF Recorded!ReasonsAgree
<1>3. \A j \in DOMAIN tradeRows' : tradeRows'[j] \in Recorded!Reasons
    BY <1>1 DEF Recorded!TypeOK, Known
<1>4. \A j \in DOMAIN completed' : completed'[j] \in Recorded!Reasons
    BY <1>2, <1>3 DEF Recorded!ReasonsAgree
<1>5. closing' \subseteq DOMAIN tradeRows'
    BY <1>1 DEF Recorded!TypeOK, Known
<1>6. DOMAIN tradeRows' \subseteq Recorded!Orders /\ DOMAIN completed' \subseteq Recorded!Orders
    BY <1>1 DEF Recorded!TypeOK, Known
<1>7. Recorded!TypeOK'
    BY <1>1, <1>3, <1>4, <1>5, <1>6 DEF Recorded!TypeOK
<1>8. RowsReasoned'
    BY <1>1, <1>5 DEF RowsReasoned, Recorded!TypeOK, Known
<1>9. CacheKnown' /\ Recorded!NothingHidden'
    BY DEF CacheKnown, Recorded!NothingHidden
<1> QED BY <1>2, <1>7, <1>8, <1>9 DEF RowsInv

\* An order that is executed is not yet known.
LEMMA ExecuteRows ==
    ASSUME RowsInv, NEW order \in [exit : BOOLEAN, whole : BOOLEAN], NEW mine \in BOOLEAN,
           Recorded!Execute(order, mine)
    PROVE  RowsInv'
<1>1. /\ Len(executed) < MaxOrders /\ executed' = Append(executed, order)
      /\ saving' = IF mine THEN Len(executed') ELSE saving
      /\ shown' = None /\ UNCHANGED <<noticed, closing, tradeRows, completed, cache, old>>
    BY DEF Recorded!Execute
<1>2. /\ Recorded!TypeOK /\ RowsReasoned /\ Recorded!ReasonsAgree /\ CacheKnown
      /\ executed \in Seq([exit : BOOLEAN, whole : BOOLEAN])
    BY DEF RowsInv, Recorded!TypeOK
<1>3. /\ executed' \in Seq([exit : BOOLEAN, whole : BOOLEAN]) /\ Len(executed') = Len(executed) + 1
      /\ \A k \in Recorded!Orders : executed'[k] = executed[k]
      /\ Recorded!Orders = 1..Len(executed) /\ Recorded!Orders' = 1..Len(executed')
      /\ Len(executed) \in Nat
    BY <1>1, <1>2 DEF Recorded!Orders
<1>4. Recorded!Orders \subseteq Recorded!Orders' /\ Len(executed') \in Recorded!Orders'
    BY <1>3
<1>5. Recorded!TypeOK'
    BY <1>1, <1>2, <1>3, <1>4, RowSizes DEF Recorded!TypeOK
<1>6. \A k \in Known : k \in Recorded!Orders
    BY <1>2 DEF Recorded!TypeOK, Known
<1>7. RowsReasoned'
    BY <1>1, <1>2, <1>3, <1>6 DEF RowsReasoned, Recorded!TypeOK, Known
<1>8. \A k \in closing : Recorded!Reason(k)' = Recorded!Reason(k)
    BY <1>2, <1>3, <1>6 DEF Recorded!Reason, Recorded!TypeOK, Known
<1>9. Recorded!ReasonsAgree'
    BY <1>1, <1>2, <1>8 DEF Recorded!ReasonsAgree
<1>10. CacheKnown' /\ Recorded!NothingHidden'
    BY <1>1, <1>2, <1>4 DEF CacheKnown, Recorded!NothingHidden
<1> QED BY <1>5, <1>7, <1>9, <1>10 DEF RowsInv

\* Steps that leave orders, rows and completed trades as they are.
LEMMA OthersRows ==
    ASSUME RowsInv, UNCHANGED <<executed, saving, tradeRows, completed>>,
           noticed' = noticed \/ (noticed' \in Recorded!Orders /\ executed[noticed'].exit),
           closing' = closing, old' \in 0..MaxOrders,
           IsFiniteSet(cache'), cache' \subseteq Recorded!Entries,
           \A e \in cache' : e.order \in Recorded!Orders,
           Recorded!NothingHidden',
           shown' = None \/ shown' \in [orders : SUBSET Recorded!Orders, number : 0..ReadLimit]
    PROVE  RowsInv'
<1>1. Recorded!TypeOK /\ RowsReasoned /\ Recorded!ReasonsAgree
    BY DEF RowsInv
<1>2. Recorded!Orders' = Recorded!Orders
    BY DEF Recorded!Orders
<1>3. Recorded!TypeOK'
    BY <1>1, <1>2 DEF Recorded!TypeOK
<1>4. RowsReasoned'
    BY <1>1 DEF RowsReasoned, Known
<1>5. Recorded!ReasonsAgree'
    BY <1>1 DEF Recorded!ReasonsAgree, Recorded!Reason
<1> QED BY <1>2, <1>3, <1>4, <1>5 DEF RowsInv, CacheKnown

\* A reader who gets less than it asked for has got all rows.
LEMMA ReadRows ==
    ASSUME RowsInv, Recorded!GetRecentTrades
    PROVE  RowsInv'
<1>1. Recorded!Read /\ UNCHANGED <<executed, saving, noticed, closing, tradeRows, completed, old>>
    BY DEF Recorded!GetRecentTrades
<1>2. /\ IsFiniteSet(cache') /\ cache' \subseteq Recorded!Entries
      /\ \A e \in cache' : e.order \in Recorded!Orders
  <2>1. CASE cache' = cache
      BY <2>1 DEF RowsInv, CacheKnown, Recorded!TypeOK
  <2>2. CASE Recorded!Cached({Recorded!Entry(k, tradeRows[k], "row") : k \in Recorded!Latest.orders})
      BY <2>2, CachedLatest
  <2> QED BY <1>1, <2>1, <2>2 DEF Recorded!Read
<1>3. shown' = Recorded!Latest \/ (shown' = Recorded!Recent /\ Recorded!Recent.number = ReadLimit)
    BY <1>1 DEF Recorded!Read, Recorded!Hit
<1>4. shown' \in [orders : SUBSET Recorded!Orders, number : 0..ReadLimit]
    BY <1>3, LatestOf, RecentOf DEF RowsInv
<1>5. shown'.number < ReadLimit => shown'.orders = DOMAIN tradeRows
  <2>1. ~ (ReadLimit < ReadLimit)
      BY RowSizes
  <2> QED BY <1>3, <2>1, LatestOf DEF RowsInv, Known
<1>6. Recorded!NothingHidden'
    BY <1>1, <1>5 DEF Recorded!NothingHidden
<1>7. old' \in 0..MaxOrders
    BY <1>1 DEF RowsInv, Recorded!TypeOK
<1> QED BY <1>1, <1>2, <1>4, <1>6, <1>7, OthersRows

\* A task takes on an exit that has no row.
LEMMA NoticeRows ==
    ASSUME RowsInv, NEW k \in Recorded!Orders, Recorded!Notice(k)
    PROVE  RowsInv'
<1>1. /\ executed[k].exit /\ noticed' = k /\ shown' = None
      /\ UNCHANGED <<executed, saving, closing, tradeRows, completed, cache, old>>
    BY DEF Recorded!Notice
<1>2. /\ IsFiniteSet(cache') /\ cache' \subseteq Recorded!Entries
      /\ \A e \in cache' : e.order \in Recorded!Orders /\ old' \in 0..MaxOrders
    BY <1>1 DEF RowsInv, CacheKnown, Recorded!TypeOK
<1>3. Recorded!NothingHidden' /\ old' \in 0..MaxOrders
    BY <1>1 DEF Recorded!NothingHidden, RowsInv, Recorded!TypeOK
<1> QED BY <1>1, <1>2, <1>3, OthersRows

\* What expires is no row.
LEMMA AgeRows ==
    ASSUME RowsInv, Recorded!Age
    PROVE  RowsInv'
<1>1. /\ old' \in old + 1..Len(executed) /\ cache' \in {cache, {}} /\ shown' = None
      /\ UNCHANGED <<executed, saving, noticed, closing, tradeRows, completed>>
    BY DEF Recorded!Age
<1>2. IsFiniteSet(cache') /\ cache' \subseteq Recorded!Entries
      /\ \A e \in cache' : e.order \in Recorded!Orders
    BY <1>1, FS_EmptySet DEF RowsInv, CacheKnown, Recorded!TypeOK
<1>3. old' \in 0..MaxOrders
    BY <1>1, RowSizes DEF RowsInv, Recorded!TypeOK
<1>4. Recorded!NothingHidden'
    BY <1>1 DEF Recorded!NothingHidden
<1> QED BY <1>1, <1>2, <1>3, <1>4, OthersRows

\* The completed trade that the strategy creates has the strategy's reason, as the row has.
LEMMA CompleteRows ==
    ASSUME RowsInv, NEW k \in Recorded!Orders, Recorded!Complete(k)
    PROVE  RowsInv'
<1>1. /\ k \in closing /\ closing' = closing \ {k} /\ shown' = None
      /\ completed' = IF k \in DOMAIN completed THEN completed
                      ELSE Recorded!With(completed, k, Recorded!Reason(k))
      /\ UNCHANGED <<executed, saving, noticed, tradeRows, cache, old>>
    BY DEF Recorded!Complete
<1>2. /\ Recorded!TypeOK /\ RowsReasoned /\ Recorded!ReasonsAgree /\ CacheKnown
    BY DEF RowsInv
<1>3. k \in DOMAIN tradeRows /\ tradeRows[k] = Recorded!Reason(k) /\ executed[k].exit
    BY <1>1, <1>2 DEF Recorded!TypeOK, Recorded!ReasonsAgree, RowsReasoned
<1>4. /\ DOMAIN completed' \subseteq DOMAIN completed \cup {k}
      /\ \A j \in DOMAIN completed : j # k => completed'[j] = completed[j]
      /\ completed'[k] = tradeRows[k]
  <2>1. CASE k \in DOMAIN completed
      BY <1>1, <1>2, <1>3, <2>1 DEF Recorded!ReasonsAgree
  <2>2. CASE k \notin DOMAIN completed
    <3> DEFINE f == completed
               g == completed'
    <3>1. g = Recorded!With(f, k, Recorded!Reason(k))
        BY <1>1, <2>2
    <3> HIDE DEF f, g
    <3>2. /\ DOMAIN g = DOMAIN f \cup {k} /\ g[k] = Recorded!Reason(k)
          /\ \A j \in DOMAIN f : j # k => g[j] = f[j]
        BY ONLY <3>1, WithOf DEF Recorded!With
    <3> QED BY <1>3, <3>2 DEF f, g
  <2> QED BY <2>1, <2>2
<1>5. tradeRows[k] \in Recorded!Reasons /\ tradeRows[k] # None
    BY <1>2, <1>3 DEF Recorded!TypeOK, RowsReasoned, Known
<1>6. /\ IsFiniteSet(cache') /\ cache' \subseteq Recorded!Entries
      /\ \A e \in cache' : e.order \in Recorded!Orders /\ Recorded!Orders' = Recorded!Orders
    BY <1>1, <1>2 DEF CacheKnown, Recorded!TypeOK, Recorded!Orders
<1>7. Recorded!Orders' = Recorded!Orders
    BY <1>1 DEF Recorded!Orders
<1> QED BY <1>1, <1>3, <1>4, <1>5, <1>6, <1>7, RowsKept DEF Known

\* A close taken for one from outside writes a row and a completed trade that agree, or finds
\* those of the strategy.
LEMMA SaveNoticedRows ==
    ASSUME RowsInv, Recorded!SaveNoticed
    PROVE  RowsInv'
<1>0. PICK k : k = noticed
    OBVIOUS
<1>1. /\ k # None /\ noticed' = None /\ shown' = None
      /\ UNCHANGED <<executed, saving, closing, old>>
      /\ \/ UNCHANGED <<tradeRows, completed, cache>>
         \/ /\ k \in Known => tradeRows[k] \in {None, "EXTERNAL_CLOSE"}
            /\ tradeRows' = IF k \in Known THEN tradeRows
                            ELSE Recorded!With(tradeRows, k, "EXTERNAL_CLOSE")
            /\ completed' = IF k \in DOMAIN completed THEN completed
                            ELSE Recorded!With(completed, k, "EXTERNAL_CLOSE")
            /\ Recorded!CachedSaved({Recorded!Entry(k, "EXTERNAL_CLOSE", Recorded!Form(k, "trades"))})
    BY <1>0 DEF Recorded!SaveNoticed, Known
<1>2. /\ Recorded!TypeOK /\ RowsReasoned /\ Recorded!ReasonsAgree /\ CacheKnown
    BY DEF RowsInv
<1>3. k \in Recorded!Orders /\ executed[k].exit
    BY <1>0, <1>1, <1>2 DEF Recorded!TypeOK, RowsReasoned
<1>4. Recorded!Orders' = Recorded!Orders
    BY <1>1 DEF Recorded!Orders
<1>5. CASE UNCHANGED <<tradeRows, completed, cache>>
  <2>1. /\ IsFiniteSet(cache') /\ cache' \subseteq Recorded!Entries
        /\ \A e \in cache' : e.order \in Recorded!Orders
      BY <1>2, <1>5 DEF CacheKnown, Recorded!TypeOK
  <2>2. /\ \A j \in Known : tradeRows[j] \in Recorded!Reasons /\ (executed[j].exit => tradeRows[j] # None)
        /\ \A j \in DOMAIN completed : j \in Known /\ completed[j] = tradeRows[j]
        /\ \A j \in closing : executed[j].exit /\ j \in Known /\ tradeRows[j] = Recorded!Reason(j)
      BY <1>2 DEF Recorded!TypeOK, RowsReasoned, Recorded!ReasonsAgree, Known
  <2> QED BY <1>1, <1>3, <1>4, <1>5, <2>1, <2>2, RowsKept DEF Known
<1>6. CASE /\ k \in Known => tradeRows[k] \in {None, "EXTERNAL_CLOSE"}
           /\ tradeRows' = IF k \in Known THEN tradeRows
                           ELSE Recorded!With(tradeRows, k, "EXTERNAL_CLOSE")
           /\ completed' = IF k \in DOMAIN completed THEN completed
                           ELSE Recorded!With(completed, k, "EXTERNAL_CLOSE")
           /\ Recorded!CachedSaved({Recorded!Entry(k, "EXTERNAL_CLOSE", Recorded!Form(k, "trades"))})
  <2>1. "EXTERNAL_CLOSE" \in Recorded!Reasons /\ None \in Recorded!Reasons
      BY DEF Recorded!Reasons
  <2>2. Recorded!Form(k, "trades") \in {"answer", "trades", "row"}
      BY DEF Recorded!Form
  <2>3. /\ IsFiniteSet(cache') /\ cache' \subseteq Recorded!Entries
        /\ \A e \in cache' : e.order \in Recorded!Orders
      BY <1>3, <1>6, <2>1, <2>2, CachedOne
  <2>4. k \in Known => tradeRows[k] = "EXTERNAL_CLOSE" /\ tradeRows[k] # None
      BY <1>2, <1>3, <1>6 DEF RowsReasoned
  <2>5. /\ DOMAIN tradeRows' = Known \cup {k} /\ tradeRows'[k] = "EXTERNAL_CLOSE"
        /\ \A j \in Known : j # k => tradeRows'[j] = tradeRows[j]
    <3>1. CASE k \in Known
        BY <1>6, <2>4, <3>1 DEF Known
    <3>2. CASE k \notin Known
      <4> DEFINE f == tradeRows
                 g == tradeRows'
      <4>1. g = Recorded!With(f, k, "EXTERNAL_CLOSE")
          BY <1>6, <3>2
      <4> HIDE DEF f, g
      <4>2. /\ DOMAIN g = DOMAIN f \cup {k} /\ g[k] = "EXTERNAL_CLOSE"
            /\ \A j \in DOMAIN f : j # k => g[j] = f[j]
          BY ONLY <4>1, WithOf DEF Recorded!With
      <4> QED BY <4>2 DEF f, g, Known
    <3> QED BY <3>1, <3>2
  <2>6. /\ DOMAIN completed' \subseteq DOMAIN completed \cup {k}
        /\ \A j \in DOMAIN completed : j # k => completed'[j] = completed[j]
        /\ completed'[k] = "EXTERNAL_CLOSE"
    <3>1. CASE k \in DOMAIN completed
        BY <1>2, <1>6, <2>4, <3>1 DEF Recorded!ReasonsAgree, Known
    <3>2. CASE k \notin DOMAIN completed
      <4> DEFINE f == completed
                 g == completed'
      <4>1. g = Recorded!With(f, k, "EXTERNAL_CLOSE")
          BY <1>6, <3>2
      <4> HIDE DEF f, g
      <4>2. /\ DOMAIN g = DOMAIN f \cup {k} /\ g[k] = "EXTERNAL_CLOSE"
            /\ \A j \in DOMAIN f : j # k => g[j] = f[j]
          BY ONLY <4>1, WithOf DEF Recorded!With
      <4> QED BY <4>2 DEF f, g
    <3> QED BY <3>1, <3>2
  <2>7. k \in closing => k \in Known /\ tradeRows[k] = Recorded!Reason(k)
      BY <1>2 DEF Recorded!TypeOK, Recorded!ReasonsAgree, Known
  <2> QED BY <1>1, <1>3, <1>4, <2>1, <2>3, <2>5, <2>6, <2>7, RowsKept, RowSizes
<1> QED BY <1>1, <1>5, <1>6

\* The strategy saves its order.
LEMMA SaveRows ==
    ASSUME RowsInv, Recorded!Save
    PROVE  RowsInv'
<1>0. PICK k : k = saving
    OBVIOUS
<1> DEFINE r == Recorded!Reason(k)
           e == Recorded!Entry(k, r, Recorded!Form(k, "answer"))
<1>1. /\ k # None /\ saving' = None /\ shown' = None
      /\ UNCHANGED <<executed, noticed, old>>
      /\ \/ /\ Recorded!Saved(k, r, "answer")
            /\ closing' = IF executed[k].exit THEN closing \cup {k} ELSE closing
         \/ Recorded!CachedSaved({e}) /\ UNCHANGED <<tradeRows, completed, closing>>
    BY <1>0 DEF Recorded!Save
<1>2. /\ Recorded!TypeOK /\ RowsReasoned /\ Recorded!ReasonsAgree /\ CacheKnown
    BY DEF RowsInv
<1>3. k \in Recorded!Orders
    BY <1>0, <1>1, <1>2 DEF Recorded!TypeOK
<1>4. Recorded!Orders' = Recorded!Orders
    BY <1>1 DEF Recorded!Orders
<1>5. /\ r \in Recorded!Reasons /\ r \in {None, "SIGNAL"}
      /\ executed[k].exit => r = "SIGNAL"
      /\ r # None => executed[k].exit
    BY DEF Recorded!Reason, Recorded!Reasons
<1>6. /\ \A j \in Known : tradeRows[j] \in Recorded!Reasons /\ (executed[j].exit => tradeRows[j] # None)
      /\ \A j \in DOMAIN completed : j \in Known /\ completed[j] = tradeRows[j]
      /\ \A j \in closing : executed[j].exit /\ j \in Known /\ tradeRows[j] = Recorded!Reason(j)
    BY <1>2 DEF Recorded!TypeOK, RowsReasoned, Recorded!ReasonsAgree, Known
<1>7. /\ IsFiniteSet(cache') /\ cache' \subseteq Recorded!Entries
      /\ \A d \in cache' : d.order \in Recorded!Orders
  <2>1. Recorded!CachedSaved({e})
      BY <1>1 DEF Recorded!Saved
  <2>2. Recorded!Form(k, "answer") \in {"answer", "trades", "row"}
      BY DEF Recorded!Form
  <2> HIDE DEF r
  <2> QED BY <1>3, <1>5, <2>1, <2>2, CachedOne
<1> HIDE DEF e
<1>8. CASE UNCHANGED <<tradeRows, completed, closing>>
    BY <1>1, <1>3, <1>4, <1>6, <1>7, <1>8, RowsKept DEF Known
<1>9. CASE /\ Recorded!Saved(k, r, "answer")
           /\ closing' = IF executed[k].exit THEN closing \cup {k} ELSE closing
  <2>1. \/ k \notin Known /\ tradeRows' = Recorded!With(tradeRows, k, r) /\ completed' = completed
        \/ k \in Known /\ r \in {None, "EXTERNAL_CLOSE"} /\ UNCHANGED <<tradeRows, completed>>
        \/ /\ k \in Known /\ r = "SIGNAL" /\ tradeRows' = Recorded!With(tradeRows, k, r)
           /\ completed' = IF k \in DOMAIN completed THEN Recorded!With(completed, k, r) ELSE completed
      BY <1>5, <1>9 DEF Recorded!Saved, Recorded!Inserted, Recorded!Reasoned, Known
  <2>2. CASE k \in Known /\ r \in {None, "EXTERNAL_CLOSE"} /\ UNCHANGED <<tradeRows, completed>>
    <3>1. r = None /\ ~executed[k].exit
        BY <1>5, <2>2, RowSizes
    <3>2. closing' = closing
        BY <1>9, <3>1
    <3> QED BY <1>8, <2>2, <3>2
  <2>3. ASSUME tradeRows' = Recorded!With(tradeRows, k, r)
        PROVE  /\ DOMAIN tradeRows' = Known \cup {k} /\ tradeRows'[k] = r
               /\ \A j \in Known : j # k => tradeRows'[j] = tradeRows[j]
    <3> DEFINE f == tradeRows
               g == tradeRows'
    <3>1. g = Recorded!With(f, k, r)
        BY <2>3
    <3> HIDE DEF f, g, r
    <3>2. /\ DOMAIN g = DOMAIN f \cup {k} /\ g[k] = r
          /\ \A j \in DOMAIN f : j # k => g[j] = f[j]
        BY ONLY <3>1, WithOf DEF Recorded!With
    <3> QED BY <3>2 DEF f, g, Known
  <2>4. ASSUME k \in DOMAIN completed, completed' = Recorded!With(completed, k, r)
        PROVE  /\ DOMAIN completed' = DOMAIN completed /\ completed'[k] = r
               /\ \A j \in DOMAIN completed : j # k => completed'[j] = completed[j]
    <3> DEFINE f == completed
               g == completed'
    <3>1. g = Recorded!With(f, k, r) /\ k \in DOMAIN f
        BY <2>4
    <3> HIDE DEF f, g, r
    <3>2. /\ DOMAIN g = DOMAIN f \cup {k} /\ g[k] = r
          /\ \A j \in DOMAIN f : j # k => g[j] = f[j]
        BY ONLY <3>1, WithOf DEF Recorded!With
    <3> QED BY <3>1, <3>2 DEF f, g
  <2>5. closing' \subseteq closing \cup {k} /\ (k \in closing' => executed[k].exit)
      BY <1>6, <1>9
  <2>6. executed[k].exit => r # None
      BY <1>5, RowSizes
  <2>7. CASE k \notin Known /\ tradeRows' = Recorded!With(tradeRows, k, r) /\ completed' = completed
    <3>1. k \notin DOMAIN completed'
        BY <1>6, <2>7
    <3>2. /\ DOMAIN tradeRows' = Known \cup {k} /\ tradeRows'[k] = r
          /\ \A j \in Known : j # k => tradeRows'[j] = tradeRows[j]
        BY <2>3, <2>7
    <3> HIDE DEF r
    <3>3. tradeRows'[k] = Recorded!Reason(k)
        BY <3>2 DEF r
    <3> QED BY <1>1, <1>3, <1>4, <1>5, <1>7, <2>5, <2>6, <2>7, <3>1, <3>2, <3>3, RowsKept
  <2>8. CASE /\ k \in Known /\ r = "SIGNAL" /\ tradeRows' = Recorded!With(tradeRows, k, r)
             /\ completed' = IF k \in DOMAIN completed THEN Recorded!With(completed, k, r) ELSE completed
    <3>1. /\ DOMAIN tradeRows' = Known \cup {k} /\ tradeRows'[k] = r
          /\ \A j \in Known : j # k => tradeRows'[j] = tradeRows[j]
        BY <2>3, <2>8
    <3>2. /\ DOMAIN completed' = DOMAIN completed /\ (k \in DOMAIN completed => completed'[k] = r)
          /\ \A j \in DOMAIN completed : j # k => completed'[j] = completed[j]
        BY <2>4, <2>8
    <3> HIDE DEF r
    <3>3. tradeRows'[k] = Recorded!Reason(k)
        BY <3>1 DEF r
    <3> QED BY <1>1, <1>3, <1>4, <1>5, <1>7, <2>5, <2>6, <3>1, <3>2, <3>3, RowsKept
  <2> QED BY <2>1, <2>2, <2>7, <2>8
<1> QED BY <1>1, <1>8, <1>9

\* Every step keeps the invariant.
LEMMA RowsStep ==
    ASSUME RowsInv, Recorded!Next \/ UNCHANGED rowVars
    PROVE  RowsInv'
<1>1. ASSUME UNCHANGED rowVars PROVE RowsInv'
    BY <1>1 DEF rowVars, RowsInv, Recorded!TypeOK, Recorded!Orders, CacheKnown, RowsReasoned, Known,
                Recorded!ReasonsAgree, Recorded!Reason, Recorded!NothingHidden
<1> QED BY <1>1, ExecuteRows, NoticeRows, CompleteRows, SaveRows, SaveNoticedRows, ReadRows, AgeRows
        DEF Recorded!Next

\* There are no rows at first.
LEMMA RowsStart ==
    ASSUME Recorded!Init
    PROVE  RowsInv
<1>1. DOMAIN tradeRows = {} /\ DOMAIN completed = {}
    BY DEF Recorded!Init, Recorded!Nothing
<1>2. CacheKnown
    BY FS_EmptySet DEF Recorded!Init, CacheKnown
<1> QED BY <1>1, <1>2, RowSizes DEF Recorded!Init, RowsInv, Recorded!TypeOK, Recorded!Orders, RowsReasoned, Known,
        Recorded!ReasonsAgree, Recorded!NothingHidden

\* The row and the completed trade of an exit give the same reason, the strategy's once it has
\* saved the order; and an answer shorter than what was asked for leaves no row out.
THEOREM OneReason == Spec => []TradesRecorded
<1>1. Init => RowsInv
    BY RowsStart DEF Init
<1>2. RowsInv /\ [Next]_vars => RowsInv'
    BY PartsApart, RowsStep
<1>3. RowsInv => TradesRecorded
    BY DEF RowsInv, TradesRecorded
<1> QED BY <1>1, <1>2, <1>3, PTL DEF Spec

-----------------------------------------------------------------------------
(* More about sums, and quotients.                                         *)

\* One more is added to the sum.
LEMMA SumAdded ==
    ASSUME NEW f, NEW g, NEW S, IsFiniteSet(S), NEW y, y \notin S, g[y] \in Int,
           \A x \in S : f[x] \in Int /\ g[x] = f[x]
    PROVE  Sum(g, S \cup {y}) = Sum(f, S) + g[y]
<1> DEFINE T == S \cup {y}
<1>1. IsFiniteSet(T) /\ y \in T /\ T \ {y} = S
    BY FS_AddElement
<1>2. \A x \in T : g[x] \in Int
    OBVIOUS
<1> HIDE DEF T
<1>3. Sum(g, T) = g[y] + Sum(g, T \ {y})
    BY <1>1, <1>2, SumWithout
<1>4. Sum(g, S) = Sum(f, S)
  <2>1. \A x \in S : g[x] = f[x] /\ g[x] \in Int
      OBVIOUS
  <2> QED BY <2>1, SumSame
<1>5. Sum(f, S) \in Int
    BY SumInt
<1>6. Sum(g, T) = g[y] + Sum(f, S)
    BY <1>1, <1>3, <1>4, Zenon
<1>7. g[y] + Sum(f, S) = Sum(f, S) + g[y]
    BY <1>5
<1> QED BY <1>6, <1>7 DEF T

\* What is nothing may be left out.
LEMMA SumWithin ==
    ASSUME NEW f, NEW S, NEW R, IsFiniteSet(S), R \subseteq S,
           \A x \in S : f[x] \in Int /\ (x \notin R => f[x] = 0)
    PROVE  Sum(f, S) = Sum(f, R)
<1> DEFINE Q == {T \in SUBSET S : Sum(f, T) # Sum(f, T \cap R)}
<1>0. S \cap R = R
    OBVIOUS
<1> SUFFICES ASSUME Q # {} PROVE FALSE
    BY <1>0
<1>1. PICK T \in Q : \A U \in Q : U \subseteq T => U = T
  <2>1. Q \in SUBSET SUBSET S
      OBVIOUS
  <2>2. IsFiniteSet(S) /\ Q # {}
      OBVIOUS
  <2> HIDE DEF Q
  <2> QED BY ONLY <2>1, <2>2, Smallest
<1>2. T # {}
  <2>1. {} \cap R = {}
      OBVIOUS
  <2> QED BY <2>1
<1>3. PICK x \in T : TRUE
    BY <1>2
<1>4. Sum(f, T \ {x}) = Sum(f, (T \ {x}) \cap R)
  <2>1. T \ {x} \in SUBSET S /\ T \ {x} \subseteq T /\ T \ {x} # T
      BY <1>3
  <2>2. T \ {x} \notin Q
    <3> HIDE DEF Q
    <3> QED BY <1>1, <2>1
  <2> QED BY <2>1, <2>2
<1>5. IsFiniteSet(T) /\ IsFiniteSet(T \cap R) /\ \A z \in T : f[z] \in Int
    BY FS_Subset
<1>6. Sum(f, T) = f[x] + Sum(f, T \ {x})
    BY <1>3, <1>5, SumWithout
<1>7. CASE x \in R
  <2>1. x \in T \cap R /\ (T \cap R) \ {x} = (T \ {x}) \cap R
      BY <1>3, <1>7
  <2>2. Sum(f, T \cap R) = f[x] + Sum(f, (T \cap R) \ {x})
      BY <1>5, <2>1, SumWithout
  <2> QED BY <1>1, <1>4, <1>6, <2>1, <2>2
<1>8. CASE x \notin R
  <2>1. f[x] = 0 /\ T \cap R = (T \ {x}) \cap R
      BY <1>3, <1>8
  <2>2. Sum(f, (T \ {x}) \cap R) \in Int
      BY <1>5, <2>1, SumInt
  <2> QED BY <1>1, <1>4, <1>6, <2>1, <2>2
<1> QED BY <1>7, <1>8

\* The order in which is added up makes no difference.
LEMMA SumRenamed ==
    ASSUME NEW f, NEW g, NEW b, NEW S, NEW R, IsFiniteSet(S),
           \A x \in S : b[x] \in R /\ f[x] = g[b[x]] /\ f[x] \in Int,
           \A x, y \in S : b[x] = b[y] => x = y,
           \A z \in R : \E x \in S : z = b[x]
    PROVE  Sum(f, S) = Sum(g, R)
<1> DEFINE Renamed(T) == {b[x] : x \in T}
           Q == {T \in SUBSET S : Sum(f, T) # Sum(g, Renamed(T))}
<1>0. Renamed(S) = R
    OBVIOUS
<1> SUFFICES ASSUME Q # {} PROVE FALSE
    BY <1>0
<1>1. PICK T \in Q : \A U \in Q : U \subseteq T => U = T
  <2>1. Q \in SUBSET SUBSET S
      OBVIOUS
  <2>2. IsFiniteSet(S) /\ Q # {}
      OBVIOUS
  <2> HIDE DEF Q
  <2> QED BY ONLY <2>1, <2>2, Smallest
<1>2. T # {}
  <2>1. Renamed({}) = {}
      OBVIOUS
  <2> HIDE DEF Renamed
  <2>2. Sum(f, {}) = Sum(g, Renamed({}))
      BY <2>1, SumEmpty
  <2> QED BY <1>1, <2>2
<1>3. PICK x \in T : TRUE
    BY <1>2
<1>4. Sum(f, T \ {x}) = Sum(g, Renamed(T \ {x}))
  <2>1. T \ {x} \in SUBSET S /\ T \ {x} \subseteq T /\ T \ {x} # T
      BY <1>3
  <2>2. T \ {x} \notin Q
    <3> HIDE DEF Q
    <3> QED BY <1>1, <2>1
  <2> HIDE DEF Renamed
  <2> QED BY <2>1, <2>2
<1>5. IsFiniteSet(T) /\ \A z \in T : f[z] \in Int
    BY FS_Subset
<1>6. Sum(f, T) = f[x] + Sum(f, T \ {x})
    BY <1>3, <1>5, SumWithout
<1>7. IsFiniteSet(Renamed(T)) /\ \A z \in Renamed(T) : g[z] \in Int
  <2>1. [z \in T |-> b[z]] \in Surjection(T, Renamed(T))
      BY DEF Surjection
  <2>2. IsFiniteSet(Renamed(T))
    <3> HIDE DEF Renamed
    <3> QED BY <1>5, <2>1, FS_Surjection
  <2> QED BY <2>2
<1>8. b[x] \in Renamed(T) /\ Renamed(T) \ {b[x]} = Renamed(T \ {x}) /\ f[x] = g[b[x]]
    BY <1>3
<1>9. Sum(g, Renamed(T)) = g[b[x]] + Sum(g, Renamed(T) \ {b[x]})
  <2> HIDE DEF Renamed
  <2> QED BY <1>7, <1>8, SumWithout
<1>10. Sum(f, T) = Sum(g, Renamed(T))
  <2> HIDE DEF Renamed, Q
  <2> QED BY <1>4, <1>6, <1>8, <1>9
<1> QED BY <1>1, <1>10

\* A product is divided by its factors; what is divided by more than it is multiplied with
\* becomes less, and what is not less than its divisor does not vanish.
LEMMA Quotient ==
    ASSUME NEW n \in Nat, NEW m \in Nat, m > 0
    PROVE  n \div m \in Nat /\ m * (n \div m) <= n /\ n < m * (n \div m) + m
OBVIOUS

\* A product is divided by a factor without remainder.
LEMMA DivExact ==
    ASSUME NEW a \in Nat, NEW b \in Nat, b > 0
    PROVE  (a * b) \div b = a
<1> DEFINE d == (a * b) \div b
<1>1. d \in Nat /\ b * d <= a * b /\ a * b < b * d + b
  <2>1. a * b \in Nat
      OBVIOUS
  <2> QED BY <2>1, Quotient
<1> HIDE DEF d
<1>2. ~ (d < a)
  <2>1. ASSUME d < a PROVE b * d + b <= a * b
    <3>1. PICK k \in Nat : a = d + 1 + k
      <4>1. a - d - 1 \in Nat /\ a = d + 1 + (a - d - 1)
          BY <1>1, <2>1
      <4> QED BY <4>1
    <3>2. a * b = b * d + b + k * b /\ k * b \in Nat
        BY <1>1, <3>1
    <3> QED BY <1>1, <3>2
  <2> QED BY <1>1, <2>1
<1>3. ~ (d > a)
  <2>1. ASSUME d > a PROVE b * d > a * b
    <3>1. PICK k \in Nat : d = a + 1 + k
      <4>1. d - a - 1 \in Nat /\ d = a + 1 + (d - a - 1)
          BY <1>1, <2>1
      <4> QED BY <4>1
    <3>2. b * d = a * b + b + k * b /\ k * b \in Nat
        BY <1>1, <3>1
    <3> QED BY <1>1, <3>2
  <2> QED BY <1>1, <2>1
<1> QED BY <1>1, <1>2, <1>3 DEF d

\* A share that is not the whole is less.
LEMMA DivLess ==
    ASSUME NEW x \in Nat, NEW c \in Nat, NEW m \in Nat, x > 0, c < m
    PROVE  (x * c) \div m \in Nat /\ (x * c) \div m < x
<1> DEFINE d == (x * c) \div m
<1>1. d \in Nat /\ m * d <= x * c
  <2>1. x * c \in Nat /\ m > 0
      OBVIOUS
  <2> QED BY <2>1, Quotient
<1> HIDE DEF d
<1>2. ASSUME d >= x PROVE FALSE
  <2>1. PICK k \in Nat : m = c + 1 + k
    <3>1. m - c - 1 \in Nat /\ m = c + 1 + (m - c - 1)
        OBVIOUS
    <3> QED BY <3>1
  <2>2. PICK j \in Nat : d = x + j
    <3>1. d - x \in Nat /\ d = x + (d - x)
        BY <1>1, <1>2
    <3> QED BY <3>1
  <2>3. m * d = x * c + x + k * x + m * j /\ k * x \in Nat /\ m * j \in Nat
      BY <2>1, <2>2
  <2> QED BY <1>1, <2>3
<1> QED BY <1>1, <1>2 DEF d

\* A share of something that is no less than it has parts is not nothing.
LEMMA DivSome ==
    ASSUME NEW x \in Nat, NEW c \in Nat, NEW m \in Nat, m > 0, c > 0, m <= x
    PROVE  (x * c) \div m \in Nat /\ (x * c) \div m > 0
<1> DEFINE d == (x * c) \div m
<1>1. x * c \in Nat /\ x * c >= m
  <2>1. PICK j \in Nat : c = 1 + j
    <3>1. c - 1 \in Nat /\ c = 1 + (c - 1)
        OBVIOUS
    <3> QED BY <3>1
  <2>2. x * c = x + x * j /\ x * j \in Nat
      BY <2>1
  <2> QED BY <2>2
<1>2. d \in Nat /\ x * c < m * d + m
    BY <1>1, Quotient
<1> HIDE DEF d
<1>3. d # 0
  <2>1. d = 0 => m * d = 0
      OBVIOUS
  <2> QED BY <1>1, <1>2, <2>1
<1> QED BY <1>2, <1>3 DEF d

-----------------------------------------------------------------------------
(* FifoMatching.                                                           *)

\* The trades; the places of the batch, and the side, quantity and price of the trade at each.
FilledType == [side : {1, -1}, quantity : Quantities, price : Prices]
Batched == 1..Len(batch)
SideOf(i) == Fifo!Trade(i).side
SizeOf(i) == Fifo!Trade(i).quantity
PriceOf(i) == Fifo!Trade(i).price

\* Numbers of trades, none twice.
Numbers(s) ==
    /\ s \in Seq(1..Len(trades)) /\ Len(s) <= Len(trades)
    /\ \A i, j \in 1..Len(s) : s[i] = s[j] => i = j

\* A completed position.
PairType == [
    entry : Batched, exit : Batched, quantity : Nat, gross : Int, reported : Nat, estimated : Nat]

\* The types, with more than they say: no trade is twice in the batch or in memory.
MatchTyped ==
    /\ trades \in Seq(FilledType) /\ Len(trades) <= MaxFills
    /\ Numbers(memory) /\ Numbers(batch)
    /\ turn \in 1..(Len(batch) + 1) /\ leftover \in Nat
    /\ queue \in [Batched -> Nat] /\ fees \in [Batched -> Nat]
    /\ IsFiniteSet(positions) /\ positions \in SUBSET PairType

\* What is open has not been looked at later, is of one side, and has a fee.
QueueInv ==
    /\ \A i \in Batched : (i >= turn => queue[i] = 0) /\ queue[i] <= fees[i]
    /\ \A i, j \in Batched : queue[i] > 0 /\ queue[j] > 0 => SideOf(i) = SideOf(j)
    /\ turn \in Batched => leftover <= SizeOf(turn)

\* A trade closes what earlier ones of the other side have opened, each but the last in full.
PairsInv ==
    \A p \in positions :
      /\ p.entry < p.exit /\ p.exit <= turn /\ SideOf(p.entry) # SideOf(p.exit)
      /\ p.exit = turn => queue[p.entry] = 0 \/ leftover = 0

\* What is assumed of the constants.
LEMMA MatchSizes ==
    /\ Rate \in Nat /\ Rate > 0 /\ MaxFills \in Nat
    /\ Prices \subseteq Nat \ {0} /\ Quantities \subseteq Nat \ {0}
    /\ \A S : Fifo!IsFiniteSet(S) <=> IsFiniteSet(S)
BY ConstantsAssumption DEF Fifo!ConstantsOK, Fifo!IsFiniteSet, IsFiniteSet

\* What is known of the trades of the batch.
LEMMA BatchTyped ==
    ASSUME MatchTyped
    PROVE  /\ Len(batch) \in Nat /\ Len(trades) \in Nat /\ Len(memory) \in Nat
           /\ DOMAIN batch = Batched /\ DOMAIN trades = 1..Len(trades)
           /\ DOMAIN memory = 1..Len(memory)
           /\ IsFiniteSet(Batched) /\ Batched \subseteq Nat
           /\ \A i \in Batched : batch[i] \in 1..Len(trades)
           /\ \A i \in Batched : Fifo!Trade(i) \in FilledType
           /\ \A i \in Batched :
                /\ SideOf(i) \in {1, -1}
                /\ SizeOf(i) \in Nat /\ SizeOf(i) > 0 /\ PriceOf(i) \in Nat /\ PriceOf(i) > 0
<1>1. /\ trades \in Seq(FilledType) /\ batch \in Seq(1..Len(trades)) /\ memory \in Seq(1..Len(trades))
    BY DEF MatchTyped, Numbers
<1>2. /\ Len(batch) \in Nat /\ Len(trades) \in Nat /\ Len(memory) \in Nat
      /\ DOMAIN batch = Batched /\ DOMAIN trades = 1..Len(trades)
      /\ DOMAIN memory = 1..Len(memory)
    BY <1>1 DEF Batched
<1>3. IsFiniteSet(Batched) /\ Batched \subseteq Nat
  <2>1. 1 \in Int /\ Len(batch) \in Int
      BY <1>2
  <2>2. IsFiniteSet(1..Len(batch))
      BY <2>1, FS_Interval, Zenon
  <2> QED BY <1>2, <2>2 DEF Batched
<1>4. \A i \in Batched : batch[i] \in 1..Len(trades)
    BY <1>1, <1>2 DEF Batched
<1>5. \A i \in Batched : Fifo!Trade(i) \in FilledType
    BY <1>1, <1>2, <1>4 DEF Fifo!Trade
<1>6. \A i \in Batched :
        /\ SideOf(i) \in {1, -1} /\ SizeOf(i) \in Quantities /\ PriceOf(i) \in Prices
    BY <1>5 DEF FilledType, SideOf, SizeOf, PriceOf
<1>7. \A i \in Batched : SizeOf(i) \in Nat \ {0} /\ PriceOf(i) \in Nat \ {0}
    BY <1>6, MatchSizes
<1> QED BY <1>2, <1>3, <1>4, <1>5, <1>6, <1>7

\* What waits is open, and if anything does so does the first.
LEMMA FirstWaits ==
    ASSUME MatchTyped
    PROVE  /\ Fifo!Waiting = {i \in Batched : queue[i] > 0}
           /\ Fifo!Waiting # {} => Fifo!First \in Fifo!Waiting
<1>1. Fifo!Waiting = {i \in Batched : queue[i] > 0}
    BY BatchTyped DEF Fifo!Waiting
<1>2. ASSUME Fifo!Waiting # {} PROVE Fifo!First \in Fifo!Waiting
  <2> DEFINE S == Fifo!Waiting
  <2>1. IsFiniteSet(S) /\ S \subseteq Int /\ S # {}
    <3>1. S \subseteq Batched
        BY <1>1
    <3> HIDE DEF S
    <3> QED BY <1>2, <3>1, BatchTyped, FS_Subset DEF S
  <2>2. \E e \in S : \A d \in S : e <= d
    <3> HIDE DEF S
    <3> QED BY ONLY <2>1, LeastOf
  <2> HIDE DEF S
  <2>3. (CHOOSE e \in S : \A d \in S : e <= d) \in S
      BY <2>2
  <2> QED BY <2>3 DEF Fifo!First, Fifo!Min, S
<1> QED BY <1>1, <1>2

\* A round of the loop closes c of the entry at h.
Closes(h, c) ==
    /\ h \in Batched /\ turn \in Batched /\ h < turn
    /\ c \in Nat /\ c > 0 /\ c <= queue[h] /\ c <= leftover /\ (c = queue[h] \/ c = leftover)
    /\ SideOf(h) # SideOf(turn)
    /\ positions' = positions \cup {Fifo!Position(h, c)} /\ Fifo!Position(h, c) \notin positions
    /\ queue' = [queue EXCEPT ![h] = queue[h] - c] /\ leftover' = leftover - c
    /\ UNCHANGED <<trades, memory, batch, turn, fees>>

\* What remains of the trade is left open, and the next one is looked at.
Opens ==
    /\ turn \in Batched
    /\ leftover > 0 => \A i \in Batched : queue[i] > 0 => SideOf(i) = SideOf(turn)
    /\ queue' = [queue EXCEPT ![turn] = leftover]
    /\ fees' = [fees EXCEPT ![turn] = Rate * PriceOf(turn) * leftover]
    /\ turn' = turn + 1
    /\ leftover' = IF turn + 1 \in Batched THEN SizeOf(turn + 1) ELSE 0
    /\ UNCHANGED <<trades, memory, batch, positions>>

\* Of two the lesser.
LEMMA LesserOf ==
    ASSUME NEW a \in Nat, NEW b \in Nat
    PROVE  /\ Fifo!Min({a, b}) \in {a, b}
           /\ Fifo!Min({a, b}) <= a /\ Fifo!Min({a, b}) <= b
<1>1. \E i \in {a, b} : \A j \in {a, b} : i <= j
    OBVIOUS
<1> DEFINE q == CHOOSE i \in {a, b} : \A j \in {a, b} : i <= j
<1>2. q \in {a, b} /\ \A j \in {a, b} : q <= j
    BY <1>1
<1>3. Fifo!Min({a, b}) = q
    BY DEF Fifo!Min
<1> HIDE DEF q
<1> QED BY <1>2, <1>3

\* Close is such a round,
LEMMA CloseCloses ==
    ASSUME MatchTyped, QueueInv, PairsInv, Fifo!Close
    PROVE  \E h \in Batched, c \in Nat : Closes(h, c)
<1> DEFINE h == Fifo!First
           c == Fifo!Min({queue[h], leftover})
<1>1. turn \in Batched /\ leftover > 0 /\ Fifo!Waiting # {} /\ SideOf(h) # SideOf(turn)
    BY BatchTyped DEF Fifo!Close, Fifo!Done, Fifo!Opposite, Batched, MatchTyped, SideOf
<1>2. h \in Batched /\ queue[h] > 0 /\ queue[h] \in Nat /\ leftover \in Nat
    BY <1>1, FirstWaits DEF MatchTyped
<1>3. c \in {queue[h], leftover} /\ c <= queue[h] /\ c <= leftover
  <2> HIDE DEF h
  <2> QED BY <1>2, LesserOf
<1>4. h < turn
    BY <1>1, <1>2, BatchTyped DEF QueueInv
<1>5. /\ positions' = positions \cup {Fifo!Position(h, c)}
      /\ queue' = [queue EXCEPT ![h] = @ - c] /\ leftover' = leftover - c
      /\ UNCHANGED <<trades, memory, batch, turn, fees>>
    BY DEF Fifo!Close
<1> HIDE DEF h, c
<1>6. c \in Nat /\ c > 0 /\ (c = queue[h] \/ c = leftover)
    BY <1>1, <1>2, <1>3
<1>7. Fifo!Position(h, c) \notin positions
  <2>1. Fifo!Position(h, c).entry = h /\ Fifo!Position(h, c).exit = turn
      BY DEF Fifo!Position
  <2> QED BY <1>1, <1>2, <2>1 DEF PairsInv
<1>8. queue' = [queue EXCEPT ![h] = queue[h] - c]
    BY <1>5
<1> QED BY <1>1, <1>2, <1>3, <1>4, <1>5, <1>6, <1>7, <1>8 DEF Closes

\* and Open leaves open what remains, at the fee of that much.
LEMMA OpenOpens ==
    ASSUME MatchTyped, QueueInv, Fifo!Open
    PROVE  Opens
<1>1. turn \in Batched /\ turn \in Nat /\ leftover \in Nat
    BY BatchTyped DEF Fifo!Open, Fifo!Done, Batched, MatchTyped
<1>2. ASSUME leftover > 0, NEW i \in Batched, queue[i] > 0 PROVE SideOf(i) = SideOf(turn)
  <2>1. i \in Fifo!Waiting /\ Fifo!Waiting # {}
      BY <1>2, FirstWaits
  <2>2. Fifo!First \in Batched /\ queue[Fifo!First] > 0
      BY <2>1, FirstWaits
  <2>3. ~ Fifo!Opposite
      BY <1>1, <1>2 DEF Fifo!Open
  <2>4. SideOf(Fifo!First) = SideOf(turn)
      BY <2>1, <2>3 DEF Fifo!Opposite, SideOf
  <2> QED BY <1>2, <2>2, <2>4 DEF QueueInv
<1>3. (Fifo!Commission(turn) * leftover) \div Fifo!Trade(turn).quantity = Rate * PriceOf(turn) * leftover
  <2>1. /\ SizeOf(turn) \in Nat /\ SizeOf(turn) > 0 /\ PriceOf(turn) \in Nat /\ Rate \in Nat
      BY <1>1, BatchTyped, MatchSizes
  <2> DEFINE a == Rate * PriceOf(turn) * leftover
  <2>2. a \in Nat
      BY <1>1, <2>1
  <2>3. Fifo!Commission(turn) * leftover = a * SizeOf(turn)
      BY <1>1, <2>1 DEF Fifo!Commission, SizeOf, PriceOf
  <2> HIDE DEF a
  <2>4. (a * SizeOf(turn)) \div SizeOf(turn) = a
      BY <2>1, <2>2, DivExact
  <2> QED BY <2>3, <2>4 DEF a, SizeOf
<1>4. /\ queue' = [queue EXCEPT ![turn] = leftover]
      /\ fees' = [fees EXCEPT ![turn] = Rate * PriceOf(turn) * leftover]
      /\ UNCHANGED <<trades, memory, batch, positions>>
    BY <1>3 DEF Fifo!Open
<1>5. turn' = turn + 1 /\ leftover' = IF turn + 1 \in Batched THEN SizeOf(turn + 1) ELSE 0
  <2>1. turn + 1 \in Batched <=> turn + 1 <= Len(batch)
      BY <1>1, BatchTyped DEF Batched
  <2> QED BY <2>1 DEF Fifo!Open, Fifo!Take, SizeOf, Fifo!Trade
<1> QED BY <1>1, <1>2, <1>4, <1>5 DEF Opens

\* The fees of a completed position: of the entry's and of the exit's its share.
FeeOf(h, c) == (fees[h] * c) \div queue[h] + Rate * PriceOf(turn) * c
WorthOf(h, c) == Rate * c * (PriceOf(h) + PriceOf(turn))

\* What the completed position is that a round adds.
LEMMA PositionClosed ==
    ASSUME MatchTyped, NEW h, NEW c, Closes(h, c)
    PROVE  LET p == Fifo!Position(h, c) IN
           /\ p \in PairType /\ p.entry = h /\ p.exit = turn /\ p.quantity = c
           /\ p.gross = SideOf(h) * (PriceOf(turn) - PriceOf(h)) * c
           /\ p.reported = FeeOf(h, c)
           /\ p.estimated = (WorthOf(h, c) * c) \div queue[h]
<1> DEFINE p == Fifo!Position(h, c)
<1>1. /\ h \in Batched /\ turn \in Batched /\ c \in Nat /\ c > 0 /\ c <= queue[h]
      /\ queue[h] \in Nat /\ fees[h] \in Nat /\ queue[h] > 0
    BY DEF Closes, MatchTyped
<1>2. /\ SideOf(h) \in Int /\ SizeOf(turn) \in Nat /\ SizeOf(turn) > 0
      /\ PriceOf(h) \in Nat /\ PriceOf(turn) \in Nat /\ Rate \in Nat
    BY <1>1, BatchTyped, MatchSizes
<1>3. (Fifo!Commission(turn) * c) \div Fifo!Trade(turn).quantity = Rate * PriceOf(turn) * c
  <2> DEFINE a == Rate * PriceOf(turn) * c
  <2>1. a \in Nat
      BY <1>1, <1>2
  <2>2. Fifo!Commission(turn) * c = a * SizeOf(turn)
      BY <1>1, <1>2 DEF Fifo!Commission, SizeOf, PriceOf
  <2> HIDE DEF a
  <2>3. (a * SizeOf(turn)) \div SizeOf(turn) = a
      BY <1>2, <2>1, DivExact
  <2> QED BY <2>2, <2>3 DEF a, SizeOf
<1>4. /\ p.entry = h /\ p.exit = turn /\ p.quantity = c
      /\ p.gross = SideOf(h) * (PriceOf(turn) - PriceOf(h)) * c
      /\ p.reported = FeeOf(h, c)
      /\ p.estimated = (WorthOf(h, c) * c) \div queue[h]
    BY <1>3 DEF Fifo!Position, Fifo!Reported, Fifo!Estimated, FeeOf, WorthOf, SideOf, PriceOf
<1>5. p.gross \in Int
  <2>1. PriceOf(turn) - PriceOf(h) \in Int
      BY <1>2
  <2>2. SideOf(h) * (PriceOf(turn) - PriceOf(h)) \in Int
      BY <1>2, <2>1
  <2> HIDE DEF p
  <2> QED BY <1>1, <1>4, <2>2
<1>6. p.reported \in Nat /\ p.estimated \in Nat
  <2>1. fees[h] * c \in Nat /\ WorthOf(h, c) * c \in Nat /\ Rate * PriceOf(turn) * c \in Nat
    <3>1. PriceOf(h) + PriceOf(turn) \in Nat /\ Rate * c \in Nat
        BY <1>1, <1>2
    <3>2. WorthOf(h, c) \in Nat
        BY <3>1 DEF WorthOf
    <3> QED BY <1>1, <1>2, <3>2
  <2>2. (fees[h] * c) \div queue[h] \in Nat /\ (WorthOf(h, c) * c) \div queue[h] \in Nat
      BY <1>1, <2>1, Quotient
  <2> HIDE DEF p
  <2> QED BY <1>4, <2>1, <2>2 DEF FeeOf
<1>7. p = [entry |-> p.entry, exit |-> p.exit, quantity |-> p.quantity, gross |-> p.gross,
           reported |-> p.reported, estimated |-> p.estimated]
    BY DEF Fifo!Position
<1> HIDE DEF p
<1>8. p \in PairType
    BY <1>1, <1>4, <1>5, <1>6, <1>7 DEF PairType
<1> QED BY <1>4, <1>8 DEF p

\* The trades of the batch stay what they are while they are matched.
LEMMA BatchStays ==
    ASSUME UNCHANGED <<trades, batch>>
    PROVE  /\ Batched' = Batched /\ PairType' = PairType
           /\ \A i : SideOf(i)' = SideOf(i) /\ SizeOf(i)' = SizeOf(i) /\ PriceOf(i)' = PriceOf(i)

BY DEF Batched, PairType, SideOf, SizeOf, PriceOf, Fifo!Trade

\* A round keeps the types, the queue of one side and positions in order,
LEMMA CloseTyped ==
    ASSUME MatchTyped, QueueInv, PairsInv, NEW h, NEW c, Closes(h, c)
    PROVE  MatchTyped' /\ QueueInv' /\ PairsInv'
<1> DEFINE p == Fifo!Position(h, c)
<1>0. p \in PairType /\ p.entry = h /\ p.exit = turn
    BY PositionClosed
<1>1. /\ h \in Batched /\ turn \in Batched /\ h < turn /\ SideOf(h) # SideOf(turn)
      /\ c \in Nat /\ c > 0 /\ c <= queue[h] /\ c <= leftover /\ (c = queue[h] \/ c = leftover)
      /\ queue[h] \in Nat /\ leftover \in Nat
      /\ positions' = positions \cup {p}
      /\ queue' = [queue EXCEPT ![h] = queue[h] - c] /\ leftover' = leftover - c
      /\ UNCHANGED <<trades, memory, batch, turn, fees>>
    BY DEF Closes, MatchTyped
<1> HIDE DEF p
<1>2. /\ Batched' = Batched /\ PairType' = PairType
      /\ \A i : SideOf(i)' = SideOf(i) /\ SizeOf(i)' = SizeOf(i)
    BY <1>1, BatchStays
<1>3. /\ queue' \in [Batched -> Nat] /\ queue'[h] = queue[h] - c
      /\ \A i \in Batched : i # h => queue'[i] = queue[i]
  <2>1. queue \in [Batched -> Nat] /\ queue[h] - c \in Nat
      BY <1>1 DEF MatchTyped
  <2> QED BY <1>1, <2>1
<1>4. MatchTyped'
  <2>1. IsFiniteSet(positions')
      BY <1>1, FS_AddElement DEF MatchTyped
  <2>2. positions' \in SUBSET PairType
      BY <1>0, <1>1 DEF MatchTyped
  <2>3. Numbers(memory)' /\ Numbers(batch)'
      BY <1>1 DEF MatchTyped, Numbers
  <2>4. leftover' \in Nat
      BY <1>1
  <2> QED BY <1>1, <1>2, <1>3, <2>1, <2>2, <2>3, <2>4 DEF MatchTyped
<1>5. QueueInv'
  <2>1. \A i \in Batched : queue[i] \in Nat /\ fees[i] \in Nat /\ i \in Nat
      BY BatchTyped DEF MatchTyped
  <2>2. \A i \in Batched : queue'[i] <= queue[i]
      BY <1>1, <1>3, <2>1
  <2>3. \A i \in Batched : queue'[i] \in Nat
      BY <1>3
  <2>4. turn \in Nat
      BY <1>1, <2>1
  <2>5. \A i \in Batched : (i >= turn => queue'[i] = 0) /\ queue'[i] <= fees[i]
      BY <2>1, <2>2, <2>3, <2>4 DEF QueueInv
  <2>6. \A i, j \in Batched : queue'[i] > 0 /\ queue'[j] > 0 => SideOf(i) = SideOf(j)
      BY <2>1, <2>2, <2>3 DEF QueueInv
  <2>7. leftover' <= SizeOf(turn)
      BY <1>1, BatchTyped DEF QueueInv
  <2> QED BY <1>1, <1>2, <2>5, <2>6, <2>7 DEF QueueInv
<1>6. PairsInv'
  <2> SUFFICES ASSUME NEW r \in positions' PROVE
         /\ r.entry < r.exit /\ r.exit <= turn /\ SideOf(r.entry) # SideOf(r.exit)
         /\ r.exit = turn => queue'[r.entry] = 0 \/ leftover' = 0
      BY <1>1, <1>2 DEF PairsInv
  <2>1. CASE r = p
    <3>1. r.entry = h /\ r.exit = turn /\ turn \in Nat
        BY <1>0, <1>1, <2>1, BatchTyped
    <3>2. queue'[h] = 0 \/ leftover' = 0
        BY <1>1, <1>3
    <3> QED BY <1>1, <3>1, <3>2
  <2>2. CASE r \in positions
    <3>1. /\ r.entry < r.exit /\ r.exit <= turn /\ SideOf(r.entry) # SideOf(r.exit)
          /\ r.exit = turn => queue[r.entry] = 0 \/ leftover = 0
        BY <2>2 DEF PairsInv
    <3>2. r.entry \in Batched
        BY <2>2 DEF MatchTyped, PairType
    <3>3. r.exit = turn => queue[r.entry] = 0 /\ r.entry # h
        BY <1>1, <3>1
    <3> QED BY <1>3, <3>1, <3>2, <3>3
  <2> QED BY <1>1, <2>1, <2>2
<1> QED BY <1>4, <1>5, <1>6

\* and so does what is left open.
LEMMA OpenTyped ==
    ASSUME MatchTyped, QueueInv, PairsInv, Opens
    PROVE  MatchTyped' /\ QueueInv' /\ PairsInv'
<1>1. /\ turn \in Batched /\ turn \in Nat /\ leftover \in Nat /\ Len(batch) \in Nat
      /\ leftover > 0 => \A i \in Batched : queue[i] > 0 => SideOf(i) = SideOf(turn)
      /\ queue' = [queue EXCEPT ![turn] = leftover]
      /\ fees' = [fees EXCEPT ![turn] = Rate * PriceOf(turn) * leftover]
      /\ turn' = turn + 1
      /\ leftover' = IF turn + 1 \in Batched THEN SizeOf(turn + 1) ELSE 0
      /\ UNCHANGED <<trades, memory, batch, positions>>
    BY BatchTyped DEF Opens, MatchTyped
<1>2. /\ Batched' = Batched /\ PairType' = PairType
      /\ \A i : SideOf(i)' = SideOf(i) /\ SizeOf(i)' = SizeOf(i)
    BY <1>1, BatchStays
<1>3. Rate * PriceOf(turn) * leftover \in Nat /\ leftover <= Rate * PriceOf(turn) * leftover
  <2>1. Rate \in Nat /\ Rate > 0 /\ PriceOf(turn) \in Nat /\ PriceOf(turn) > 0
      BY <1>1, BatchTyped, MatchSizes
  <2>2. PICK k \in Nat : Rate * PriceOf(turn) = 1 + k
    <3>1. PICK r \in Nat : Rate = 1 + r
      <4>1. Rate - 1 \in Nat /\ Rate = 1 + (Rate - 1)
          BY <2>1
      <4> QED BY <4>1
    <3>2. PICK s \in Nat : PriceOf(turn) = 1 + s
      <4>1. PriceOf(turn) - 1 \in Nat /\ PriceOf(turn) = 1 + (PriceOf(turn) - 1)
          BY <2>1
      <4> QED BY <4>1
    <3>3. Rate * PriceOf(turn) = 1 + (r + s + r * s) /\ r + s + r * s \in Nat
        BY <3>1, <3>2
    <3> QED BY <3>3
  <2>3. (1 + k) * leftover = leftover + k * leftover /\ k * leftover \in Nat
      BY <1>1
  <2> QED BY <1>1, <2>2, <2>3
<1>4. /\ queue' \in [Batched -> Nat] /\ queue'[turn] = leftover
      /\ \A i \in Batched : i # turn => queue'[i] = queue[i]
      /\ fees' \in [Batched -> Nat] /\ fees'[turn] = Rate * PriceOf(turn) * leftover
      /\ \A i \in Batched : i # turn => fees'[i] = fees[i]
  <2>1. queue \in [Batched -> Nat] /\ fees \in [Batched -> Nat]
      BY DEF MatchTyped
  <2> QED BY <1>1, <1>3, <2>1
<1>5. MatchTyped'
  <2>1. Numbers(memory)' /\ Numbers(batch)'
      BY <1>1 DEF MatchTyped, Numbers
  <2>2. leftover' \in Nat /\ turn' \in 1..(Len(batch) + 1)
      BY <1>1, BatchTyped DEF Batched
  <2>3. MatchTyped
      OBVIOUS
  <2> QED BY <1>1, <1>2, <1>4, <2>1, <2>2, <2>3 DEF MatchTyped
<1>6. QueueInv'
  <2>1. \A i \in Batched : queue[i] \in Nat /\ fees[i] \in Nat /\ i \in Nat
      BY BatchTyped DEF MatchTyped
  <2>2. \A i \in Batched : (i >= turn + 1 => queue'[i] = 0) /\ queue'[i] <= fees'[i]
    <3> SUFFICES ASSUME NEW i \in Batched
                 PROVE  (i >= turn + 1 => queue'[i] = 0) /\ queue'[i] <= fees'[i]
        OBVIOUS
    <3>1. CASE i = turn
        BY <1>1, <1>3, <1>4, <3>1
    <3>2. CASE i # turn
        BY <1>1, <1>4, <2>1, <3>2 DEF QueueInv
    <3> QED BY <3>1, <3>2
  <2>3. \A i, j \in Batched : queue'[i] > 0 /\ queue'[j] > 0 => SideOf(i) = SideOf(j)
    <3> SUFFICES ASSUME NEW i \in Batched, NEW j \in Batched, queue'[i] > 0, queue'[j] > 0
                 PROVE  SideOf(i) = SideOf(j)
        OBVIOUS
    <3>1. CASE i = turn \/ j = turn
        BY <1>1, <1>4, <3>1
    <3>2. CASE i # turn /\ j # turn
        BY <1>4, <3>2 DEF QueueInv
    <3> QED BY <3>1, <3>2
  <2>4. turn + 1 \in Batched => leftover' <= SizeOf(turn + 1)
      BY <1>1, BatchTyped
  <2> QED BY <1>1, <1>2, <2>2, <2>3, <2>4 DEF QueueInv
<1>7. PairsInv'
  <2> SUFFICES ASSUME NEW r \in positions PROVE
         /\ r.entry < r.exit /\ r.exit <= turn + 1 /\ SideOf(r.entry) # SideOf(r.exit)
         /\ r.exit # turn + 1
      BY <1>1, <1>2 DEF PairsInv
  <2>1. /\ r.entry < r.exit /\ r.exit <= turn /\ SideOf(r.entry) # SideOf(r.exit)
      BY DEF PairsInv
  <2>2. r.exit \in Nat
      BY BatchTyped DEF MatchTyped, PairType
  <2> QED BY <1>1, <2>1, <2>2
<1> QED BY <1>5, <1>6, <1>7

\* How much of each trade has been dealt with.
Moved == [i \in Batched |->
    IF i < turn THEN SizeOf(i) ELSE IF i = turn THEN SizeOf(i) - leftover ELSE 0]

\* What is open of each trade costs, and what was paid for it; the same in units, and in fees
\* at the rate of the exchange and as the entry has them.
CostAt == [i \in Batched |-> SideOf(i) * queue[i] * PriceOf(i)]
CashAt == [i \in Batched |-> -(SideOf(i) * Moved[i] * PriceOf(i))]
OpenAt == [i \in Batched |-> SideOf(i) * queue[i]]
NetAt == [i \in Batched |-> SideOf(i) * Moved[i]]
RatesAt == [i \in Batched |-> Rate * queue[i] * PriceOf(i)]
PaidAt == [i \in Batched |-> Rate * Moved[i] * PriceOf(i)]
FeesAt == [i \in Batched |-> IF queue[i] > 0 THEN fees[i] ELSE 0]

\* What the completed positions have.
SizesOf == [p \in positions |-> p.quantity]
GrossOf == [p \in positions |-> p.gross]
ReportedOf == [p \in positions |-> p.reported]
EstimatedOf == [p \in positions |-> p.estimated]

\* The positions that a trade opened or closed.
OfTrade(i) == {p \in positions : i \in {p.entry, p.exit}}

\* At the entry of one trade d units are opened, or closed if d is negative, and e units
\* of the one that is looked at are dealt with.
Turned(k, d, e) ==
    /\ k \in Batched /\ turn \in Batched /\ d \in Int /\ e \in Nat
    /\ Batched' = Batched
    /\ \A i \in Batched : SideOf(i)' = SideOf(i) /\ SizeOf(i)' = SizeOf(i) /\ PriceOf(i)' = PriceOf(i)
    /\ queue'[k] = queue[k] + d /\ Moved'[turn] = Moved[turn] + e
    /\ \A i \in Batched : (i # k => queue'[i] = queue[i]) /\ (i # turn => Moved'[i] = Moved[i])
    /\ \A i \in Batched : queue[i] \in Nat /\ queue'[i] \in Nat /\ Moved[i] \in Nat /\ Moved'[i] \in Nat

\* A round takes what it closes from the entry and from what remains of the trade,
LEMMA CloseTurns ==
    ASSUME MatchTyped, QueueInv, PairsInv, NEW h, NEW c, Closes(h, c)
    PROVE  Turned(h, -c, c)
<1>1. /\ h \in Batched /\ turn \in Batched /\ turn \in Nat
      /\ c \in Nat /\ c > 0 /\ c <= queue[h] /\ c <= leftover
      /\ queue[h] \in Nat /\ leftover \in Nat /\ leftover <= SizeOf(turn)
      /\ queue' = [queue EXCEPT ![h] = queue[h] - c] /\ leftover' = leftover - c
      /\ UNCHANGED <<trades, memory, batch, turn, fees>>
    BY BatchTyped DEF Closes, MatchTyped, QueueInv
<1>2. MatchTyped'
    BY CloseTyped
<1>3. /\ Batched' = Batched
      /\ \A i : SideOf(i)' = SideOf(i) /\ SizeOf(i)' = SizeOf(i) /\ PriceOf(i)' = PriceOf(i)
    BY <1>1, BatchStays
<1>4. /\ queue \in [Batched -> Nat] /\ queue' \in [Batched -> Nat]
    BY <1>2, <1>3 DEF MatchTyped
<1>5. queue'[h] = queue[h] + (-c) /\ \A i \in Batched : i # h => queue'[i] = queue[i]
    BY <1>1, <1>4
<1>6. \A i \in Batched : SizeOf(i) \in Nat /\ i \in Nat
    BY BatchTyped
<1>7. \A i \in Batched :
        /\ Moved[i] = IF i < turn THEN SizeOf(i) ELSE IF i = turn THEN SizeOf(i) - leftover ELSE 0
        /\ Moved'[i] = IF i < turn THEN SizeOf(i) ELSE IF i = turn THEN SizeOf(i) - leftover' ELSE 0
    BY <1>1, <1>3 DEF Moved
<1>8. Moved'[turn] = Moved[turn] + c /\ \A i \in Batched : i # turn => Moved'[i] = Moved[i]
    BY <1>1, <1>6, <1>7
<1>9. \A i \in Batched : Moved[i] \in Nat /\ Moved'[i] \in Nat
    BY <1>1, <1>6, <1>7
<1> HIDE DEF Moved
<1> QED BY <1>1, <1>3, <1>4, <1>5, <1>8, <1>9 DEF Turned

\* and what is left open is what remained of the trade.
LEMMA OpenTurns ==
    ASSUME MatchTyped, QueueInv, PairsInv, Opens
    PROVE  Turned(turn, leftover, leftover) /\ queue[turn] = 0 /\ queue'[turn] = leftover
<1>1. /\ turn \in Batched /\ turn \in Nat /\ leftover \in Nat /\ leftover <= SizeOf(turn)
      /\ queue' = [queue EXCEPT ![turn] = leftover] /\ turn' = turn + 1
      /\ leftover' = IF turn + 1 \in Batched THEN SizeOf(turn + 1) ELSE 0
      /\ UNCHANGED <<trades, memory, batch, positions>>
    BY BatchTyped DEF Opens, MatchTyped, QueueInv
<1>2. MatchTyped'
    BY OpenTyped
<1>3. /\ Batched' = Batched
      /\ \A i : SideOf(i)' = SideOf(i) /\ SizeOf(i)' = SizeOf(i) /\ PriceOf(i)' = PriceOf(i)
    BY <1>1, BatchStays
<1>4. /\ queue \in [Batched -> Nat] /\ queue' \in [Batched -> Nat]
    BY <1>2, <1>3 DEF MatchTyped
<1>5. queue[turn] = 0
    BY <1>1, BatchTyped DEF QueueInv
<1>6. queue'[turn] = leftover /\ \A i \in Batched : i # turn => queue'[i] = queue[i]
    BY <1>1, <1>4
<1>7. \A i \in Batched : SizeOf(i) \in Nat /\ i \in Nat
    BY BatchTyped
<1>8. \A i \in Batched :
        /\ Moved[i] = IF i < turn THEN SizeOf(i) ELSE IF i = turn THEN SizeOf(i) - leftover ELSE 0
        /\ Moved'[i] = IF i < turn + 1 THEN SizeOf(i) ELSE IF i = turn + 1 THEN SizeOf(i) - leftover' ELSE 0
    BY <1>1, <1>3 DEF Moved
<1>9. \A i \in Batched : i = turn + 1 => leftover' = SizeOf(i)
    BY <1>1
<1>10. Moved'[turn] = Moved[turn] + leftover
    BY <1>1, <1>7, <1>8
<1>11. ASSUME NEW i \in Batched, i # turn PROVE Moved'[i] = Moved[i]
    BY <1>1, <1>7, <1>8, <1>9, <1>11
<1>12. ASSUME NEW i \in Batched PROVE Moved[i] \in Nat /\ Moved'[i] \in Nat
    BY <1>1, <1>7, <1>8, <1>9
<1> HIDE DEF Moved
<1> QED BY <1>1, <1>3, <1>4, <1>5, <1>6, <1>10, <1>11, <1>12 DEF Turned

\* What that adds to each sum.
LEMMA SumsTurned ==
    ASSUME MatchTyped, NEW k, NEW d, NEW e, Turned(k, d, e)
    PROVE  /\ Sum(CostAt, Batched)' = Sum(CostAt, Batched) + SideOf(k) * d * PriceOf(k)
           /\ Sum(CashAt, Batched)' = Sum(CashAt, Batched) - SideOf(turn) * e * PriceOf(turn)
           /\ Sum(OpenAt, Batched)' = Sum(OpenAt, Batched) + SideOf(k) * d
           /\ Sum(NetAt, Batched)' = Sum(NetAt, Batched) + SideOf(turn) * e
           /\ Sum(RatesAt, Batched)' = Sum(RatesAt, Batched) + Rate * d * PriceOf(k)
           /\ Sum(PaidAt, Batched)' = Sum(PaidAt, Batched) + Rate * e * PriceOf(turn)
           /\ Sum(CostAt, Batched) \in Int /\ Sum(CashAt, Batched) \in Int
           /\ Sum(OpenAt, Batched) \in Int /\ Sum(NetAt, Batched) \in Int
           /\ Sum(RatesAt, Batched) \in Int /\ Sum(PaidAt, Batched) \in Int
<1>1. /\ k \in Batched /\ turn \in Batched /\ d \in Int /\ e \in Nat /\ Batched' = Batched
      /\ \A i \in Batched : SideOf(i)' = SideOf(i) /\ PriceOf(i)' = PriceOf(i)
      /\ queue'[k] = queue[k] + d /\ Moved'[turn] = Moved[turn] + e
      /\ \A i \in Batched : (i # k => queue'[i] = queue[i]) /\ (i # turn => Moved'[i] = Moved[i])
      /\ \A i \in Batched : queue[i] \in Int /\ queue'[i] \in Int /\ Moved[i] \in Int /\ Moved'[i] \in Int
    BY DEF Turned
<1>2. /\ IsFiniteSet(Batched) /\ Rate \in Int
      /\ \A i \in Batched : SideOf(i) \in Int /\ PriceOf(i) \in Int
    BY BatchTyped, MatchSizes
<1>3. /\ \A i \in Batched : /\ CostAt[i] = SideOf(i) * queue[i] * PriceOf(i)
                            /\ CostAt'[i] = SideOf(i) * queue'[i] * PriceOf(i)
      /\ \A i \in Batched : /\ CashAt[i] = -(SideOf(i) * Moved[i] * PriceOf(i))
                            /\ CashAt'[i] = -(SideOf(i) * Moved'[i] * PriceOf(i))
    BY <1>1 DEF CostAt, CashAt
<1>4. /\ \A i \in Batched : OpenAt[i] = SideOf(i) * queue[i] /\ OpenAt'[i] = SideOf(i) * queue'[i]
      /\ \A i \in Batched : NetAt[i] = SideOf(i) * Moved[i] /\ NetAt'[i] = SideOf(i) * Moved'[i]
    BY <1>1 DEF OpenAt, NetAt
<1>5. /\ \A i \in Batched : /\ RatesAt[i] = Rate * queue[i] * PriceOf(i)
                            /\ RatesAt'[i] = Rate * queue'[i] * PriceOf(i)
      /\ \A i \in Batched : /\ PaidAt[i] = Rate * Moved[i] * PriceOf(i)
                            /\ PaidAt'[i] = Rate * Moved'[i] * PriceOf(i)
    BY <1>1 DEF RatesAt, PaidAt
<1>6. /\ Sum(CostAt, Batched)' = Sum(CostAt', Batched) /\ Sum(CashAt, Batched)' = Sum(CashAt', Batched)
      /\ Sum(OpenAt, Batched)' = Sum(OpenAt', Batched) /\ Sum(NetAt, Batched)' = Sum(NetAt', Batched)
      /\ Sum(RatesAt, Batched)' = Sum(RatesAt', Batched) /\ Sum(PaidAt, Batched)' = Sum(PaidAt', Batched)
    BY <1>1
<1> HIDE DEF CostAt, CashAt, OpenAt, NetAt, RatesAt, PaidAt, Moved, Batched
<1>7. /\ Sum(CostAt', Batched) = Sum(CostAt, Batched) + SideOf(k) * d * PriceOf(k)
      /\ Sum(CostAt, Batched) \in Int
  <2>1. \A i \in Batched : CostAt[i] \in Int /\ CostAt'[i] \in Int /\ (i # k => CostAt[i] = CostAt'[i])
      BY <1>1, <1>2, <1>3
  <2>2. Sum(CostAt', Batched) = Sum(CostAt, Batched) + CostAt'[k] - CostAt[k]
      BY ONLY <1>1, <1>2, <2>1, SumChanged
  <2>3. CostAt'[k] - CostAt[k] = SideOf(k) * d * PriceOf(k) /\ CostAt'[k] \in Int /\ CostAt[k] \in Int
      BY <1>1, <1>2, <1>3, <2>1
  <2>4. Sum(CostAt, Batched) \in Int
      BY <1>2, <2>1, SumInt
  <2> QED BY <2>2, <2>3, <2>4
<1>8. /\ Sum(CashAt', Batched) = Sum(CashAt, Batched) - SideOf(turn) * e * PriceOf(turn)
      /\ Sum(CashAt, Batched) \in Int
  <2>1. \A i \in Batched : CashAt[i] \in Int /\ CashAt'[i] \in Int /\ (i # turn => CashAt[i] = CashAt'[i])
      BY <1>1, <1>2, <1>3
  <2>2. Sum(CashAt', Batched) = Sum(CashAt, Batched) + CashAt'[turn] - CashAt[turn]
      BY ONLY <1>1, <1>2, <2>1, SumChanged
  <2>3. CashAt'[turn] - CashAt[turn] = -(SideOf(turn) * e * PriceOf(turn))
        /\ SideOf(turn) * e * PriceOf(turn) \in Int /\ CashAt'[turn] \in Int /\ CashAt[turn] \in Int
      BY <1>1, <1>2, <1>3, <2>1
  <2>4. Sum(CashAt, Batched) \in Int
      BY <1>2, <2>1, SumInt
  <2> QED BY <2>2, <2>3, <2>4
<1>9. /\ Sum(OpenAt', Batched) = Sum(OpenAt, Batched) + SideOf(k) * d
      /\ Sum(OpenAt, Batched) \in Int
  <2>1. \A i \in Batched : OpenAt[i] \in Int /\ OpenAt'[i] \in Int /\ (i # k => OpenAt[i] = OpenAt'[i])
      BY <1>1, <1>2, <1>4
  <2>2. Sum(OpenAt', Batched) = Sum(OpenAt, Batched) + OpenAt'[k] - OpenAt[k]
      BY ONLY <1>1, <1>2, <2>1, SumChanged
  <2>3. OpenAt'[k] - OpenAt[k] = SideOf(k) * d /\ OpenAt'[k] \in Int /\ OpenAt[k] \in Int
      BY <1>1, <1>2, <1>4, <2>1
  <2>4. Sum(OpenAt, Batched) \in Int
      BY <1>2, <2>1, SumInt
  <2> QED BY <2>2, <2>3, <2>4
<1>10. /\ Sum(NetAt', Batched) = Sum(NetAt, Batched) + SideOf(turn) * e
       /\ Sum(NetAt, Batched) \in Int
  <2>1. \A i \in Batched : NetAt[i] \in Int /\ NetAt'[i] \in Int /\ (i # turn => NetAt[i] = NetAt'[i])
      BY <1>1, <1>2, <1>4
  <2>2. Sum(NetAt', Batched) = Sum(NetAt, Batched) + NetAt'[turn] - NetAt[turn]
      BY ONLY <1>1, <1>2, <2>1, SumChanged
  <2>3. NetAt'[turn] - NetAt[turn] = SideOf(turn) * e /\ NetAt'[turn] \in Int /\ NetAt[turn] \in Int
      BY <1>1, <1>2, <1>4, <2>1
  <2>4. Sum(NetAt, Batched) \in Int
      BY <1>2, <2>1, SumInt
  <2> QED BY <2>2, <2>3, <2>4
<1>11. /\ Sum(RatesAt', Batched) = Sum(RatesAt, Batched) + Rate * d * PriceOf(k)
       /\ Sum(RatesAt, Batched) \in Int
  <2>1. \A i \in Batched : RatesAt[i] \in Int /\ RatesAt'[i] \in Int /\ (i # k => RatesAt[i] = RatesAt'[i])
      BY <1>1, <1>2, <1>5
  <2>2. Sum(RatesAt', Batched) = Sum(RatesAt, Batched) + RatesAt'[k] - RatesAt[k]
      BY ONLY <1>1, <1>2, <2>1, SumChanged
  <2>3. RatesAt'[k] - RatesAt[k] = Rate * d * PriceOf(k) /\ RatesAt'[k] \in Int /\ RatesAt[k] \in Int
      BY <1>1, <1>2, <1>5, <2>1
  <2>4. Sum(RatesAt, Batched) \in Int
      BY <1>2, <2>1, SumInt
  <2> QED BY <2>2, <2>3, <2>4
<1>12. /\ Sum(PaidAt', Batched) = Sum(PaidAt, Batched) + Rate * e * PriceOf(turn)
       /\ Sum(PaidAt, Batched) \in Int
  <2>1. \A i \in Batched : PaidAt[i] \in Int /\ PaidAt'[i] \in Int /\ (i # turn => PaidAt[i] = PaidAt'[i])
      BY <1>1, <1>2, <1>5
  <2>2. Sum(PaidAt', Batched) = Sum(PaidAt, Batched) + PaidAt'[turn] - PaidAt[turn]
      BY ONLY <1>1, <1>2, <2>1, SumChanged
  <2>3. PaidAt'[turn] - PaidAt[turn] = Rate * e * PriceOf(turn) /\ PaidAt'[turn] \in Int /\ PaidAt[turn] \in Int
      BY <1>1, <1>2, <1>5, <2>1
  <2>4. Sum(PaidAt, Batched) \in Int
      BY <1>2, <2>1, SumInt
  <2> QED BY <2>2, <2>3, <2>4
<1> QED BY <1>6, <1>7, <1>8, <1>9, <1>10, <1>11, <1>12

\* What a round adds to the sums over completed positions.
LEMMA PositionAdded ==
    ASSUME MatchTyped, NEW h, NEW c, Closes(h, c)
    PROVE  /\ Sum(GrossOf, positions)' = Sum(GrossOf, positions) + Fifo!Position(h, c).gross
           /\ Sum(ReportedOf, positions)' = Sum(ReportedOf, positions) + Fifo!Position(h, c).reported
           /\ Sum(EstimatedOf, positions)' = Sum(EstimatedOf, positions) + Fifo!Position(h, c).estimated
           /\ \A i \in Batched : Sum(SizesOf, OfTrade(i))' =
                Sum(SizesOf, OfTrade(i)) + (IF i \in {h, turn} THEN c ELSE 0)
           /\ Sum(GrossOf, positions) \in Int /\ Sum(ReportedOf, positions) \in Int
           /\ Sum(EstimatedOf, positions) \in Int
           /\ \A i \in Batched : Sum(SizesOf, OfTrade(i)) \in Int
<1> DEFINE p == Fifo!Position(h, c)
<1>1. p \in PairType /\ p.entry = h /\ p.exit = turn /\ p.quantity = c
    BY PositionClosed
<1>2. /\ positions' = positions \cup {p} /\ p \notin positions /\ IsFiniteSet(positions)
      /\ h \in Batched /\ turn \in Batched /\ c \in Nat
    BY DEF Closes, MatchTyped
<1> HIDE DEF p
<1>3. /\ p.gross \in Int /\ p.reported \in Int /\ p.estimated \in Int
      /\ \A r \in positions : /\ r.gross \in Int /\ r.reported \in Int
                              /\ r.estimated \in Int /\ r.quantity \in Int
    BY <1>1 DEF PairType, MatchTyped
<1>4. /\ \A r \in positions : /\ GrossOf[r] = r.gross /\ GrossOf'[r] = r.gross
                              /\ ReportedOf[r] = r.reported /\ ReportedOf'[r] = r.reported
                              /\ EstimatedOf[r] = r.estimated /\ EstimatedOf'[r] = r.estimated
                              /\ SizesOf[r] = r.quantity /\ SizesOf'[r] = r.quantity
      /\ GrossOf'[p] = p.gross /\ ReportedOf'[p] = p.reported /\ EstimatedOf'[p] = p.estimated
      /\ SizesOf'[p] = c
    BY <1>1, <1>2 DEF GrossOf, ReportedOf, EstimatedOf, SizesOf
<1>5. /\ Sum(GrossOf, positions)' = Sum(GrossOf', positions \cup {p})
      /\ Sum(ReportedOf, positions)' = Sum(ReportedOf', positions \cup {p})
      /\ Sum(EstimatedOf, positions)' = Sum(EstimatedOf', positions \cup {p})
      /\ \A i : Sum(SizesOf, OfTrade(i))' = Sum(SizesOf', OfTrade(i)')
    BY <1>2
<1>6. ASSUME NEW i \in Batched PROVE OfTrade(i)' = OfTrade(i) \cup IF i \in {h, turn} THEN {p} ELSE {}
  <2>1. OfTrade(i)' = {r \in positions \cup {p} : i \in {r.entry, r.exit}}
      BY <1>2 DEF OfTrade
  <2>2. i \in {p.entry, p.exit} <=> i \in {h, turn}
      BY <1>1
  <2> QED BY <2>1, <2>2 DEF OfTrade
<1> HIDE DEF GrossOf, ReportedOf, EstimatedOf, SizesOf
<1>7. Sum(GrossOf', positions \cup {p}) = Sum(GrossOf, positions) + p.gross
  <2>1. \A r \in positions : GrossOf[r] \in Int /\ GrossOf'[r] = GrossOf[r]
      BY <1>3, <1>4
  <2>2. GrossOf'[p] \in Int
      BY <1>3, <1>4
  <2>3. Sum(GrossOf', positions \cup {p}) = Sum(GrossOf, positions) + GrossOf'[p]
      BY ONLY <1>2, <2>1, <2>2, SumAdded
  <2> QED BY <1>4, <2>3
<1>8. Sum(ReportedOf', positions \cup {p}) = Sum(ReportedOf, positions) + p.reported
  <2>1. \A r \in positions : ReportedOf[r] \in Int /\ ReportedOf'[r] = ReportedOf[r]
      BY <1>3, <1>4
  <2>2. ReportedOf'[p] \in Int
      BY <1>3, <1>4
  <2>3. Sum(ReportedOf', positions \cup {p}) = Sum(ReportedOf, positions) + ReportedOf'[p]
      BY ONLY <1>2, <2>1, <2>2, SumAdded
  <2> QED BY <1>4, <2>3
<1>9. Sum(EstimatedOf', positions \cup {p}) = Sum(EstimatedOf, positions) + p.estimated
  <2>1. \A r \in positions : EstimatedOf[r] \in Int /\ EstimatedOf'[r] = EstimatedOf[r]
      BY <1>3, <1>4
  <2>2. EstimatedOf'[p] \in Int
      BY <1>3, <1>4
  <2>3. Sum(EstimatedOf', positions \cup {p}) = Sum(EstimatedOf, positions) + EstimatedOf'[p]
      BY ONLY <1>2, <2>1, <2>2, SumAdded
  <2> QED BY <1>4, <2>3
<1>10. ASSUME NEW i \in Batched
       PROVE  /\ Sum(SizesOf', OfTrade(i)') = Sum(SizesOf, OfTrade(i)) + (IF i \in {h, turn} THEN c ELSE 0)
              /\ Sum(SizesOf, OfTrade(i)) \in Int
  <2> DEFINE S == OfTrade(i)
  <2>1. S \subseteq positions
      BY DEF OfTrade
  <2>2. OfTrade(i)' = S \cup IF i \in {h, turn} THEN {p} ELSE {}
      BY <1>6
  <2> HIDE DEF S
  <2>3. IsFiniteSet(S) /\ p \notin S
      BY <1>2, <2>1, FS_Subset
  <2>4. \A r \in S : SizesOf[r] \in Int /\ SizesOf'[r] = SizesOf[r] /\ SizesOf[r] = SizesOf'[r]
      BY <1>3, <1>4, <2>1
  <2>5. Sum(SizesOf, S) \in Int
      BY <2>3, <2>4, SumInt
  <2>6. CASE i \in {h, turn}
    <3>1. SizesOf'[p] \in Int /\ SizesOf'[p] = c
        BY <1>2, <1>4
    <3>2. Sum(SizesOf', S \cup {p}) = Sum(SizesOf, S) + SizesOf'[p]
        BY ONLY <2>3, <2>4, <3>1, SumAdded
    <3>3. OfTrade(i)' = S \cup {p}
        BY <2>2, <2>6
    <3>4. Sum(SizesOf', OfTrade(i)') = Sum(SizesOf, S) + c
        BY <3>1, <3>2, <3>3
    <3> QED BY <2>5, <2>6, <3>4 DEF S
  <2>7. CASE i \notin {h, turn}
    <3>1. Sum(SizesOf, S) = Sum(SizesOf', S)
        BY ONLY <2>3, <2>4, SumSame
    <3>2. OfTrade(i)' = S
        BY <2>2, <2>7
    <3>3. Sum(SizesOf', OfTrade(i)') = Sum(SizesOf, S)
        BY <3>1, <3>2
    <3> QED BY <2>5, <2>7, <3>3 DEF S
  <2> QED BY <2>6, <2>7
<1>11. /\ Sum(GrossOf, positions) \in Int /\ Sum(ReportedOf, positions) \in Int
       /\ Sum(EstimatedOf, positions) \in Int
  <2>1. \A r \in positions : GrossOf[r] \in Int /\ ReportedOf[r] \in Int /\ EstimatedOf[r] \in Int
      BY <1>3, <1>4
  <2> QED BY <1>2, <2>1, SumInt
<1>12. \A i \in Batched :
         /\ Sum(SizesOf, OfTrade(i))' = Sum(SizesOf, OfTrade(i)) + (IF i \in {h, turn} THEN c ELSE 0)
         /\ Sum(SizesOf, OfTrade(i)) \in Int
    BY <1>5, <1>10
<1> QED BY <1>5, <1>7, <1>8, <1>9, <1>11, <1>12 DEF p

\* What has been dealt with of a trade is in completed positions or in the queue.
UnitsInv == \A i \in Batched : Sum(SizesOf, OfTrade(i)) + queue[i] = Moved[i]

\* What the positions made is what was paid and earned and what the open ones have cost, and
\* as many units are open as were bought and not sold.
CashInv ==
    /\ Sum(GrossOf, positions) = Sum(CostAt, Batched) + Sum(CashAt, Batched)
    /\ Sum(OpenAt, Batched) = Sum(NetAt, Batched)

\* The fees of the report, of the matcher, and as they were paid.
Charged == Sum(ReportedOf, positions) + Sum(FeesAt, Batched)
Guessed == Sum(EstimatedOf, positions) + Sum(RatesAt, Batched)
Paid == Sum(PaidAt, Batched)

\* They are the same, until an entry is split: FeesAsPaid, halfway.
FeesInv ==
    IF Fifo!Split THEN Charged > Paid /\ Guessed < Paid ELSE Charged = Paid /\ Guessed = Paid

\* A round keeps the units,
LEMMA CloseUnits ==
    ASSUME MatchTyped, QueueInv, PairsInv, UnitsInv, NEW h, NEW c, Closes(h, c)
    PROVE  UnitsInv'
<1>1. Turned(h, -c, c)
    BY CloseTurns
<1>2. /\ Batched' = Batched /\ h \in Batched /\ turn \in Batched /\ c \in Nat /\ h # turn
      /\ queue'[h] = queue[h] - c /\ Moved'[turn] = Moved[turn] + c
      /\ \A i \in Batched : (i # h => queue'[i] = queue[i]) /\ (i # turn => Moved'[i] = Moved[i])
      /\ \A i \in Batched : queue[i] \in Int /\ queue'[i] \in Int /\ Moved[i] \in Int /\ Moved'[i] \in Int
  <2>1. h < turn /\ turn \in Nat /\ h \in Nat /\ c \in Nat
      BY <1>1, BatchTyped DEF Closes, Turned
  <2>2. \A i \in Batched : queue[i] \in Nat
      BY <1>1 DEF Turned
  <2>3. queue'[h] = queue[h] + (-c)
      BY <1>1 DEF Turned
  <2> QED BY <1>1, <2>1, <2>2, <2>3 DEF Turned
<1>3. \A i \in Batched :
        /\ Sum(SizesOf, OfTrade(i))' = Sum(SizesOf, OfTrade(i)) + (IF i \in {h, turn} THEN c ELSE 0)
        /\ Sum(SizesOf, OfTrade(i)) \in Int
    BY PositionAdded
<1>4. ASSUME NEW i \in Batched PROVE Sum(SizesOf, OfTrade(i))' + queue'[i] = Moved'[i]
  <2>1. Sum(SizesOf, OfTrade(i)) + queue[i] = Moved[i] /\ Sum(SizesOf, OfTrade(i)) \in Int
      BY <1>3 DEF UnitsInv
  <2>2. Sum(SizesOf, OfTrade(i))' = Sum(SizesOf, OfTrade(i)) + (IF i \in {h, turn} THEN c ELSE 0)
      BY <1>3
  <2> HIDE DEF Moved, Batched
  <2>3. CASE i = h
      BY <1>2, <2>1, <2>2, <2>3
  <2>4. CASE i = turn
      BY <1>2, <2>1, <2>2, <2>4
  <2>5. CASE i \notin {h, turn}
      BY <1>2, <2>1, <2>2, <2>5
  <2> QED BY <2>3, <2>4, <2>5
<1> QED BY <1>2, <1>4 DEF UnitsInv

\* the cash: the gain is the price of the exit less that of the entry, and the entry's cost
\* is no longer open,
LEMMA CloseCash ==
    ASSUME MatchTyped, QueueInv, PairsInv, CashInv, NEW h, NEW c, Closes(h, c)
    PROVE  CashInv'
<1> DEFINE p == Fifo!Position(h, c)
           s == SideOf(h)
           a == PriceOf(h)
           b == PriceOf(turn)
<1>1. Turned(h, -c, c)
    BY CloseTurns
<1>2. h \in Batched /\ turn \in Batched /\ c \in Nat /\ SideOf(h) # SideOf(turn)
    BY DEF Closes
<1>3. s \in {1, -1} /\ SideOf(turn) = -s /\ a \in Int /\ b \in Int
    BY <1>2, BatchTyped
<1>4. p.gross = s * (b - a) * c
    BY PositionClosed
<1>5. /\ Sum(GrossOf, positions)' = Sum(GrossOf, positions) + p.gross
      /\ Sum(GrossOf, positions) \in Int
    BY PositionAdded
<1>6. /\ Sum(CostAt, Batched)' = Sum(CostAt, Batched) + s * (-c) * a
      /\ Sum(CashAt, Batched)' = Sum(CashAt, Batched) - (-s) * c * b
      /\ Sum(OpenAt, Batched)' = Sum(OpenAt, Batched) + s * (-c)
      /\ Sum(NetAt, Batched)' = Sum(NetAt, Batched) + (-s) * c
      /\ Sum(CostAt, Batched) \in Int /\ Sum(CashAt, Batched) \in Int
      /\ Sum(OpenAt, Batched) \in Int /\ Sum(NetAt, Batched) \in Int
    BY <1>1, <1>3, SumsTurned
<1> HIDE DEF s, a, b, p
<1>7. s * (b - a) * c = s * (-c) * a - (-s) * c * b
  <2>1. CASE s = 1
      BY <1>2, <1>3, <2>1
  <2>2. CASE s = -1
      BY <1>2, <1>3, <2>2
  <2> QED BY <1>3, <2>1, <2>2
<1>8. s * (-c) * a \in Int /\ (-s) * c * b \in Int /\ s * (-c) = (-s) * c /\ s * (-c) \in Int
    BY <1>2, <1>3
<1>9. Sum(GrossOf, positions)' = Sum(CostAt, Batched)' + Sum(CashAt, Batched)'
    BY <1>4, <1>5, <1>6, <1>7, <1>8 DEF CashInv
<1>10. Sum(OpenAt, Batched)' = Sum(NetAt, Batched)'
    BY <1>6, <1>8 DEF CashInv
<1> QED BY <1>9, <1>10 DEF CashInv

\* An entry that is closed in part is split, and one that is closed in full was before or is not.
LEMMA CloseSplits ==
    ASSUME MatchTyped, QueueInv, PairsInv, NEW h, NEW c, Closes(h, c)
    PROVE  IF c = queue[h] THEN Fifo!Split' <=> Fifo!Split ELSE Fifo!Split'
<1> DEFINE p == Fifo!Position(h, c)
           W == {i \in Batched : queue[i] > 0}
           V == {i \in Batched : queue'[i] > 0}
<1>1. p.entry = h
    BY PositionClosed
<1>2. /\ positions' = positions \cup {p} /\ p \notin positions
      /\ h \in Batched /\ c \in Nat /\ c > 0 /\ c <= queue[h] /\ queue[h] \in Nat
      /\ batch' = batch
    BY DEF Closes, MatchTyped
<1>3. Turned(h, -c, c)
    BY CloseTurns
<1>4. /\ queue'[h] = queue[h] - c /\ \A i \in Batched : i # h => queue'[i] = queue[i]
    BY <1>2, <1>3 DEF Turned
<1>5. Fifo!Waiting = W /\ Fifo!Waiting' = V
    BY <1>2, BatchTyped DEF Fifo!Waiting
<1>6. h \in W /\ V = IF c = queue[h] THEN W \ {h} ELSE W
  <2>1. h \in W
      BY <1>2
  <2>2. h \in V <=> c # queue[h]
      BY <1>2, <1>4
  <2>3. \A i \in Batched : i # h => (i \in V <=> i \in W)
      BY <1>4
  <2>4. W \subseteq Batched /\ V \subseteq Batched
      OBVIOUS
  <2> HIDE DEF W, V, Batched
  <2> QED BY <2>1, <2>2, <2>3, <2>4
<1>7. Fifo!Split <=> \E r \in positions : r.entry \in W \/ \E o \in positions \ {r} : r.entry = o.entry
    BY <1>5 DEF Fifo!Split
<1>8. Fifo!Split' <=> \E r \in positions' : r.entry \in V \/ \E o \in positions' \ {r} : r.entry = o.entry
    BY <1>5 DEF Fifo!Split
<1> HIDE DEF p, W, V
<1>9. CASE c # queue[h]
    BY <1>1, <1>2, <1>6, <1>8, <1>9
<1>10. ASSUME c = queue[h], Fifo!Split PROVE Fifo!Split'
  <2>1. PICK r \in positions : r.entry \in W \/ \E o \in positions \ {r} : r.entry = o.entry
      BY <1>7, <1>10
  <2>2. CASE r.entry = h
    <3>1. r \in positions' /\ p \in positions' \ {r} /\ r.entry = p.entry
        BY <1>1, <1>2, <2>2
    <3> QED BY <1>8, <3>1
  <2>3. CASE r.entry # h
    <3>1. r \in positions' /\ (r.entry \in V \/ \E o \in positions' \ {r} : r.entry = o.entry)
        BY <1>2, <1>6, <2>1, <2>3
    <3> QED BY <1>8, <3>1
  <2> QED BY <2>2, <2>3
<1>11. ASSUME c = queue[h], Fifo!Split' PROVE Fifo!Split
  <2>1. PICK r \in positions' : r.entry \in V \/ \E o \in positions' \ {r} : r.entry = o.entry
      BY <1>8, <1>11
  <2>2. h \notin V /\ V \subseteq W
      BY <1>6, <1>11
  <2>3. CASE r = p
    <3>1. PICK o \in positions' \ {r} : r.entry = o.entry
        BY <1>1, <2>1, <2>2, <2>3
    <3>2. o \in positions /\ o.entry \in W
        BY <1>1, <1>2, <1>6, <2>3, <3>1
    <3> QED BY <1>7, <3>2
  <2>4. CASE r # p
    <3>1. r \in positions
        BY <1>2, <2>1, <2>4
    <3>2. CASE r.entry \in W
        BY <1>7, <3>1, <3>2
    <3>3. CASE r.entry \notin W
      <4>1. PICK o \in positions' \ {r} : r.entry = o.entry
          BY <2>1, <2>2, <3>3
      <4>2. o # p
          BY <1>1, <1>6, <3>3, <4>1
      <4>3. o \in positions \ {r}
          BY <1>2, <4>1, <4>2
      <4> QED BY <1>7, <3>1, <4>1, <4>3
    <3> QED BY <3>2, <3>3
  <2> QED BY <2>3, <2>4
<1> QED BY <1>9, <1>10, <1>11

\* The fees of what is open, after a round: an entry that is closed in part keeps its fee.
LEMMA CloseFeesAt ==
    ASSUME MatchTyped, QueueInv, PairsInv, NEW h, NEW c, Closes(h, c)
    PROVE  /\ Sum(FeesAt, Batched)' = Sum(FeesAt, Batched) - (IF c = queue[h] THEN fees[h] ELSE 0)
           /\ Sum(FeesAt, Batched) \in Int
<1>1. Turned(h, -c, c) /\ fees' = fees /\ h \in Batched /\ c \in Nat /\ c > 0 /\ c <= queue[h]
    BY CloseTurns DEF Closes
<1>2. /\ Batched' = Batched
      /\ queue'[h] = queue[h] - c /\ \A i \in Batched : i # h => queue'[i] = queue[i]
      /\ \A i \in Batched : queue[i] \in Nat /\ queue'[i] \in Nat /\ fees[i] \in Nat
  <2>1. queue'[h] = queue[h] + (-c) /\ queue[h] \in Nat
      BY <1>1 DEF Turned
  <2> QED BY <1>1, <2>1 DEF Turned, MatchTyped
<1>3. \A i \in Batched : /\ FeesAt[i] = IF queue[i] > 0 THEN fees[i] ELSE 0
                         /\ FeesAt'[i] = IF queue'[i] > 0 THEN fees[i] ELSE 0
    BY <1>1, <1>2 DEF FeesAt
<1>4. Sum(FeesAt, Batched)' = Sum(FeesAt', Batched) /\ IsFiniteSet(Batched)
    BY <1>2, BatchTyped
<1> HIDE DEF FeesAt, Batched
<1>5. \A i \in Batched : FeesAt[i] \in Int /\ FeesAt'[i] \in Int /\ (i # h => FeesAt[i] = FeesAt'[i])
    BY <1>2, <1>3
<1>6. Sum(FeesAt', Batched) = Sum(FeesAt, Batched) + FeesAt'[h] - FeesAt[h]
    BY ONLY <1>1, <1>4, <1>5, SumChanged
<1>7. FeesAt[h] = fees[h] /\ FeesAt'[h] = (IF c = queue[h] THEN 0 ELSE fees[h]) /\ fees[h] \in Nat
    BY <1>1, <1>2, <1>3
<1>8. Sum(FeesAt, Batched) \in Int
    BY <1>4, <1>5, SumInt
<1> QED BY <1>4, <1>6, <1>7, <1>8

\* and the fees: the fee of an entry that is closed at once is divided nowhere, one that is
\* closed in parts is charged again in part, or guessed too low.
LEMMA CloseFees ==
    ASSUME MatchTyped, QueueInv, PairsInv, FeesInv, NEW h, NEW c, Closes(h, c)
    PROVE  FeesInv'
<1> DEFINE n == queue[h]
           f == fees[h]
           a == PriceOf(h)
           b == PriceOf(turn)
           x == WorthOf(h, c)
           d == (f * c) \div n
           e == (x * c) \div n
<1>1. Turned(h, -c, c)
    BY CloseTurns
<1>2. /\ h \in Batched /\ turn \in Batched /\ c \in Nat /\ c > 0 /\ c <= n /\ n \in Nat
      /\ f \in Nat /\ n <= f
    BY DEF Closes, MatchTyped, QueueInv
<1>3. /\ a \in Nat /\ a > 0 /\ b \in Nat /\ Rate \in Nat /\ Rate > 0
    BY <1>2, BatchTyped, MatchSizes
<1>4. /\ Charged' = Charged + d + Rate * b * c - (IF c = n THEN f ELSE 0)
      /\ Guessed' = Guessed + e + Rate * (-c) * a
      /\ Paid' = Paid + Rate * c * b
      /\ Charged \in Int /\ Guessed \in Int /\ Paid \in Int
  <2>1. d \in Nat /\ e \in Nat
    <3>1. x \in Nat
      <4>1. Rate * c \in Nat /\ a + b \in Nat
          BY <1>2, <1>3
      <4> QED BY <4>1 DEF WorthOf
    <3>2. f * c \in Nat /\ x * c \in Nat
      <4> HIDE DEF x, f
      <4> QED BY <1>2, <3>1
    <3> HIDE DEF x, f, n
    <3> QED BY <1>2, <3>2, Quotient
  <2>2. Fifo!Position(h, c).reported = d + Rate * b * c /\ Fifo!Position(h, c).estimated = e
      BY PositionClosed DEF FeeOf
  <2>3. Rate * b * c \in Int /\ Rate * (-c) * a \in Int /\ Rate * c * b \in Int
      BY <1>2, <1>3
  <2> HIDE DEF d, e, x, a, b, n, f
  <2>4. /\ Sum(ReportedOf, positions)' = Sum(ReportedOf, positions) + (d + Rate * b * c)
        /\ Sum(EstimatedOf, positions)' = Sum(EstimatedOf, positions) + e
        /\ Sum(ReportedOf, positions) \in Int /\ Sum(EstimatedOf, positions) \in Int
      BY <2>2, PositionAdded
  <2>5. /\ Sum(FeesAt, Batched)' = Sum(FeesAt, Batched) - (IF c = n THEN f ELSE 0)
        /\ Sum(FeesAt, Batched) \in Int
      BY CloseFeesAt DEF n, f
  <2>6. /\ Sum(RatesAt, Batched)' = Sum(RatesAt, Batched) + Rate * (-c) * a
        /\ Sum(PaidAt, Batched)' = Sum(PaidAt, Batched) + Rate * c * b
        /\ Sum(RatesAt, Batched) \in Int /\ Sum(PaidAt, Batched) \in Int
      BY <1>1, SumsTurned DEF a, b
  <2>7. Charged' = Charged + d + Rate * b * c - (IF c = n THEN f ELSE 0) /\ Charged \in Int
      BY <1>2, <2>1, <2>3, <2>4, <2>5 DEF Charged
  <2>8. Guessed' = Guessed + e + Rate * (-c) * a /\ Guessed \in Int
      BY <2>1, <2>3, <2>4, <2>6 DEF Guessed
  <2>9. Paid' = Paid + Rate * c * b /\ Paid \in Int
      BY <2>6 DEF Paid
  <2> QED BY <2>7, <2>8, <2>9
<1>5. x = Rate * c * (a + b)
    BY DEF WorthOf
<1>6. IF c = n THEN Fifo!Split' <=> Fifo!Split ELSE Fifo!Split'
    BY CloseSplits
<1> HIDE DEF n, f, a, b, x
<1>7. x \in Nat /\ x > 0 /\ x = Rate * c * a + Rate * c * b
  <2>1. x = Rate * c * a + Rate * c * b
      BY <1>2, <1>3, <1>5
  <2>2. Rate * c \in Nat /\ Rate * c > 0
    <3>1. PICK k \in Nat : c = 1 + k
      <4>1. c - 1 \in Nat /\ c = 1 + (c - 1)
          BY <1>2
      <4> QED BY <4>1
    <3>2. Rate * c = Rate + Rate * k /\ Rate * k \in Nat
        BY <1>3, <3>1
    <3> QED BY <1>3, <3>2
  <2>3. Rate * c * a \in Nat /\ Rate * c * a > 0
    <3>1. PICK k \in Nat : a = 1 + k
      <4>1. a - 1 \in Nat /\ a = 1 + (a - 1)
          BY <1>3
      <4> QED BY <4>1
    <3> DEFINE y == Rate * c
    <3>2. y * a = y + y * k /\ y * k \in Nat
      <4>1. y \in Nat
          BY <2>2
      <4> HIDE DEF y
      <4> QED BY <3>1, <4>1
    <3> QED BY <2>2, <3>2
  <2>4. Rate * c * b \in Nat
    <3> DEFINE y == Rate * c
    <3>1. y \in Nat
        BY <2>2
    <3> HIDE DEF y
    <3>2. y * b \in Nat
        BY <1>3, <3>1
    <3> QED BY <3>2 DEF y
  <2> QED BY <2>1, <2>3, <2>4
<1>8. CASE c = n
  <2>1. d = f
      BY <1>2, <1>8, DivExact
  <2>2. e = x
      BY <1>2, <1>7, <1>8, DivExact
  <2> HIDE DEF d, e
  <2>3. Charged' = Charged + Rate * b * c /\ Rate * b * c = Rate * c * b /\ Rate * c * b \in Int
    <3>1. Rate * b * c = Rate * c * b /\ Rate * c * b \in Int
        BY <1>2, <1>3
    <3> QED BY <1>2, <1>4, <1>8, <2>1, <3>1
  <2>4. Guessed' = Guessed + Rate * c * b
    <3>1. Rate * (-c) * a = -(Rate * c * a) /\ Rate * c * a \in Int
        BY <1>2, <1>3
    <3> QED BY <1>4, <1>7, <2>2, <2>3, <3>1
  <2>5. /\ Charged' > Paid' <=> Charged > Paid
        /\ Guessed' < Paid' <=> Guessed < Paid
        /\ Charged' = Paid' <=> Charged = Paid
        /\ Guessed' = Paid' <=> Guessed = Paid
      BY <1>4, <2>3, <2>4
  <2> QED BY <1>6, <1>8, <2>5 DEF FeesInv
<1>9. CASE c # n
  <2>1. d \in Nat /\ d > 0
      BY <1>2, DivSome
  <2>2. e \in Nat /\ e < x
      BY <1>2, <1>7, <1>9, DivLess
  <2> HIDE DEF d, e
  <2>3. Rate * b * c = Rate * c * b /\ Rate * c * b \in Int
      BY <1>2, <1>3
  <2>4. Rate * (-c) * a = -(Rate * c * a) /\ Rate * c * a \in Int
      BY <1>2, <1>3
  <2>5. Charged >= Paid /\ Guessed <= Paid
      BY <1>4 DEF FeesInv
  <2>6. Charged' > Paid'
      BY <1>4, <1>9, <2>1, <2>3, <2>5
  <2>7. Guessed' < Paid'
      BY <1>4, <1>7, <2>2, <2>3, <2>4, <2>5
  <2> QED BY <1>6, <1>9, <2>6, <2>7 DEF FeesInv
<1> QED BY <1>8, <1>9

\* The positions and sums over them stay when what remains is opened.
LEMMA OpenKeepsPairs ==
    ASSUME MatchTyped, QueueInv, PairsInv, Opens
    PROVE  /\ positions' = positions
           /\ Sum(GrossOf, positions)' = Sum(GrossOf, positions)
           /\ Sum(ReportedOf, positions)' = Sum(ReportedOf, positions)
           /\ Sum(EstimatedOf, positions)' = Sum(EstimatedOf, positions)
           /\ \A i : Sum(SizesOf, OfTrade(i))' = Sum(SizesOf, OfTrade(i))
           /\ Fifo!Split' <=> Fifo!Split
<1>1. positions' = positions /\ batch' = batch /\ turn \in Batched
    BY DEF Opens
<1>2. /\ GrossOf' = GrossOf /\ ReportedOf' = ReportedOf /\ EstimatedOf' = EstimatedOf
      /\ SizesOf' = SizesOf /\ \A i : OfTrade(i)' = OfTrade(i)
    BY <1>1 DEF GrossOf, ReportedOf, EstimatedOf, SizesOf, OfTrade
<1>3. \A i \in Batched : i # turn => queue'[i] = queue[i]
    BY OpenTurns DEF Turned
<1>4. \A p \in positions : p.entry \in Batched /\ p.entry # turn
  <2> SUFFICES ASSUME NEW p \in positions PROVE p.entry \in Batched /\ p.entry # turn
      OBVIOUS
  <2>1. p.entry \in Batched /\ p.exit \in Batched
      BY DEF MatchTyped, PairType
  <2>2. p.entry \in Nat /\ p.exit \in Nat /\ turn \in Nat
      BY <1>1, <2>1, BatchTyped
  <2> QED BY <2>1, <2>2 DEF PairsInv
<1>5. \A p \in positions : p.entry \in Fifo!Waiting' <=> p.entry \in Fifo!Waiting
    BY <1>1, <1>3, <1>4, BatchTyped DEF Fifo!Waiting
<1>6. Fifo!Split' <=> Fifo!Split
    BY <1>1, <1>5 DEF Fifo!Split
<1> QED BY <1>1, <1>2, <1>6

\* What is left open keeps them, too.
LEMMA OpenSums ==
    ASSUME MatchTyped, QueueInv, PairsInv, UnitsInv, CashInv, FeesInv, Opens
    PROVE  UnitsInv' /\ CashInv' /\ FeesInv'
<1> DEFINE s == SideOf(turn)
           b == PriceOf(turn)
           c == leftover
<1>1. /\ Turned(turn, c, c) /\ queue[turn] = 0 /\ queue'[turn] = c
    BY OpenTurns
<1>2. /\ Batched' = Batched /\ turn \in Batched /\ c \in Nat
      /\ queue'[turn] = queue[turn] + c /\ Moved'[turn] = Moved[turn] + c
      /\ \A i \in Batched : (i # turn => queue'[i] = queue[i]) /\ (i # turn => Moved'[i] = Moved[i])
      /\ \A i \in Batched : queue[i] \in Int /\ queue'[i] \in Int /\ Moved[i] \in Int /\ Moved'[i] \in Int
    BY <1>1 DEF Turned
<1>3. /\ Sum(CostAt, Batched)' = Sum(CostAt, Batched) + s * c * b
      /\ Sum(CashAt, Batched)' = Sum(CashAt, Batched) - s * c * b
      /\ Sum(OpenAt, Batched)' = Sum(OpenAt, Batched) + s * c
      /\ Sum(NetAt, Batched)' = Sum(NetAt, Batched) + s * c
      /\ Sum(RatesAt, Batched)' = Sum(RatesAt, Batched) + Rate * c * b
      /\ Sum(PaidAt, Batched)' = Sum(PaidAt, Batched) + Rate * c * b
      /\ Sum(CostAt, Batched) \in Int /\ Sum(CashAt, Batched) \in Int
      /\ Sum(OpenAt, Batched) \in Int /\ Sum(NetAt, Batched) \in Int
      /\ Sum(RatesAt, Batched) \in Int /\ Sum(PaidAt, Batched) \in Int
    BY <1>1, SumsTurned
<1>4. s \in Int /\ b \in Int /\ Rate \in Int /\ s * c \in Int /\ s * c * b \in Int /\ Rate * c * b \in Int
      /\ Rate * b * c = Rate * c * b
  <2>1. s \in Int /\ b \in Int /\ c \in Int
      BY <1>2, BatchTyped
  <2>2. Rate \in Int
      BY MatchSizes
  <2> HIDE DEF s, b, c
  <2> QED BY <2>1, <2>2
<1>5. /\ positions' = positions
      /\ Sum(GrossOf, positions)' = Sum(GrossOf, positions)
      /\ Sum(ReportedOf, positions)' = Sum(ReportedOf, positions)
      /\ Sum(EstimatedOf, positions)' = Sum(EstimatedOf, positions)
      /\ \A i : Sum(SizesOf, OfTrade(i))' = Sum(SizesOf, OfTrade(i))
      /\ Fifo!Split' <=> Fifo!Split
    BY OpenKeepsPairs
<1>6. /\ Sum(ReportedOf, positions) \in Int /\ Sum(EstimatedOf, positions) \in Int
      /\ \A i \in Batched : Sum(SizesOf, OfTrade(i)) \in Int
  <2>1. \A r \in positions : /\ ReportedOf[r] \in Int /\ EstimatedOf[r] \in Int /\ SizesOf[r] \in Int
      BY DEF ReportedOf, EstimatedOf, SizesOf, MatchTyped, PairType
  <2>2. IsFiniteSet(positions) /\ \A i : OfTrade(i) \subseteq positions
      BY DEF MatchTyped, OfTrade
  <2>3. \A i : IsFiniteSet(OfTrade(i))
      BY <2>2, FS_Subset
  <2> QED BY <2>1, <2>2, <2>3, SumInt
<1>7. Sum(FeesAt, Batched)' = Sum(FeesAt, Batched) + Rate * c * b /\ Sum(FeesAt, Batched) \in Int
  <2>1. fees'[turn] = Rate * b * c /\ \A i \in Batched : i # turn => fees'[i] = fees[i]
    <3>1. fees \in [Batched -> Nat] /\ fees' = [fees EXCEPT ![turn] = Rate * b * c]
        BY DEF MatchTyped, Opens
    <3> QED BY <1>2, <3>1
  <2>2. \A i \in Batched : fees[i] \in Nat /\ fees'[i] \in Nat
    <3>1. MatchTyped'
        BY OpenTyped
    <3>2. fees \in [Batched -> Nat] /\ fees' \in [Batched' -> Nat]
        BY <3>1 DEF MatchTyped
    <3> QED BY <1>2, <3>2
  <2>3. \A i \in Batched : /\ FeesAt[i] = IF queue[i] > 0 THEN fees[i] ELSE 0
                           /\ FeesAt'[i] = IF queue'[i] > 0 THEN fees'[i] ELSE 0
      BY <1>2 DEF FeesAt
  <2>4. Sum(FeesAt, Batched)' = Sum(FeesAt', Batched) /\ IsFiniteSet(Batched)
      BY <1>2, BatchTyped
  <2> HIDE DEF FeesAt, Batched, s, b, c
  <2>5. \A i \in Batched : FeesAt[i] \in Int /\ FeesAt'[i] \in Int /\ (i # turn => FeesAt[i] = FeesAt'[i])
      BY <1>2, <2>1, <2>2, <2>3
  <2>6. Sum(FeesAt', Batched) = Sum(FeesAt, Batched) + FeesAt'[turn] - FeesAt[turn]
      BY ONLY <1>2, <2>4, <2>5, SumChanged
  <2>7. FeesAt[turn] = 0 /\ FeesAt'[turn] = Rate * c * b
    <3>1. FeesAt[turn] = 0
        BY <1>1, <1>2, <2>3
    <3>2. CASE c = 0
      <4>1. Rate * c * b = 0
          BY <1>4, <3>2
      <4> QED BY <1>1, <1>2, <2>3, <3>1, <3>2, <4>1
    <3>3. CASE c # 0
        BY <1>1, <1>2, <1>4, <2>1, <2>3, <3>1, <3>3
    <3> QED BY <3>2, <3>3
  <2>8. Sum(FeesAt, Batched) \in Int
      BY <2>4, <2>5, SumInt
  <2> QED BY <1>4, <2>4, <2>6, <2>7, <2>8
<1> HIDE DEF s, b, c
<1>8. UnitsInv'
  <2>1. ASSUME NEW i \in Batched PROVE Sum(SizesOf, OfTrade(i))' + queue'[i] = Moved'[i]
    <3>1. Sum(SizesOf, OfTrade(i)) + queue[i] = Moved[i] /\ Sum(SizesOf, OfTrade(i)) \in Int
        BY <1>6 DEF UnitsInv
    <3>2. Sum(SizesOf, OfTrade(i))' = Sum(SizesOf, OfTrade(i))
        BY <1>5
    <3> HIDE DEF Moved, Batched
    <3>3. CASE i = turn
        BY <1>2, <3>1, <3>2, <3>3
    <3>4. CASE i # turn
        BY <1>2, <3>1, <3>2, <3>4
    <3> QED BY <3>3, <3>4
  <2> QED BY <1>2, <2>1 DEF UnitsInv
<1>9. CashInv'
  <2>1. Sum(GrossOf, positions)' = Sum(CostAt, Batched)' + Sum(CashAt, Batched)'
      BY <1>3, <1>4, <1>5 DEF CashInv
  <2>2. Sum(OpenAt, Batched)' = Sum(NetAt, Batched)'
      BY <1>3, <1>4 DEF CashInv
  <2> QED BY <2>1, <2>2 DEF CashInv
<1>10. FeesInv'
  <2>1. Charged' = Charged + Rate * c * b /\ Charged \in Int
      BY <1>4, <1>5, <1>6, <1>7 DEF Charged
  <2>2. Guessed' = Guessed + Rate * c * b /\ Guessed \in Int
      BY <1>3, <1>4, <1>5, <1>6 DEF Guessed
  <2>3. Paid' = Paid + Rate * c * b /\ Paid \in Int
      BY <1>3 DEF Paid
  <2>4. /\ Charged' > Paid' <=> Charged > Paid
        /\ Guessed' < Paid' <=> Guessed < Paid
        /\ Charged' = Paid' <=> Charged = Paid
        /\ Guessed' = Paid' <=> Guessed = Paid
      BY <1>4, <2>1, <2>2, <2>3
  <2> QED BY <1>5, <2>4 DEF FeesInv
<1> QED BY <1>8, <1>9, <1>10

\* The inductive invariant.
MatchInv == MatchTyped /\ QueueInv /\ PairsInv /\ UnitsInv /\ CashInv /\ FeesInv

\* Trades and numbers of them, and of those in the batch none has been looked at.
Started ==
    /\ trades \in Seq(FilledType) /\ Len(trades) <= MaxFills
    /\ Numbers(memory) /\ Numbers(batch)
    /\ turn = 1 /\ leftover = IF Len(batch) > 0 THEN SizeOf(1) ELSE 0
    /\ queue = [i \in Batched |-> 0] /\ fees = [i \in Batched |-> 0] /\ positions = {}

\* Then it holds: the types,
LEMMA StartedTyped == Started => MatchTyped /\ QueueInv /\ PairsInv
<1> SUFFICES ASSUME Started PROVE MatchTyped /\ QueueInv /\ PairsInv
    OBVIOUS
<1>1. /\ trades \in Seq(FilledType) /\ Len(trades) <= MaxFills
      /\ Numbers(memory) /\ Numbers(batch)
      /\ turn = 1 /\ leftover = IF Len(batch) > 0 THEN SizeOf(1) ELSE 0
      /\ queue = [i \in Batched |-> 0] /\ fees = [i \in Batched |-> 0] /\ positions = {}
    BY DEF Started
<1>2. batch \in Seq(1..Len(trades)) /\ Len(batch) \in Nat /\ Len(trades) \in Nat
    BY <1>1 DEF Numbers
<1>3. leftover \in Nat /\ (1 \in Batched => leftover = SizeOf(1))
  <2>1. CASE Len(batch) > 0
    <3>1. batch[1] \in 1..Len(trades)
        BY <1>2, <2>1
    <3>2. Fifo!Trade(1) \in FilledType
        BY <1>1, <1>2, <3>1 DEF Fifo!Trade
    <3>3. SizeOf(1) \in Quantities
        BY <3>2 DEF SizeOf, FilledType
    <3> QED BY <1>1, <2>1, <3>3, MatchSizes
  <2>2. CASE ~ (Len(batch) > 0)
      BY <1>1, <1>2, <2>2 DEF Batched
  <2> QED BY <2>1, <2>2
<1>4. turn \in 1..(Len(batch) + 1)
    BY <1>1, <1>2
<1>5. IsFiniteSet(positions) /\ positions \in SUBSET PairType
    BY <1>1, FS_EmptySet
<1>6. queue \in [Batched -> Nat] /\ fees \in [Batched -> Nat]
    BY <1>1
<1>7. MatchTyped
    BY <1>1, <1>3, <1>4, <1>5, <1>6 DEF MatchTyped
<1>8. \A i \in Batched : queue[i] = 0 /\ fees[i] = 0
    BY <1>1
<1>9. turn \in Batched => leftover <= SizeOf(turn)
    BY <1>1, <1>3
<1>10. QueueInv
    BY <1>8, <1>9 DEF QueueInv
<1> QED BY <1>1, <1>7, <1>10 DEF PairsInv

\* and the sums, all of nothing.
LEMMA StartedBalanced == Started => MatchInv
<1> SUFFICES ASSUME Started PROVE MatchInv
    OBVIOUS
<1>1. MatchTyped /\ QueueInv /\ PairsInv
    BY StartedTyped
<1>2. /\ turn = 1 /\ leftover = IF Len(batch) > 0 THEN SizeOf(1) ELSE 0
      /\ queue = [i \in Batched |-> 0] /\ fees = [i \in Batched |-> 0] /\ positions = {}
    BY DEF Started
<1>3. /\ IsFiniteSet(Batched) /\ Batched \subseteq Nat /\ Len(batch) \in Nat
      /\ \A i \in Batched : /\ SideOf(i) \in Int /\ PriceOf(i) \in Int /\ SizeOf(i) \in Int
    BY <1>1, BatchTyped
<1>4. \A i \in Batched : queue[i] = 0
    BY <1>2
<1>5. \A i \in Batched : Moved[i] = 0
  <2> SUFFICES ASSUME NEW i \in Batched PROVE Moved[i] = 0
      OBVIOUS
  <2>1. i \in Nat /\ i >= 1 /\ Len(batch) > 0
      BY <1>3 DEF Batched
  <2>2. Moved[i] = IF i < turn THEN SizeOf(i) ELSE IF i = turn THEN SizeOf(i) - leftover ELSE 0
      BY DEF Moved
  <2>3. CASE i = 1
      BY <1>2, <1>3, <2>1, <2>2, <2>3
  <2>4. CASE i # 1
      BY <1>2, <2>1, <2>2, <2>4
  <2> QED BY <2>3, <2>4
<1>6. \A i \in Batched :
        /\ CostAt[i] = SideOf(i) * queue[i] * PriceOf(i)
        /\ CashAt[i] = -(SideOf(i) * Moved[i] * PriceOf(i))
        /\ OpenAt[i] = SideOf(i) * queue[i] /\ NetAt[i] = SideOf(i) * Moved[i]
        /\ RatesAt[i] = Rate * queue[i] * PriceOf(i) /\ PaidAt[i] = Rate * Moved[i] * PriceOf(i)
        /\ FeesAt[i] = IF queue[i] > 0 THEN fees[i] ELSE 0
    BY DEF CostAt, CashAt, OpenAt, NetAt, RatesAt, PaidAt, FeesAt
<1>7. Rate \in Int
    BY MatchSizes
<1> HIDE DEF Moved, CostAt, CashAt, OpenAt, NetAt, RatesAt, PaidAt, FeesAt, Batched
<1>8. \A i \in Batched :
        /\ CostAt[i] = 0 /\ CashAt[i] = 0 /\ OpenAt[i] = 0 /\ NetAt[i] = 0
        /\ RatesAt[i] = 0 /\ PaidAt[i] = 0 /\ FeesAt[i] = 0
    BY <1>3, <1>4, <1>5, <1>6, <1>7
<1>9. /\ Sum(CostAt, Batched) = 0 /\ Sum(CashAt, Batched) = 0 /\ Sum(OpenAt, Batched) = 0
      /\ Sum(NetAt, Batched) = 0 /\ Sum(RatesAt, Batched) = 0 /\ Sum(PaidAt, Batched) = 0
      /\ Sum(FeesAt, Batched) = 0
    BY <1>3, <1>8, SumZero
<1>10. /\ Sum(GrossOf, positions) = 0 /\ Sum(ReportedOf, positions) = 0
       /\ Sum(EstimatedOf, positions) = 0
    BY <1>2, SumEmpty
<1>11. UnitsInv
  <2>1. \A i : OfTrade(i) = {}
      BY <1>2 DEF OfTrade
  <2>2. \A i : Sum(SizesOf, OfTrade(i)) = 0
      BY <2>1, SumEmpty
  <2> QED BY <1>4, <1>5, <2>2 DEF UnitsInv
<1>12. CashInv
    BY <1>9, <1>10 DEF CashInv
<1>13. FeesInv
  <2>1. ~ Fifo!Split
      BY <1>2 DEF Fifo!Split
  <2> QED BY <1>9, <1>10, <2>1 DEF FeesInv, Charged, Guessed, Paid
<1> QED BY <1>1, <1>11, <1>12, <1>13 DEF MatchInv

\* So it does at first,
LEMMA MatchStart ==
    ASSUME Fifo!Init
    PROVE  MatchInv
<1>1. /\ trades = <<>> /\ memory = <<>> /\ batch = <<>> /\ turn = 1 /\ leftover = 0
      /\ queue = <<>> /\ fees = <<>> /\ positions = {}
    BY DEF Fifo!Init, Fifo!Idle
<1>2. Batched = {} /\ Len(batch) = 0 /\ Len(trades) = 0
    BY <1>1 DEF Batched
<1>3. /\ trades \in Seq(FilledType) /\ Len(trades) <= MaxFills /\ Numbers(memory) /\ Numbers(batch)
    BY <1>1, MatchSizes DEF Numbers
<1>4. queue = [i \in Batched |-> 0] /\ fees = [i \in Batched |-> 0]
    BY <1>1, <1>2
<1> QED BY <1>1, <1>2, <1>3, <1>4, StartedBalanced DEF Started

\* What is taken in order is numbers of trades, and so is what is taken in the other.
LEMMA NumbersInOrder ==
    ASSUME MatchTyped
    PROVE  LET inOrder == [n \in DOMAIN trades |-> n] IN
           Numbers(inOrder) /\ Numbers(Fifo!Reverse(inOrder))
<1> DEFINE inOrder == [n \in DOMAIN trades |-> n]
<1>1. Len(trades) \in Nat /\ DOMAIN trades = 1..Len(trades)
    BY BatchTyped
<1>2. /\ inOrder \in Seq(1..Len(trades)) /\ Len(inOrder) = Len(trades)
      /\ \A i \in 1..Len(trades) : inOrder[i] = i
    BY <1>1
<1> HIDE DEF inOrder
<1>3. Numbers(inOrder)
    BY <1>1, <1>2 DEF Numbers
<1> DEFINE r == Fifo!Reverse(inOrder)
<1>4. r = [i \in 1..Len(trades) |-> inOrder[(Len(trades) - i) + 1]]
    BY <1>2 DEF Fifo!Reverse
<1>5. \A i \in 1..Len(trades) : Len(trades) - i + 1 \in 1..Len(trades)
    BY <1>1
<1> HIDE DEF r
<1>6. \A i \in 1..Len(trades) : r[i] = Len(trades) - i + 1
    BY <1>2, <1>4, <1>5
<1>7. r \in Seq(1..Len(trades)) /\ Len(r) = Len(trades)
  <2>1. DOMAIN r = 1..Len(trades) /\ r \in [1..Len(trades) -> 1..Len(trades)]
      BY <1>4, <1>5, <1>6
  <2>2. r \in Seq(1..Len(trades))
      BY <1>1, <2>1, SeqDef
  <2>3. Len(r) \in Nat /\ DOMAIN r = 1..Len(r)
      BY <2>2, LenProperties
  <2> QED BY <1>1, <2>1, <2>2, <2>3
<1>8. \A i, j \in 1..Len(r) : r[i] = r[j] => i = j
    BY <1>1, <1>6, <1>7
<1>9. Numbers(r)
    BY <1>1, <1>7, <1>8 DEF Numbers
<1> QED BY <1>3, <1>9 DEF inOrder, r

\* Numbers that are begun with, or none, are not looked at yet.
LEMMA BeginStarts ==
    ASSUME MatchTyped, NEW numbers, Numbers(numbers), Fifo!Begin(numbers)
    PROVE  Started'
<1>1. /\ batch' = numbers /\ turn' = 1
      /\ leftover' = IF 1 <= Len(numbers) THEN trades[numbers[1]].quantity ELSE 0
      /\ queue' = [i \in DOMAIN numbers |-> 0] /\ fees' = [i \in DOMAIN numbers |-> 0]
      /\ positions' = {} /\ UNCHANGED <<trades, memory>>
    BY DEF Fifo!Begin, Fifo!Take
<1>2. Len(numbers) \in Nat /\ DOMAIN numbers = 1..Len(numbers)
    BY DEF Numbers
<1>3. Batched' = 1..Len(numbers) /\ SizeOf(1)' = trades[numbers[1]].quantity
    BY <1>1 DEF Batched, SizeOf, Fifo!Trade
<1>4. trades' \in Seq(FilledType) /\ Len(trades') <= MaxFills /\ Numbers(memory)' /\ Numbers(batch)'
    BY <1>1 DEF MatchTyped, Numbers
<1>5. 1 <= Len(numbers) <=> Len(numbers) > 0
    BY <1>2
<1> QED BY <1>1, <1>2, <1>3, <1>4, <1>5 DEF Started

\* or forgotten,
LEMMA ForgetStarts ==
    ASSUME trades' \in Seq(FilledType), Len(trades') <= MaxFills, Numbers(memory)', Fifo!Forget
    PROVE  Started'
<1>1. /\ batch' = <<>> /\ turn' = 1 /\ leftover' = 0 /\ queue' = <<>> /\ fees' = <<>>
      /\ positions' = {}
    BY DEF Fifo!Forget
<1>2. Batched' = {} /\ Len(batch') = 0
    BY <1>1 DEF Batched
<1>3. Numbers(batch)'
    BY <1>1, <1>2 DEF Numbers
<1>4. queue' = [i \in Batched' |-> 0] /\ fees' = [i \in Batched' |-> 0]
    BY <1>1, <1>2
<1> QED BY <1>1, <1>2, <1>3, <1>4 DEF Started

\* also when another trade is added.
LEMMA FillStarts ==
    ASSUME MatchTyped, NEW side \in {Fifo!BUY, Fifo!SELL}, NEW quantity \in Quantities,
           NEW price \in Prices, Fifo!Fill(side, quantity, price)
    PROVE  Started'
<1> DEFINE t == [side |-> side, quantity |-> quantity, price |-> price]
           n == Len(trades)
<1>1. t \in FilledType
    BY DEF FilledType, Fifo!BUY, Fifo!SELL
<1>2. /\ n < MaxFills /\ trades' = Append(trades, t) /\ memory' = Append(memory, n + 1)
      /\ Fifo!Forget
    BY DEF Fifo!Fill
<1>3. /\ trades \in Seq(FilledType) /\ memory \in Seq(1..n) /\ Len(memory) <= n
      /\ \A i, j \in 1..Len(memory) : memory[i] = memory[j] => i = j
    BY DEF MatchTyped, Numbers
<1> HIDE DEF t
<1>4. trades' \in Seq(FilledType) /\ Len(trades') = n + 1 /\ n \in Nat
    BY <1>1, <1>2, <1>3
<1>5. Len(trades') <= MaxFills
    BY <1>2, <1>4, MatchSizes
<1>6. Numbers(memory)'
  <2>1. Len(memory) \in Nat /\ Len(memory') = Len(memory) + 1
      BY <1>2, <1>3
  <2>2. /\ \A i \in 1..Len(memory) : memory'[i] = memory[i] /\ memory[i] \in 1..n
        /\ memory'[Len(memory) + 1] = n + 1
      BY <1>2, <1>3, <2>1
  <2>3. memory \in Seq(1..(n + 1))
      BY <1>3, <1>4, SeqDef
  <2>4. memory' \in Seq(1..(n + 1))
      BY <1>2, <1>4, <2>3
  <2>5. \A i, j \in 1..Len(memory') : memory'[i] = memory'[j] => i = j
      BY <1>3, <1>4, <2>1, <2>2
  <2> QED BY <1>3, <1>4, <2>1, <2>4, <2>5 DEF Numbers
<1> QED BY <1>2, <1>4, <1>5, <1>6, ForgetStarts

\* Every step keeps the invariant.
LEMMA MatchStep ==
    ASSUME MatchInv, Fifo!Next \/ UNCHANGED matchingVars
    PROVE  MatchInv'
<1>1. MatchTyped /\ QueueInv /\ PairsInv /\ UnitsInv /\ CashInv /\ FeesInv
    BY DEF MatchInv
<1>2. /\ trades \in Seq(FilledType) /\ Len(trades) <= MaxFills /\ Numbers(memory)
      /\ Len(trades) \in Nat
    BY <1>1 DEF MatchTyped
<1>3. ASSUME Started' PROVE MatchInv'
    BY <1>3, StartedBalanced, PTL
<1>4. CASE Fifo!Report
  <2>1. Numbers([n \in DOMAIN trades |-> n])
      BY <1>1, NumbersInOrder
  <2> QED BY <1>1, <1>3, <1>4, <2>1, BeginStarts DEF Fifo!Report
<1>5. CASE Fifo!Statistics
    BY <1>1, <1>2, <1>3, <1>5, BeginStarts DEF Fifo!Statistics
<1>6. CASE \E side \in {Fifo!BUY, Fifo!SELL}, quantity \in Quantities, price \in Prices :
             Fifo!Fill(side, quantity, price)
    BY <1>1, <1>3, <1>6, FillStarts
<1>7. CASE Fifo!Restart
  <2>1. memory' = <<>> /\ trades' = trades /\ Fifo!Forget
      BY <1>7 DEF Fifo!Restart
  <2>2. Numbers(memory)'
      BY <1>2, <2>1 DEF Numbers
  <2> QED BY <1>2, <1>3, <2>1, <2>2, ForgetStarts
<1>8. CASE Fifo!Load
  <2> DEFINE inOrder == [n \in DOMAIN trades |-> n]
  <2>1. memory' \in {inOrder, Fifo!Reverse(inOrder)} /\ trades' = trades /\ Fifo!Forget
      BY <1>8 DEF Fifo!Load
  <2>2. Numbers(inOrder) /\ Numbers(Fifo!Reverse(inOrder))
      BY <1>1, NumbersInOrder
  <2> HIDE DEF inOrder
  <2>3. Numbers(memory)'
      BY <2>1, <2>2 DEF Numbers
  <2> QED BY <1>2, <1>3, <2>1, <2>3, ForgetStarts
<1>9. CASE Fifo!Close
  <2>1. PICK h \in Batched, c \in Nat : Closes(h, c)
      BY <1>1, <1>9, CloseCloses
  <2>2. MatchTyped' /\ QueueInv' /\ PairsInv'
      BY <1>1, <2>1, CloseTyped
  <2>3. UnitsInv' /\ CashInv' /\ FeesInv'
      BY <1>1, <2>1, CloseUnits, CloseCash, CloseFees
  <2> QED BY <2>2, <2>3 DEF MatchInv
<1>10. CASE Fifo!Open
  <2>1. Opens
      BY <1>1, <1>10, OpenOpens
  <2>2. MatchTyped' /\ QueueInv' /\ PairsInv'
      BY <1>1, <2>1, OpenTyped
  <2>3. UnitsInv' /\ CashInv' /\ FeesInv'
      BY <1>1, <2>1, OpenSums
  <2> QED BY <2>2, <2>3 DEF MatchInv
<1>11. CASE UNCHANGED matchingVars
  <2>1. UNCHANGED <<trades, memory, batch, turn, leftover, queue, fees, positions>>
      BY <1>11 DEF matchingVars
  <2>2. /\ Batched' = Batched /\ PairType' = PairType /\ Moved' = Moved
        /\ \A i : SideOf(i)' = SideOf(i) /\ SizeOf(i)' = SizeOf(i) /\ PriceOf(i)' = PriceOf(i)
        /\ Numbers(memory)' = Numbers(memory) /\ Numbers(batch)' = Numbers(batch)
      BY <2>1 DEF Batched, PairType, Moved, SideOf, SizeOf, PriceOf, Fifo!Trade, Numbers
  <2>3. /\ CostAt' = CostAt /\ CashAt' = CashAt /\ OpenAt' = OpenAt /\ NetAt' = NetAt
        /\ RatesAt' = RatesAt /\ PaidAt' = PaidAt /\ FeesAt' = FeesAt
      BY <2>1, <2>2 DEF CostAt, CashAt, OpenAt, NetAt, RatesAt, PaidAt, FeesAt
  <2>4. /\ GrossOf' = GrossOf /\ ReportedOf' = ReportedOf /\ EstimatedOf' = EstimatedOf
        /\ SizesOf' = SizesOf /\ \A i : OfTrade(i)' = OfTrade(i)
      BY <2>1 DEF GrossOf, ReportedOf, EstimatedOf, SizesOf, OfTrade
  <2>5. Fifo!Split' = Fifo!Split
      BY <2>1 DEF Fifo!Split, Fifo!Waiting
  <2>6. MatchTyped' /\ QueueInv' /\ PairsInv'
      BY <1>1, <2>1, <2>2 DEF MatchTyped, QueueInv, PairsInv
  <2>7. UnitsInv' /\ CashInv'
      BY <1>1, <2>1, <2>2, <2>3, <2>4 DEF UnitsInv, CashInv
  <2>8. FeesInv'
      BY <1>1, <2>1, <2>2, <2>3, <2>4, <2>5 DEF FeesInv, Charged, Guessed, Paid
  <2> QED BY <2>6, <2>7, <2>8 DEF MatchInv
<1> QED BY <1>4, <1>5, <1>6, <1>7, <1>8, <1>9, <1>10, <1>11 DEF Fifo!Next

\* Totals are sums.
LEMMA TotalIsSum ==
    ASSUME NEW values
    PROVE  Fifo!Total(values) = Sum(values, DOMAIN values)
BY DEF Fifo!Total, Fifo!FoldFunction, Fifo!FoldFunctionOnSet, Fifo!MapThenFoldSet, Sum, Sums, AreSums,
       AddUp, AnyOf

\* In the end all of each trade has been dealt with.
LEMMA DoneMoved ==
    ASSUME MatchTyped, Fifo!Done
    PROVE  \A i \in Batched : Moved[i] = SizeOf(i) /\ Moved[i] \in Nat /\ i < turn
<1>1. turn > Len(batch) /\ turn \in Nat /\ Len(batch) \in Nat
    BY BatchTyped DEF Fifo!Done, MatchTyped
<1>2. \A i \in Batched : i \in Nat /\ i < turn
    BY <1>1, BatchTyped DEF Batched
<1>3. \A i \in Batched : SizeOf(i) \in Nat
    BY BatchTyped
<1> QED BY <1>2, <1>3 DEF Moved

\* When all is done the invariant says what TradesMatched does: of units,
LEMMA UnitsOnce == MatchInv => Fifo!EveryUnitOnce
<1> SUFFICES ASSUME MatchInv, Fifo!Done
             PROVE  /\ \A i \in DOMAIN batch :
                         Fifo!Total([p \in {p \in positions : i \in {p.entry, p.exit}} |-> p.quantity])
                           + queue[i] = Fifo!Trade(i).quantity
                    /\ \A i, j \in Fifo!Waiting : Fifo!Trade(i).side = Fifo!Trade(j).side
                    /\ \A p \in positions :
                         p.entry < p.exit /\ Fifo!Trade(p.entry).side # Fifo!Trade(p.exit).side
    BY DEF Fifo!EveryUnitOnce
<1>1. MatchTyped /\ QueueInv /\ PairsInv /\ UnitsInv
    BY DEF MatchInv
<1>2. DOMAIN batch = Batched
    BY <1>1, BatchTyped
<1>3. ASSUME NEW i \in Batched
      PROVE  Fifo!Total([p \in {p \in positions : i \in {p.entry, p.exit}} |-> p.quantity])
               + queue[i] = Fifo!Trade(i).quantity
  <2> DEFINE piece == [p \in OfTrade(i) |-> p.quantity]
  <2>1. Fifo!Total([p \in {p \in positions : i \in {p.entry, p.exit}} |-> p.quantity])
          = Sum(piece, OfTrade(i))
    <3>1. piece = [p \in {p \in positions : i \in {p.entry, p.exit}} |-> p.quantity]
          /\ DOMAIN piece = OfTrade(i)
        BY DEF OfTrade
    <3> HIDE DEF piece
    <3> QED BY <3>1, TotalIsSum
  <2>2. OfTrade(i) \subseteq positions /\ IsFiniteSet(OfTrade(i))
    <3>1. OfTrade(i) \subseteq positions /\ IsFiniteSet(positions)
        BY <1>1 DEF OfTrade, MatchTyped
    <3> QED BY <3>1, FS_Subset
  <2>3. \A p \in OfTrade(i) : piece[p] = SizesOf[p] /\ piece[p] \in Int
      BY <1>1, <2>2 DEF SizesOf, MatchTyped, PairType
  <2> HIDE DEF piece
  <2>4. Sum(piece, OfTrade(i)) = Sum(SizesOf, OfTrade(i))
      BY <2>2, <2>3, SumSame
  <2>5. Sum(SizesOf, OfTrade(i)) + queue[i] = Moved[i] /\ Moved[i] = SizeOf(i)
      BY <1>1, DoneMoved DEF UnitsInv
  <2> QED BY <2>1, <2>4, <2>5 DEF SizeOf
<1>4. \A i, j \in Fifo!Waiting : Fifo!Trade(i).side = Fifo!Trade(j).side
    BY <1>1, FirstWaits DEF QueueInv, SideOf
<1>5. \A p \in positions : p.entry < p.exit /\ Fifo!Trade(p.entry).side # Fifo!Trade(p.exit).side
    BY <1>1 DEF PairsInv, SideOf
<1> QED BY <1>2, <1>3, <1>4, <1>5

\* As many numbers as there are trades, none twice, are all of them.
LEMMA AllNumbered ==
    ASSUME MatchTyped, Len(batch) = Len(trades)
    PROVE  \A n \in 1..Len(trades) : \E i \in Batched : n = batch[i]
<1> DEFINE S == 1..Len(trades)
<1>1. /\ Len(trades) \in Nat /\ Batched = S
      /\ batch \in [S -> S] /\ \A i, j \in S : batch[i] = batch[j] => i = j
  <2>1. batch \in Seq(S) /\ \A i, j \in 1..Len(batch) : batch[i] = batch[j] => i = j
      BY DEF MatchTyped, Numbers
  <2>2. batch \in [1..Len(batch) -> S]
      BY <2>1, LenProperties
  <2> QED BY <2>1, <2>2, BatchTyped DEF Batched
<1>2. IsFiniteSet(S)
    BY <1>1, BatchTyped
<1> HIDE DEF S
<1>3. batch \in Injection(S, S)
    BY <1>1 DEF Injection, IsInjective
<1>4. batch \in Surjection(S, S)
    BY <1>2, <1>3, FS_Injection
<1> QED BY <1>1, <1>4 DEF Surjection, S

\* If the units that are open, all of one side, add up to nothing then none are.
LEMMA NothingOpen ==
    ASSUME MatchTyped, QueueInv, Sum(OpenAt, Batched) = 0
    PROVE  Fifo!Waiting = {}
<1> SUFFICES ASSUME NEW w \in Batched, queue[w] > 0 PROVE FALSE
    BY FirstWaits
<1>1. /\ IsFiniteSet(Batched) /\ \A i \in Batched : SideOf(i) \in {1, -1}
      /\ queue \in [Batched -> Nat]
    BY BatchTyped DEF MatchTyped
<1>2. \A i \in Batched : queue[i] \in Nat /\ (queue[i] > 0 => SideOf(i) = SideOf(w))
    BY <1>1 DEF QueueInv
<1>3. \A i \in Batched : OpenAt[i] = SideOf(i) * queue[i]
    BY DEF OpenAt
<1> HIDE DEF OpenAt, Batched
<1>4. \A i \in Batched : OpenAt[i] = SideOf(w) * queue[i] /\ OpenAt[i] \in Int
  <2> SUFFICES ASSUME NEW i \in Batched
               PROVE  OpenAt[i] = SideOf(w) * queue[i] /\ OpenAt[i] \in Int
      OBVIOUS
  <2>1. CASE queue[i] > 0
      BY <1>1, <1>2, <1>3, <2>1
  <2>2. CASE queue[i] = 0
      BY <1>1, <1>2, <1>3, <2>2
  <2> QED BY <1>2, <2>1, <2>2
<1>5. Sum(queue, Batched) = 0
  <2>1. CASE SideOf(w) = 1
    <3>1. \A i \in Batched : OpenAt[i] = queue[i] /\ OpenAt[i] \in Int
        BY <1>2, <1>4, <2>1
    <3> QED BY <1>1, <3>1, SumSame
  <2>2. CASE SideOf(w) = -1
    <3> DEFINE none == [i \in Batched |-> 0]
    <3>1. \A i \in Batched : /\ OpenAt[i] \in Int /\ queue[i] \in Int
                             /\ none[i] = OpenAt[i] + queue[i] /\ none[i] = 0
        BY <1>2, <1>4, <2>2
    <3> HIDE DEF none
    <3>2. Sum(none, Batched) = Sum(OpenAt, Batched) + Sum(queue, Batched)
        BY <1>1, <3>1, SumPlus
    <3>3. Sum(none, Batched) = 0 /\ Sum(queue, Batched) \in Int
        BY <1>1, <3>1, SumZero, SumInt
    <3> QED BY <3>2, <3>3
  <2> QED BY <1>1, <2>1, <2>2
<1>6. Sum(queue, Batched) = queue[w] + Sum(queue, Batched \ {w})
    BY <1>1, <1>2, SumWithout
<1>7. Sum(queue, Batched \ {w}) \in Nat
  <2>1. IsFiniteSet(Batched \ {w}) /\ \A i \in Batched \ {w} : queue[i] \in Nat
      BY <1>1, <1>2, FS_Subset
  <2> QED BY <2>1, SumNat
<1> QED BY <1>2, <1>5, <1>6, <1>7

\* of gains, which are summed by trade instead of by place when all trades are in the batch,
LEMMA GainsAre == MatchInv => Fifo!GainsAreCash
<1> SUFFICES ASSUME MatchInv, Fifo!Done
             PROVE  /\ Fifo!Gross - Fifo!Cost = Fifo!Cash([i \in DOMAIN batch |-> Fifo!Trade(i)])
                    /\ (Len(batch) = Len(trades) /\ Fifo!Net = 0
                          => Fifo!Waiting = {} /\ Fifo!Gross = Fifo!Cash(trades))
    BY DEF Fifo!GainsAreCash
<1>1. MatchTyped /\ QueueInv /\ CashInv
    BY DEF MatchInv
<1>2. /\ DOMAIN batch = Batched /\ DOMAIN trades = 1..Len(trades) /\ IsFiniteSet(Batched)
      /\ \A i \in Batched : /\ SideOf(i) \in Int /\ PriceOf(i) \in Int /\ SizeOf(i) \in Int
                            /\ Moved[i] = SizeOf(i) /\ Moved[i] \in Int /\ queue[i] \in Int
  <2>1. \A i \in Batched : queue[i] \in Nat
      BY <1>1 DEF MatchTyped
  <2> QED BY <1>1, <2>1, BatchTyped, DoneMoved
<1>3. Fifo!Gross = Sum(GrossOf, positions) /\ Sum(GrossOf, positions) \in Int
  <2>1. Fifo!Gross = Fifo!Total(GrossOf) /\ DOMAIN GrossOf = positions
      BY DEF Fifo!Gross, GrossOf
  <2>2. IsFiniteSet(positions) /\ \A p \in positions : GrossOf[p] \in Int
      BY <1>1 DEF MatchTyped, PairType, GrossOf
  <2> HIDE DEF GrossOf
  <2> QED BY <2>1, <2>2, TotalIsSum, SumInt
<1>4. Fifo!Cost = Sum(CostAt, Batched)
  <2>1. Fifo!Cost = Fifo!Total(CostAt) /\ DOMAIN CostAt = Batched
      BY <1>2 DEF Fifo!Cost, CostAt, SideOf, PriceOf
  <2> HIDE DEF CostAt
  <2> QED BY <2>1, TotalIsSum
<1>5. \A i \in Batched : /\ CostAt[i] = SideOf(i) * queue[i] * PriceOf(i)
                         /\ CashAt[i] = -(SideOf(i) * Moved[i] * PriceOf(i))
                         /\ NetAt[i] = SideOf(i) * Moved[i]
    BY DEF CostAt, CashAt, NetAt
<1> HIDE DEF Moved, CostAt, CashAt, NetAt, OpenAt, Batched
<1>6. \A i \in Batched : CostAt[i] \in Int /\ CashAt[i] \in Int /\ NetAt[i] \in Int
  <2> SUFFICES ASSUME NEW i \in Batched
               PROVE  CostAt[i] \in Int /\ CashAt[i] \in Int /\ NetAt[i] \in Int
      OBVIOUS
  <2>1. /\ SideOf(i) * queue[i] \in Int /\ SideOf(i) * Moved[i] \in Int /\ PriceOf(i) \in Int
      BY <1>2
  <2>2. SideOf(i) * queue[i] * PriceOf(i) \in Int
      BY ONLY <2>1
  <2>3. SideOf(i) * Moved[i] * PriceOf(i) \in Int
      BY ONLY <2>1
  <2>4. -(SideOf(i) * Moved[i] * PriceOf(i)) \in Int
      BY ONLY <2>3
  <2> QED BY <1>5, <2>1, <2>2, <2>3, <2>4
<1>7. Fifo!Cash([i \in DOMAIN batch |-> Fifo!Trade(i)]) = Sum(CashAt, Batched)
  <2> DEFINE all == [i \in DOMAIN batch |-> Fifo!Trade(i)]
             paid == [n \in DOMAIN all |-> -all[n].side * all[n].quantity * all[n].price]
  <2>1. Fifo!Cash(all) = Fifo!Total(paid)
      BY DEF Fifo!Cash
  <2>2. DOMAIN paid = Batched /\ \A i \in Batched : paid[i] = -(SideOf(i) * SizeOf(i) * PriceOf(i))
      BY <1>2 DEF SideOf, SizeOf, PriceOf
  <2> HIDE DEF all, paid
  <2>3. \A i \in Batched : CashAt[i] = paid[i] /\ CashAt[i] \in Int
      BY <1>2, <1>5, <1>6, <2>2
  <2>4. Sum(CashAt, Batched) = Sum(paid, Batched)
      BY <1>2, <2>3, SumSame
  <2> QED BY <2>1, <2>2, <2>4, TotalIsSum DEF all
<1>8. Sum(CostAt, Batched) \in Int /\ Sum(CashAt, Batched) \in Int
    BY <1>2, <1>6, SumInt
<1>9. ASSUME Len(batch) = Len(trades), Fifo!Net = 0
      PROVE  Fifo!Waiting = {} /\ Fifo!Gross = Fifo!Cash(trades)
  <2> DEFINE R == 1..Len(trades)
  <2>1. /\ \A i \in Batched : batch[i] \in R
        /\ \A i, j \in Batched : batch[i] = batch[j] => i = j
        /\ \A n \in R : \E i \in Batched : n = batch[i]
      BY <1>1, <1>9, BatchTyped, AllNumbered DEF MatchTyped, Numbers, Batched
  <2>2. Fifo!Net = Sum(NetAt, Batched)
    <3> DEFINE net == [n \in DOMAIN trades |-> trades[n].side * trades[n].quantity]
    <3>1. Fifo!Net = Fifo!Total(net) /\ DOMAIN net = R
        BY <1>2 DEF Fifo!Net
    <3>2. \A i \in Batched : net[batch[i]] = SideOf(i) * SizeOf(i)
        BY <1>2, <2>1 DEF SideOf, SizeOf, Fifo!Trade
    <3> HIDE DEF net, R
    <3>3. \A i \in Batched : batch[i] \in R /\ NetAt[i] = net[batch[i]] /\ NetAt[i] \in Int
        BY <1>2, <1>5, <1>6, <2>1, <3>2
    <3>4. Sum(NetAt, Batched) = Sum(net, R)
        BY ONLY <1>2, <2>1, <3>3, SumRenamed
    <3> QED BY <3>1, <3>4, TotalIsSum
  <2>3. Fifo!Cash(trades) = Sum(CashAt, Batched)
    <3> DEFINE paid == [n \in DOMAIN trades |-> -trades[n].side * trades[n].quantity * trades[n].price]
    <3>1. Fifo!Cash(trades) = Fifo!Total(paid) /\ DOMAIN paid = R
        BY <1>2 DEF Fifo!Cash
    <3>2. \A i \in Batched : paid[batch[i]] = -(SideOf(i) * SizeOf(i) * PriceOf(i))
        BY <1>2, <2>1 DEF SideOf, SizeOf, PriceOf, Fifo!Trade
    <3> HIDE DEF paid, R
    <3>3. \A i \in Batched : batch[i] \in R /\ CashAt[i] = paid[batch[i]] /\ CashAt[i] \in Int
        BY <1>2, <1>5, <1>6, <2>1, <3>2
    <3>4. Sum(CashAt, Batched) = Sum(paid, R)
        BY ONLY <1>2, <2>1, <3>3, SumRenamed
    <3> QED BY <3>1, <3>4, TotalIsSum
  <2>4. Fifo!Waiting = {}
    <3>1. Sum(OpenAt, Batched) = 0
        BY <1>1, <1>9, <2>2 DEF CashInv
    <3> QED BY <1>1, <3>1, NothingOpen
  <2>5. Sum(CostAt, Batched) = 0
    <3>1. \A i \in Batched : ~ (queue[i] > 0)
        BY <1>1, <2>4, FirstWaits
    <3>2. queue \in [Batched -> Nat]
        BY <1>1 DEF MatchTyped
    <3>3. \A i \in Batched : queue[i] = 0
        BY <3>1, <3>2
    <3>4. \A i \in Batched : CostAt[i] = 0
        BY <1>2, <1>5, <3>3
    <3> QED BY <1>2, <3>4, SumZero
  <2> QED BY <1>1, <1>3, <1>8, <2>3, <2>4, <2>5 DEF CashInv
<1>10. Fifo!Gross - Fifo!Cost = Fifo!Cash([i \in DOMAIN batch |-> Fifo!Trade(i)])
    BY <1>1, <1>3, <1>4, <1>7, <1>8 DEF CashInv
<1> QED BY <1>9, <1>10

\* and of fees.
LEMMA FeesAre == MatchInv => Fifo!FeesAsPaid
<1> DEFINE fee == [i \in DOMAIN batch |-> Fifo!Commission(i)]
           open == [i \in Fifo!Waiting |-> fees[i]]
           rates == [i \in Fifo!Waiting |-> Rate * queue[i] * Fifo!Trade(i).price]
<1> SUFFICES ASSUME MatchInv, Fifo!Done
             PROVE  LET paid == Fifo!Total(fee)
                        reported == Fifo!Total(ReportedOf) + Fifo!Total(open)
                        estimated == Fifo!Total(EstimatedOf) + Fifo!Total(rates) IN
                    IF Fifo!Split THEN reported > paid /\ estimated < paid
                                  ELSE reported = paid /\ estimated = paid
    BY DEF Fifo!FeesAsPaid, ReportedOf, EstimatedOf
<1>1. MatchTyped /\ FeesInv
    BY DEF MatchInv
<1>2. /\ DOMAIN batch = Batched /\ IsFiniteSet(Batched) /\ Rate \in Int
      /\ \A i \in Batched : /\ PriceOf(i) \in Int /\ SizeOf(i) \in Int
                            /\ Moved[i] = SizeOf(i) /\ queue[i] \in Nat /\ fees[i] \in Int
  <2>1. \A i \in Batched : queue[i] \in Nat /\ fees[i] \in Nat
      BY <1>1 DEF MatchTyped
  <2> QED BY <1>1, <2>1, BatchTyped, DoneMoved, MatchSizes
<1>3. Fifo!Waiting = {i \in Batched : queue[i] > 0}
    BY <1>1, FirstWaits
<1>4. Fifo!Waiting \subseteq Batched /\ IsFiniteSet(Fifo!Waiting)
  <2>1. Fifo!Waiting \subseteq Batched
      BY <1>3
  <2> QED BY <1>2, <2>1, FS_Subset
<1>5. \A i \in Batched : /\ PaidAt[i] = Rate * Moved[i] * PriceOf(i)
                         /\ RatesAt[i] = Rate * queue[i] * PriceOf(i)
                         /\ FeesAt[i] = IF queue[i] > 0 THEN fees[i] ELSE 0
    BY DEF PaidAt, RatesAt, FeesAt
<1>6. /\ DOMAIN fee = Batched /\ DOMAIN open = Fifo!Waiting /\ DOMAIN rates = Fifo!Waiting
      /\ \A i \in Batched : fee[i] = Rate * SizeOf(i) * PriceOf(i)
      /\ \A i \in Fifo!Waiting : open[i] = fees[i] /\ rates[i] = Rate * queue[i] * PriceOf(i)
    BY <1>2 DEF Fifo!Commission, SizeOf, PriceOf
<1>7. /\ Fifo!Total(ReportedOf) = Sum(ReportedOf, positions)
      /\ Fifo!Total(EstimatedOf) = Sum(EstimatedOf, positions)
  <2>1. DOMAIN ReportedOf = positions /\ DOMAIN EstimatedOf = positions
      BY DEF ReportedOf, EstimatedOf
  <2> HIDE DEF ReportedOf, EstimatedOf
  <2> QED BY <2>1, TotalIsSum
<1> HIDE DEF fee, open, rates, Moved, PaidAt, RatesAt, FeesAt, Batched
<1>8. Fifo!Total(fee) = Paid
  <2>1. \A i \in Batched : fee[i] = PaidAt[i] /\ fee[i] \in Int
      BY <1>2, <1>5, <1>6
  <2>2. Sum(fee, Batched) = Sum(PaidAt, Batched)
      BY <1>2, <2>1, SumSame
  <2> QED BY <1>6, <2>2, TotalIsSum DEF Paid
<1>9. Fifo!Total(open) = Sum(FeesAt, Batched)
  <2>1. \A i \in Fifo!Waiting : open[i] = FeesAt[i] /\ open[i] \in Int
      BY <1>2, <1>3, <1>5, <1>6
  <2>2. Sum(open, Fifo!Waiting) = Sum(FeesAt, Fifo!Waiting)
      BY <1>4, <2>1, SumSame
  <2>3. \A i \in Batched : FeesAt[i] \in Int /\ (i \notin Fifo!Waiting => FeesAt[i] = 0)
      BY <1>2, <1>3, <1>5
  <2>4. Sum(FeesAt, Batched) = Sum(FeesAt, Fifo!Waiting)
      BY <1>2, <1>4, <2>3, SumWithin
  <2> QED BY <1>6, <2>2, <2>4, TotalIsSum
<1>10. Fifo!Total(rates) = Sum(RatesAt, Batched)
  <2>1. \A i \in Batched : RatesAt[i] \in Int /\ (i \notin Fifo!Waiting => RatesAt[i] = 0)
    <3> SUFFICES ASSUME NEW i \in Batched
                 PROVE  RatesAt[i] \in Int /\ (i \notin Fifo!Waiting => RatesAt[i] = 0)
        OBVIOUS
    <3>1. CASE queue[i] = 0
        BY <1>2, <1>5, <3>1
    <3>2. CASE queue[i] > 0
        BY <1>2, <1>3, <1>5, <3>2
    <3> QED BY <1>2, <3>1, <3>2
  <2>2. \A i \in Fifo!Waiting : rates[i] = RatesAt[i] /\ rates[i] \in Int
      BY <1>4, <1>5, <1>6, <2>1
  <2>3. Sum(rates, Fifo!Waiting) = Sum(RatesAt, Fifo!Waiting)
      BY <1>4, <2>2, SumSame
  <2>4. Sum(RatesAt, Batched) = Sum(RatesAt, Fifo!Waiting)
      BY <1>2, <1>4, <2>1, SumWithin
  <2> QED BY <1>6, <2>3, <2>4, TotalIsSum
<1> QED BY <1>1, <1>7, <1>8, <1>9, <1>10 DEF FeesInv, Charged, Guessed

\* The types of FifoMatching.
LEMMA MatchFits == MatchInv => Fifo!TypeOK
<1> SUFFICES ASSUME MatchInv PROVE Fifo!TypeOK
    OBVIOUS
<1> DEFINE T == [side : {Fifo!BUY, Fifo!SELL}, quantity : Quantities, price : Prices]
<1>1. /\ MatchTyped /\ trades \in Seq(T) /\ Len(trades) <= MaxFills /\ MaxFills \in Nat
      /\ Numbers(memory) /\ Numbers(batch)
    BY MatchSizes DEF MatchInv, MatchTyped, FilledType, Fifo!BUY, Fifo!SELL
<1> HIDE DEF T
<1>2. Len(trades) \in 0..MaxFills /\ trades \in [1..Len(trades) -> T] /\ DOMAIN trades = 1..Len(trades)
    BY <1>1, LenProperties
<1>3. ASSUME NEW s, Numbers(s) PROVE s \in Fifo!BoundedSeq(DOMAIN trades, MaxFills)
  <2>1. s \in Seq(1..Len(trades)) /\ Len(s) <= Len(trades)
      BY <1>3 DEF Numbers
  <2>2. Len(s) \in 0..MaxFills /\ s \in [1..Len(s) -> DOMAIN trades]
      BY <1>1, <1>2, <2>1, LenProperties
  <2>3. s \in UNION {[1..m -> DOMAIN trades] : m \in 0..MaxFills}
      BY <2>2
  <2> QED BY <2>3 DEF Fifo!BoundedSeq, Fifo!SeqOf
<1>4. trades \in Fifo!BoundedSeq(T, MaxFills)
  <2>1. trades \in UNION {[1..m -> T] : m \in 0..MaxFills}
      BY <1>2
  <2> QED BY <2>1 DEF Fifo!BoundedSeq, Fifo!SeqOf
<1>5. /\ turn \in 1..Len(batch) + 1 /\ leftover \in Nat
      /\ queue \in [DOMAIN batch -> Nat] /\ fees \in [DOMAIN batch -> Nat]
      /\ positions \subseteq Fifo!PositionType
    BY <1>1, BatchTyped DEF MatchTyped, PairType, Fifo!PositionType
<1> QED BY <1>1, <1>3, <1>4, <1>5 DEF Fifo!TypeOK, T

\* However trades are matched, every unit of each is matched once or open, what the positions
\* made is what was paid and earned, and the fees are as paid unless an entry is split; for any
\* number of trades, any prices and quantities, and any fee that divides by what is left.
THEOREM MatchedOnce == Spec => []TradesMatched
<1>1. Init => MatchInv
    BY MatchStart DEF Init
<1>2. MatchInv /\ [Next]_vars => MatchInv'
    BY PartsApart, MatchStep
<1>3. MatchInv => TradesMatched
    BY UnitsOnce, GainsAre, FeesAre DEF TradesMatched
<1> QED BY <1>1, <1>2, <1>3, PTL DEF Spec
=============================================================================
