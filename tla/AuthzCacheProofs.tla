------------------------- MODULE AuthzCacheProofs -------------------------
(***************************************************************************)
(* Proofs about AuthzCache: the flatten query computes what its role graph *)
(* means and notices exactly the graphs beyond its bound, an edge that     *)
(* passed the check closes no cycle, entries under the current version are *)
(* right, and every decision was right at an instant of its request.       *)
(*                                                                         *)
(* What the recursion of the query computes is proved by induction over    *)
(* the depth, stated with sets of numbers (LeastNumber, InductionUpTo).    *)
(***************************************************************************)
EXTENDS AuthzCache, WellFoundedInduction, SequenceTheorems, TLAPS

----------------------------------------------------------------------------
\* Induction over numbers, as a property of sets of numbers

LEMMA LeastNumber ==
    ASSUME NEW T, T \subseteq Nat, T # {}
    PROVE  \E n \in T : \A m \in T : n <= m
<1> DEFINE R == OpToRel(<, Nat)
<1>1. IsWellFoundedOn(R, Nat)
  BY NatLessThanWellFounded
<1>2. \A x, y \in T : <<y, x>> \in R <=> y < x
  BY DEF OpToRel
<1> HIDE DEF R
<1>3. PICK x \in T : \A y \in T : ~ (<<y, x>> \in R)
  BY <1>1, WFMin
<1>4. \A y \in T : ~ (y < x)
  BY <1>2, <1>3
<1>5. \A y \in T : x <= y
  BY <1>4
<1> QED BY <1>5

LEMMA InductionUpTo ==
    ASSUME NEW N \in Nat, NEW S, 1 \in S,
           \A n \in 1 .. N : n \in S /\ n < N => n + 1 \in S
    PROVE  \A n \in 1 .. N : n \in S
<1> DEFINE T == {n \in 1 .. N : n \notin S}
<1> SUFFICES ASSUME T # {} PROVE FALSE
  OBVIOUS
<1>0. T \subseteq Nat
  OBVIOUS
<1>1. PICK n \in T : \A m \in T : n <= m
  <2> HIDE DEF T
  <2> QED BY <1>0, LeastNumber
<1>2. n # 1 /\ n \in 1 .. N /\ n \notin S
  BY <1>1
<1>3. n - 1 \in 1 .. N /\ n - 1 \notin T
  BY <1>1, <1>2
<1>4. n - 1 \in S
  BY <1>3
<1> QED BY <1>2, <1>3, <1>4

----------------------------------------------------------------------------
\* Functions on 1 .. d are the sequences of length d

LEMMA FunctionIsSeq ==
    ASSUME NEW S, NEW d \in Nat, NEW p \in [1 .. d -> S]
    PROVE  p \in Seq(S) /\ Len(p) = d
<1>1. p \in Seq(S)
  BY SeqDef
<1>2. Len(p) \in Nat /\ 1 .. Len(p) = 1 .. d
  BY <1>1, LenProperties
<1>3. Len(p) = d
  <2>1. CASE Len(p) < d
    <3>1. d \in 1 .. d /\ d \notin 1 .. Len(p)
      BY <1>2, <2>1
    <3> QED BY <1>2, <3>1
  <2>2. CASE Len(p) > d
    <3>1. Len(p) \in 1 .. Len(p) /\ Len(p) \notin 1 .. d
      BY <1>2, <2>2
    <3> QED BY <1>2, <3>1
  <2> QED BY <1>2, <2>1, <2>2
<1> QED BY <1>1, <1>3

\* What Append makes of a path of d roles.
IsExtension(q, p, d, c) ==
    /\ q \in [1 .. d + 1 -> Role]
    /\ q[d + 1] = c
    /\ \A i \in 1 .. d : q[i] = p[i]

LEMMA AppendExtends ==
    ASSUME NEW d \in Nat \ {0}, NEW p, p \in [1 .. d -> Role], NEW c, c \in Role
    PROVE  IsExtension(Append(p, c), p, d, c)
<1>1. p \in Seq(Role) /\ Len(p) = d
  BY FunctionIsSeq
<1>2. /\ Append(p, c) \in Seq(Role) /\ Len(Append(p, c)) = d + 1
      /\ \A i \in 1 .. d : Append(p, c)[i] = p[i]
      /\ Append(p, c)[d + 1] = c
  BY <1>1, AppendProperties
<1>3. Append(p, c) \in [1 .. d + 1 -> Role]
  BY <1>2, LenProperties
<1> QED BY <1>2, <1>3 DEF IsExtension

----------------------------------------------------------------------------
\* The rows of role_tree

GraphOK(rs) == child \subseteq Role \X Role /\ rs \subseteq Role

\* The rows at depth d in closed form: chains of child edges from a role of rs
\* in which no role comes twice before the last one.
Chains(rs, d) ==
    {p \in [1 .. d -> Role] :
        /\ p[1] \in rs
        /\ \A i \in 1 .. d - 1 : <<p[i], p[i + 1]>> \in child
        /\ \A i, j \in 1 .. d - 1 : i < j => p[i] # p[j]}

LevelStep(rs, f) ==
    [d \in 1 .. Depth |->
          IF d = 1 THEN {<<r>> : r \in rs}
          ELSE UNION {{Append(p, c) : c \in Children(Last(p))} :
                        p \in {q \in f[d - 1] : ~ IsCycle(q)}}]

Levels(rs) == CHOOSE f : f = LevelStep(rs, f)

LEMMA TreeOfLevels ==
    ASSUME NEW rs
    PROVE  RoleTree(rs) = UNION {Levels(rs)[d] : d \in 1 .. Depth}
BY Zenon DEF RoleTree, Levels, LevelStep

LEMMA ChildrenAreEdges ==
    ASSUME child \subseteq Role \X Role, NEW r, NEW c
    PROVE  c \in Children(r) <=> <<r, c>> \in child
<1>1. ASSUME c \in Children(r) PROVE <<r, c>> \in child
  <2>1. PICK e \in child : e[1] = r /\ c = e[2]
    BY <1>1 DEF Children
  <2>2. e = <<e[1], e[2]>>
    OBVIOUS
  <2> QED BY <2>1, <2>2
<1>2. ASSUME <<r, c>> \in child PROVE c \in Children(r)
  <2>1. <<r, c>>[1] = r /\ <<r, c>>[2] = c
    OBVIOUS
  <2> QED BY <1>2, <2>1 DEF Children
<1> QED BY <1>1, <1>2

LEMMA ChainIsSeq ==
    ASSUME NEW rs, NEW d \in Nat \ {0}, NEW p \in Chains(rs, d)
    PROVE  /\ p \in [1 .. d -> Role] /\ Len(p) = d /\ Last(p) = p[d]
           /\ IsCycle(p) <=> \E i \in 1 .. d - 1 : p[i] = p[d]
<1>1. p \in [1 .. d -> Role]
  BY DEF Chains
<1>2. Len(p) = d
  BY <1>1, FunctionIsSeq
<1> QED BY <1>1, <1>2 DEF Last, IsCycle

LEMMA ChainExtends ==
    ASSUME NEW rs, GraphOK(rs), NEW d \in Nat \ {0}, NEW p \in Chains(rs, d),
           ~ IsCycle(p), NEW c \in Children(Last(p))
    PROVE  Append(p, c) \in Chains(rs, d + 1) /\ Append(p, c)[d + 1] = c
<1>1. /\ p \in [1 .. d -> Role] /\ Last(p) = p[d]
      /\ \A i \in 1 .. d - 1 : p[i] # p[d]
  BY ChainIsSeq
<1>2. <<p[d], c>> \in child /\ c \in Role
  BY <1>1, ChildrenAreEdges DEF GraphOK
<1> DEFINE q == Append(p, c)
<1>3. q \in [1 .. d + 1 -> Role] /\ q[d + 1] = c /\ \A i \in 1 .. d : q[i] = p[i]
  <2>1. IsExtension(q, p, d, c)
    BY <1>1, <1>2, AppendExtends
  <2> HIDE DEF q
  <2> QED BY <2>1 DEF IsExtension
<1> HIDE DEF q
<1>4. q[1] \in rs
  BY <1>3 DEF Chains
<1>5. \A i \in 1 .. d : <<q[i], q[i + 1]>> \in child
  <2> SUFFICES ASSUME NEW i \in 1 .. d PROVE <<q[i], q[i + 1]>> \in child
    OBVIOUS
  <2>1. CASE i = d
    BY <1>2, <1>3, <2>1
  <2>2. CASE i # d
    <3>1. i \in 1 .. d - 1 /\ i + 1 \in 1 .. d
      BY <2>2
    <3>2. <<p[i], p[i + 1]>> \in child
      BY <3>1 DEF Chains
    <3> QED BY <1>3, <3>1, <3>2
  <2> QED BY <2>1, <2>2
<1>6. \A i, j \in 1 .. d : i < j => q[i] # q[j]
  <2> SUFFICES ASSUME NEW i \in 1 .. d, NEW j \in 1 .. d, i < j PROVE p[i] # p[j]
    BY <1>3
  <2>1. CASE j = d
    BY <1>1, <2>1
  <2>2. CASE j # d
    <3>1. i \in 1 .. d - 1 /\ j \in 1 .. d - 1
      BY <2>2
    <3> QED BY <3>1 DEF Chains
  <2> QED BY <2>1, <2>2
<1>7. d = (d + 1) - 1
  OBVIOUS
<1>8. q \in Chains(rs, d + 1)
  BY <1>3, <1>4, <1>5, <1>6, <1>7 DEF Chains
<1> QED BY <1>3, <1>8 DEF q

LEMMA ChainPrefix ==
    ASSUME NEW rs, GraphOK(rs), NEW d \in Nat \ {0}, NEW p \in Chains(rs, d + 1)
    PROVE  \E q \in Chains(rs, d) :
             ~ IsCycle(q) /\ p[d + 1] \in Children(Last(q)) /\ p = Append(q, p[d + 1])
<1> DEFINE q == [i \in 1 .. d |-> p[i]]
<1>0. (d + 1) - 1 = d
  OBVIOUS
<1>1. /\ p \in [1 .. d + 1 -> Role] /\ p[1] \in rs
      /\ \A i \in 1 .. d : <<p[i], p[i + 1]>> \in child
      /\ \A i, j \in 1 .. d : i < j => p[i] # p[j]
  BY <1>0 DEF Chains
<1>2. q \in [1 .. d -> Role] /\ \A i \in 1 .. d : q[i] = p[i]
  BY <1>1
<1> HIDE DEF q
<1>3. q \in Chains(rs, d)
  <2>1. \A i \in 1 .. d - 1 : i \in 1 .. d /\ i + 1 \in 1 .. d
    OBVIOUS
  <2>2. 1 \in 1 .. d
    OBVIOUS
  <2>3. \A i \in 1 .. d - 1 : <<q[i], q[i + 1]>> \in child
    BY <1>1, <1>2, <2>1
  <2>4. \A i, j \in 1 .. d - 1 : i < j => q[i] # q[j]
    BY <1>1, <1>2, <2>1
  <2> QED BY <1>1, <1>2, <2>2, <2>3, <2>4 DEF Chains
<1>4. Last(q) = p[d]
  BY <1>2, <1>3, ChainIsSeq
<1>5. ~ IsCycle(q)
  <2>1. \A i \in 1 .. d - 1 : i \in 1 .. d /\ d \in 1 .. d /\ i < d
    OBVIOUS
  <2>2. \A i \in 1 .. d - 1 : q[i] # q[d]
    BY <1>1, <1>2, <2>1
  <2> QED BY <1>3, <2>2, ChainIsSeq
<1>6. p[d + 1] \in Children(Last(q)) /\ p[d + 1] \in Role
  <2>1. d \in 1 .. d /\ d + 1 \in 1 .. d + 1
    OBVIOUS
  <2>2. <<p[d], p[d + 1]>> \in child /\ p[d + 1] \in Role
    BY <1>1, <2>1
  <2> QED BY <1>4, <2>2, ChildrenAreEdges DEF GraphOK
<1>7. p = Append(q, p[d + 1])
  <2> DEFINE a == Append(q, p[d + 1])
  <2>1. a \in [1 .. d + 1 -> Role] /\ a[d + 1] = p[d + 1] /\ \A i \in 1 .. d : a[i] = q[i]
    <3>1. IsExtension(a, q, d, p[d + 1])
      BY <1>2, <1>6, AppendExtends
    <3> HIDE DEF a
    <3> QED BY <3>1 DEF IsExtension
  <2> HIDE DEF a
  <2>2. \A i \in 1 .. d + 1 : a[i] = p[i]
    BY <1>2, <2>1
  <2>3. a = p
    BY <1>1, <2>1, <2>2
  <2> QED BY <2>3 DEF a
<1> QED BY <1>3, <1>5, <1>6, <1>7

LEMMA LevelsAreChains ==
    ASSUME NEW rs, GraphOK(rs)
    PROVE  \A d \in 1 .. Depth : Levels(rs)[d] = Chains(rs, d)
<1> DEFINE F == [d \in 1 .. Depth |-> Chains(rs, d)]
<1>0. Depth \in Nat \ {0}
  BY AuthzAssumption
<1>1. Chains(rs, 1) = {<<r>> : r \in rs}
  <2>1. ASSUME NEW p \in Chains(rs, 1) PROVE p \in {<<r>> : r \in rs}
    <3>1. p \in [1 .. 1 -> Role] /\ p[1] \in rs
      BY DEF Chains
    <3>2. p = <<p[1]>>
      BY <3>1, FunctionIsSeq
    <3> QED BY <3>1, <3>2
  <2>2. ASSUME NEW r \in rs PROVE <<r>> \in Chains(rs, 1)
    <3>1. r \in Role
      BY DEF GraphOK
    <3>2. <<r>> \in [1 .. 1 -> Role] /\ <<r>>[1] = r
      BY <3>1
    <3>3. 1 .. 1 - 1 = {}
      OBVIOUS
    <3> QED BY <3>2, <3>3 DEF Chains
  <2> QED BY <2>1, <2>2
<1>2. ASSUME NEW e \in Nat \ {0}
      PROVE  Chains(rs, e + 1) = UNION {{Append(p, c) : c \in Children(Last(p))} :
                                          p \in {q \in Chains(rs, e) : ~ IsCycle(q)}}
  <2>1. ASSUME NEW p \in Chains(rs, e + 1)
        PROVE  \E q \in Chains(rs, e) : ~ IsCycle(q)
                 /\ \E c \in Children(Last(q)) : p = Append(q, c)
    BY ChainPrefix
  <2>2. ASSUME NEW q \in Chains(rs, e), ~ IsCycle(q), NEW c \in Children(Last(q))
        PROVE  Append(q, c) \in Chains(rs, e + 1)
    BY <2>2, ChainExtends
  <2> DEFINE U == UNION {{Append(p, c) : c \in Children(Last(p))} :
                           p \in {q \in Chains(rs, e) : ~ IsCycle(q)}}
  <2>3. ASSUME NEW x \in U PROVE x \in Chains(rs, e + 1)
    <3>1. PICK q \in Chains(rs, e) : ~ IsCycle(q)
                 /\ x \in {Append(q, c) : c \in Children(Last(q))}
      OBVIOUS
    <3>2. PICK c \in Children(Last(q)) : x = Append(q, c)
      BY <3>1
    <3> QED BY <2>2, <3>1, <3>2
  <2>4. ASSUME NEW x \in Chains(rs, e + 1) PROVE x \in U
    <3>1. PICK q \in Chains(rs, e) : ~ IsCycle(q)
                 /\ \E c \in Children(Last(q)) : x = Append(q, c)
      BY <2>1
    <3>2. x \in {Append(q, c) : c \in Children(Last(q))}
      BY <3>1
    <3> QED BY <3>1, <3>2
  <2> HIDE DEF U
  <2>5. U = Chains(rs, e + 1)
    BY <2>3, <2>4
  <2> QED BY <2>5 DEF U
<1>3. ASSUME NEW f, NEW d \in 1 .. Depth, d # 1, f[d - 1] = Chains(rs, d - 1)
      PROVE  LevelStep(rs, f)[d] = Chains(rs, d)
  <2>1. d - 1 \in Nat \ {0} /\ (d - 1) + 1 = d
    BY <1>3
  <2>2. Chains(rs, d) = UNION {{Append(p, c) : c \in Children(Last(p))} :
                                 p \in {q \in f[d - 1] : ~ IsCycle(q)}}
    BY <1>2, <1>3, <2>1
  <2> QED BY <1>3, <2>2 DEF LevelStep
<1>4. ASSUME NEW f PROVE LevelStep(rs, f)[1] = Chains(rs, 1)
  BY <1>0, <1>1 DEF LevelStep
<1>5. F = LevelStep(rs, F)
  <2>1. ASSUME NEW d \in 1 .. Depth PROVE LevelStep(rs, F)[d] = Chains(rs, d)
    <3>1. CASE d = 1
      BY <1>4, <3>1
    <3>2. CASE d # 1
      <4>1. F[d - 1] = Chains(rs, d - 1)
        BY <1>0, <3>2
      <4> QED BY <1>3, <3>2, <4>1
    <3> QED BY <3>1, <3>2
  <2> HIDE DEF Chains
  <2>2. LevelStep(rs, F) = [d \in 1 .. Depth |-> LevelStep(rs, F)[d]]
    BY DEF LevelStep
  <2> QED BY <2>1, <2>2
<1>6. Levels(rs) = LevelStep(rs, Levels(rs))
  BY <1>5, Zenon DEF Levels
<1> DEFINE S == {d \in 1 .. Depth : Levels(rs)[d] = Chains(rs, d)}
<1>7. 1 \in S
  BY <1>0, <1>4, <1>6
<1>8. ASSUME NEW d \in 1 .. Depth, d \in S, d < Depth PROVE d + 1 \in S
  <2>1. d + 1 \in 1 .. Depth /\ d + 1 # 1 /\ (d + 1) - 1 = d
    BY <1>0, <1>8
  <2>2. LevelStep(rs, Levels(rs))[d + 1] = Chains(rs, d + 1)
    BY <1>3, <1>8, <2>1
  <2> QED BY <1>6, <2>1, <2>2
<1> HIDE DEF S
<1>9. \A d \in 1 .. Depth : d \in S
  BY <1>0, <1>7, <1>8, InductionUpTo
<1> QED BY <1>9 DEF S

LEMMA TreeIsChains ==
    ASSUME NEW rs, GraphOK(rs), NEW p
    PROVE  p \in RoleTree(rs) <=> \E d \in 1 .. Depth : p \in Chains(rs, d)
<1>1. p \in RoleTree(rs) <=> \E d \in 1 .. Depth : p \in Levels(rs)[d]
  BY TreeOfLevels
<1> QED BY <1>1, LevelsAreChains

----------------------------------------------------------------------------
\* The tests for a cycle and for a chain that is too deep

\* A walk of n roles along child edges.
IsWalk(w, n, rs) ==
    /\ w \in [1 .. n -> Role] /\ w[1] \in rs
    /\ \A i \in 1 .. n - 1 : <<w[i], w[i + 1]>> \in child

LEMMA WalkExtends ==
    ASSUME NEW rs, GraphOK(rs), NEW n \in Nat \ {0}, NEW w, IsWalk(w, n, rs),
           NEW c, <<w[n], c>> \in child
    PROVE  \E v : IsWalk(v, n + 1, rs) /\ v[n + 1] = c
<1> DEFINE v == [i \in 1 .. n + 1 |-> IF i = n + 1 THEN c ELSE w[i]]
<1>1. c \in Role /\ w \in [1 .. n -> Role] /\ w[1] \in rs
  BY DEF GraphOK, IsWalk
<1>2. v \in [1 .. n + 1 -> Role] /\ v[n + 1] = c /\ \A i \in 1 .. n : v[i] = w[i]
  BY <1>1
<1> HIDE DEF v
<1>3. ASSUME NEW i \in 1 .. n PROVE <<v[i], v[i + 1]>> \in child
  <2>1. CASE i = n
    BY <1>2, <2>1
  <2>2. CASE i # n
    <3>1. i \in 1 .. n - 1 /\ i + 1 \in 1 .. n
      BY <2>2
    <3> QED BY <1>2, <3>1 DEF IsWalk
  <2> QED BY <2>1, <2>2
<1>4. (n + 1) - 1 = n /\ v[1] = w[1]
  BY <1>2
<1>5. IsWalk(v, n + 1, rs)
  BY <1>1, <1>2, <1>3, <1>4 DEF IsWalk
<1> QED BY <1>2, <1>5

\* A cycle can be walked for ever.
LEMMA CycleIsTooDeep ==
    ASSUME NEW rs, GraphOK(rs), NEW d \in Nat \ {0}, NEW p \in Chains(rs, d), IsCycle(p)
    PROVE  TooDeep(rs, child)
<1>0. Depth \in Nat \ {0}
  BY AuthzAssumption
<1>1. PICK k \in 1 .. d - 1 : p[k] = p[d]
  BY ChainIsSeq
<1>2. /\ p \in [1 .. d -> Role] /\ p[1] \in rs
      /\ \A i \in 1 .. d - 1 : <<p[i], p[i + 1]>> \in child
  BY DEF Chains
<1>3. \A j \in 1 .. d : \E i \in 1 .. d : <<p[j], p[i]>> \in child
  <2> SUFFICES ASSUME NEW j \in 1 .. d PROVE \E i \in 1 .. d : <<p[j], p[i]>> \in child
    OBVIOUS
  <2>1. CASE j = d
    <3>1. k + 1 \in 1 .. d /\ <<p[k], p[k + 1]>> \in child
      BY <1>2
    <3> QED BY <1>1, <2>1, <3>1
  <2>2. CASE j # d
    <3>1. j \in 1 .. d - 1 /\ j + 1 \in 1 .. d
      BY <2>2
    <3> QED BY <1>2, <3>1
  <2> QED BY <2>1, <2>2
<1> DEFINE S == {n \in Nat \ {0} : \E w : IsWalk(w, n, rs) /\ \E j \in 1 .. d : w[n] = p[j]}
<1>4. 1 \in S
  <2> DEFINE w == [i \in 1 .. 1 |-> p[1]]
  <2>1. w \in [1 .. 1 -> Role] /\ w[1] = p[1] /\ 1 .. 1 - 1 = {} /\ 1 \in 1 .. d
    BY <1>2
  <2> HIDE DEF w
  <2>2. IsWalk(w, 1, rs)
    BY <1>2, <2>1 DEF IsWalk
  <2> QED BY <2>1, <2>2
<1>5. ASSUME NEW n \in 1 .. Depth + 1, n \in S, n < Depth + 1 PROVE n + 1 \in S
  <2>1. PICK w : IsWalk(w, n, rs) /\ \E j \in 1 .. d : w[n] = p[j]
    BY <1>5
  <2>2. PICK i \in 1 .. d : <<w[n], p[i]>> \in child
    BY <1>3, <2>1
  <2>3. n \in Nat \ {0} /\ n + 1 \in Nat \ {0}
    OBVIOUS
  <2>4. \E v : IsWalk(v, n + 1, rs) /\ v[n + 1] = p[i]
    BY <2>1, <2>2, <2>3, WalkExtends
  <2> QED BY <2>3, <2>4
<1> HIDE DEF S
<1>6. Depth + 1 \in Nat /\ Depth + 1 \in 1 .. Depth + 1
  BY <1>0
<1>7. Depth + 1 \in S
  BY <1>4, <1>5, <1>6, InductionUpTo
<1>8. PICK w : IsWalk(w, Depth + 1, rs)
  BY <1>7 DEF S
<1>9. (Depth + 1) - 1 = Depth
  BY <1>0
<1> QED BY <1>8, <1>9 DEF IsWalk, TooDeep

\* The first n roles of a walk form a row, unless a shorter row is cyclic.
LEMMA WalkGivesRow ==
    ASSUME NEW rs, GraphOK(rs), NEW m \in Nat \ {0}, NEW w, IsWalk(w, m, rs),
           NEW n \in 1 .. m,
           \A k \in 1 .. n - 1 : \A p \in Chains(rs, k) : ~ IsCycle(p)
    PROVE  \E p \in Chains(rs, n) : \A i \in 1 .. n : p[i] = w[i]
<1> DEFINE S == {k \in 1 .. n : \E p \in Chains(rs, k) : \A i \in 1 .. k : p[i] = w[i]}
<1>1. 1 \in S
  <2> DEFINE p == [i \in 1 .. 1 |-> w[1]]
  <2>1. p \in [1 .. 1 -> Role] /\ p[1] = w[1] /\ w[1] \in rs
    BY DEF IsWalk
  <2>2. 1 .. 1 - 1 = {} /\ 1 \in 1 .. n /\ \A i \in 1 .. 1 : i = 1
    OBVIOUS
  <2> HIDE DEF p
  <2>3. p \in Chains(rs, 1)
    BY <2>1, <2>2 DEF Chains
  <2>4. \A i \in 1 .. 1 : p[i] = w[i]
    BY <2>1, <2>2
  <2> QED BY <2>2, <2>3, <2>4
<1>2. ASSUME NEW k \in 1 .. n, k \in S, k < n PROVE k + 1 \in S
  <2>1. PICK p \in Chains(rs, k) : \A i \in 1 .. k : p[i] = w[i]
    BY <1>2
  <2>2. k \in 1 .. n - 1 /\ k \in 1 .. m - 1 /\ k + 1 \in 1 .. n /\ k \in Nat \ {0} /\ k \in 1 .. k
    BY <1>2
  <2>3. ~ IsCycle(p) /\ <<w[k], w[k + 1]>> \in child
    BY <2>2 DEF IsWalk
  <2>4. Last(p) = w[k]
    BY <2>1, <2>2, ChainIsSeq
  <2>5. w[k + 1] \in Children(Last(p)) /\ w[k + 1] \in Role /\ p \in [1 .. k -> Role]
    BY <2>2, <2>3, <2>4, ChildrenAreEdges, ChainIsSeq DEF GraphOK
  <2>6. IsExtension(Append(p, w[k + 1]), p, k, w[k + 1])
    BY <2>2, <2>5, AppendExtends
  <2>7. Append(p, w[k + 1]) \in Chains(rs, k + 1)
    BY <2>2, <2>3, <2>5, ChainExtends
  <2>8. \E q \in Chains(rs, k + 1) : IsExtension(q, p, k, w[k + 1])
    BY <2>6, <2>7
  <2>9. PICK q \in Chains(rs, k + 1) : IsExtension(q, p, k, w[k + 1])
    BY <2>8
  <2>10. \A i \in 1 .. k + 1 : q[i] = w[i]
    BY <2>1, <2>2, <2>9 DEF IsExtension
  <2> QED BY <2>2, <2>10
<1> HIDE DEF S
<1>3. n \in Nat /\ n \in 1 .. n
  OBVIOUS
<1>4. n \in S
  BY <1>1, <1>2, <1>3, InductionUpTo
<1> QED BY <1>4 DEF S

\* effective_permissions.sql notices exactly the graphs that are too deep.
LEMMA DepthTestExact ==
    ASSUME NEW rs, GraphOK(rs)
    PROVE  TooDeep(rs, child) <=>
             HasCycle(RoleTree(rs)) \/ DepthExceeded(RoleTree(rs))
<1>0. Depth \in Nat \ {0} /\ Depth + 1 \in Nat \ {0} /\ (Depth + 1) - 1 = Depth
  BY AuthzAssumption
<1>1. ASSUME HasCycle(RoleTree(rs)) PROVE TooDeep(rs, child)
  <2>1. PICK p \in RoleTree(rs) : IsCycle(p)
    BY <1>1 DEF HasCycle
  <2>2. PICK d \in 1 .. Depth : p \in Chains(rs, d)
    BY TreeIsChains
  <2>3. d \in Nat \ {0}
    BY <1>0
  <2> QED BY <2>1, <2>2, <2>3, CycleIsTooDeep
<1>2. ASSUME DepthExceeded(RoleTree(rs)) PROVE TooDeep(rs, child)
  <2>1. PICK p \in RoleTree(rs) : Len(p) >= Depth /\ ~ IsCycle(p) /\ Children(Last(p)) # {}
    BY <1>2 DEF DepthExceeded
  <2>2. PICK d \in 1 .. Depth : p \in Chains(rs, d)
    BY TreeIsChains
  <2>3. d \in Nat \ {0}
    BY <1>0
  <2>4. Len(p) = d /\ Last(p) = p[d]
    BY <2>2, <2>3, ChainIsSeq
  <2>5. d = Depth
    BY <1>0, <2>1, <2>4
  <2>6. PICK c : <<p[d], c>> \in child
    BY <2>1, <2>4, ChildrenAreEdges DEF GraphOK
  <2>7. IsWalk(p, d, rs)
    BY <2>2 DEF Chains, IsWalk
  <2>8. PICK v : IsWalk(v, Depth + 1, rs)
    BY <2>3, <2>5, <2>6, <2>7, WalkExtends
  <2> QED BY <1>0, <2>8 DEF IsWalk, TooDeep
<1>3. ASSUME TooDeep(rs, child), ~ HasCycle(RoleTree(rs)) PROVE DepthExceeded(RoleTree(rs))
  <2>1. PICK w : IsWalk(w, Depth + 1, rs)
    BY <1>0, <1>3 DEF TooDeep, IsWalk
  <2>2. \A k \in 1 .. Depth : \A p \in Chains(rs, k) : ~ IsCycle(p)
    BY <1>3, TreeIsChains DEF HasCycle
  <2>3. Depth \in 1 .. Depth + 1 /\ Depth \in 1 .. Depth /\ 1 .. Depth - 1 \subseteq 1 .. Depth
    BY <1>0
  <2>4. PICK p \in Chains(rs, Depth) : \A i \in 1 .. Depth : p[i] = w[i]
    BY <1>0, <2>1, <2>2, <2>3, WalkGivesRow
  <2>5. p \in RoleTree(rs) /\ ~ IsCycle(p) /\ Len(p) = Depth /\ Last(p) = w[Depth]
    BY <1>0, <2>2, <2>3, <2>4, TreeIsChains, ChainIsSeq
  <2>6. <<w[Depth], w[Depth + 1]>> \in child
    BY <1>0, <2>1, <2>3 DEF IsWalk
  <2>7. Children(Last(p)) # {}
    BY <2>5, <2>6, ChildrenAreEdges DEF GraphOK
  <2> QED BY <1>0, <2>5, <2>7 DEF DepthExceeded
<1> QED BY <1>1, <1>2, <1>3

----------------------------------------------------------------------------
\* The roles the query reaches

Reached(rs) == {Last(p) : p \in RoleTree(rs)}

LEMMA ReachedIs ==
    ASSUME NEW rs, GraphOK(rs), NEW r
    PROVE  r \in Reached(rs) <=> \E d \in 1 .. Depth : \E p \in Chains(rs, d) : p[d] = r
<1>0. Depth \in Nat \ {0}
  BY AuthzAssumption
<1>1. \A d \in 1 .. Depth : \A p \in Chains(rs, d) : Last(p) = p[d]
  BY <1>0, ChainIsSeq
<1> QED BY <1>1, TreeIsChains DEF Reached

\* With neither a cycle nor a deep chain the rows are closed under child edges.
LEMMA ReachedClosed ==
    ASSUME NEW rs, GraphOK(rs), ~ TooDeep(rs, child)
    PROVE  /\ rs \subseteq Reached(rs) /\ Reached(rs) \subseteq Role
           /\ \A r, c : r \in Reached(rs) /\ <<r, c>> \in child => c \in Reached(rs)
<1>0. Depth \in Nat \ {0} /\ 1 \in 1 .. Depth
  BY AuthzAssumption
<1>1. ASSUME NEW r \in rs PROVE r \in Reached(rs)
  <2> DEFINE p == [i \in 1 .. 1 |-> r]
  <2>1. p \in [1 .. 1 -> Role] /\ p[1] = r /\ 1 .. 1 - 1 = {}
    BY DEF GraphOK
  <2> HIDE DEF p
  <2>2. p \in Chains(rs, 1)
    BY <2>1 DEF Chains
  <2> QED BY <1>0, <2>1, <2>2, ReachedIs
<1>2. Reached(rs) \subseteq Role
  <2> SUFFICES ASSUME NEW r \in Reached(rs) PROVE r \in Role
    OBVIOUS
  <2>1. PICK d \in 1 .. Depth : \E p \in Chains(rs, d) : p[d] = r
    BY ReachedIs
  <2>2. d \in 1 .. d
    BY <1>0
  <2> QED BY <2>1, <2>2 DEF Chains
<1>3. ASSUME NEW r, NEW c, r \in Reached(rs), <<r, c>> \in child
      PROVE  c \in Reached(rs)
  <2>1. PICK d \in 1 .. Depth : \E p \in Chains(rs, d) : p[d] = r
    BY <1>3, ReachedIs
  <2>2. PICK p \in Chains(rs, d) : p[d] = r
    BY <2>1
  <2>3. d \in Nat \ {0}
    BY <1>0
  <2>4. p \in RoleTree(rs) /\ Len(p) = d /\ Last(p) = r
    BY <2>2, <2>3, TreeIsChains, ChainIsSeq
  <2>5. ~ IsCycle(p) /\ ~ DepthExceeded(RoleTree(rs))
    BY <2>4, DepthTestExact DEF HasCycle
  <2>6. c \in Children(Last(p))
    BY <1>3, <2>4, ChildrenAreEdges DEF GraphOK
  <2>7. d # Depth
    BY <1>0, <2>4, <2>5, <2>6 DEF DepthExceeded
  <2>8. \E q \in Chains(rs, d + 1) : q[d + 1] = c
    BY <2>3, <2>5, <2>6, ChainExtends
  <2>9. d + 1 \in 1 .. Depth
    BY <1>0, <2>7
  <2> QED BY <2>8, <2>9, ReachedIs
<1> QED BY <1>1, <1>2, <1>3

LEMMA ReachedLeast ==
    ASSUME NEW rs, GraphOK(rs), NEW s, rs \subseteq s,
           \A e \in child : e[1] \in s => e[2] \in s
    PROVE  Reached(rs) \subseteq s
<1> SUFFICES ASSUME NEW r \in Reached(rs) PROVE r \in s
  OBVIOUS
<1>0. Depth \in Nat \ {0}
  BY AuthzAssumption
<1>1. PICK d \in 1 .. Depth : \E p \in Chains(rs, d) : p[d] = r
  BY ReachedIs
<1>2. PICK p \in Chains(rs, d) : p[d] = r
  BY <1>1
<1>3. p[1] \in s /\ \A i \in 1 .. d - 1 : <<p[i], p[i + 1]>> \in child
  BY DEF Chains
<1>4. ASSUME NEW i \in 1 .. d - 1, p[i] \in s PROVE p[i + 1] \in s
  <2>1. <<p[i], p[i + 1]>>[1] = p[i] /\ <<p[i], p[i + 1]>>[2] = p[i + 1]
    OBVIOUS
  <2>2. \E e \in child : e[1] = p[i] /\ e[2] = p[i + 1]
    BY <1>3, <2>1
  <2> QED BY <1>4, <2>2
<1> DEFINE S == {i \in 1 .. d : p[i] \in s}
<1>5. d \in Nat /\ d \in 1 .. d /\ 1 \in S
  BY <1>0, <1>3
<1>6. ASSUME NEW i \in 1 .. d, i \in S, i < d PROVE i + 1 \in S
  <2>1. i \in 1 .. d - 1 /\ i + 1 \in 1 .. d
    BY <1>5, <1>6
  <2> QED BY <1>4, <1>6, <2>1
<1> HIDE DEF S
<1>7. d \in S
  BY <1>5, <1>6, InductionUpTo
<1> QED BY <1>2, <1>7 DEF S

LEMMA ReachedIsIncluded ==
    ASSUME NEW rs, GraphOK(rs), ~ TooDeep(rs, child)
    PROVE  Reached(rs) = Included(rs)
<1>1. ASSUME NEW r \in Reached(rs) PROVE r \in Included(rs)
  <2>1. r \in Role
    BY ReachedClosed
  <2>2. ASSUME NEW s \in SUBSET Role, rs \subseteq s,
               \A e \in child : e[1] \in s => e[2] \in s
        PROVE  r \in s
    BY <2>2, ReachedLeast
  <2> QED BY <2>1, <2>2 DEF Included
<1>2. ASSUME NEW r \in Included(rs) PROVE r \in Reached(rs)
  <2>1. ASSUME NEW e \in child, e[1] \in Reached(rs) PROVE e[2] \in Reached(rs)
    <3>1. e = <<e[1], e[2]>>
      BY DEF GraphOK
    <3>2. <<e[1], e[2]>> \in child
      BY <3>1
    <3> QED BY <2>1, <3>2, ReachedClosed
  <2>2. Reached(rs) \in SUBSET Role /\ rs \subseteq Reached(rs)
    BY ReachedClosed
  <2> QED BY <2>1, <2>2 DEF Included
<1> QED BY <1>1, <1>2

LEMMA RolesTyped ==
    ASSUME TypeOK, NEW u PROVE GraphOK(RolesOf(u))
<1>1. RolesOf(u) \subseteq Role
  BY DEF RolesOf, TypeOK
<1> QED BY <1>1 DEF GraphOK, TypeOK

LEMMA FlattenIsRight == ASSUME TypeOK PROVE FlattenRight
<1> SUFFICES ASSUME NEW u \in User
             PROVE  Effective(u) = IF TooDeep(RolesOf(u), child) THEN Error
                ELSE {k \in Key : \E r \in Included(RolesOf(u)) : <<r, k>> \in perms}
  BY DEF FlattenRight
<1> DEFINE rs == RolesOf(u)
<1>1. GraphOK(rs)
  BY RolesTyped
<1>2. Effective(u) = IF HasCycle(RoleTree(rs)) \/ DepthExceeded(RoleTree(rs)) THEN Error
        ELSE {g[2] : g \in {x \in perms : \E p \in RoleTree(rs) : Last(p) = x[1]}}
  BY DEF Effective
<1> HIDE DEF rs
<1>3. CASE TooDeep(rs, child)
  BY <1>1, <1>2, <1>3, DepthTestExact DEF rs
<1>4. CASE ~ TooDeep(rs, child)
  <2>1. Reached(rs) = Included(rs)
    BY <1>1, <1>4, ReachedIsIncluded
  <2>2. \A x : (\E p \in RoleTree(rs) : Last(p) = x[1]) <=> x[1] \in Included(rs)
    BY <2>1 DEF Reached
  <2>3. Effective(u) = {g[2] : g \in {x \in perms : x[1] \in Included(rs)}}
    BY <1>1, <1>2, <1>4, <2>2, DepthTestExact
  <2>4. ASSUME NEW k \in Key, NEW r \in Included(rs), <<r, k>> \in perms
        PROVE  k \in {g[2] : g \in {x \in perms : x[1] \in Included(rs)}}
    <3>1. <<r, k>>[1] = r /\ <<r, k>>[2] = k
      OBVIOUS
    <3> QED BY <2>4, <3>1
  <2>5. ASSUME NEW g \in perms, g[1] \in Included(rs)
        PROVE  g[2] \in Key /\ \E r \in Included(rs) : <<r, g[2]>> \in perms
    <3>1. g = <<g[1], g[2]>> /\ g[2] \in Key
      BY DEF TypeOK
    <3> QED BY <2>5, <3>1
  <2>6. Effective(u) = {k \in Key : \E r \in Included(rs) : <<r, k>> \in perms}
    BY <2>3, <2>4, <2>5
  <2> QED BY <1>4, <2>6 DEF rs
<1> QED BY <1>3, <1>4

\* would_create_role_cycle finds the parent below the child whenever it is there.
LEMMA CycleCheckComplete ==
    ASSUME TypeOK, NEW parent \in Role, NEW c \in Role, ~ ClosesCycle(parent, c),
           ~ TooDeep({c}, child),
           NEW n \in 1 .. Depth, NEW w \in [1 .. n -> Role], w[1] = c,
           \A i \in 1 .. n - 1 : <<w[i], w[i + 1]>> \in child
    PROVE  w[n] # parent
<1>0. n \in Nat /\ n \in 1 .. n /\ 1 \in 1 .. n
  BY AuthzAssumption
<1>1. GraphOK({c})
  BY DEF GraphOK, TypeOK
<1> DEFINE S == {i \in 1 .. n : w[i] \in Reached({c})}
<1>2. 1 \in S
  BY <1>0, <1>1, ReachedClosed
<1>3. ASSUME NEW i \in 1 .. n, i \in S, i < n PROVE i + 1 \in S
  <2>1. i \in 1 .. n - 1 /\ i + 1 \in 1 .. n
    BY <1>0, <1>3
  <2>2. <<w[i], w[i + 1]>> \in child
    BY <2>1
  <2> QED BY <1>1, <1>3, <2>1, <2>2, ReachedClosed
<1> HIDE DEF S
<1>4. n \in S
  BY <1>0, <1>2, <1>3, InductionUpTo
<1> QED BY <1>4 DEF S, Reached, ClosesCycle

----------------------------------------------------------------------------
\* What the tables give a user, from one step to the next

LEMMA EffectiveTyped ==
    ASSUME perms \subseteq Role \X Key, NEW u
    PROVE  Effective(u) = Error \/ Effective(u) \subseteq Key
BY DEF Effective

\* The query with its tables as parameters.
TreeOf(g, rs) ==
    LET level[d \in 1 .. Depth] ==
          IF d = 1 THEN {<<r>> : r \in rs}
          ELSE UNION {{Append(p, c) : c \in {e[2] : e \in {x \in g : x[1] = Last(p)}}} :
                        p \in {q \in level[d - 1] : ~ IsCycle(q)}}
    IN  UNION {level[d] : d \in 1 .. Depth}

KeysOf(g, ps, rs) ==
    LET tree == TreeOf(g, rs)
    IN  IF \/ HasCycle(tree)
           \/ \E p \in tree : Len(p) >= Depth /\ ~ IsCycle(p)
                              /\ {e[2] : e \in {x \in g : x[1] = Last(p)}} # {}
        THEN Error
        ELSE {y[2] : y \in {x \in ps : \E p \in tree : Last(p) = x[1]}}

OfTables == \A u : Effective(u) = KeysOf(child, perms, RolesOf(u))

LEMMA EffectiveIsKeysOf == OfTables
<1> SUFFICES ASSUME NEW u PROVE Effective(u) = KeysOf(child, perms, RolesOf(u))
  BY DEF OfTables
<1>1. ASSUME NEW rs PROVE RoleTree(rs) = TreeOf(child, rs)
  BY Zenon DEF RoleTree, TreeOf, Children
<1> QED BY <1>1, Zenon DEF Effective, KeysOf, DepthExceeded, Children

\* Effective(u) depends on the tables only, and on the system user's roles not at all.
LEMMA EffectiveKept ==
    ASSUME NEW u, RolesOf(u)' = RolesOf(u), child' = child, perms' = perms
    PROVE  Effective(u)' = Effective(u)
<1>1. OfTables /\ OfTables'
  BY EffectiveIsKeysOf, PTL
<1> QED BY <1>1 DEF OfTables

----------------------------------------------------------------------------
\* The inductive invariant

\* An edge that waits for its INSERT was checked on the graph in saw.
EdgeInv ==
    /\ EdgeCheckSound
    /\ \A o \in Operator : opc[o] = "insert" => edge[o] \in Role \X Role

\* Entries: a version that was never current is never written, and what is on
\* its way to Redis under the current version is what the tables give now.
EntryInv ==
    /\ EntryCurrent
    /\ \A u \in User : entry[u].v <= version
    /\ entry[System].v = 0
    /\ \A r \in Request :
        /\ Busy(r) => usr[r] # System
        /\ ver[r] <= version
        /\ pc[r] = "set" /\ ver[r] = version => keys[r] = Effective(usr[r])

\* Requests: whatever a request may still find in Redis under the version it has
\* read was right at some instant since it began.
SeenInv ==
    /\ DecisionWithinRequest
    /\ \A r \in Request :
        /\ Busy(r) => Effective(usr[r]) \in seen[r]
        /\ pc[r] \in {"set", "decide"} => keys[r] \in seen[r]
        /\ pc[r] = "get" /\ Hit(r) => entry[usr[r]].keys \in seen[r]
        /\ \A q \in Request :
             pc[r] = "get" /\ pc[q] = "set" /\ usr[q] = usr[r] /\ ver[q] = ver[r] =>
                keys[q] \in seen[r]


\* Steps of the tables, seen from the requests: either nothing changes for the
\* users who have requests, or the version is raised and every request observes.
Quiet ==
    /\ UNCHANGED <<version, entry, request, seen>>
    /\ \A u : u # System => Effective(u)' = Effective(u)

Raise == UNCHANGED <<entry, request>> /\ NextVersion /\ Observe

LEMMA StepKinds ==
    ASSUME [Next]_vars, ~ \E r \in Request : RequestStep(r) PROVE Quiet \/ Raise
<1>1. CASE SeedUsers \/ SeedClears
  <2>1. child' = child /\ perms' = perms /\ held' = WithoutSystem(held)
        /\ UNCHANGED <<version, entry, request, seen>>
    BY <1>1 DEF SeedUsers, SeedClears
  <2>2. ASSUME NEW u, u # System PROVE RolesOf(u)' = RolesOf(u)
    BY <2>1, <2>2 DEF RolesOf, WithoutSystem
  <2> QED BY <2>1, <2>2, EffectiveKept DEF Quiet
<1>2. CASE SeedFails \/ (\E o \in Operator : CheckEdge(o)) \/ UNCHANGED vars
  <2>1. UNCHANGED <<held, child, perms>> /\ UNCHANGED <<version, entry, request, seen>>
    BY <1>2 DEF SeedFails, CheckEdge, vars, tables
  <2>2. \A u : RolesOf(u)' = RolesOf(u)
    BY <2>1 DEF RolesOf
  <2> QED BY <2>1, <2>2, EffectiveKept DEF Quiet
<1>3. CASE SeedRbac \/ (\E o \in Operator : InsertEdge(o)) \/ Edit
  BY <1>3 DEF SeedRbac, InsertEdge, Edit, Raise
<1> QED BY <1>1, <1>2, <1>3 DEF Next

LEMMA RequestKeepsTables ==
    ASSUME NEW r, RequestStep(r)
    PROVE  /\ UNCHANGED <<tables, seedAt, ops>>
           /\ \A u : Effective(u)' = Effective(u)
<1>1. UNCHANGED <<tables, seedAt, ops>>
  BY DEF RequestStep, Begin, ReadVersion, CacheHit, CacheMiss, Resolve, ResolveFails,
     CacheSet, Decide
<1>2. UNCHANGED <<held, child, perms>>
  BY <1>1 DEF tables
<1>3. \A u : RolesOf(u)' = RolesOf(u)
  BY <1>2 DEF RolesOf
<1> QED BY <1>1, <1>2, <1>3, EffectiveKept

----------------------------------------------------------------------------
\* Types

LEMMA RequestType ==
    ASSUME TypeOK, NEW r \in Request, RequestStep(r) PROVE TypeOK'
<1>1. /\ UNCHANGED <<version, held, byHand, child, perms, oldId, seedAt, opc, edge, saw>>
  BY RequestKeepsTables DEF tables, ops
<1>2. pc' \in [Request -> {"idle", "version", "get", "resolve", "set", "decide", "done"}]
  BY DEF TypeOK, RequestStep, Begin, ReadVersion, CacheHit, CacheMiss, Resolve,
     ResolveFails, CacheSet, Decide
<1>3. usr' \in [Request -> User] /\ need' \in [Request -> Key]
  <2>1. CASE Begin(r)
    BY <2>1, AuthzAssumption DEF Begin, TypeOK
  <2>2. CASE Decide(r)
    BY <2>2 DEF Decide, TypeOK
  <2>3. CASE UNCHANGED <<usr, need>>
    BY <2>3 DEF TypeOK
  <2> QED BY <2>1, <2>2, <2>3 DEF RequestStep, ReadVersion, CacheHit, CacheMiss,
     Resolve, ResolveFails, CacheSet
<1>4. ver' \in [Request -> 0 .. MaxVer]
  <2>1. 0 \in 0 .. MaxVer /\ version \in 0 .. MaxVer
    BY AuthzAssumption DEF TypeOK
  <2>2. CASE ver' = ver
    BY <2>2 DEF TypeOK
  <2>3. CASE \E n \in 0 .. MaxVer : ver' = [ver EXCEPT ![r] = n]
    BY <2>3 DEF TypeOK
  <2> QED BY <2>1, <2>2, <2>3 DEF RequestStep, Begin, ReadVersion, CacheHit, CacheMiss,
     Resolve, ResolveFails, CacheSet, Decide
<1>5. keys' \in [Request -> SUBSET Key]
  <2>1. CASE Resolve(r)
    <3>1. Effective(usr[r]) \subseteq Key
      BY <2>1, EffectiveTyped DEF Resolve, TypeOK
    <3> QED BY <2>1, <3>1 DEF Resolve, TypeOK
  <2>2. CASE CacheHit(r)
    BY <2>2 DEF CacheHit, TypeOK
  <2>3. CASE Decide(r)
    BY <2>3 DEF Decide, TypeOK
  <2>4. CASE keys' = keys
    BY <2>4 DEF TypeOK
  <2> QED BY <2>1, <2>2, <2>3, <2>4 DEF RequestStep, Begin, ReadVersion, CacheMiss,
     ResolveFails, CacheSet
<1>6. answer' \in [Request -> {"none", "allow", "deny", "error"}]
  <2>1. \A ks, k : Verdict(ks, k) \in {"allow", "deny", "error"}
    BY DEF Verdict
  <2>2. CASE answer' = answer
    BY <2>2 DEF TypeOK
  <2>3. CASE \E a \in {"none", "allow", "deny", "error"} : answer' = [answer EXCEPT ![r] = a]
    BY <2>3 DEF TypeOK
  <2> QED BY <2>1, <2>2, <2>3 DEF RequestStep, Begin, ReadVersion, CacheHit, CacheMiss,
     Resolve, ResolveFails, CacheSet, Decide
<1>7. entry' \in [User -> [v : 0 .. MaxVer, keys : SUBSET Key]]
  <2>1. CASE CacheSet(r)
    <3>1. [v |-> ver[r], keys |-> keys[r]] \in [v : 0 .. MaxVer, keys : SUBSET Key]
      BY DEF TypeOK
    <3> QED BY <2>1, <3>1 DEF CacheSet, TypeOK
  <2>2. CASE entry' = entry
    BY <2>2 DEF TypeOK
  <2> QED BY <2>1, <2>2 DEF RequestStep, Begin, ReadVersion, CacheHit, CacheMiss,
     Resolve, ResolveFails, Decide
<1>8. seen' \in [Request -> SUBSET ((SUBSET Key) \cup {Error})]
  <2>1. CASE Begin(r)
    <3>1. \A u : Effective(u) \in (SUBSET Key) \cup {Error}
      BY EffectiveTyped DEF TypeOK
    <3> QED BY <2>1, <3>1 DEF Begin, TypeOK
  <2>2. CASE seen' = seen
    BY <2>2 DEF TypeOK
  <2> QED BY <2>1, <2>2 DEF RequestStep, ReadVersion, CacheHit, CacheMiss, Resolve,
     ResolveFails, CacheSet, Decide
<1> QED BY <1>1, <1>2, <1>3, <1>4, <1>5, <1>6, <1>7, <1>8 DEF TypeOK

LEMMA TableType ==
    ASSUME TypeOK, EdgeInv, [Next]_vars, ~ \E r \in Request : RequestStep(r)
    PROVE  TypeOK'
<1>1. /\ held' \subseteq User \X Role /\ byHand' \subseteq held'
      /\ child' \subseteq Role \X Role /\ perms' \subseteq Role \X Key /\ oldId' \subseteq Key
  <2>1. CASE SeedUsers \/ SeedClears
    BY <2>1 DEF SeedUsers, SeedClears, WithoutSystem, TypeOK
  <2>2. CASE SeedRbac
    <3>1. PICK c \in Catalog :
             /\ perms' = SeedPerms(c) /\ child' = SeedChildren(c) /\ held' = SeedHeld(c)
             /\ oldId' = oldId \ (c.keys \cup DroppedKeys(c)) /\ byHand' = byHand
      BY <2>2 DEF SeedRbac
    <3>2. /\ c.perms \subseteq Role \X Key /\ c.child \subseteq Role \X Role
          /\ c.held \subseteq User \X Role
      <4>1. SeedRole \subseteq Role /\ c.keys \subseteq Key
        BY AuthzAssumption
      <4> QED BY <4>1, AuthzAssumption
    <3> QED BY <3>1, <3>2 DEF SeedPerms, SeedChildren, SeedHeld, TypeOK
  <2>3. CASE SeedFails \/ (\E o \in Operator : CheckEdge(o)) \/ UNCHANGED vars
    BY <2>3 DEF SeedFails, CheckEdge, vars, tables, TypeOK
  <2>4. ASSUME NEW o \in Operator, InsertEdge(o) PROVE <1>1
    <3>1. edge[o] \in Role \X Role
      BY <2>4 DEF InsertEdge, EdgeInv
    <3> QED BY <2>4, <3>1 DEF InsertEdge, TypeOK
  <2>5. CASE Edit
    <3>1. ASSUME NEW u \in User \ {System}, NEW r \in Role,
                 \/ held' = held \cup {<<u, r>>} /\ byHand' = byHand \cup ({<<u, r>>} \ held)
                 \/ held' = held \ {<<u, r>>} /\ byHand' = byHand \ {<<u, r>>},
                 UNCHANGED <<child, perms, oldId>>
          PROVE  <1>1
      BY <3>1 DEF TypeOK
    <3>2. ASSUME NEW r \in Role \ SeedRole, NEW k \in Key,
                 perms' = perms \cup {<<r, k>>} \/ perms' = perms \ {<<r, k>>},
                 UNCHANGED <<held, byHand, child, oldId>>
          PROVE  <1>1
      BY <3>2 DEF TypeOK
    <3>3. ASSUME NEW e \in child, child' = child \ {e}, UNCHANGED <<held, byHand, perms, oldId>>
          PROVE  <1>1
      BY <3>3 DEF TypeOK
    <3> QED BY <2>5, <3>1, <3>2, <3>3 DEF Edit
  <2> QED BY <2>1, <2>2, <2>3, <2>4, <2>5 DEF Next
<1>2. version' \in 1 .. MaxVer
  BY AuthzAssumption DEF Next, SeedUsers, SeedRbac, SeedFails, SeedClears, CheckEdge,
     InsertEdge, Edit, NextVersion, vars, tables, TypeOK
<1>3. seedAt' \in {"idle", "rbac", "clear"}
  BY DEF Next, SeedUsers, SeedRbac, SeedFails, SeedClears, CheckEdge,
     InsertEdge, Edit, vars, TypeOK
<1>4. UNCHANGED <<entry, request>>
  BY StepKinds DEF Quiet, Raise
<1>5. /\ opc' \in [Operator -> {"idle", "insert"}]
      /\ edge' \in [Operator -> (Role \X Role) \cup {<<>>}]
      /\ saw' \in [Operator -> SUBSET (Role \X Role)]
  <2>1. ASSUME NEW o \in Operator, CheckEdge(o) PROVE <1>5
    <3>1. PICK parent \in Role, c \in Role : edge' = [edge EXCEPT ![o] = <<parent, c>>]
      BY <2>1 DEF CheckEdge
    <3>2. <<parent, c>> \in Role \X Role
      OBVIOUS
    <3>3. edge' \in [Operator -> (Role \X Role) \cup {<<>>}]
      BY <3>1, <3>2 DEF TypeOK
    <3> QED BY <2>1, <3>3 DEF CheckEdge, TypeOK
  <2>2. ASSUME NEW o \in Operator, InsertEdge(o) PROVE <1>5
    BY <2>2 DEF InsertEdge, TypeOK
  <2>3. CASE UNCHANGED ops
    BY <2>3 DEF ops, TypeOK
  <2> QED BY <2>1, <2>2, <2>3 DEF Next, SeedUsers, SeedRbac, SeedFails, SeedClears, Edit,
     vars
<1>6. seen' \in [Request -> SUBSET ((SUBSET Key) \cup {Error})]
  <2>1. CASE Quiet
    BY <2>1 DEF Quiet, TypeOK
  <2>2. CASE Raise
    <3>1. ASSUME NEW r \in Request
          PROVE  Effective(usr[r])' \in (SUBSET Key) \cup {Error}
      BY <1>1 DEF Effective
    <3> QED BY <2>2, <3>1 DEF Raise, Observe, TypeOK
  <2> QED BY <2>1, <2>2, StepKinds
<1> QED BY <1>1, <1>2, <1>3, <1>4, <1>5, <1>6 DEF TypeOK, request

----------------------------------------------------------------------------
\* Edges

LEMMA EdgeStep == ASSUME TypeOK, EdgeInv, [Next]_vars PROVE EdgeInv'
<1> DEFINE Sound(e, g) ==
        ~ TooDeep({e[2]}, g) =>
            ~ \E n \in 1 .. Depth : \E w \in [1 .. n -> Role] :
                 /\ w[1] = e[2] /\ w[n] = e[1]
                 /\ \A i \in 1 .. n - 1 : <<w[i], w[i + 1]>> \in g
           Good(o) == opc[o] = "insert" => edge[o] \in Role \X Role /\ Sound(edge[o], saw[o])
<1>1. \A o \in Operator : Good(o)
  BY DEF EdgeInv, EdgeCheckSound
<1>2. SUFFICES \A o \in Operator : Good(o)'
  BY DEF EdgeInv, EdgeCheckSound
<1>3. ASSUME NEW o \in Operator, CheckEdge(o) PROVE \A q \in Operator : Good(q)'
  <2>1. PICK parent \in Role, c \in Role :
            ~ ClosesCycle(parent, c) /\ edge' = [edge EXCEPT ![o] = <<parent, c>>]
    BY <1>3 DEF CheckEdge
  <2>2. edge'[o] = <<parent, c>> /\ saw'[o] = child
    BY <1>3, <2>1 DEF CheckEdge, TypeOK
  <2>3. Sound(<<parent, c>>, child)
    <3>1. <<parent, c>>[1] = parent /\ <<parent, c>>[2] = c
      OBVIOUS
    <3> QED BY <2>1, <3>1, CycleCheckComplete
  <2> HIDE DEF Sound
  <2>4. Good(o)'
    BY <2>2, <2>3
  <2>5. ASSUME NEW q \in Operator, q # o PROVE Good(q)'
    <3>1. opc'[q] = opc[q] /\ edge'[q] = edge[q] /\ saw'[q] = saw[q]
      BY <1>3, <2>1, <2>5 DEF CheckEdge, TypeOK
    <3> QED BY <1>1, <3>1
  <2> QED BY <2>4, <2>5
<1> HIDE DEF Sound
<1>4. ASSUME NEW o \in Operator, InsertEdge(o) PROVE \A q \in Operator : Good(q)'
  <2>1. opc'[o] = "idle"
    BY <1>4 DEF InsertEdge, TypeOK
  <2>2. ASSUME NEW q \in Operator, q # o PROVE Good(q)'
    <3>1. opc'[q] = opc[q] /\ edge'[q] = edge[q] /\ saw'[q] = saw[q]
      BY <1>4, <2>2 DEF InsertEdge, TypeOK
    <3> QED BY <1>1, <3>1
  <2> QED BY <2>1, <2>2
<1>5. CASE UNCHANGED ops
  BY <1>1, <1>5 DEF ops
<1>6. (\E r \in Request : RequestStep(r)) => UNCHANGED ops
  BY RequestKeepsTables
<1> QED BY <1>3, <1>4, <1>5, <1>6 DEF Next, SeedUsers, SeedRbac, SeedFails, SeedClears,
   Edit, vars

----------------------------------------------------------------------------
\* Entries

LEMMA EntryStep == ASSUME TypeOK, EntryInv, [Next]_vars PROVE EntryInv'
<1> DEFINE Right(u) == /\ entry[u].v = version => entry[u].keys = Effective(u)
                       /\ entry[u].v <= version
           Good(r) == /\ Busy(r) => usr[r] # System
                      /\ ver[r] <= version
                      /\ pc[r] = "set" /\ ver[r] = version => keys[r] = Effective(usr[r])
<1>1. /\ \A u \in User : Right(u)
      /\ entry[System].v = 0
      /\ \A r \in Request : Good(r)
  BY DEF EntryInv, EntryCurrent
<1>2. SUFFICES /\ \A u \in User : Right(u)'
               /\ entry'[System].v = 0
               /\ \A r \in Request : Good(r)'
  BY DEF EntryInv, EntryCurrent
<1>3. version \in 1 .. MaxVer /\ (\A u \in User : entry[u].v \in Nat)
      /\ (\A r \in Request : ver[r] \in Nat /\ usr[r] \in User) /\ System \in User
  BY AuthzAssumption DEF TypeOK
<1>4. CASE Quiet
  <2>1. /\ version' = version /\ entry' = entry /\ pc' = pc /\ usr' = usr /\ ver' = ver
        /\ keys' = keys /\ \A u : u # System => Effective(u)' = Effective(u)
    BY <1>4 DEF Quiet, request
  <2>2. ASSUME NEW u \in User PROVE Right(u)'
    BY <1>1, <1>3, <2>1
  <2>3. ASSUME NEW r \in Request PROVE Good(r)'
    BY <1>1, <2>1 DEF Busy
  <2> QED BY <1>1, <2>1, <2>2, <2>3
<1>5. CASE Raise
  <2>1. /\ version' = version + 1 /\ entry' = entry /\ pc' = pc /\ usr' = usr /\ ver' = ver
    BY <1>5 DEF Raise, NextVersion, request
  <2> QED BY <1>1, <1>3, <2>1 DEF Busy
<1>6. ASSUME NEW r \in Request, RequestStep(r)
      PROVE  /\ \A u \in User : Right(u)'
             /\ entry'[System].v = 0
             /\ \A q \in Request : Good(q)'
  <2>1. version' = version /\ \A u : Effective(u)' = Effective(u)
    BY <1>6, RequestKeepsTables DEF tables
  <2>2. ASSUME NEW q \in Request, q # r PROVE Good(q)'
    <3>1. pc'[q] = pc[q] /\ usr'[q] = usr[q] /\ ver'[q] = ver[q] /\ keys'[q] = keys[q]
      BY <1>6, <2>2 DEF TypeOK, RequestStep, Begin, ReadVersion, CacheHit, CacheMiss,
         Resolve, ResolveFails, CacheSet, Decide
    <3> QED BY <1>1, <2>1, <3>1 DEF Busy
  <2>3. Good(r)'
    <3>1. CASE Begin(r)
      BY <1>1, <2>1, <3>1 DEF Begin, Busy, TypeOK
    <3>2. CASE ReadVersion(r)
      <4>1. /\ pc'[r] # "set" /\ pc[r] \notin {"idle", "done"} /\ usr' = usr
            /\ ver'[r] = version
        BY <3>2 DEF ReadVersion, TypeOK
      <4>2. version <= version
        BY <1>3, AuthzAssumption
      <4> QED BY <1>1, <2>1, <4>1, <4>2 DEF Busy
    <3>3. CASE CacheHit(r) \/ CacheMiss(r) \/ CacheSet(r)
      <4>1. /\ pc'[r] # "set" /\ pc[r] \notin {"idle", "done"} /\ usr' = usr /\ ver' = ver
        BY <3>3 DEF CacheHit, CacheMiss, CacheSet, TypeOK
      <4> QED BY <1>1, <2>1, <4>1 DEF Busy
    <3>4. CASE Resolve(r)
      <4>1. /\ pc'[r] = "set" /\ pc[r] = "resolve" /\ usr' = usr /\ ver' = ver
            /\ keys'[r] = Effective(usr[r])
        BY <3>4 DEF Resolve, TypeOK
      <4>2. (Busy(r) => usr[r] # System)' /\ ver'[r] <= version'
        BY <1>1, <2>1, <4>1 DEF Busy
      <4>3. Effective(usr[r])' = Effective(usr[r])
        BY <2>1, <4>1
      <4> QED BY <4>1, <4>2, <4>3
    <3>5. CASE ResolveFails(r) \/ Decide(r)
      BY <1>1, <1>3, <2>1, <3>5 DEF ResolveFails, Decide, Busy, TypeOK
    <3> QED BY <1>6, <3>1, <3>2, <3>3, <3>4, <3>5 DEF RequestStep
  <2>4. CASE entry' = entry
    BY <1>1, <2>1, <2>2, <2>3, <2>4
  <2>5. CASE CacheSet(r) /\ entry' = [entry EXCEPT ![usr[r]] = [v |-> ver[r], keys |-> keys[r]]]
    <3>1. entry'[usr[r]].v = ver[r] /\ entry'[usr[r]].keys = keys[r] /\ usr[r] # System
      BY <1>1, <2>5 DEF CacheSet, Busy, TypeOK
    <3>2. \A u \in User \ {usr[r]} : entry'[u] = entry[u]
      BY <2>5 DEF TypeOK
    <3>3. Right(usr[r])'
      BY <1>1, <2>1, <2>5, <3>1 DEF CacheSet
    <3>4. \A u \in User \ {usr[r]} : Right(u)'
      BY <1>1, <2>1, <3>2
    <3>5. entry'[System].v = 0
      BY <1>1, <1>3, <3>1, <3>2
    <3>6. ASSUME NEW u \in User PROVE Right(u)'
      <4>1. CASE u = usr[r]
        <5>1. usr' = usr
          BY <2>5 DEF CacheSet
        <5> QED BY <3>1, <3>3, <4>1, <5>1
      <4>2. CASE u # usr[r]
        BY <3>4, <4>2
      <4> QED BY <4>1, <4>2
    <3> HIDE DEF Right, Good
    <3> QED BY <2>2, <2>3, <3>5, <3>6
  <2> QED BY <1>6, <2>4, <2>5 DEF RequestStep, Begin, ReadVersion, CacheHit, CacheMiss,
     Resolve, ResolveFails, CacheSet, Decide
<1> QED BY <1>4, <1>5, <1>6, StepKinds

----------------------------------------------------------------------------
\* Requests

LEMMA SeenStep ==
    ASSUME TypeOK, EntryInv, SeenInv, [Next]_vars PROVE SeenInv'
<1> DEFINE Good(r) == /\ pc[r] = "done" =>
                            answer[r] \in {Verdict(ks, need[r]) : ks \in seen[r]}
                      /\ Busy(r) => Effective(usr[r]) \in seen[r]
                      /\ pc[r] \in {"set", "decide"} => keys[r] \in seen[r]
                      /\ pc[r] = "get" /\ Hit(r) => entry[usr[r]].keys \in seen[r]
           Pair(r, q) == pc[r] = "get" /\ pc[q] = "set" /\ usr[q] = usr[r]
                            /\ ver[q] = ver[r] => keys[q] \in seen[r]
<1>1. /\ \A r \in Request : Good(r)
      /\ \A r, q \in Request : Pair(r, q)
  BY DEF SeenInv, DecisionWithinRequest
<1>2. SUFFICES /\ \A r \in Request : Good(r)'
               /\ \A r, q \in Request : Pair(r, q)'
  BY DEF SeenInv, DecisionWithinRequest
<1>3. CASE Quiet
  <2>1. /\ entry' = entry /\ pc' = pc /\ usr' = usr /\ ver' = ver /\ need' = need
        /\ keys' = keys /\ answer' = answer /\ seen' = seen
        /\ \A u : u # System => Effective(u)' = Effective(u)
    BY <1>3 DEF Quiet, request
  <2>2. ASSUME NEW r \in Request PROVE Good(r)'
    <3>1. Busy(r) => Effective(usr[r])' = Effective(usr[r])
      BY <2>1 DEF EntryInv
    <3> QED BY <1>1, <2>1, <3>1 DEF Busy, Hit
  <2>3. ASSUME NEW r \in Request, NEW q \in Request PROVE Pair(r, q)'
    BY <1>1, <2>1
  <2> QED BY <2>2, <2>3
<1>4. CASE Raise
  <2>1. /\ entry' = entry /\ pc' = pc /\ usr' = usr /\ ver' = ver /\ need' = need
        /\ keys' = keys /\ answer' = answer
    BY <1>4 DEF Raise, request
  <2>2. ASSUME NEW r \in Request
        PROVE  /\ seen[r] \subseteq seen'[r]
               /\ Busy(r) => Effective(usr[r])' \in seen'[r]
               /\ ~ Busy(r) => seen'[r] = seen[r]
    BY <1>4 DEF Raise, Observe
  <2>3. ASSUME NEW r \in Request PROVE Good(r)'
    <3>1. Busy(r)' = Busy(r) /\ Hit(r)' = Hit(r)
      BY <2>1 DEF Busy, Hit
    <3>2. CASE Busy(r)
      BY <1>1, <2>1, <2>2, <3>1, <3>2 DEF Busy
    <3>3. CASE ~ Busy(r)
      BY <1>1, <2>1, <2>2, <3>1, <3>3 DEF Busy
    <3> QED BY <3>2, <3>3
  <2>4. ASSUME NEW r \in Request, NEW q \in Request PROVE Pair(r, q)'
    BY <1>1, <2>1, <2>2
  <2> QED BY <2>3, <2>4
<1>5. ASSUME NEW r \in Request, RequestStep(r)
      PROVE  /\ \A q \in Request : Good(q)'
             /\ \A p, q \in Request : Pair(p, q)'
  <2>1. version' = version /\ \A u : Effective(u)' = Effective(u)
    BY <1>5, RequestKeepsTables DEF tables
  <2>2. ASSUME NEW q \in Request, q # r
        PROVE  /\ pc'[q] = pc[q] /\ usr'[q] = usr[q] /\ ver'[q] = ver[q]
               /\ keys'[q] = keys[q] /\ need'[q] = need[q] /\ answer'[q] = answer[q]
               /\ seen'[q] = seen[q]
    BY <1>5, <2>2 DEF TypeOK, RequestStep, Begin, ReadVersion, CacheHit, CacheMiss,
       Resolve, ResolveFails, CacheSet, Decide
  <2>3. ASSUME NEW q \in Request, q # r, pc[q] = "get", Hit(q)'
        PROVE  entry'[usr[q]].keys \in seen[q]
    <3>1. CASE entry'[usr[q]] = entry[usr[q]]
      <4>1. Hit(q)
        BY <2>2, <2>3, <3>1 DEF Hit
      <4> QED BY <1>1, <2>3, <3>1, <4>1
    <3>2. CASE /\ CacheSet(r) /\ usr[r] = usr[q]
               /\ entry' = [entry EXCEPT ![usr[r]] = [v |-> ver[r], keys |-> keys[r]]]
      <4>1. entry'[usr[q]].v = ver[r] /\ entry'[usr[q]].keys = keys[r] /\ pc[r] = "set"
        BY <3>2 DEF CacheSet, TypeOK
      <4>2. ver[r] = ver[q]
        BY <2>2, <2>3, <4>1 DEF Hit
      <4> QED BY <1>1, <2>3, <3>2, <4>1, <4>2
    <3> QED BY <1>5, <3>1, <3>2 DEF TypeOK, RequestStep, Begin, ReadVersion, CacheHit,
       CacheMiss, Resolve, ResolveFails, CacheSet, Decide
  <2>4. ASSUME NEW q \in Request, q # r PROVE Good(q)'
    <3>1. Effective(usr[q])' = Effective(usr[q])
      BY <2>1, <2>2, <2>4
    <3> QED BY <1>1, <2>2, <2>3, <2>4, <3>1 DEF Busy
  <2>5. ASSUME NEW p \in Request, NEW q \in Request, p # r, q # r PROVE Pair(p, q)'
    BY <1>1, <2>2, <2>5
  <2>6. CASE Begin(r)
    <3>1. PICK u \in User : usr' = [usr EXCEPT ![r] = u]
                            /\ seen' = [seen EXCEPT ![r] = {Effective(u)}]
      BY <2>6 DEF Begin
    <3>2. pc'[r] = "version" /\ usr'[r] = u /\ seen'[r] = {Effective(u)}
      BY <2>6, <3>1 DEF Begin, TypeOK
    <3>3. Effective(usr[r])' = Effective(u)
      BY <2>1, <3>2
    <3>4. Good(r)'
      BY <3>2, <3>3
    <3>5. \A q \in Request : Pair(r, q)' /\ Pair(q, r)'
      BY <3>2
    <3> QED BY <2>4, <2>5, <3>4, <3>5
  <2>7. CASE ReadVersion(r)
    <3>1. /\ pc'[r] = "get" /\ pc[r] = "version" /\ ver'[r] = version /\ usr' = usr
          /\ seen' = seen /\ entry' = entry /\ keys' = keys
      BY <2>7 DEF ReadVersion, TypeOK
    <3>2. Effective(usr[r]) \in seen[r] /\ Effective(usr[r])' = Effective(usr[r])
      BY <1>1, <2>1, <3>1 DEF Busy
    <3>3. Hit(r)' => entry[usr[r]].keys = Effective(usr[r])
      BY <3>1 DEF Hit, EntryInv, EntryCurrent, TypeOK
    <3>4. Good(r)'
      BY <3>1, <3>2, <3>3
    <3>5. ASSUME NEW q \in Request PROVE Pair(r, q)' /\ Pair(q, r)'
      <4>1. q # r /\ pc[q] = "set" /\ ver[q] = version => keys[q] = Effective(usr[q])
        BY DEF EntryInv
      <4> QED BY <2>2, <3>1, <3>2, <4>1
    <3> QED BY <2>4, <2>5, <3>4, <3>5
  <2>8. CASE CacheHit(r) \/ CacheMiss(r) \/ CacheSet(r)
    <3>1. /\ pc'[r] \in {"resolve", "decide"} /\ pc[r] \in {"get", "set"} /\ usr' = usr
          /\ seen' = seen
      BY <2>8 DEF CacheHit, CacheMiss, CacheSet, TypeOK
    <3>2. Effective(usr[r]) \in seen[r] /\ Effective(usr[r])' = Effective(usr[r])
      BY <1>1, <2>1, <3>1 DEF Busy
    <3>3. pc'[r] = "decide" => keys'[r] \in seen[r]
      BY <1>1, <2>8 DEF CacheHit, CacheMiss, CacheSet, TypeOK
    <3>4. Good(r)'
      BY <3>1, <3>2, <3>3
    <3>5. \A q \in Request : Pair(r, q)' /\ Pair(q, r)'
      BY <3>1
    <3> QED BY <2>4, <2>5, <3>4, <3>5
  <2>9. CASE Resolve(r)
    <3>1. /\ pc'[r] = "set" /\ pc[r] = "resolve" /\ keys'[r] = Effective(usr[r])
          /\ usr' = usr /\ seen' = seen
      BY <2>9 DEF Resolve, TypeOK
    <3>2. Effective(usr[r]) \in seen[r] /\ Effective(usr[r])' = Effective(usr[r])
      BY <1>1, <2>1, <3>1 DEF Busy
    <3>3. Good(r)'
      BY <3>1, <3>2
    <3>4. ASSUME NEW q \in Request PROVE Pair(r, q)' /\ Pair(q, r)'
      <4>1. pc[q] = "get" => Effective(usr[q]) \in seen[q]
        BY <1>1 DEF Busy
      <4> QED BY <2>2, <3>1, <4>1
    <3> QED BY <2>4, <2>5, <3>3, <3>4
  <2>10. CASE ResolveFails(r) \/ Decide(r)
    <3>1. pc'[r] = "done" /\ usr' = usr /\ seen' = seen
      BY <2>10 DEF ResolveFails, Decide, TypeOK
    <3>2. answer'[r] \in {Verdict(ks, need'[r]) : ks \in seen[r]}
      <4>1. CASE ResolveFails(r)
        <5>1. answer'[r] = "error" /\ Error \in seen[r]
          BY <1>1, <4>1 DEF ResolveFails, Busy, TypeOK
        <5>2. Verdict(Error, need'[r]) = "error"
          BY DEF Verdict
        <5> QED BY <5>1, <5>2
      <4>2. CASE Decide(r)
        BY <1>1, <4>2 DEF Decide, TypeOK
      <4> QED BY <2>10, <4>1, <4>2
    <3>3. Good(r)'
      BY <3>1, <3>2 DEF Busy
    <3>4. \A q \in Request : Pair(r, q)' /\ Pair(q, r)'
      BY <3>1
    <3> QED BY <2>4, <2>5, <3>3, <3>4
  <2> QED BY <1>5, <2>6, <2>7, <2>8, <2>9, <2>10 DEF RequestStep
<1> QED BY <1>3, <1>4, <1>5, StepKinds

----------------------------------------------------------------------------
\* The theorems

Inv == TypeOK /\ EdgeInv /\ EntryInv /\ SeenInv

LEMMA InvInit == Init => Inv
<1> SUFFICES ASSUME Init PROVE Inv
  OBVIOUS
<1>1. 0 \in 0 .. MaxVer /\ 1 \in 1 .. MaxVer /\ System \in User /\ Admin \in Key
  BY AuthzAssumption
<1>2. TypeOK
  <2>1. NoEntry \in [v : 0 .. MaxVer, keys : SUBSET Key]
    BY <1>1 DEF NoEntry
  <2>2. held \subseteq User \X Role /\ byHand \subseteq held /\ oldId \subseteq Key
    BY AuthzAssumption DEF Init
  <2>3. version \in 1 .. MaxVer /\ ver \in [Request -> 0 .. MaxVer]
    BY <1>1 DEF Init
  <2> QED BY <1>1, <2>1, <2>2, <2>3 DEF Init, TypeOK
<1>3. EdgeInv
  BY DEF Init, EdgeInv, EdgeCheckSound
<1>4. EntryInv
  BY <1>1 DEF Init, EntryInv, EntryCurrent, NoEntry, Busy
<1>5. SeenInv
  BY DEF Init, SeenInv, DecisionWithinRequest, Busy
<1> QED BY <1>2, <1>3, <1>4, <1>5 DEF Inv

\* Types, checked edges, cache entries and what requests have seen.
THEOREM AuthzInvariant == Spec => []Inv
<1>1. Inv /\ [Next]_vars => Inv'
  BY RequestType, TableType, EdgeStep, EntryStep, SeenStep DEF Inv
<1> QED BY InvInit, <1>1, PTL DEF Spec

\* An entry tagged with the current version is what the tables say, whatever
\* interleaving of readers, seed and operators wrote it.
THEOREM EntriesAreCurrent == Spec => []EntryCurrent
<1>1. Inv => EntryCurrent
  BY DEF Inv, EntryInv
<1> QED BY <1>1, AuthzInvariant, PTL

\* A decision is the one the tables called for at an instant of the request.
THEOREM DecisionsWithinRequest == Spec => []DecisionWithinRequest
<1>1. Inv => DecisionWithinRequest
  BY DEF Inv, SeenInv
<1> QED BY <1>1, AuthzInvariant, PTL

\* The flatten query computes the permissions of the included roles, and reports
\* an error exactly for graphs with a cycle or a chain beyond the bound.
THEOREM FlattenIsExact == Spec => []FlattenRight
<1>1. Inv => FlattenRight
  BY FlattenIsRight DEF Inv
<1> QED BY <1>1, AuthzInvariant, PTL

\* An edge that passed would_create_role_cycle closes no cycle in the graph that
\* was read, for graphs within the depth bound.
THEOREM EdgeChecksAreSound == Spec => []EdgeCheckSound
<1>1. Inv => EdgeCheckSound
  BY DEF Inv, EdgeInv
<1> QED BY <1>1, AuthzInvariant, PTL
============================================================================
