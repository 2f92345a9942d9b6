---------------------------- MODULE RouteProofs ----------------------------
(***************************************************************************)
(* What routes.go promises of hostnames, for every listener and route, how *)
(* sortRoutes orders the Envoy routes of a virtual host, and what the      *)
(* translation of an HTTPRoute returns.                                    *)
(***************************************************************************)
EXTENDS Hostnames, HTTPRoutes, FiniteSetTheorems, SequenceTheorems, TLAPS

----------------------------------------------------------------------------
(* The rank of an element in a finite set with a strict total order.       *)

IsStrictOrder(R, K) ==
  \A x, y, z \in K :
    /\ <<x, x>> \notin R
    /\ x # y => <<x, y>> \in R \/ <<y, x>> \in R
    /\ <<x, y>> \in R /\ <<y, z>> \in R => <<x, z>> \in R

UpTo(R, K, x) == {y \in K : y = x \/ <<y, x>> \in R}

Rank(R, K, x) == Cardinality(UpTo(R, K, x))

LEMMA UpToFinite ==
  ASSUME NEW K, IsFiniteSet(K), NEW R, NEW x
  PROVE  IsFiniteSet(UpTo(R, K, x)) /\ Rank(R, K, x) \in Nat /\ Rank(R, K, x) <= Cardinality(K)
<1>1. UpTo(R, K, x) \in SUBSET K
  BY DEF UpTo
<1> QED
  BY <1>1, FS_Subset, FS_CardinalityType DEF Rank

LEMMA RankType ==
  ASSUME NEW K, IsFiniteSet(K), NEW R, NEW x \in K
  PROVE  Rank(R, K, x) \in 1..Cardinality(K)
<1>1. IsFiniteSet(UpTo(R, K, x)) /\ Rank(R, K, x) \in Nat /\ Rank(R, K, x) <= Cardinality(K)
  BY UpToFinite
<1>2. x \in UpTo(R, K, x)
  BY DEF UpTo
<1>3. Rank(R, K, x) # 0
  BY <1>1, <1>2, FS_EmptySet DEF Rank
<1>4. Cardinality(K) \in Nat
  BY FS_CardinalityType
<1> QED
  BY <1>1, <1>3, <1>4

LEMMA RankIncreases ==
  ASSUME NEW K, IsFiniteSet(K), NEW R, IsStrictOrder(R, K), NEW x \in K, NEW y \in K, <<x, y>> \in R
  PROVE  Rank(R, K, x) < Rank(R, K, y)
<1>1. UpTo(R, K, x) \in SUBSET UpTo(R, K, y)
  BY DEF UpTo, IsStrictOrder
<1>2. y \in UpTo(R, K, y) /\ y \notin UpTo(R, K, x)
  BY DEF UpTo, IsStrictOrder
<1>3. IsFiniteSet(UpTo(R, K, y)) /\ Rank(R, K, x) \in Nat /\ Rank(R, K, y) \in Nat
  BY UpToFinite
<1>4. Rank(R, K, x) <= Rank(R, K, y) /\ Rank(R, K, x) # Rank(R, K, y)
  BY <1>1, <1>2, <1>3, FS_Subset DEF Rank
<1> QED
  BY <1>3, <1>4

LEMMA RankIsPermutation ==
  ASSUME NEW K, IsFiniteSet(K), NEW R, IsStrictOrder(R, K)
  PROVE  /\ \A x, y \in K : Rank(R, K, x) = Rank(R, K, y) => x = y
         /\ \A n \in 1..Cardinality(K) : \E x \in K : Rank(R, K, x) = n
<1> DEFINE N == 1..Cardinality(K)
           f == [x \in K |-> Rank(R, K, x)]
<1>1. \A x, y \in K : Rank(R, K, x) = Rank(R, K, y) => x = y
  <2> SUFFICES ASSUME NEW x \in K, NEW y \in K, x # y
               PROVE  Rank(R, K, x) # Rank(R, K, y)
    OBVIOUS
  <2>1. <<x, y>> \in R \/ <<y, x>> \in R
    BY DEF IsStrictOrder
  <2>2. Rank(R, K, x) \in Nat /\ Rank(R, K, y) \in Nat
    BY UpToFinite
  <2> QED
    BY <2>1, <2>2, RankIncreases
<1>2. f \in Injection(K, N)
  BY <1>1, RankType DEF Injection, IsInjective
<1>3. Cardinality(K) \in Nat
  BY FS_CardinalityType
<1>4. IsFiniteSet(N) /\ Cardinality(N) = Cardinality(K)
  BY <1>3, FS_Interval
<1>5. f \in Surjection(K, N)
  BY <1>2, <1>4, FS_Injection
<1> QED
  BY <1>1, <1>5 DEF Surjection

(* A nonempty finite set has an element of the first and of the last rank. *)
LEMMA FirstAndLast ==
  ASSUME NEW K, IsFiniteSet(K), K # {}, NEW R, IsStrictOrder(R, K)
  PROVE  /\ \E x \in K : Rank(R, K, x) = 1
         /\ \E x \in K : Rank(R, K, x) = Cardinality(K)
<1>1. \A n \in 1..Cardinality(K) : \E x \in K : Rank(R, K, x) = n
  BY RankIsPermutation
<1>2. Cardinality(K) \in Nat /\ Cardinality(K) # 0
  BY FS_CardinalityType, FS_EmptySet
<1>3. 1 \in 1..Cardinality(K) /\ Cardinality(K) \in 1..Cardinality(K)
  BY <1>2
<1> QED
  BY <1>1, <1>3

LEMMA IntegersOrdered ==
  ASSUME NEW S \in SUBSET Int
  PROVE  \E R : IsStrictOrder(R, S) /\ \A x, y \in S : <<x, y>> \in R <=> x < y
<1> DEFINE R == {p \in S \X S : p[1] < p[2]}
<1>1. \A x, y \in S : <<x, y>> \in R <=> x < y
  OBVIOUS
<1> HIDE DEF R
<1>2. ASSUME NEW x \in S, NEW y \in S, NEW z \in S
      PROVE  /\ <<x, x>> \notin R
             /\ x # y => <<x, y>> \in R \/ <<y, x>> \in R
             /\ <<x, y>> \in R /\ <<y, z>> \in R => <<x, z>> \in R
  <2>1. x \in Int /\ y \in Int /\ z \in Int
    OBVIOUS
  <2> QED
    BY <1>1, <2>1
<1>3. IsStrictOrder(R, S)
  BY <1>2 DEF IsStrictOrder
<1> QED
  BY <1>1, <1>3

(* A nonempty finite set of integers has a least and a greatest element.   *)
LEMMA MinMax ==
  ASSUME NEW S \in SUBSET Int, IsFiniteSet(S), S # {}
  PROVE  /\ Min(S) \in S /\ \A y \in S : Min(S) <= y
         /\ Max(S) \in S /\ \A y \in S : Max(S) >= y
<1>1. PICK R : IsStrictOrder(R, S) /\ \A x, y \in S : <<x, y>> \in R <=> x < y
  BY IntegersOrdered
<1>2. IsStrictOrder(R, S)
  BY <1>1
<1>0. /\ \E x \in S : Rank(R, S, x) = 1
      /\ \E x \in S : Rank(R, S, x) = Cardinality(S)
  BY <1>2, FirstAndLast
<1>3. PICK x \in S : Rank(R, S, x) = 1
  BY <1>0
<1>4. \A y \in S : x <= y
  <2>1. IsFiniteSet(UpTo(R, S, x)) /\ Cardinality(UpTo(R, S, x)) = 1
    BY <1>3, UpToFinite DEF Rank
  <2>2. PICK z : UpTo(R, S, x) = {z}
    BY <2>1, FS_Singleton
  <2>3. ASSUME NEW y \in S, y < x
        PROVE  FALSE
    <3>1. <<y, x>> \in R
      BY <1>1, <2>3
    <3>2. y \in UpTo(R, S, x) /\ x \in UpTo(R, S, x)
      BY <3>1 DEF UpTo
    <3> QED
      BY <2>2, <2>3, <3>2
  <2> QED
    BY <2>3
<1>5. PICK z \in S : Rank(R, S, z) = Cardinality(S)
  BY <1>0
<1>6. \A y \in S : z >= y
  <2>1. UpTo(R, S, z) \in SUBSET S
    BY DEF UpTo
  <2>2. UpTo(R, S, z) = S
    BY <1>5, <2>1, FS_Subset DEF Rank
  <2>3. \A y \in S : y = z \/ <<y, z>> \in R
    BY <2>2 DEF UpTo
  <2>4. ASSUME NEW y \in S
        PROVE  z >= y
    <3>1. z \in Int /\ y \in Int
      OBVIOUS
    <3>2. CASE <<y, z>> \in R
      BY <1>1, <3>1, <3>2
    <3> QED
      BY <2>3, <3>1, <3>2
  <2> QED
    BY <2>4
<1>7. Min(S) \in S /\ \A y \in S : Min(S) <= y
  BY <1>4 DEF Min
<1>8. Max(S) \in S /\ \A y \in S : Max(S) >= y
  BY <1>6 DEF Max
<1> QED
  BY <1>7, <1>8

----------------------------------------------------------------------------
(* Hostnames.                                                              *)

(* A route that a listener's hostname check accepts gets a virtual host    *)
(* there, and one that it rejects would get none: isAllowedByHostname and  *)
(* getIntersectingHostnames, which are called far apart, agree.            *)
THEOREM AllowedIffIntersecting ==
  ASSUME NEW listener, NEW hostnames
  PROVE  IsAllowedByHostname(listener, hostnames)
           <=> IntersectingHostnames(listener, hostnames) # {}
<1>1. CASE hostnames = {}
  BY <1>1 DEF IsAllowedByHostname, IntersectingHostnames
<1>2. CASE hostnames # {} /\ listener = NoHostname
  BY <1>2 DEF IsAllowedByHostname, IntersectingHostnames
<1>3. CASE hostnames # {} /\ listener # NoHostname
  <2>1. IntersectingHostnames(listener, hostnames)
          = {MostRestrictive(h, listener) : h \in {g \in hostnames : IsHostnameSubset(g, listener)}}
    BY <1>3 DEF IntersectingHostnames
  <2> QED
    BY <1>3, <2>1 DEF IsAllowedByHostname
<1> QED
  BY <1>1, <1>2, <1>3

(* No virtual host answers for a domain that the listener does not admit:  *)
(* each is the listener's hostname, or a hostname of the route that is its *)
(* subset.                                                                 *)
THEOREM DomainsAdmitted ==
  ASSUME NEW listener, listener # NoHostname, NEW hostnames,
         NEW d \in IntersectingHostnames(listener, hostnames)
  PROVE  d = listener \/ (d \in hostnames /\ IsHostnameSubset(d, listener))
<1>1. CASE hostnames = {}
  BY <1>1 DEF IntersectingHostnames
<1>2. CASE hostnames # {}
  <2>1. PICK h \in hostnames : IsHostnameSubset(h, listener) /\ d = MostRestrictive(h, listener)
    BY <1>2 DEF IntersectingHostnames
  <2> QED
    BY <2>1 DEF MostRestrictive
<1> QED
  BY <1>1, <1>2

----------------------------------------------------------------------------
(* The comparison that sortRoutes hands to sort.Slice is a strict weak     *)
(* order, which sort.Slice needs, the sorted routes are the given ones in  *)
(* precedence, and the first that matches a request is the best.           *)

IsMatch(m) ==
  /\ IF m.kind = "regex" THEN m.path \in DOMAIN Regexes ELSE m.path \in Paths
  /\ IsFiniteSet(m.headers) /\ IsFiniteSet(m.params)

(* A slice of routes.                                                      *)
IsSlice(s) == /\ Len(s) \in Nat /\ DOMAIN s = 1..Len(s)
              /\ \A i \in DOMAIN s : IsMatch(s[i].match)

LEMMA KeyType ==
  ASSUME NEW m, IsMatch(m)
  PROVE  \A k \in 1..5 : Key(m)[k] \in Int
<1>1. PathLength(m) \in Int
  BY RegexesAssumption DEF PathLength, Letters, IsMatch, Paths
<1>2. Cardinality(m.headers) \in Int /\ Cardinality(m.params) \in Int
  BY FS_CardinalityType DEF IsMatch
<1> QED
  BY <1>1, <1>2 DEF Key

LEMMA BeforeCases ==
  ASSUME NEW a, NEW b
  PROVE  Before(a, b) <=>
           \/ Key(a)[1] > Key(b)[1]
           \/ Key(a)[1] = Key(b)[1] /\ Key(a)[2] > Key(b)[2]
           \/ Key(a)[1] = Key(b)[1] /\ Key(a)[2] = Key(b)[2] /\ Key(a)[3] > Key(b)[3]
           \/ /\ Key(a)[1] = Key(b)[1] /\ Key(a)[2] = Key(b)[2] /\ Key(a)[3] = Key(b)[3]
              /\ Key(a)[4] > Key(b)[4]
           \/ /\ Key(a)[1] = Key(b)[1] /\ Key(a)[2] = Key(b)[2] /\ Key(a)[3] = Key(b)[3]
              /\ Key(a)[4] = Key(b)[4] /\ Key(a)[5] > Key(b)[5]
<1>1. 1..5 = {1, 2, 3, 4, 5}
  OBVIOUS
<1>2. \A k \in 1..5 : 1..(k - 1) = {j \in {1, 2, 3, 4} : j < k}
  OBVIOUS
<1> QED
  BY <1>1, <1>2 DEF Before

(* The order in which sortRoutes compares two matches is a strict weak     *)
(* order: irreflexive, transitive, and so is being tied.  sort.Slice gives *)
(* no order at all for a comparison that is not.                           *)
THEOREM BeforeIsStrictWeakOrder ==
  ASSUME NEW a, NEW b, NEW c, IsMatch(a), IsMatch(b), IsMatch(c)
  PROVE  /\ ~Before(a, a)
         /\ Before(a, b) /\ Before(b, c) => Before(a, c)
         /\ ~Before(a, b) /\ ~Before(b, c) => ~Before(a, c)
<1>1. \A k \in 1..5 : Key(a)[k] \in Int /\ Key(b)[k] \in Int /\ Key(c)[k] \in Int
  BY KeyType
<1>2. ~Before(a, a)
  BY <1>1, BeforeCases
<1>3. Before(a, b) /\ Before(b, c) => Before(a, c)
  BY <1>1, BeforeCases
<1>4. ~Before(a, b) /\ ~Before(b, c) => ~Before(a, c)
  BY <1>1, BeforeCases
<1> QED
  BY <1>2, <1>3, <1>4

----------------------------------------------------------------------------
(* The place of an entry.                                                  *)

LEMMA PrecedesIsTotalOrder ==
  ASSUME NEW s, IsSlice(s), NEW i \in DOMAIN s, NEW j \in DOMAIN s, NEW k \in DOMAIN s
  PROVE  /\ Precedes(s, i, i)
         /\ Precedes(s, i, j) \/ Precedes(s, j, i)
         /\ Precedes(s, i, j) /\ Precedes(s, j, i) => i = j
         /\ Precedes(s, i, j) /\ Precedes(s, j, k) => Precedes(s, i, k)
<1> DEFINE A(m, n) == Before(s[m].match, s[n].match)
<1>1. i \in Int /\ j \in Int /\ k \in Int
  BY DEF IsSlice
<1>2. \A l, m, n \in DOMAIN s :
        /\ ~A(l, l)
        /\ A(l, m) /\ A(m, n) => A(l, n)
        /\ ~A(l, m) /\ ~A(m, n) => ~A(l, n)
  BY BeforeIsStrictWeakOrder DEF IsSlice
<1>3. \A m, n : Precedes(s, m, n) <=> A(m, n) \/ (~A(n, m) /\ m <= n)
  BY DEF Precedes
<1> HIDE DEF A
<1>4. Precedes(s, i, i)
  BY <1>1, <1>2, <1>3
<1>5. Precedes(s, i, j) \/ Precedes(s, j, i)
  BY <1>1, <1>2, <1>3
<1>6. Precedes(s, i, j) /\ Precedes(s, j, i) => i = j
  BY <1>1, <1>2, <1>3
<1>7. Precedes(s, i, j) /\ Precedes(s, j, k) => Precedes(s, i, k)
  BY <1>1, <1>2, <1>3
<1> QED
  BY <1>4, <1>5, <1>6, <1>7

LEMMA SliceDomain ==
  ASSUME NEW s, IsSlice(s)
  PROVE  /\ IsFiniteSet(DOMAIN s) /\ Cardinality(DOMAIN s) = Len(s)
         /\ DOMAIN s \subseteq Int
<1>1. Len(s) \in Nat /\ DOMAIN s = 1..Len(s)
  BY DEF IsSlice
<1>2. IsFiniteSet(1..Len(s)) /\ Cardinality(1..Len(s)) = IF 1 > Len(s) THEN 0 ELSE Len(s) - 1 + 1
  BY <1>1, FS_Interval
<1>3. Cardinality(1..Len(s)) = Len(s)
  BY <1>1, <1>2
<1> QED
  BY <1>1, <1>2, <1>3

LEMMA PlaceType ==
  ASSUME NEW s, IsSlice(s), NEW i \in DOMAIN s
  PROVE  Place(s, i) \in DOMAIN s
<1> DEFINE P == {j \in DOMAIN s : Precedes(s, j, i)}
<1>1. IsFiniteSet(DOMAIN s) /\ Cardinality(DOMAIN s) = Len(s)
  BY SliceDomain
<1>2. IsFiniteSet(P) /\ Cardinality(P) <= Len(s)
  BY <1>1, FS_Subset
<1>3. i \in P
  BY PrecedesIsTotalOrder
<1>4. Cardinality(P) # 0
  BY <1>2, <1>3, FS_EmptySet
<1>5. Cardinality(P) \in Nat
  BY <1>2, FS_CardinalityType
<1> QED
  BY <1>2, <1>4, <1>5 DEF Place, IsSlice

LEMMA PlaceIncreases ==
  ASSUME NEW s, IsSlice(s), NEW i \in DOMAIN s, NEW j \in DOMAIN s, i # j, Precedes(s, i, j)
  PROVE  Place(s, i) < Place(s, j)
<1> DEFINE P(k) == {l \in DOMAIN s : Precedes(s, l, k)}
<1>1. IsFiniteSet(DOMAIN s)
  BY SliceDomain
<1>2. IsFiniteSet(P(j))
  BY <1>1, FS_Subset
<1>3. P(i) \in SUBSET P(j)
  BY PrecedesIsTotalOrder
<1>4. j \in P(j) /\ j \notin P(i)
  BY PrecedesIsTotalOrder
<1>5. Cardinality(P(i)) <= Cardinality(P(j)) /\ Cardinality(P(i)) # Cardinality(P(j))
  BY <1>2, <1>3, <1>4, FS_Subset
<1>6. Place(s, i) \in Int /\ Place(s, j) \in Int
  BY PlaceType, SliceDomain
<1> QED
  BY <1>5, <1>6 DEF Place

LEMMA PlaceIsPermutation ==
  ASSUME NEW s, IsSlice(s)
  PROVE  /\ \A i, j \in DOMAIN s : Place(s, i) = Place(s, j) => i = j
         /\ \A n \in DOMAIN s : \E i \in DOMAIN s : Place(s, i) = n
<1> DEFINE f == [i \in DOMAIN s |-> Place(s, i)]
<1>1. \A i, j \in DOMAIN s : i # j => Place(s, i) # Place(s, j)
  <2> SUFFICES ASSUME NEW i \in DOMAIN s, NEW j \in DOMAIN s, i # j
               PROVE  Place(s, i) # Place(s, j)
    OBVIOUS
  <2>1. Precedes(s, i, j) \/ Precedes(s, j, i)
    BY PrecedesIsTotalOrder
  <2>2. Place(s, i) \in Int /\ Place(s, j) \in Int
    BY PlaceType, SliceDomain
  <2> QED
    BY <2>1, <2>2, PlaceIncreases
<1>2. f \in Injection(DOMAIN s, DOMAIN s)
  BY <1>1, PlaceType DEF Injection, IsInjective
<1>3. f \in Surjection(DOMAIN s, DOMAIN s)
  BY <1>2, FS_Injection, SliceDomain
<1> QED
  BY <1>1, <1>3 DEF Surjection

----------------------------------------------------------------------------
(* A short slice ends up in precedence, with the same routes in it, and    *)
(* ties in the order in which they were: "maintain original order (stable  *)
(* sort)" (httproute.go:787).                                              *)
THEOREM ShortSortIsStable ==
  ASSUME NEW s, IsSlice(s), Len(s) <= StableUpTo, NEW t \in SortRoutes(s)
  PROVE  \E p \in [DOMAIN s -> DOMAIN s] :
           /\ t = [n \in DOMAIN s |-> s[p[n]]]
           /\ \A m, n \in DOMAIN s : m < n =>
                /\ p[m] # p[n]
                /\ ~Before(t[n].match, t[m].match)
                /\ Before(t[m].match, t[n].match) \/ p[m] < p[n]
<1> DEFINE p == [n \in DOMAIN s |-> CHOOSE i \in DOMAIN s : Place(s, i) = n]
<1>1. t = [n \in DOMAIN s |-> s[p[n]]]
  BY DEF SortRoutes
<1>2. \A n \in DOMAIN s : p[n] \in DOMAIN s /\ Place(s, p[n]) = n
  BY PlaceIsPermutation
<1>3. p \in [DOMAIN s -> DOMAIN s]
  BY <1>2
<1> HIDE DEF p
<1>4. ASSUME NEW m \in DOMAIN s, NEW n \in DOMAIN s, m < n
      PROVE  /\ p[m] # p[n]
             /\ ~Before(t[n].match, t[m].match)
             /\ Before(t[m].match, t[n].match) \/ p[m] < p[n]
  <2>1. p[m] # p[n] /\ p[m] \in Int /\ p[n] \in Int /\ m \in Int /\ n \in Int
    BY <1>2, <1>4, SliceDomain
  <2>2. ~Precedes(s, p[n], p[m])
    BY <1>2, <1>4, <2>1, PlaceIncreases
  <2>3. Precedes(s, p[m], p[n])
    BY <1>2, <2>2, PrecedesIsTotalOrder
  <2>4. t[m] = s[p[m]] /\ t[n] = s[p[n]]
    BY <1>1
  <2> QED
    BY <2>1, <2>2, <2>3, <2>4 DEF Precedes
<1> QED
  BY <1>1, <1>3, <1>4

(* Whatever the length, sorting leaves the routes in precedence.           *)
LEMMA SortedInPrecedence ==
  ASSUME NEW s, IsSlice(s), NEW t \in SortRoutes(s)
  PROVE  /\ InPrecedence(t) /\ DOMAIN t = DOMAIN s
         /\ \A i \in DOMAIN t : IsMatch(t[i].match)
<1>1. CASE Len(s) <= StableUpTo
  <2>1. PICK p \in [DOMAIN s -> DOMAIN s] :
          /\ t = [n \in DOMAIN s |-> s[p[n]]]
          /\ \A m, n \in DOMAIN s : m < n => ~Before(t[n].match, t[m].match)
    BY <1>1, ShortSortIsStable
  <2> QED
    BY <2>1 DEF InPrecedence, IsSlice
<1>2. CASE ~(Len(s) <= StableUpTo)
  <2>1. t \in Arrangements(s) /\ InPrecedence(t)
    BY <1>2 DEF SortRoutes, SortedAnyhow
  <2>2. PICK p \in [DOMAIN s -> DOMAIN s] : t = [n \in DOMAIN s |-> s[p[n]]]
    BY <2>1 DEF Arrangements
  <2> QED
    BY <2>1, <2>2 DEF IsSlice
<1> QED
  BY <1>1, <1>2, StableUpToAssumption DEF IsSlice

(* In a sorted virtual host no route that matches the request goes before  *)
(* the one that answers it, in the order of sortRoutes.                    *)
THEOREM AnswerComesFirst ==
  ASSUME NEW s, IsSlice(s), NEW t \in SortRoutes(s), NEW q,
         NEW i \in Answering(t, q), NEW j \in DOMAIN t, MatchesRequest(t[j].match, q)
  PROVE  ~Before(t[j].match, t[i].match)
<1>1. InPrecedence(t) /\ DOMAIN t = DOMAIN s /\ IsMatch(t[i].match)
  BY SortedInPrecedence DEF Answering
<1>2. DOMAIN t \subseteq Int /\ \A k \in DOMAIN t : k > 0
  BY <1>1 DEF IsSlice
<1>3. i \in DOMAIN t /\ \A k \in 1..(i - 1) : ~MatchesRequest(t[k].match, q)
  BY DEF Answering
<1>4. CASE j < i
  <2>1. j \in 1..(i - 1)
    BY <1>2, <1>3, <1>4
  <2> QED
    BY <1>3, <2>1
<1>5. CASE j = i
  BY <1>1, <1>5, BeforeIsStrictWeakOrder
<1>6. CASE i < j
  BY <1>1, <1>3, <1>6 DEF InPrecedence
<1> QED
  BY <1>2, <1>3, <1>4, <1>5, <1>6

----------------------------------------------------------------------------
(* Sorting permutes.                                                       *)

LEMMA FunctionIsSeq ==
  ASSUME NEW E, NEW n \in Nat, NEW f \in [1..n -> E]
  PROVE  f \in Seq(E) /\ Len(f) = n
<1>1. f \in Seq(E)
  BY SeqDef
<1>2. Len(f) \in Nat /\ DOMAIN f = 1..Len(f)
  BY <1>1, LenProperties
<1>3. 1..Len(f) = 1..n
  BY <1>2
<1> QED
  BY <1>1, <1>2, <1>3

LEMMA SortIsPermutation ==
  ASSUME NEW s, IsSlice(s), NEW t \in SortRoutes(s)
  PROVE  \E p \in [DOMAIN s -> DOMAIN s] :
           /\ t = [n \in DOMAIN s |-> s[p[n]]]
           /\ \A i \in DOMAIN s : \E n \in DOMAIN s : p[n] = i
<1>1. \E p \in [DOMAIN s -> DOMAIN s] :
         /\ t = [n \in DOMAIN s |-> s[p[n]]]
         /\ \A m, n \in DOMAIN s : m # n => p[m] # p[n]
  <2>1. CASE Len(s) <= StableUpTo
    <3>1. PICK p \in [DOMAIN s -> DOMAIN s] :
            /\ t = [n \in DOMAIN s |-> s[p[n]]]
            /\ \A m, n \in DOMAIN s : m < n => p[m] # p[n]
      BY <2>1, ShortSortIsStable
    <3>2. ASSUME NEW m \in DOMAIN s, NEW n \in DOMAIN s, m # n
          PROVE  p[m] # p[n]
      <4>1. m \in Int /\ n \in Int
        BY SliceDomain
      <4>2. m < n \/ n < m
        BY <3>2, <4>1
      <4> QED
        BY <3>1, <4>2
    <3> QED
      BY <3>1, <3>2
  <2>2. CASE ~(Len(s) <= StableUpTo)
    BY <2>2 DEF SortRoutes, SortedAnyhow, Arrangements
  <2> QED
    BY <2>1, <2>2
<1>2. PICK p \in [DOMAIN s -> DOMAIN s] :
         /\ t = [n \in DOMAIN s |-> s[p[n]]]
         /\ \A m, n \in DOMAIN s : m # n => p[m] # p[n]
  BY <1>1
<1>3. p \in Injection(DOMAIN s, DOMAIN s)
  BY <1>2 DEF Injection, IsInjective
<1>4. p \in Surjection(DOMAIN s, DOMAIN s)
  BY <1>3, FS_Injection, SliceDomain
<1> QED
  BY <1>2, <1>4 DEF Surjection

(* Sorting neither drops a route nor adds one.                             *)
LEMMA SortedSlice ==
  ASSUME NEW s, IsSlice(s), NEW t \in SortRoutes(s)
  PROVE  IsSlice(t) /\ IsSeq(t) /\ ToSet(t) = ToSet(s) /\ DOMAIN t = DOMAIN s /\ Len(t) = Len(s)
<1>1. PICK p \in [DOMAIN s -> DOMAIN s] :
        /\ t = [n \in DOMAIN s |-> s[p[n]]]
        /\ \A i \in DOMAIN s : \E n \in DOMAIN s : p[n] = i
  BY SortIsPermutation
<1>2. ToSet(t) = ToSet(s)
  <2>1. \A n \in DOMAIN t : t[n] \in ToSet(s)
    BY <1>1 DEF ToSet
  <2>2. \A i \in DOMAIN s : \E n \in DOMAIN t : t[n] = s[i]
    BY <1>1
  <2> QED
    BY <2>1, <2>2 DEF ToSet
<1>3. Len(s) \in Nat /\ DOMAIN s = 1..Len(s) /\ t \in [1..Len(s) -> ToSet(t)]
  BY <1>1 DEF IsSlice, ToSet
<1>4. t \in Seq(ToSet(t)) /\ Len(t) = Len(s)
  BY <1>3, FunctionIsSeq
<1>5. DOMAIN t = DOMAIN s
  BY <1>1
<1>6. \A i \in DOMAIN t : IsMatch(t[i].match)
  BY SortedInPrecedence
<1> QED
  BY <1>2, <1>3, <1>4, <1>5, <1>6 DEF IsSlice, IsSeq

(* Of two equal matches of one HTTPRoute the first rule's comes first.     *)
InRuleOrder(s) ==
  \A i, j \in DOMAIN s :
    /\ s[i].route = s[j].route /\ Earlier(s[j].branch, s[i].branch)
    /\ Key(s[j].match) = Key(s[i].match)
    => \E k \in DOMAIN s : k < i /\ s[k] = s[j]

LEMMA EqualKeysTie ==
  ASSUME NEW a, NEW b, IsMatch(a), IsMatch(b), Key(a) = Key(b)
  PROVE  ~Before(a, b) /\ ~Before(b, a)
<1>1. \A k \in 1..5 : Key(a)[k] \in Int
  BY KeyType
<1> QED
  BY <1>1, BeforeCases

(* As long as the slice is short, sorting it keeps the order of the rules. *)
THEOREM SortKeepsRuleOrder ==
  ASSUME NEW s, IsSlice(s), Len(s) <= StableUpTo, InRuleOrder(s), NEW t \in SortRoutes(s)
  PROVE  InRuleOrder(t)
<1>1. PICK p \in [DOMAIN s -> DOMAIN s] :
        /\ t = [n \in DOMAIN s |-> s[p[n]]]
        /\ \A m, n \in DOMAIN s : m < n =>
              /\ p[m] # p[n]
              /\ Before(t[m].match, t[n].match) \/ p[m] < p[n]
  BY ShortSortIsStable
<1>2. p \in Injection(DOMAIN s, DOMAIN s)
  <2> SUFFICES ASSUME NEW m \in DOMAIN s, NEW n \in DOMAIN s, m # n
               PROVE  p[m] # p[n]
    BY DEF Injection, IsInjective
  <2>1. m \in Int /\ n \in Int
    BY SliceDomain
  <2>2. m < n \/ n < m
    BY <2>1
  <2> QED
    BY <1>1, <2>2
<1>3. p \in Surjection(DOMAIN s, DOMAIN s)
  BY <1>2, FS_Injection, SliceDomain
<1>4. DOMAIN t = DOMAIN s /\ \A n \in DOMAIN s : t[n] = s[p[n]]
  BY <1>1
<1> SUFFICES ASSUME NEW i \in DOMAIN s, NEW j \in DOMAIN s,
                    s[p[i]].route = s[p[j]].route, Earlier(s[p[j]].branch, s[p[i]].branch),
                    Key(s[p[j]].match) = Key(s[p[i]].match)
             PROVE  \E k \in DOMAIN s : k < i /\ t[k] = t[j]
  BY <1>4 DEF InRuleOrder
<1>5. p[i] \in DOMAIN s /\ p[j] \in DOMAIN s
  OBVIOUS
<1>6. PICK m \in DOMAIN s : m < p[i] /\ s[m] = s[p[j]]
  BY <1>5 DEF InRuleOrder
<1>7. PICK k \in DOMAIN s : p[k] = m
  BY <1>3 DEF Surjection
<1>8. t[k] = t[j] /\ t[k] = s[m] /\ t[i] = s[p[i]]
  BY <1>4, <1>6, <1>7
<1>9. ~Before(t[i].match, t[k].match)
  <2>1. IsMatch(s[m].match) /\ IsMatch(s[p[i]].match) /\ Key(s[m].match) = Key(s[p[i]].match)
    BY <1>5, <1>6 DEF IsSlice
  <2> QED
    BY <1>8, <2>1, EqualKeysTie
<1>10. i \in Int /\ k \in Int /\ m \in Int /\ p[i] \in Int
  BY <1>5, SliceDomain
<1>11. ~(i < k)
  BY <1>1, <1>6, <1>7, <1>9, <1>10
<1>12. i # k
  BY <1>6, <1>7, <1>10
<1> QED
  BY <1>8, <1>10, <1>11, <1>12

(* So does appending the routes of one HTTPRoute, all of them or again.    *)
LEMMA AppendKeepsRuleOrder ==
  ASSUME NEW E, NEW s \in Seq(E), NEW t \in Seq(E), InRuleOrder(s), InRuleOrder(t), NEW r,
         \A j \in DOMAIN t : t[j].route = r,
         \A i \in DOMAIN s : s[i].route = r => ToSet(t) \subseteq ToSet(s)
  PROVE  InRuleOrder(s \o t)
<1> DEFINE u == s \o t
<1>1. /\ Len(s) \in Nat /\ DOMAIN s = 1..Len(s)
      /\ Len(t) \in Nat /\ DOMAIN t = 1..Len(t)
  BY LenProperties
<1>2. /\ DOMAIN u = 1..(Len(s) + Len(t))
      /\ \A i \in DOMAIN s : u[i] = s[i]
      /\ \A i \in 1..(Len(s) + Len(t)) : i > Len(s) => u[i] = t[i - Len(s)]
  BY <1>1, ConcatProperties, LenProperties
<1> HIDE DEF u
<1> SUFFICES ASSUME NEW i \in DOMAIN u, NEW j \in DOMAIN u,
                    u[i].route = u[j].route, Earlier(u[j].branch, u[i].branch),
                    Key(u[j].match) = Key(u[i].match)
             PROVE  \E k \in DOMAIN u : k < i /\ u[k] = u[j]
  BY DEF InRuleOrder, u
<1>3. CASE i <= Len(s)
  <2>1. i \in DOMAIN s /\ u[i] = s[i]
    BY <1>1, <1>2, <1>3
  <2>2. PICK m \in DOMAIN s : s[m] = u[j]
    <3>1. CASE j <= Len(s)
      BY <1>1, <1>2, <3>1
    <3>2. CASE j > Len(s)
      <4>1. j - Len(s) \in DOMAIN t /\ u[j] = t[j - Len(s)]
        BY <1>1, <1>2, <3>2
      <4>2. s[i].route = r
        BY <2>1, <4>1
      <4>3. u[j] \in ToSet(s)
        BY <2>1, <4>1, <4>2 DEF ToSet
      <4> QED
        BY <4>3 DEF ToSet
    <3> QED
      BY <1>1, <1>2, <3>1, <3>2
  <2>3. PICK k \in DOMAIN s : k < i /\ s[k] = s[m]
    BY <2>1, <2>2 DEF InRuleOrder
  <2>4. k \in DOMAIN u /\ u[k] = u[j]
    BY <1>1, <1>2, <2>2, <2>3
  <2> QED
    BY <2>3, <2>4
<1>4. CASE i > Len(s)
  <2>1. i - Len(s) \in DOMAIN t /\ u[i] = t[i - Len(s)]
    BY <1>1, <1>2, <1>4
  <2>2. CASE j <= Len(s)
    BY <1>1, <1>2, <1>4, <2>2
  <2>3. CASE j > Len(s)
    <3>1. j - Len(s) \in DOMAIN t /\ u[j] = t[j - Len(s)]
      BY <1>1, <1>2, <2>3
    <3>2. PICK k \in DOMAIN t : k < i - Len(s) /\ t[k] = t[j - Len(s)]
      BY <2>1, <3>1 DEF InRuleOrder
    <3>3. k + Len(s) \in DOMAIN u /\ k + Len(s) > Len(s) /\ k + Len(s) < i /\ k + Len(s) - Len(s) = k
      BY <1>1, <1>2, <1>4, <3>2
    <3>4. u[k + Len(s)] = t[k]
      BY <1>2, <3>3
    <3> QED
      BY <3>1, <3>2, <3>3, <3>4
  <2> QED
    BY <1>1, <1>2, <2>2, <2>3
<1> QED
  BY <1>1, <1>2, <1>3, <1>4

----------------------------------------------------------------------------
(* The branches of an HTTPRoute and their entries.                         *)

LEMMA SeqFacts ==
  ASSUME NEW s, IsSeq(s)
  PROVE  /\ Len(s) \in Nat /\ DOMAIN s = 1..Len(s) /\ IsFiniteSet(DOMAIN s)
         /\ DOMAIN s \subseteq Nat /\ DOMAIN s \subseteq Int
<1>1. Len(s) \in Nat /\ DOMAIN s = 1..Len(s)
  BY LenProperties DEF IsSeq
<1>2. IsFiniteSet(1..Len(s))
  BY <1>1, FS_Interval
<1> QED
  BY <1>1, <1>2

LEMMA MatchesOfRule ==
  ASSUME NEW rule, IsHTTPRule(rule)
  PROVE  /\ IsFiniteSet(DOMAIN MatchesOf(rule)) /\ DOMAIN MatchesOf(rule) \subseteq Nat
         /\ \A j \in DOMAIN MatchesOf(rule) : IsHTTPMatch(MatchesOf(rule)[j])
<1>1. CASE rule.matches = <<>>
  <2> DEFINE m == [type |-> "Unset", path |-> Root, headers |-> {}, params |-> {}]
  <2>1. MatchesOf(rule) = <<m>>
    BY <1>1 DEF MatchesOf
  <2>2. DOMAIN <<m>> = {1} /\ <<m>>[1] = m
    OBVIOUS
  <2>3. IsHTTPMatch(m)
    BY FS_EmptySet DEF IsHTTPMatch, Root, Paths
  <2> HIDE DEF m
  <2>4. IsFiniteSet({1})
    BY FS_Singleton
  <2> QED
    BY <2>1, <2>2, <2>3, <2>4
<1>2. CASE rule.matches # <<>>
  BY <1>2, SeqFacts DEF MatchesOf, IsHTTPRule
<1> QED
  BY <1>1, <1>2

LEMMA BranchesOfRoute ==
  ASSUME NEW route, IsHTTPRoute(route)
  PROVE  /\ IsFiniteSet(Branches(route)) /\ IsFiniteSet(Kept(route))
         /\ \A b \in Branches(route) :
              /\ b = <<b[1], b[2]>> /\ b[1] \in Nat /\ b[2] \in Nat
              /\ b[1] \in DOMAIN route.rules /\ IsHTTPRule(route.rules[b[1]])
              /\ IsHTTPMatch(Source(route, b))
<1> DEFINE D == DOMAIN route.rules
           M(i) == DOMAIN MatchesOf(route.rules[i])
           f == [i \in D |-> {i} \X M(i)]
           T == {f[i] : i \in D}
<1>1. IsFiniteSet(D) /\ D \subseteq Nat /\ \A i \in D : IsHTTPRule(route.rules[i])
  BY SeqFacts DEF IsHTTPRoute
<1>2. \A i \in D : IsFiniteSet(M(i)) /\ M(i) \subseteq Nat
  BY <1>1, MatchesOfRule
<1>3. \A i \in D : IsFiniteSet({i} \X M(i))
  BY <1>2, FS_Product, FS_Singleton
<1>4. f \in Surjection(D, T)
  BY DEF Surjection
<1>5. IsFiniteSet(T)
  BY <1>1, <1>4, FS_Surjection
<1>6. \A t \in T : IsFiniteSet(t)
  BY <1>3
<1>7. Branches(route) = UNION T
  BY DEF Branches
<1>8. IsFiniteSet(Branches(route))
  BY <1>5, <1>6, <1>7, FS_UNION
<1>9. IsFiniteSet(Kept(route))
  BY <1>8, FS_Subset DEF Kept
<1>10. ASSUME NEW b \in Branches(route)
       PROVE  /\ b = <<b[1], b[2]>> /\ b[1] \in Nat /\ b[2] \in Nat
              /\ b[1] \in DOMAIN route.rules /\ IsHTTPRule(route.rules[b[1]])
              /\ IsHTTPMatch(Source(route, b))
  <2>1. PICK i \in D : b \in {i} \X M(i)
    BY DEF Branches
  <2>2. b = <<b[1], b[2]>> /\ b[1] = i /\ b[2] \in M(i)
    BY <2>1
  <2>3. IsHTTPMatch(Source(route, b))
    BY <1>1, <2>2, MatchesOfRule DEF Source
  <2> QED
    BY <1>1, <1>2, <2>2, <2>3
<1> QED
  BY <1>8, <1>9, <1>10

LEMMA BranchesOrdered ==
  ASSUME NEW route, IsHTTPRoute(route)
  PROVE  \E R : /\ IsStrictOrder(R, Kept(route))
                /\ \A b, c \in Kept(route) : <<b, c>> \in R <=> Earlier(b, c)
<1> DEFINE K == Kept(route)
           R == {p \in K \X K : Earlier(p[1], p[2])}
<1>1. \A b, c \in K : <<b, c>> \in R <=> Earlier(b, c)
  OBVIOUS
<1> HIDE DEF R
<1>2. \A b \in K : b = <<b[1], b[2]>> /\ b[1] \in Nat /\ b[2] \in Nat
  BY BranchesOfRoute DEF Kept
<1>3. ASSUME NEW x \in K, NEW y \in K, NEW z \in K
      PROVE  /\ <<x, x>> \notin R
             /\ x # y => <<x, y>> \in R \/ <<y, x>> \in R
             /\ <<x, y>> \in R /\ <<y, z>> \in R => <<x, z>> \in R
  <2>1. ~Earlier(x, x)
    BY <1>2 DEF Earlier
  <2>2. x # y => Earlier(x, y) \/ Earlier(y, x)
    BY <1>2 DEF Earlier
  <2>3. Earlier(x, y) /\ Earlier(y, z) => Earlier(x, z)
    BY <1>2 DEF Earlier
  <2> QED
    BY <1>1, <2>1, <2>2, <2>3
<1> QED
  BY <1>1, <1>3 DEF IsStrictOrder

LEMMA EntryOfBranch ==
  ASSUME NEW route, NEW b
  PROVE  Entry(route, b).route = route /\ Entry(route, b).branch = b
BY DEF Entry

(* The routes of an HTTPRoute are those of its translatable branches, in   *)
(* the order of its rules and their matches.                               *)
THEOREM UnsortedInRuleOrder ==
  ASSUME NEW route, IsHTTPRoute(route)
  PROVE  /\ IsSeq(Unsorted(route))
         /\ Entries(route) = {Entry(route, b) : b \in Kept(route)}
         /\ \A m, n \in DOMAIN Unsorted(route) :
              m < n => Earlier(Unsorted(route)[m].branch, Unsorted(route)[n].branch)
<1> DEFINE K == Kept(route)
           N == Cardinality(K)
           pick == [n \in 1..N |-> CHOOSE b \in K : Position(route, b) = n]
           u == Unsorted(route)
<1>1. IsFiniteSet(K) /\ N \in Nat
  BY BranchesOfRoute, FS_CardinalityType
<1>2. PICK R : IsStrictOrder(R, K) /\ \A b, c \in K : <<b, c>> \in R <=> Earlier(b, c)
  BY BranchesOrdered
<1>3. \A b \in K : Position(route, b) = Rank(R, K, b)
  <2> SUFFICES ASSUME NEW b \in K
               PROVE  {c \in K : c = b \/ Earlier(c, b)} = UpTo(R, K, b)
    BY DEF Position, Rank
  <2> QED
    BY <1>2 DEF UpTo
<1>4. \A n \in 1..N : \E b \in K : Position(route, b) = n
  BY <1>1, <1>2, <1>3, RankIsPermutation
<1>5. \A n \in 1..N : pick[n] \in K /\ Position(route, pick[n]) = n
  BY <1>4
<1>6. u = [n \in 1..N |-> Entry(route, pick[n])]
  BY DEF Unsorted
<1> HIDE DEF pick
<1>7. u \in [1..N -> ToSet(u)]
  BY <1>6 DEF ToSet
<1>8. u \in Seq(ToSet(u))
  BY <1>1, <1>7, FunctionIsSeq
<1>9. \A b \in K : Position(route, b) \in 1..N /\ pick[Position(route, b)] = b
  <2> SUFFICES ASSUME NEW b \in K
               PROVE  Position(route, b) \in 1..N /\ pick[Position(route, b)] = b
    OBVIOUS
  <2>1. Position(route, b) \in 1..N
    BY <1>1, <1>3, RankType
  <2>2. Rank(R, K, pick[Position(route, b)]) = Rank(R, K, b)
    BY <1>3, <1>5, <2>1
  <2> QED
    BY <1>1, <1>2, <1>5, <2>1, <2>2, RankIsPermutation
<1>10. Entries(route) = {Entry(route, b) : b \in K}
  <2>1. \A b \in K : u[Position(route, b)] = Entry(route, b)
    BY <1>6, <1>9
  <2> QED
    BY <1>5, <1>6, <1>9, <2>1 DEF Entries, ToSet
<1>11. ASSUME NEW m \in DOMAIN u, NEW n \in DOMAIN u, m < n
       PROVE  Earlier(u[m].branch, u[n].branch)
  <2>1. m \in 1..N /\ n \in 1..N
    BY <1>6
  <2>2. u[m].branch = pick[m] /\ u[n].branch = pick[n]
    BY <1>6, <2>1, EntryOfBranch
  <2>3. pick[m] \in K /\ pick[n] \in K /\ Rank(R, K, pick[m]) = m /\ Rank(R, K, pick[n]) = n
    BY <1>3, <1>5, <2>1
  <2>4. pick[m] # pick[n]
    BY <1>1, <1>11, <2>1, <2>3
  <2>5. ~(<<pick[n], pick[m]>> \in R)
    BY <1>1, <1>2, <1>11, <2>1, <2>3, RankIncreases
  <2>6. <<pick[m], pick[n]>> \in R
    BY <1>2, <2>3, <2>4, <2>5 DEF IsStrictOrder
  <2> QED
    BY <1>2, <2>2, <2>3, <2>6
<1> QED
  BY <1>8, <1>10, <1>11 DEF IsSeq

(* What the match of an entry is.                                          *)

Separated(m) == [m EXCEPT !.kind = "prefix", !.path.slash = TRUE]

LEMMA URLRewriteType ==
  ASSUME NEW rule, IsHTTPRule(rule), URLRewrite(rule) # NoRewrite
  PROVE  URLRewrite(rule).modifier # "Unset" /\ URLRewrite(rule).to \in Paths
<1> DEFINE rewrites == {i \in DOMAIN rule.filters :
                          i <= LastProcessed(rule) /\ rule.filters[i].type = "URLRewrite"}
           last == rule.filters[Max(rewrites)]
<1>1. URLRewrite(rule) = IF rewrites = {} \/ last.modifier = "Unset" THEN NoRewrite ELSE last
  BY DEF URLRewrite
<1>2. rewrites # {} /\ last.modifier # "Unset" /\ URLRewrite(rule) = last
  BY <1>1
<1>3. IsFiniteSet(DOMAIN rule.filters) /\ DOMAIN rule.filters \subseteq Int
  BY SeqFacts DEF IsHTTPRule
<1>4. rewrites \in SUBSET Int /\ IsFiniteSet(rewrites)
  BY <1>3, FS_Subset
<1>5. Max(rewrites) \in rewrites
  BY <1>2, <1>4, MinMax
<1>6. last.to \in Paths
  BY <1>2, <1>5 DEF IsHTTPRule
<1> QED
  BY <1>2, <1>6

LEMMA TranslatedMatch ==
  ASSUME NEW match, IsHTTPMatch(match), match.type # "Unsupported"
  PROVE  LET m == TranslateMatch(match)
         IN  /\ IsMatch(m)
             /\ m.headers = match.headers /\ m.params = match.params
             /\ \/ /\ match.type = "Unset" \/ (match.type = "PathPrefix" /\ match.path = Root)
                   /\ m.kind = "prefix" /\ m.path = Root
                \/ /\ match.type = "PathPrefix" /\ match.path # Root
                   /\ m.kind = "separated" /\ m.path = [match.path EXCEPT !.slash = FALSE]
                \/ match.type = "Exact" /\ m.kind = "path" /\ m.path = match.path
                \/ match.type = "RegularExpression" /\ m.kind = "regex" /\ m.path = match.path
<1> DEFINE m == TranslateMatch(match)
<1>1. m.headers = match.headers /\ m.params = match.params
  BY DEF TranslateMatch, IsHTTPMatch
<1>2. CASE match.type = "Unset" \/ (match.type = "PathPrefix" /\ match.path = Root)
  <2>1. m.kind = "prefix" /\ m.path = Root
    BY <1>2 DEF TranslateMatch
  <2>2. Root \in Paths
    BY DEF Root, Paths
  <2>3. IsMatch(m)
    BY <1>1, <2>1, <2>2 DEF IsMatch, IsHTTPMatch
  <2> QED
    BY <1>1, <1>2, <2>1, <2>3
<1>3. CASE match.type = "PathPrefix" /\ match.path # Root
  <2>1. m.kind = "separated" /\ m.path = [match.path EXCEPT !.slash = FALSE]
    BY <1>3 DEF TranslateMatch
  <2>2. m.path \in Paths
    BY <1>3, <2>1 DEF Paths, IsHTTPMatch
  <2>3. IsMatch(m)
    BY <1>1, <2>1, <2>2 DEF IsMatch, IsHTTPMatch
  <2> QED
    BY <1>1, <1>3, <2>1, <2>3
<1>4. CASE match.type = "Exact"
  <2>1. m.kind = "path" /\ m.path = match.path
    BY <1>4 DEF TranslateMatch
  <2>2. IsMatch(m)
    BY <1>1, <1>4, <2>1 DEF IsMatch, IsHTTPMatch
  <2> QED
    BY <1>1, <1>4, <2>1, <2>2
<1>5. CASE match.type = "RegularExpression"
  <2>1. m.kind = "regex" /\ m.path = match.path
    BY <1>5 DEF TranslateMatch
  <2>2. IsMatch(m)
    BY <1>1, <1>5, <2>1 DEF IsMatch, IsHTTPMatch
  <2> QED
    BY <1>1, <1>5, <2>1, <2>2
<1> QED
  BY <1>2, <1>3, <1>4, <1>5 DEF IsHTTPMatch

LEMMA MatchOfEntry ==
  ASSUME NEW route, IsHTTPRoute(route), NEW b \in Kept(route)
  PROVE  LET m == TranslateMatch(Source(route, b))
             e == Entry(route, b)
         IN  /\ e.match = m \/ (m.kind = "separated" /\ e.match = Separated(m))
             /\ IsMatch(e.match)
<1> DEFINE m == TranslateMatch(Source(route, b))
           e == Entry(route, b)
<1>1. IsHTTPMatch(Source(route, b)) /\ Source(route, b).type # "Unsupported"
  BY BranchesOfRoute DEF Kept, Translatable
<1>2. IsMatch(m)
  BY <1>1, TranslatedMatch
<1>3. \A w : MatchWithRewrite(m, w) = m \/ (m.kind = "separated" /\ MatchWithRewrite(m, w) = Separated(m))
  BY DEF MatchWithRewrite, Separated
<1>4. e.match = m \/ \E w : e.match = MatchWithRewrite(m, w)
  BY DEF Entry
<1>5. e.match = m \/ (m.kind = "separated" /\ e.match = Separated(m))
  BY <1>3, <1>4
<1>6. ASSUME m.kind = "separated" PROVE IsMatch(Separated(m))
  <2>1. /\ m.path \in Paths /\ IsFiniteSet(m.headers) /\ IsFiniteSet(m.params)
    BY <1>2, <1>6 DEF IsMatch
  <2>2. /\ Separated(m).kind = "prefix" /\ Separated(m).path = [m.path EXCEPT !.slash = TRUE]
        /\ Separated(m).headers = m.headers /\ Separated(m).params = m.params
    <3>1. m = [kind |-> m.kind, path |-> m.path, headers |-> m.headers, params |-> m.params]
      BY <1>1 DEF TranslateMatch, IsHTTPMatch
    <3> HIDE DEF m
    <3> QED
      BY <3>1 DEF Separated
  <2>3. Separated(m).path \in Paths
    BY <2>1, <2>2 DEF Paths
  <2> QED
    BY <2>1, <2>2, <2>3 DEF IsMatch
<1> QED
  BY <1>2, <1>5, <1>6

(* The separator never stays outside of the match when what replaces the   *)
(* prefix ends with a slash (httproute.go:174).                            *)
THEOREM NewPrefixTakesSeparator ==
  ASSUME NEW route, IsHTTPRoute(route), NEW b \in Kept(route),
         LET e == Entry(route, b)
         IN  e.rewrite # NoRewrite /\ e.rewrite.modifier = "ReplacePrefixMatch" /\ e.rewrite.to.slash
  PROVE  Entry(route, b).match.kind # "separated"
<1> DEFINE e == Entry(route, b)
           m == TranslateMatch(Source(route, b))
           w == URLRewrite(route.rules[b[1]])
<1>1. e.match = MatchWithRewrite(m, w) /\ e.rewrite = w
  BY DEF Entry
<1>2. w # NoRewrite /\ w.modifier = "ReplacePrefixMatch" /\ w.to.slash
  BY <1>1
<1>3. w.to \in Paths
  BY <1>2, URLRewriteType, BranchesOfRoute DEF Kept
<1>4. Len(w.to.words) \in Nat
  BY <1>3, LenProperties DEF Paths
<1>5. Letters(w.to) > 0
  BY <1>2, <1>4 DEF Letters
<1>6. CASE m.kind = "separated"
  <2>1. e.match = Separated(m)
    BY <1>1, <1>2, <1>5, <1>6 DEF MatchWithRewrite, Separated
  <2>2. m = [kind |-> m.kind, path |-> m.path, headers |-> m.headers, params |-> m.params]
    <3>1. IsHTTPMatch(Source(route, b)) /\ Source(route, b).type # "Unsupported"
      BY BranchesOfRoute DEF Kept, Translatable
    <3> QED
      BY <3>1 DEF TranslateMatch, IsHTTPMatch
  <2> HIDE DEF m
  <2>3. Separated(m).kind = "prefix"
    BY <2>2 DEF Separated
  <2> QED
    BY <2>1, <2>3
<1>7. CASE m.kind # "separated"
  BY <1>1, <1>7 DEF MatchWithRewrite
<1> QED
  BY <1>6, <1>7

LEMMA EntrySound ==
  ASSUME NEW route, IsHTTPRoute(route), NEW e \in Entries(route)
  PROVE  /\ e.branch \in Kept(route) /\ e = Entry(route, e.branch)
         /\ e.route = route /\ IsMatch(e.match)
<1>1. PICK b \in Kept(route) : e = Entry(route, b)
  BY UnsortedInRuleOrder
<1>2. e.route = route /\ e.branch = b
  BY <1>1, EntryOfBranch
<1>3. IsMatch(e.match)
  BY <1>1, MatchOfEntry
<1> QED
  BY <1>1, <1>2, <1>3

LEMMA UnsortedIsSlice ==
  ASSUME NEW route, IsHTTPRoute(route)
  PROVE  IsSlice(Unsorted(route)) /\ InRuleOrder(Unsorted(route))
<1> DEFINE u == Unsorted(route)
<1>1. /\ IsSeq(u)
      /\ \A m, n \in DOMAIN u : m < n => Earlier(u[m].branch, u[n].branch)
  BY UnsortedInRuleOrder
<1>2. Len(u) \in Nat /\ DOMAIN u = 1..Len(u) /\ DOMAIN u \subseteq Int
  BY <1>1, SeqFacts
<1>3. \A n \in DOMAIN u : u[n] \in Entries(route)
  BY DEF Entries, ToSet
<1>4. \A n \in DOMAIN u : IsMatch(u[n].match) /\ u[n].branch \in Kept(route)
  BY <1>3, EntrySound
<1>5. \A n \in DOMAIN u : u[n].branch[1] \in Nat /\ u[n].branch[2] \in Nat
  BY <1>4, BranchesOfRoute DEF Kept
<1> HIDE DEF u
<1>6. ASSUME NEW i \in DOMAIN u, NEW j \in DOMAIN u, Earlier(u[j].branch, u[i].branch)
      PROVE  j < i
  <2>1. ~Earlier(u[i].branch, u[j].branch) /\ i # j
    BY <1>5, <1>6 DEF Earlier
  <2>2. i \in Int /\ j \in Int
    BY <1>2
  <2> QED
    BY <1>1, <2>1, <2>2
<1> QED
  BY <1>2, <1>4, <1>6 DEF IsSlice, InRuleOrder, u

(* What an HTTPRoute adds to a virtual host.                               *)
LEMMA SortedEntries ==
  ASSUME NEW route, IsHTTPRoute(route), NEW t \in SortRoutes(Unsorted(route))
  PROVE  /\ IsSeq(t) /\ ToSet(t) = Entries(route)
         /\ \A i \in DOMAIN t : t[i].route = route
         /\ Len(t) <= StableUpTo => InRuleOrder(t)
<1>1. IsSlice(Unsorted(route)) /\ InRuleOrder(Unsorted(route))
  BY UnsortedIsSlice
<1>2. IsSeq(t) /\ ToSet(t) = Entries(route) /\ Len(t) = Len(Unsorted(route))
  BY <1>1, SortedSlice DEF Entries
<1>3. \A i \in DOMAIN t : t[i] \in Entries(route)
  BY <1>2 DEF ToSet
<1> QED
  BY <1>1, <1>2, <1>3, EntrySound, SortKeepsRuleOrder
=============================================================================
