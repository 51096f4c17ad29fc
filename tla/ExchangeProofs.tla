---------------------------- MODULE ExchangeProofs ----------------------------
(***************************************************************************)
(* Proofs about Actor, for any tree of actors and any handlers, and about  *)
(* Messages and Exchange, for any ids, params and messages of peers.       *)
(*                                                                         *)
(* Feed, HandleClose and the lookups are recursive in the children of an   *)
(* actor.  That such a function exists, and induction over the tree, rest  *)
(* on one property of the children: every set of actors has one without    *)
(* children in the set.  It is an invariant: the program adds no cycles.   *)
(***************************************************************************)
EXTENDS Exchange, SequenceTheorems, FiniteSetTheorems, WellFoundedInduction, TLAPS

-----------------------------------------------------------------------------
(* Recursion over a tree: kids[a] is the sequence of the children of a.    *)

Grounded(S, kids) ==
  \A T \in SUBSET S : T # {} =>
    \E a \in T : \A i \in DOMAIN kids[a] : kids[a][i] \notin T

\* What g makes of a sequence of nodes.
Each(g, s) == [i \in DOMAIN s |-> g[s[i]]]

\* h is defined for D, which with a node has all that are below, by recursion:
\* F[a] makes its value for a of those for the children.
Part(D, h, S, kids, V, F) ==
  /\ D \in SUBSET S /\ h \in [D -> V]
  /\ \A a \in D : \A i \in DOMAIN kids[a] : kids[a][i] \in D
  /\ \A a \in D : h[a] = F[a][Each(h, kids[a])]

Solves(h, S, kids, V, F) ==
  h \in [S -> V] /\ \A a \in S : h[a] = F[a][Each(h, kids[a])]

LEMMA JoinType ==
  ASSUME NEW V, NEW s \in Seq(V), NEW t \in Seq(V)
  PROVE  s \o t \in Seq(V)
  BY ConcatProperties

LEMMA EachSame ==
  ASSUME NEW s, NEW g, NEW h, \A i \in DOMAIN s : g[s[i]] = h[s[i]]
  PROVE  Each(g, s) = Each(h, s)
  BY DEF Each

LEMMA EachType ==
  ASSUME NEW S, NEW V, NEW s \in Seq(S), NEW g, \A i \in DOMAIN s : g[s[i]] \in V
  PROVE  Each(g, s) \in Seq(V) /\ DOMAIN Each(g, s) = DOMAIN s /\ Len(Each(g, s)) = Len(s)
<1>1. DOMAIN s = 1 .. Len(s) /\ Len(s) \in Nat
  BY LenProperties
<1>2. Each(g, s) = [i \in 1 .. Len(s) |-> g[s[i]]]
  BY <1>1 DEF Each
<1>3. QED
  BY <1>1, <1>2, IsASeq, LenProperties

LEMMA PartsAgree ==
  ASSUME NEW S, NEW kids, Grounded(S, kids), NEW V, NEW F,
         NEW D, NEW g, Part(D, g, S, kids, V, F),
         NEW E, NEW h, Part(E, h, S, kids, V, F),
         NEW x, x \in D, x \in E
  PROVE  g[x] = h[x]
<1> DEFINE T == {a \in D : a \in E /\ g[a] # h[a]}
<1>1. SUFFICES ASSUME g[x] # h[x] PROVE FALSE
  OBVIOUS
<1>2. T \in SUBSET S /\ T # {}
  BY <1>1 DEF Part
<1>3. PICK a \in T : \A i \in DOMAIN kids[a] : kids[a][i] \notin T
  BY <1>2 DEF Grounded
<1>4. \A i \in DOMAIN kids[a] : g[kids[a][i]] = h[kids[a][i]]
  BY <1>3 DEF Part
<1>5. Each(g, kids[a]) = Each(h, kids[a])
  BY <1>4, EachSame
<1>6. g[a] = h[a]
  BY <1>5 DEF Part
<1>7. QED
  BY <1>6

LEMMA TreeRecursion ==
  ASSUME NEW S, NEW kids \in [S -> Seq(S)], Grounded(S, kids),
         NEW V, NEW F \in [S -> [Seq(V) -> V]]
  PROVE  \E g : Solves(g, S, kids, V, F)
<1> DEFINE P(D, h) == Part(D, h, S, kids, V, F)
           At(a, v) == \E D \in SUBSET S : \E h \in [D -> V] : a \in D /\ P(D, h) /\ v = h[a]
           Good == {a \in S : \E v \in V : At(a, v)}
           g == [a \in Good |-> CHOOSE v \in V : At(a, v)]
<1>1. ASSUME NEW D, NEW h, P(D, h), NEW a \in D
      PROVE  a \in Good /\ g[a] = h[a]
  <2>1. D \in SUBSET S /\ h \in [D -> V] /\ a \in S
    BY <1>1 DEF Part
  <2>2. At(a, h[a])
    BY <1>1, <2>1
  <2>3. h[a] \in V
    BY <2>1
  <2>4. a \in Good
    BY <2>1, <2>2, <2>3
  <2> HIDE DEF At
  <2>5. At(a, g[a])
    BY <2>2, <2>3, <2>4
  <2> USE DEF At
  <2>6. PICK E \in SUBSET S : \E k \in [E -> V] : a \in E /\ P(E, k) /\ g[a] = k[a]
    BY <2>5
  <2>7. PICK k \in [E -> V] : a \in E /\ P(E, k) /\ g[a] = k[a]
    BY <2>6
  <2> HIDE DEF At, Good, g, P
  <2>8. k[a] = h[a]
    BY <1>1, <2>7, PartsAgree DEF P
  <2>9. QED
    BY <2>4, <2>7, <2>8
<1>2. ASSUME NEW a \in Good
      PROVE  \E D, h : a \in D /\ P(D, h)
  OBVIOUS
<1> HIDE DEF At, Good, g
<1>3. Good \in SUBSET S /\ DOMAIN g = Good
  BY DEF Good, g
<1>4. P(Good, g)
  <2>1. ASSUME NEW a \in Good
        PROVE  /\ g[a] \in V
               /\ \A i \in DOMAIN kids[a] : kids[a][i] \in Good
               /\ g[a] = F[a][Each(g, kids[a])]
    <3>1. PICK D, h : a \in D /\ P(D, h)
      BY <1>2
    <3>2. /\ h[a] \in V /\ h[a] = F[a][Each(h, kids[a])]
          /\ \A i \in DOMAIN kids[a] : kids[a][i] \in D
      BY <3>1 DEF Part
    <3>3. \A i \in DOMAIN kids[a] : kids[a][i] \in Good /\ g[kids[a][i]] = h[kids[a][i]]
      BY <1>1, <3>1, <3>2
    <3>4. Each(g, kids[a]) = Each(h, kids[a])
      BY <3>3, EachSame
    <3>5. g[a] = h[a]
      BY <1>1, <3>1
    <3>6. QED
      BY <3>2, <3>3, <3>4, <3>5
  <2>2. g \in [Good -> V]
    BY <1>3, <2>1 DEF g
  <2>3. QED
    BY <1>3, <2>1, <2>2 DEF Part
<1>5. Good = S
  <2>1. SUFFICES ASSUME S \ Good # {} PROVE FALSE
    BY <1>3
  <2>2. PICK a \in S \ Good : \A i \in DOMAIN kids[a] : kids[a][i] \notin S \ Good
    BY <2>1 DEF Grounded
  <2>3. kids[a] \in Seq(S) /\ \A i \in DOMAIN kids[a] : kids[a][i] \in S
    <3>1. kids[a] \in Seq(S)
      OBVIOUS
    <3>2. QED
      BY <3>1, ElementOfSeq, LenProperties
  <2>4. \A i \in DOMAIN kids[a] : kids[a][i] \in Good
    BY <2>2, <2>3
  <2>5. PICK D : D = Good \cup {a}
    OBVIOUS
  <2>6. PICK h : h = [x \in D |-> IF x = a THEN F[a][Each(g, kids[a])] ELSE g[x]]
    OBVIOUS
  <2>7. \A i \in DOMAIN kids[a] : g[kids[a][i]] \in V
    BY <1>4, <2>4 DEF Part
  <2>8. Each(g, kids[a]) \in Seq(V)
    BY <2>3, <2>7, EachType
  <2>9. F[a][Each(g, kids[a])] \in V
    BY <2>8
  <2>10. h \in [D -> V] /\ \A x \in Good : h[x] = g[x]
    BY <1>4, <2>2, <2>5, <2>6, <2>9 DEF Part
  <2>11. ASSUME NEW x \in D
         PROVE  /\ \A i \in DOMAIN kids[x] : kids[x][i] \in Good
                /\ h[x] = F[x][Each(h, kids[x])]
    <3>1. \A i \in DOMAIN kids[x] : kids[x][i] \in Good
      BY <1>4, <2>4, <2>5 DEF Part
    <3>2. Each(h, kids[x]) = Each(g, kids[x])
      BY <2>10, <3>1, EachSame
    <3>3. CASE x = a
      BY <2>5, <2>6, <3>1, <3>2, <3>3
    <3>4. CASE x # a
      <4>1. x \in Good
        BY <2>5, <3>4
      <4>2. h[x] = g[x] /\ g[x] = F[x][Each(g, kids[x])]
        BY <1>4, <2>10, <4>1 DEF Part
      <4>3. QED
        BY <3>1, <3>2, <4>2
    <3>5. QED
      BY <3>3, <3>4
  <2>12. P(D, h)
    <3>1. D \in SUBSET S
      BY <1>3, <2>5
    <3>2. \A x \in D : \A i \in DOMAIN kids[x] : kids[x][i] \in D
      BY <2>5, <2>11
    <3>3. QED
      BY <2>10, <2>11, <3>1, <3>2 DEF Part
  <2>13. a \in D
    BY <2>5
  <2>14. a \in Good
    BY <1>1, <2>12, <2>13
  <2>15. QED
    BY <2>14
<1>6. QED
  BY <1>4, <1>5 DEF Part, Solves

-----------------------------------------------------------------------------
(* The invariant of the tree.                                              *)

Handlers == {"none", "plain", "schema"}

StateOK ==
  /\ methodHandlers \in [Actors -> [Methods -> Handlers]]
  /\ missingHandler \in SUBSET Actors /\ closeHandler \in SUBSET Actors
  /\ children \in [Actors -> Seq(Actors)]

\* No actor has two parents, or is twice a child of one.
OneParent ==
  \A a, b \in Actors : \A i \in DOMAIN children[a] : \A j \in DOMAIN children[b] :
    children[a][i] = children[b][j] => a = b /\ i = j

TreeInv == StateOK /\ Grounded(Actors, children) /\ OneParent

LEMMA ChildrenAreActors ==
  ASSUME StateOK, NEW a \in Actors
  PROVE  /\ children[a] \in Seq(Actors)
         /\ \A i \in DOMAIN children[a] : children[a][i] \in Actors
<1>1. children[a] \in Seq(Actors)
  BY DEF StateOK
<1>2. QED
  BY <1>1, ElementOfSeq, LenProperties

-----------------------------------------------------------------------------
(* The recursive functions.                                                *)

\* h has for every actor the value that F makes of those of its children.
FromChildren(h, V, F) ==
  /\ h \in [Actors -> V]
  /\ \A a \in Actors : \E e \in Seq(V) :
       /\ h[a] = F[a][e]
       /\ DOMAIN e = DOMAIN children[a] /\ Len(e) = Len(children[a])
       /\ \A i \in DOMAIN e : e[i] = h[children[a][i]]

LEMMA ActorRecursion ==
  ASSUME TreeInv, NEW V, NEW F \in [Actors -> [Seq(V) -> V]]
  PROVE  \E h : FromChildren(h, V, F)
<1>1. children \in [Actors -> Seq(Actors)] /\ Grounded(Actors, children)
  BY DEF TreeInv, StateOK
<1>2. PICK h : Solves(h, Actors, children, V, F)
  BY <1>1, TreeRecursion
<1>3. ASSUME NEW a \in Actors
      PROVE  \E e \in Seq(V) :
               /\ h[a] = F[a][e]
               /\ DOMAIN e = DOMAIN children[a] /\ Len(e) = Len(children[a])
               /\ \A i \in DOMAIN e : e[i] = h[children[a][i]]
  <2>1. h \in [Actors -> V] /\ h[a] = F[a][Each(h, children[a])]
    BY <1>2 DEF Solves
  <2>2. children[a] \in Seq(Actors) /\ \A i \in DOMAIN children[a] : h[children[a][i]] \in V
    BY <2>1, ChildrenAreActors DEF TreeInv
  <2> PICK s : s = children[a]
    OBVIOUS
  <2> PICK e : e = Each(h, s)
    OBVIOUS
  <2>3. e \in Seq(V) /\ DOMAIN e = DOMAIN s /\ Len(e) = Len(s)
    <3>1. s \in Seq(Actors) /\ \A i \in DOMAIN s : h[s[i]] \in V
      BY ONLY <2>2, s = children[a]
    <3>2. QED
      BY ONLY <3>1, EachType, e = Each(h, s)
  <2>4. \A i \in DOMAIN s : e[i] = h[s[i]]
    BY DEF Each
  <2>5. QED
    BY <2>1, <2>3, <2>4
<1>4. h \in [Actors -> V]
  BY ONLY <1>2 DEF Solves
<1>5. FromChildren(h, V, F)
  BY ONLY <1>3, <1>4 DEF FromChildren
<1>6. QED
  BY ONLY <1>5

LEMMA DescendantsRecursion ==
  ASSUME TreeInv
  PROVE  /\ Descendants = [a \in Actors |->
              {a} \cup UNION {Descendants[children[a][i]] : i \in DOMAIN children[a]}]
         /\ \A a \in Actors : Descendants[a] \in SUBSET Actors
<1> DEFINE P(h) == h = [a \in Actors |->
                          {a} \cup UNION {h[children[a][i]] : i \in DOMAIN children[a]}]
<1>1. \E h : P(h)
  <2> PICK V : V = SUBSET Actors
    OBVIOUS
  <2> PICK F : F = [a \in Actors |-> [s \in Seq(V) |-> {a} \cup UNION {s[i] : i \in DOMAIN s}]]
    OBVIOUS
  <2>1. F \in [Actors -> [Seq(V) -> V]]
    <3>1. ASSUME NEW a \in Actors, NEW s \in Seq(V)
          PROVE  {a} \cup UNION {s[i] : i \in DOMAIN s} \in V
      <4>1. \A i \in DOMAIN s : s[i] \in V
        BY ElementOfSeq, LenProperties
      <4>2. QED
        BY <4>1
    <3>2. QED
      BY <3>1
  <2>2. PICK h : FromChildren(h, V, F)
    BY <2>1, ActorRecursion
  <2>3. ASSUME NEW a \in Actors
        PROVE  h[a] = {a} \cup UNION {h[children[a][i]] : i \in DOMAIN children[a]}
    <3>1. PICK e \in Seq(V) :
            /\ h[a] = F[a][e]
            /\ DOMAIN e = DOMAIN children[a]
            /\ \A i \in DOMAIN e : e[i] = h[children[a][i]]
      BY <2>2 DEF FromChildren
    <3>2. F[a][e] = {a} \cup UNION {e[i] : i \in DOMAIN e}
      OBVIOUS
    <3>3. {e[i] : i \in DOMAIN e} = {h[children[a][i]] : i \in DOMAIN children[a]}
      BY <3>1
    <3>4. QED
      BY <3>1, <3>2, <3>3
  <2>4. P(h)
    BY <2>2, <2>3 DEF FromChildren
  <2>5. QED
    BY <2>4
<1>2. Descendants = CHOOSE h : P(h)
  BY DEF Descendants
<1> HIDE DEF P
<1>3. P(Descendants)
  BY <1>1, <1>2
<1> USE DEF P
<1>4. \A a \in Actors : Descendants[a] =
        {a} \cup UNION {Descendants[children[a][i]] : i \in DOMAIN children[a]}
  BY <1>3
<1>5. ASSUME NEW x \in Actors, Descendants[x] \notin SUBSET Actors
      PROVE  FALSE
  <2> DEFINE T == {a \in Actors : Descendants[a] \notin SUBSET Actors}
  <2>1. PICK a \in T : \A i \in DOMAIN children[a] : children[a][i] \notin T
    <3>1. T \in SUBSET Actors /\ T # {}
      BY <1>5
    <3>2. QED
      BY <3>1 DEF TreeInv, Grounded
  <2>2. \A i \in DOMAIN children[a] : Descendants[children[a][i]] \in SUBSET Actors
    BY <2>1, ChildrenAreActors DEF TreeInv
  <2>3. Descendants[a] \in SUBSET Actors
    BY <1>4, <2>2
  <2>4. QED
    BY <2>3
<1>6. QED
  BY <1>3, <1>5

LEMMA HasRecursion ==
  ASSUME TreeInv, NEW m
  PROVE  Has(m) = [a \in Actors |-> \/ methodHandlers[a][m] # "none"
                                    \/ \E i \in DOMAIN children[a] : Has(m)[children[a][i]]]
<1> DEFINE P(h) == h = [a \in Actors |-> \/ methodHandlers[a][m] # "none"
                                         \/ \E i \in DOMAIN children[a] : h[children[a][i]]]
<1>1. \E h : P(h)
  <2> PICK F : F = [a \in Actors |-> [s \in Seq(BOOLEAN) |->
                      methodHandlers[a][m] # "none" \/ \E i \in DOMAIN s : s[i]]]
    OBVIOUS
  <2>1. F \in [Actors -> [Seq(BOOLEAN) -> BOOLEAN]]
    OBVIOUS
  <2>2. PICK h : FromChildren(h, BOOLEAN, F)
    BY <2>1, ActorRecursion
  <2>3. ASSUME NEW a \in Actors
        PROVE  h[a] = (methodHandlers[a][m] # "none"
                         \/ \E i \in DOMAIN children[a] : h[children[a][i]])
    <3>1. PICK e \in Seq(BOOLEAN) :
            /\ h[a] = F[a][e]
            /\ DOMAIN e = DOMAIN children[a]
            /\ \A i \in DOMAIN e : e[i] = h[children[a][i]]
      BY <2>2 DEF FromChildren
    <3>2. F[a][e] = (methodHandlers[a][m] # "none" \/ \E i \in DOMAIN e : e[i])
      OBVIOUS
    <3>3. (\E i \in DOMAIN e : e[i]) <=> \E i \in DOMAIN children[a] : h[children[a][i]]
      BY <3>1
    <3>4. QED
      BY <3>1, <3>2, <3>3
  <2>4. P(h)
    BY <2>2, <2>3 DEF FromChildren
  <2>5. QED
    BY <2>4
<1>2. Has(m) = CHOOSE h : P(h)
  BY DEF Has
<1> HIDE DEF P
<1>3. P(Has(m))
  BY <1>1, <1>2
<1>4. QED
  BY <1>3 DEF P

-----------------------------------------------------------------------------
(* Descendants.                                                            *)

LEMMA DescendantsOf ==
  ASSUME TreeInv, NEW a \in Actors
  PROVE  /\ Descendants[a] \in SUBSET Actors /\ a \in Descendants[a]
         /\ \A i \in DOMAIN children[a] : Descendants[children[a][i]] \in SUBSET Descendants[a]
         /\ \A y \in Descendants[a] : y # a =>
              \E i \in DOMAIN children[a] : y \in Descendants[children[a][i]]
<1>1. Descendants[a] =
        {a} \cup UNION {Descendants[children[a][i]] : i \in DOMAIN children[a]}
  BY DescendantsRecursion
<1>2. Descendants[a] \in SUBSET Actors
  BY DescendantsRecursion
<1>3. QED
  BY <1>1, <1>2

\* The children of a descendant are descendants.
LEMMA DescendantsClosed ==
  ASSUME TreeInv, NEW a \in Actors, NEW y \in Descendants[a],
         NEW i \in DOMAIN children[y]
  PROVE  children[y][i] \in Descendants[a]
<1> DEFINE Bad(x) == \E z \in Descendants[x] : \E k \in DOMAIN children[z] :
                       children[z][k] \notin Descendants[x]
           T == {x \in Actors : Bad(x)}
<1>1. SUFFICES ASSUME T # {} PROVE FALSE
  OBVIOUS
<1>2. PICK x \in T : \A k \in DOMAIN children[x] : children[x][k] \notin T
  BY <1>1 DEF TreeInv, Grounded
<1>3. PICK z \in Descendants[x] : \E k \in DOMAIN children[z] :
        children[z][k] \notin Descendants[x]
  BY <1>2
<1>4. PICK k \in DOMAIN children[z] : children[z][k] \notin Descendants[x]
  BY <1>3
<1>5. CASE z = x
  <2>1. children[x][k] \in Actors
    BY <1>4, <1>5, ChildrenAreActors DEF TreeInv
  <2>2. children[x][k] \in Descendants[children[x][k]]
    BY <2>1, DescendantsOf
  <2>3. QED
    BY <1>4, <1>5, <2>2, DescendantsOf
<1>6. CASE z # x
  <2>1. PICK j \in DOMAIN children[x] : z \in Descendants[children[x][j]]
    BY <1>3, <1>6, DescendantsOf
  <2>2. children[x][j] \in Actors /\ ~Bad(children[x][j])
    BY <1>2, <2>1, ChildrenAreActors DEF TreeInv
  <2>3. children[z][k] \in Descendants[children[x][j]]
    BY <1>4, <2>1, <2>2
  <2>4. QED
    BY <1>4, <2>3, DescendantsOf
<1>7. QED
  BY <1>5, <1>6

-----------------------------------------------------------------------------
(* The invariant is one.                                                   *)

LEMMA InitTree == ActorInit => TreeInv
<1> SUFFICES ASSUME ActorInit PROVE TreeInv
  OBVIOUS
<1>1. StateOK
  BY DEF ActorInit, StateOK, Handlers
<1>2. \A a \in Actors : DOMAIN children[a] = {}
  BY DEF ActorInit
<1>3. QED
  BY <1>1, <1>2 DEF TreeInv, Grounded, OneParent

\* A child that is not above its parent makes no cycle.
LEMMA StillGrounded ==
  ASSUME TreeInv, NEW a \in Actors, NEW b \in Actors, a \notin Descendants[b],
         NEW kids, kids = [children EXCEPT ![a] = Append(@, b)]
  PROVE  Grounded(Actors, kids)
<1>1. children[a] \in Seq(Actors) /\ children \in [Actors -> Seq(Actors)]
  BY ChildrenAreActors DEF TreeInv, StateOK
<1>2. /\ \A x \in Actors \ {a} : kids[x] = children[x]
      /\ kids[a] = Append(children[a], b)
  BY <1>1
<1>3. \A i \in DOMAIN kids[a] : kids[a][i] = b \/ (i \in DOMAIN children[a] /\ kids[a][i] = children[a][i])
  BY <1>1, <1>2, AppendProperties, LenProperties
<1>4. SUFFICES ASSUME NEW T \in SUBSET Actors, T # {}
               PROVE  \E x \in T : \A i \in DOMAIN kids[x] : kids[x][i] \notin T
  BY DEF Grounded
<1>5. PICK x \in T : \A i \in DOMAIN children[x] : children[x][i] \notin T
  BY <1>4 DEF TreeInv, Grounded
<1>6. CASE x # a \/ b \notin T
  BY <1>2, <1>3, <1>5, <1>6
<1>7. CASE x = a /\ b \in T
  <2> PICK U : U = {y \in T : y \in Descendants[b]}
    OBVIOUS
  <2>1. b \in U /\ U \in SUBSET Actors
    BY <1>7, DescendantsOf
  <2>2. PICK y \in U : \A i \in DOMAIN children[y] : children[y][i] \notin U
    BY <2>1 DEF TreeInv, Grounded
  <2>3. \A i \in DOMAIN children[y] : children[y][i] \notin T
    BY <2>2, DescendantsClosed
  <2>4. y # a /\ y \in T
    BY <2>2
  <2>5. kids[y] = children[y]
    BY <1>2, <2>4
  <2>6. QED
    BY <2>3, <2>4, <2>5
<1>8. QED
  BY <1>6, <1>7

LEMMA AddChildKeeps ==
  ASSUME TreeInv, NEW a \in Actors, NEW b \in Actors, a \notin Descendants[b],
         \A x \in Actors : b \notin ToSet(children[x]), AddChild(a, b)
  PROVE  TreeInv'
<1>1. children' = [children EXCEPT ![a] = Append(@, b)]
  BY DEF AddChild
<1>2. Grounded(Actors, children')
  BY <1>1, StillGrounded
<1>3. children[a] \in Seq(Actors) /\ children \in [Actors -> Seq(Actors)]
  BY ChildrenAreActors DEF TreeInv, StateOK
<1>4. Append(children[a], b) \in Seq(Actors)
  BY <1>3
<1>5. children' \in [Actors -> Seq(Actors)]
  BY <1>1, <1>3, <1>4
<1>6. StateOK'
  BY <1>5 DEF TreeInv, StateOK, AddChild
<1>7. \A x \in Actors : \A i \in DOMAIN children[x] : children[x][i] # b
  BY DEF ToSet
<1>8. \A x \in Actors \ {a} : children'[x] = children[x]
  BY <1>1, <1>3
<1>9. \A i \in DOMAIN children'[a] :
        \/ children'[a][i] = b /\ i = Len(children[a]) + 1
        \/ i \in DOMAIN children[a] /\ children'[a][i] = children[a][i]
  BY <1>1, <1>3, AppendProperties, LenProperties
<1>10. OneParent'
  BY <1>7, <1>8, <1>9 DEF TreeInv, OneParent
<1>11. QED
  BY <1>2, <1>6, <1>10 DEF TreeInv

LEMMA HandlersKeep ==
  ASSUME TreeInv, UNCHANGED children,
         methodHandlers' \in [Actors -> [Methods -> Handlers]],
         missingHandler' \in SUBSET Actors, closeHandler' \in SUBSET Actors
  PROVE  TreeInv'
<1>1. StateOK'
  BY DEF TreeInv, StateOK
<1>2. OneParent'
  BY DEF TreeInv, OneParent
<1>3. Grounded(Actors, children')
  BY DEF TreeInv
<1>4. QED
  BY <1>1, <1>2, <1>3 DEF TreeInv

LEMMA RegisterKeeps == TreeInv /\ Register => TreeInv'
<1> SUFFICES ASSUME TreeInv, Register PROVE TreeInv'
  OBVIOUS
<1>1. StateOK
  BY DEF TreeInv
<1>2. ASSUME NEW reg \in Registrations, OnRequest(reg[1], reg[2], reg[3])
      PROVE  TreeInv'
  <2>1. reg[1] \in Actors /\ reg[2] \in Methods /\ reg[3] \in Handlers
    BY ActorAssumption DEF Handlers
  <2>2. methodHandlers' \in [Actors -> [Methods -> Handlers]]
    BY <1>1, <1>2, <2>1 DEF OnRequest, StateOK
  <2>3. QED
    BY <1>1, <1>2, <2>2, HandlersKeep DEF OnRequest, StateOK
<1>3. ASSUME NEW reg \in Registrations, Off(reg[1], reg[2])
      PROVE  TreeInv'
  <2>1. reg[1] \in Actors /\ reg[2] \in Methods /\ "none" \in Handlers
    BY ActorAssumption DEF Handlers
  <2>2. methodHandlers' \in [Actors -> [Methods -> Handlers]]
    BY <1>1, <1>3, <2>1 DEF Off, StateOK
  <2>3. QED
    BY <1>1, <1>3, <2>2, HandlersKeep DEF Off, StateOK
<1>4. ASSUME NEW a \in MissingAt, OnMissing(a)
      PROVE  TreeInv'
  <2>1. missingHandler' \in SUBSET Actors
    BY <1>1, <1>4, ActorAssumption DEF OnMissing, StateOK
  <2>2. QED
    BY <1>1, <1>4, <2>1, HandlersKeep DEF OnMissing, StateOK
<1>5. ASSUME NEW a \in CloseAt, OnClose(a)
      PROVE  TreeInv'
  <2>1. closeHandler' \in SUBSET Actors
    BY <1>1, <1>5, ActorAssumption DEF OnClose, StateOK
  <2>2. QED
    BY <1>1, <1>5, <2>1, HandlersKeep DEF OnClose, StateOK
<1>6. ASSUME NEW link \in Links,
             \A a \in Actors : link[2] \notin ToSet(children[a]),
             link[1] \notin Descendants[link[2]],
             AddChild(link[1], link[2])
      PROVE  TreeInv'
  <2>1. link[1] \in Actors /\ link[2] \in Actors
    BY ActorAssumption
  <2>2. QED
    BY <1>6, <2>1, AddChildKeeps
<1>7. QED
  BY <1>2, <1>3, <1>4, <1>5, <1>6 DEF Register

LEMMA SameTree == TreeInv /\ UNCHANGED actorVars => TreeInv'
<1>1. SUFFICES ASSUME TreeInv, UNCHANGED actorVars PROVE TreeInv'
  OBVIOUS
<1>2. /\ methodHandlers' = methodHandlers /\ missingHandler' = missingHandler
      /\ closeHandler' = closeHandler /\ children' = children
  BY ONLY <1>1 DEF actorVars
<1>3. StateOK'
  BY ONLY <1>1, <1>2 DEF TreeInv, StateOK
<1>4. Grounded(Actors, children)'
  BY ONLY <1>1, <1>2 DEF TreeInv, Grounded
<1>5. OneParent'
  BY ONLY <1>1, <1>2 DEF TreeInv, OneParent
<1>6. QED
  BY ONLY <1>3, <1>4, <1>5 DEF TreeInv

-----------------------------------------------------------------------------
(* The first of a sequence.                                                *)

LEMMA LeastNatural ==
  ASSUME NEW I \in SUBSET Nat, I # {}
  PROVE  Min(I) \in I /\ \A j \in I : Min(I) <= j
<1> DEFINE R == OpToRel(<, Nat)
<1>1. IsWellFoundedOn(R, Nat)
  BY NatLessThanWellFounded
<1> HIDE DEF R
<1>2. PICK x \in I : \A y \in I : <<y, x>> \notin R
  BY <1>1, WFMin
<1>3. \A y \in I : ~(y < x)
  BY <1>2 DEF R, OpToRel
<1>4. \A y \in I : x <= y
  BY <1>3
<1>5. QED
  BY <1>4 DEF Min

\* What SelectInSeq(s, Test) returns, if I is where the test is true.
LEMMA SelectFirst ==
  ASSUME NEW s, NEW I \in SUBSET (1 .. Len(s)), Len(s) \in Nat,
         NEW k, k = IF I # {} THEN Min(I) ELSE 0
  PROVE  \/ k = 0 /\ I = {}
         \/ k # 0 /\ k \in I /\ \A i \in 1 .. Len(s) : i < k => i \notin I
<1>1. CASE I = {}
  BY <1>1
<1>2. CASE I # {}
  <2>1. I \in SUBSET Nat
    OBVIOUS
  <2>2. k \in I /\ \A j \in I : k <= j
    BY <1>2, <2>1, LeastNatural
  <2>3. k \in 1 .. Len(s)
    BY <2>2
  <2>4. ASSUME NEW i \in 1 .. Len(s), i < k PROVE i \notin I
    BY <2>2, <2>3, <2>4
  <2>5. QED
    BY <2>2, <2>3, <2>4
<1>3. QED
  BY <1>1, <1>2

-----------------------------------------------------------------------------
(* Feed.                                                                   *)

LEMMA ChildWithIs ==
  ASSUME TreeInv, NEW m, NEW a \in Actors
  PROVE  \/ /\ ChildWith(a, m) = Nobody
            /\ \A i \in DOMAIN children[a] : ~Has(m)[children[a][i]]
         \/ \E k \in DOMAIN children[a] :
              /\ ChildWith(a, m) = children[a][k] /\ children[a][k] # Nobody
              /\ Has(m)[children[a][k]]
              /\ \A i \in DOMAIN children[a] : i < k => ~Has(m)[children[a][i]]
<1>1. children[a] \in Seq(Actors) /\ \A i \in DOMAIN children[a] : children[a][i] \in Actors
  BY ChildrenAreActors DEF TreeInv
<1>2. DOMAIN children[a] = 1 .. Len(children[a]) /\ Len(children[a]) \in Nat
  BY <1>1, LenProperties
<1> PICK I : I = {i \in 1 .. Len(children[a]) : Has(m)[children[a][i]]}
  OBVIOUS
<1> PICK k : k = IF I # {} THEN Min(I) ELSE 0
  OBVIOUS
<1>3. \/ k = 0 /\ I = {}
      \/ k # 0 /\ k \in I /\ \A i \in 1 .. Len(children[a]) : i < k => i \notin I
  BY <1>2, SelectFirst
<1>4. ChildWith(a, m) = IF k = 0 THEN Nobody ELSE children[a][k]
  BY DEF ChildWith, SelectInSeq
<1>5. CASE k = 0
  BY <1>2, <1>3, <1>4, <1>5
<1>6. CASE k # 0
  BY <1>1, <1>2, <1>3, <1>4, <1>6, ActorAssumption
<1>7. QED
  BY <1>5, <1>6

\* h is passed on from the child to[a], or stops at a.
Chain(h, V, stop, own, to) ==
  /\ h \in [Actors -> V]
  /\ \A a \in Actors : h[a] = IF stop[a] THEN own[a] ELSE h[to[a]]

MayChain(V, stop, own, to) ==
  \A a \in Actors : \/ stop[a] /\ own[a] \in V
                    \/ ~stop[a] /\ \E i \in DOMAIN children[a] : to[a] = children[a][i]

LEMMA ChainRecursion ==
  ASSUME TreeInv, NEW V, NEW stop, NEW own, NEW to,
         MayChain(V, stop, own, to)
  PROVE  \E h : Chain(h, V, stop, own, to)
<1> PICK at : at = [a \in Actors |-> CHOOSE i \in DOMAIN children[a] : to[a] = children[a][i]]
  OBVIOUS
<1>1. \A a \in Actors : \/ stop[a] /\ own[a] \in V
                        \/ ~stop[a] /\ at[a] \in DOMAIN children[a] /\ to[a] = children[a][at[a]]
  BY DEF MayChain
\* A value to fill F with where it is of no use: some actor stops.
<1>2. \E v : v \in V
  <2>1. Actors \in SUBSET Actors /\ Actors # {}
    BY ActorAssumption
  <2>2. PICK a \in Actors : \A i \in DOMAIN children[a] : children[a][i] \notin Actors
    BY <2>1 DEF TreeInv, Grounded
  <2>3. stop[a] /\ own[a] \in V
    BY <1>1, <2>2, ChildrenAreActors DEF TreeInv
  <2>4. QED
    BY <2>3
<1> PICK v : v \in V
  BY <1>2
<1> PICK F : F = [a \in Actors |-> [s \in Seq(V) |->
                   IF stop[a] THEN own[a] ELSE IF at[a] \in DOMAIN s THEN s[at[a]] ELSE v]]
  OBVIOUS
<1>3. F \in [Actors -> [Seq(V) -> V]]
  <2>1. \A s \in Seq(V) : \A i \in DOMAIN s : s[i] \in V
    BY ElementOfSeq, LenProperties
  <2>2. QED
    BY <1>1, <2>1
<1>4. PICK h : FromChildren(h, V, F)
  BY <1>3, ActorRecursion
<1>5. ASSUME NEW a \in Actors
      PROVE  h[a] = IF stop[a] THEN own[a] ELSE h[to[a]]
  <2>1. PICK e \in Seq(V) :
          /\ h[a] = F[a][e]
          /\ DOMAIN e = DOMAIN children[a]
          /\ \A i \in DOMAIN e : e[i] = h[children[a][i]]
    BY <1>4 DEF FromChildren
  <2>2. F[a][e] = IF stop[a] THEN own[a] ELSE IF at[a] \in DOMAIN e THEN e[at[a]] ELSE v
    OBVIOUS
  <2>3. QED
    BY <1>1, <2>1, <2>2
<1>6. QED
  BY <1>4, <1>5 DEF FromChildren, Chain

Does == {"callback", "missing", "missing unguarded", "invalid", "not found", "nothing"}

\* What an actor decides if it does not leave it to a child.
Own(message, a) ==
  IF message.type \notin {"request", "notify"} THEN
    IF a \in missingHandler THEN Decision("missing unguarded", a) ELSE Decision("nothing", a)
  ELSE IF methodHandlers[a][message.method] # "none" THEN
    Decision(IF Invalid(a, message) THEN "invalid" ELSE "callback", a)
  ELSE IF a \in missingHandler THEN Decision("missing", a)
  ELSE Decision(IF message.type = "request" THEN "not found" ELSE "nothing", a)

Stops(message, a) ==
  \/ message.type \notin {"request", "notify"}
  \/ methodHandlers[a][message.method] # "none"
  \/ ChildWith(a, message.method) = Nobody

LEMMA FeedRecursion ==
  ASSUME TreeInv, NEW message, NEW a \in Actors
  PROVE  Feed(message)[a] = IF Stops(message, a) THEN Own(message, a)
                        ELSE Feed(message)[ChildWith(a, message.method)]
<1> DEFINE X(h, b) ==
      IF message.type \notin {"request", "notify"} THEN
        IF b \in missingHandler THEN Decision("missing unguarded", b)
                                ELSE Decision("nothing", b)
      ELSE IF methodHandlers[b][message.method] # "none" THEN
        Decision(IF Invalid(b, message) THEN "invalid" ELSE "callback", b)
      ELSE IF ChildWith(b, message.method) # Nobody THEN
        h[ChildWith(b, message.method)]
      ELSE IF b \in missingHandler THEN Decision("missing", b)
      ELSE Decision(IF message.type = "request" THEN "not found" ELSE "nothing", b)
    P(h) == h = [b \in Actors |-> X(h, b)]
<1>1. ASSUME NEW h, NEW b \in Actors
      PROVE  X(h, b) = IF Stops(message, b) THEN Own(message, b) ELSE h[ChildWith(b, message.method)]
  BY DEF Stops, Own
<1> HIDE DEF X
<1>2. \E h : P(h)
  <2> PICK stop : stop = [b \in Actors |-> Stops(message, b)]
    OBVIOUS
  <2> PICK own : own = [b \in Actors |-> Own(message, b)]
    OBVIOUS
  <2> PICK to : to = [b \in Actors |-> ChildWith(b, message.method)]
    OBVIOUS
  <2> PICK V : V = {Own(message, b) : b \in Actors}
    OBVIOUS
  <2>1. MayChain(V, stop, own, to)
    <3>1. ASSUME NEW b \in Actors, ~Stops(message, b)
          PROVE  \E i \in DOMAIN children[b] : to[b] = children[b][i]
      BY <3>1, ChildWithIs DEF Stops
    <3>2. QED
      BY <3>1 DEF MayChain
  <2>2. PICK h : Chain(h, V, stop, own, to)
    BY <2>1, ChainRecursion
  <2>3. \A b \in Actors : h[b] = X(h, b)
    BY <1>1, <2>2 DEF Chain
  <2>4. QED
    BY <2>2, <2>3 DEF Chain
<1>3. Feed(message) = CHOOSE h : P(h)
  BY DEF Feed, X
<1> HIDE DEF P
<1>4. P(Feed(message))
  BY <1>2, <1>3
<1>5. Feed(message)[a] = X(Feed(message), a)
  BY <1>4 DEF P
<1>6. QED
  BY <1>1, <1>5

\* What is true of an actor that decides itself, and of one if it is of its
\* children, is true of all.
LEMMA TreeInduction ==
  ASSUME TreeInv, NEW Fine \in SUBSET Actors,
         \A a \in Actors : (\A i \in DOMAIN children[a] : children[a][i] \in Fine) => a \in Fine
  PROVE  Fine = Actors
<1> PICK T : T = Actors \ Fine
  OBVIOUS
<1>1. SUFFICES ASSUME T # {} PROVE FALSE
  OBVIOUS
<1>2. PICK a \in T : \A i \in DOMAIN children[a] : children[a][i] \notin T
  BY <1>1 DEF TreeInv, Grounded
<1>3. \A i \in DOMAIN children[a] : children[a][i] \in Fine
  BY <1>2, ChildrenAreActors DEF TreeInv
<1>4. QED
  BY <1>2, <1>3

\* Where the children of a stop: a child that has the method.
LEMMA FeedStep ==
  ASSUME TreeInv, NEW message, NEW a \in Actors
  PROVE  \/ Stops(message, a) /\ Feed(message)[a] = Own(message, a)
         \/ /\ message.type \in {"request", "notify"} /\ methodHandlers[a][message.method] = "none"
            /\ \E k \in DOMAIN children[a] :
                 /\ Feed(message)[a] = Feed(message)[children[a][k]]
                 /\ Has(message.method)[children[a][k]]
                 /\ \A i \in DOMAIN children[a] : i < k => ~Has(message.method)[children[a][i]]
<1>1. CASE Stops(message, a)
  BY <1>1, FeedRecursion
<1>2. CASE ~Stops(message, a)
  <2>1. /\ message.type \in {"request", "notify"} /\ methodHandlers[a][message.method] = "none"
        /\ ChildWith(a, message.method) # Nobody
    BY <1>2 DEF Stops
  <2>2. Feed(message)[a] = Feed(message)[ChildWith(a, message.method)]
    BY <1>2, FeedRecursion
  <2>3. PICK k \in DOMAIN children[a] :
          /\ ChildWith(a, message.method) = children[a][k]
          /\ Has(message.method)[children[a][k]]
          /\ \A i \in DOMAIN children[a] : i < k => ~Has(message.method)[children[a][i]]
    BY <2>1, ChildWithIs
  <2>4. QED
    BY <2>1, <2>2, <2>3
<1>3. QED
  BY <1>1, <1>2

LEMMA OwnIs ==
  ASSUME NEW message, NEW a
  PROVE  /\ Own(message, a).actor = a
         /\ Own(message, a).does \in Does
         /\ message.type = "request" => Own(message, a).does # "nothing"
         /\ Own(message, a).does = "callback" =>
              /\ message.type \in {"request", "notify"} /\ ~Invalid(a, message)
              /\ methodHandlers[a][message.method] # "none"
         /\ Own(message, a).does = "invalid" =>
              message.type \in {"request", "notify"} /\ Invalid(a, message)
         /\ message.type \in {"request", "notify"} /\ methodHandlers[a][message.method] # "none" =>
              Own(message, a).does \in {"callback", "invalid"}
  BY DEF Own, Decision, Does, Invalid

\* Every request is answered.
LEMMA RequestsAnswered ==
  ASSUME TreeInv, NEW message, message.type = "request", NEW a \in Actors
  PROVE  Feed(message)[a].does # "nothing"
<1> PICK Fine : Fine = {b \in Actors : Feed(message)[b].does # "nothing"}
  OBVIOUS
<1>1. ASSUME NEW b \in Actors, \A i \in DOMAIN children[b] : children[b][i] \in Fine
      PROVE  b \in Fine
  BY <1>1, FeedStep, OwnIs
<1>2. Fine = Actors
  BY <1>1, TreeInduction
<1>3. QED
  BY <1>2

\* Only a reply is given to the missing handler without a recover.
Unguarded(decision) == decision.does = "missing unguarded"

LEMMA CallsAreGuarded ==
  ASSUME TreeInv, NEW message, message.type \in {"request", "notify"}, NEW a \in Actors
  PROVE  ~Unguarded(Feed(message)[a])
<1> PICK Fine : Fine = {b \in Actors : ~Unguarded(Feed(message)[b])}
  OBVIOUS
<1>1. ASSUME NEW b \in Actors, \A i \in DOMAIN children[b] : children[b][i] \in Fine
      PROVE  b \in Fine
  <2>1. ~Unguarded(Own(message, b))
    BY DEF Unguarded, Own, Decision
  <2>2. \/ Feed(message)[b] = Own(message, b)
        \/ \E k \in DOMAIN children[b] : Feed(message)[b] = Feed(message)[children[b][k]]
    <3>1. \/ Stops(message, b) /\ Feed(message)[b] = Own(message, b)
          \/ /\ message.type \in {"request", "notify"} /\ methodHandlers[b][message.method] = "none"
             /\ \E k \in DOMAIN children[b] :
                  /\ Feed(message)[b] = Feed(message)[children[b][k]]
                  /\ Has(message.method)[children[b][k]]
                  /\ \A i \in DOMAIN children[b] : i < k => ~Has(message.method)[children[b][i]]
      BY FeedStep
    <3>2. QED
      BY <3>1
  <2>3. QED
    BY <1>1, <2>1, <2>2
<1>2. Fine = Actors
  BY <1>1, TreeInduction
<1>3. QED
  BY <1>2

\* Who is called has a handler, and the params fit it or not as was decided.
LEMMA CalledIfItFits ==
  ASSUME TreeInv, NEW message, NEW a \in Actors
  PROVE  LET d == Feed(message)[a] IN
         /\ d.actor \in Actors
         /\ d.does = "callback" =>
              methodHandlers[d.actor][message.method] # "none" /\ ~Invalid(d.actor, message)
         /\ d.does = "invalid" => Invalid(d.actor, message)
<1> DEFINE Right(d) == /\ d.actor \in Actors
                       /\ d.does = "callback" =>
                            methodHandlers[d.actor][message.method] # "none" /\ ~Invalid(d.actor, message)
                       /\ d.does = "invalid" => Invalid(d.actor, message)
<1> PICK Fine : Fine = {b \in Actors : Right(Feed(message)[b])}
  OBVIOUS
<1>1. ASSUME NEW b \in Actors, \A i \in DOMAIN children[b] : children[b][i] \in Fine
      PROVE  b \in Fine
  <2>1. Right(Own(message, b))
    BY OwnIs
  <2> HIDE DEF Right
  <2>2. QED
    BY <1>1, <2>1, FeedStep
<1>2. Fine = Actors
  <2> HIDE DEF Right
  <2>1. QED
    BY <1>1, TreeInduction
<1>3. QED
  BY <1>2

-----------------------------------------------------------------------------
(* GetSchema.                                                              *)

\* The value GetSchema makes for a of those for its children.
SchemaFrom(m, a, found) ==
  IF methodHandlers[a][m] = "schema" THEN a
  ELSE LET first == SelectInSeq(found, LAMBDA b : b # Nobody)
       IN IF first = 0 THEN Nobody ELSE found[first]

\* It is b if b is a with a schema of its own, or what the first child has found.
Chosen(m, a, found, b) ==
  \/ methodHandlers[a][m] = "schema" /\ b = a
  \/ /\ methodHandlers[a][m] # "schema" /\ b = Nobody
     /\ \A i \in DOMAIN found : found[i] = Nobody
  \/ /\ methodHandlers[a][m] # "schema"
     /\ \E k \in DOMAIN found :
          /\ b = found[k] /\ found[k] # Nobody
          /\ \A i \in DOMAIN found : i < k => found[i] = Nobody

LEMMA SchemaFromIs ==
  ASSUME NEW V, NEW m, NEW a, NEW found \in Seq(V)
  PROVE  Chosen(m, a, found, SchemaFrom(m, a, found))
<1>1. DOMAIN found = 1 .. Len(found) /\ Len(found) \in Nat
  BY LenProperties
<1> PICK I : I = {i \in 1 .. Len(found) : found[i] # Nobody}
  OBVIOUS
<1> PICK k : k = IF I # {} THEN Min(I) ELSE 0
  OBVIOUS
<1>2. \/ k = 0 /\ I = {}
      \/ k # 0 /\ k \in I /\ \A i \in 1 .. Len(found) : i < k => i \notin I
  BY <1>1, SelectFirst
<1>3. SchemaFrom(m, a, found) =
        IF methodHandlers[a][m] = "schema" THEN a ELSE IF k = 0 THEN Nobody ELSE found[k]
  BY DEF SchemaFrom, SelectInSeq
<1>4. CASE k = 0
  BY <1>1, <1>2, <1>3, <1>4 DEF Chosen
<1>5. CASE k # 0
  BY <1>1, <1>2, <1>3, <1>5 DEF Chosen
<1>6. QED
  BY <1>4, <1>5

LEMMA GetSchemaRecursion ==
  ASSUME TreeInv, NEW m, NEW a \in Actors
  PROVE  LET found == [i \in DOMAIN children[a] |-> GetSchema(m)[children[a][i]]] IN
         /\ GetSchema(m)[a] = SchemaFrom(m, a, found)
         /\ found \in Seq(Actors \cup {Nobody})
<1> PICK V : V = Actors \cup {Nobody}
  OBVIOUS
<1> DEFINE X(h, b) == SchemaFrom(m, b, [i \in DOMAIN children[b] |-> h[children[b][i]]])
           P(h) == h = [b \in Actors |-> X(h, b)]
<1>1. ASSUME NEW b \in Actors, NEW s \in Seq(V)
      PROVE  SchemaFrom(m, b, s) \in V
  <2>1. \A i \in DOMAIN s : s[i] \in V
    BY ElementOfSeq, LenProperties
  <2>2. QED
    <3>1. Chosen(m, b, s, SchemaFrom(m, b, s))
      BY SchemaFromIs
    <3>2. QED
      BY <2>1, <3>1 DEF Chosen
<1>2. \E h : P(h)
  <2> PICK F : F = [b \in Actors |-> [s \in Seq(V) |-> SchemaFrom(m, b, s)]]
    OBVIOUS
  <2>1. F \in [Actors -> [Seq(V) -> V]]
    BY <1>1
  <2>2. PICK h : FromChildren(h, V, F)
    BY <2>1, ActorRecursion
  <2>3. ASSUME NEW b \in Actors
        PROVE  h[b] = X(h, b)
    <3>1. PICK e \in Seq(V) :
            /\ h[b] = F[b][e]
            /\ DOMAIN e = DOMAIN children[b] /\ Len(e) = Len(children[b])
            /\ \A i \in DOMAIN e : e[i] = h[children[b][i]]
      BY <2>2 DEF FromChildren
    <3>2. e = [i \in DOMAIN children[b] |-> h[children[b][i]]]
      <4>1. e = [i \in DOMAIN e |-> e[i]]
        BY LenProperties
      <4>2. QED
        BY <3>1, <4>1
    <3>3. F[b][e] = SchemaFrom(m, b, e)
      OBVIOUS
    <3>4. QED
      BY <3>1, <3>2, <3>3
  <2> HIDE DEF X
  <2>4. h = [b \in Actors |-> X(h, b)]
    BY <2>2, <2>3 DEF FromChildren
  <2>5. QED
    BY <2>4
<1>3. GetSchema(m) = CHOOSE h : P(h)
  BY DEF GetSchema, SchemaFrom
<1> HIDE DEF P
<1>4. P(GetSchema(m))
  BY <1>2, <1>3
<1> HIDE DEF X
<1>5. \A b \in Actors : GetSchema(m)[b] = X(GetSchema(m), b)
  BY <1>4 DEF P
<1> PICK Fine : Fine = {b \in Actors : GetSchema(m)[b] \in V}
  OBVIOUS
<1>6. ASSUME NEW b \in Actors, \A i \in DOMAIN children[b] : children[b][i] \in Fine
      PROVE  [i \in DOMAIN children[b] |-> GetSchema(m)[children[b][i]]] \in Seq(V)
  <2>1. children[b] \in Seq(Actors)
    BY ChildrenAreActors DEF TreeInv
  <2>2. \A i \in DOMAIN children[b] : GetSchema(m)[children[b][i]] \in V
    BY <1>6
  <2>3. Each(GetSchema(m), children[b]) \in Seq(V)
    BY <2>1, <2>2, EachType
  <2>4. QED
    BY <2>3 DEF Each
<1>7. ASSUME NEW b \in Actors, \A i \in DOMAIN children[b] : children[b][i] \in Fine
      PROVE  b \in Fine
  BY <1>1, <1>5, <1>6, <1>7 DEF X
<1>8. Fine = Actors
  BY <1>7, TreeInduction
<1>9. QED
  BY <1>5, <1>6, <1>8, ChildrenAreActors DEF X, TreeInv

LEMMA GetSchemaIs ==
  ASSUME TreeInv, NEW m, NEW a \in Actors
  PROVE  \/ methodHandlers[a][m] = "schema" /\ GetSchema(m)[a] = a
         \/ /\ methodHandlers[a][m] # "schema" /\ GetSchema(m)[a] = Nobody
            /\ \A i \in DOMAIN children[a] : GetSchema(m)[children[a][i]] = Nobody
         \/ /\ methodHandlers[a][m] # "schema"
            /\ \E k \in DOMAIN children[a] :
                 /\ GetSchema(m)[a] = GetSchema(m)[children[a][k]]
                 /\ GetSchema(m)[children[a][k]] # Nobody
                 /\ \A i \in DOMAIN children[a] : i < k => GetSchema(m)[children[a][i]] = Nobody
<1> PICK found : found = [i \in DOMAIN children[a] |-> GetSchema(m)[children[a][i]]]
  OBVIOUS
<1>1. GetSchema(m)[a] = SchemaFrom(m, a, found) /\ found \in Seq(Actors \cup {Nobody})
  BY GetSchemaRecursion
<1>2. /\ DOMAIN found = DOMAIN children[a]
      /\ \A i \in DOMAIN children[a] : found[i] = GetSchema(m)[children[a][i]]
  OBVIOUS
<1>3. Chosen(m, a, found, GetSchema(m)[a])
  <2>1. found \in Seq(Actors \cup {Nobody})
    BY <1>1
  <2>2. Chosen(m, a, found, SchemaFrom(m, a, found))
    BY ONLY <2>1, SchemaFromIs
  <2>3. QED
    BY <1>1, <2>2
<1>4. QED
  BY ONLY <1>2, <1>3 DEF Chosen

LEMMA HasIs ==
  ASSUME TreeInv, NEW m, NEW a \in Actors
  PROVE  Has(m)[a] <=> \/ methodHandlers[a][m] # "none"
                       \/ \E i \in DOMAIN children[a] : Has(m)[children[a][i]]
  BY HasRecursion

\* A subtree without a handler for a method has no schema for it.
LEMMA NoSchemaWithout ==
  ASSUME TreeInv, NEW m, NEW a \in Actors, ~Has(m)[a]
  PROVE  GetSchema(m)[a] = Nobody
<1> PICK Fine : Fine = {b \in Actors : Has(m)[b] \/ GetSchema(m)[b] = Nobody}
  OBVIOUS
<1>1. ASSUME NEW b \in Actors, \A i \in DOMAIN children[b] : children[b][i] \in Fine
      PROVE  b \in Fine
  <2>1. SUFFICES ASSUME ~Has(m)[b] PROVE GetSchema(m)[b] = Nobody
    OBVIOUS
  <2>2. methodHandlers[b][m] = "none" /\ \A i \in DOMAIN children[b] : ~Has(m)[children[b][i]]
    BY <2>1, HasIs
  <2>3. \A i \in DOMAIN children[b] : GetSchema(m)[children[b][i]] = Nobody
    BY <1>1, <2>2
  <2>4. QED
    BY <2>2, <2>3, GetSchemaIs
<1>2. Fine = Actors
  BY <1>1, TreeInduction
<1>3. QED
  BY <1>2

\* The schema a message is refused by is the one GetSchema shows.
LEMMA RefusedBySchemaShown ==
  ASSUME TreeInv, NEW message, NEW a \in Actors, Feed(message)[a].does = "invalid"
  PROVE  GetSchema(message.method)[a] = Feed(message)[a].actor
<1> PICK m : m = message.method
  OBVIOUS
<1> PICK Fine : Fine = {b \in Actors :
                  Feed(message)[b].does = "invalid" => GetSchema(m)[b] = Feed(message)[b].actor}
  OBVIOUS
<1>1. ASSUME NEW b \in Actors, \A i \in DOMAIN children[b] : children[b][i] \in Fine
      PROVE  b \in Fine
  <2>1. SUFFICES ASSUME Feed(message)[b].does = "invalid"
                 PROVE  GetSchema(m)[b] = Feed(message)[b].actor
    OBVIOUS
  <2>2. CASE Stops(message, b) /\ Feed(message)[b] = Own(message, b)
    <3>1. Invalid(b, message) /\ Feed(message)[b].actor = b
      BY <2>1, <2>2, OwnIs
    <3>2. methodHandlers[b][m] = "schema"
      BY <3>1 DEF Invalid
    <3>3. QED
      BY <3>1, <3>2, GetSchemaIs
  <2>3. ASSUME methodHandlers[b][m] = "none",
               NEW k \in DOMAIN children[b],
               Feed(message)[b] = Feed(message)[children[b][k]],
               \A i \in DOMAIN children[b] : i < k => ~Has(m)[children[b][i]]
        PROVE  GetSchema(m)[b] = Feed(message)[b].actor
    <3>1. \A i \in DOMAIN children[b] : children[b][i] \in Actors
      BY ChildrenAreActors DEF TreeInv
    <3>2. GetSchema(m)[children[b][k]] = Feed(message)[b].actor
      BY <1>1, <2>1, <2>3
    <3>3. GetSchema(m)[children[b][k]] # Nobody
      <4>1. Feed(message)[b].actor \in Actors
        BY CalledIfItFits
      <4>2. QED
        BY <3>2, <4>1, ActorAssumption
    <3>4. \A i \in DOMAIN children[b] : i < k => GetSchema(m)[children[b][i]] = Nobody
      BY <2>3, <3>1, NoSchemaWithout
    <3>5. PICK j \in DOMAIN children[b] :
            /\ GetSchema(m)[b] = GetSchema(m)[children[b][j]]
            /\ GetSchema(m)[children[b][j]] # Nobody
            /\ \A i \in DOMAIN children[b] : i < j => GetSchema(m)[children[b][i]] = Nobody
      BY <2>3, <3>3, GetSchemaIs
    <3>6. k \in Int /\ j \in Int
      <4>1. children[b] \in Seq(Actors)
        BY ChildrenAreActors DEF TreeInv
      <4>2. DOMAIN children[b] = 1 .. Len(children[b]) /\ Len(children[b]) \in Nat
        BY <4>1, LenProperties
      <4>3. QED
        BY <4>2
    <3>7. j = k
      BY <3>3, <3>4, <3>5, <3>6
    <3>8. QED
      BY <3>2, <3>5, <3>7
  <2>4. QED
    BY <2>2, <2>3, FeedStep
<1>2. Fine = Actors
  BY <1>1, TreeInduction
<1>3. QED
  BY <1>2

\* SchemaGuards, in any tree.
LEMMA GuardedBySchema ==
  ASSUME TreeInv
  PROVE  SchemaGuards
<1> SUFFICES ASSUME NEW message \in Message
             PROVE  LET d == Feed(message)[Root] IN
                    /\ d.does = "callback" => message.valid \/ methodHandlers[d.actor][message.method] = "plain"
                    /\ d.does = "invalid" => ~message.valid /\ GetSchema(message.method)[Root] = d.actor
  BY DEF SchemaGuards
<1> PICK d : d = Feed(message)[Root]
  OBVIOUS
<1>1. Root \in Actors
  BY ActorAssumption
<1>2. /\ d.actor \in Actors
      /\ d.does = "callback" =>
           methodHandlers[d.actor][message.method] # "none" /\ ~Invalid(d.actor, message)
      /\ d.does = "invalid" => Invalid(d.actor, message)
  BY <1>1, CalledIfItFits
<1>3. d.does = "invalid" => GetSchema(message.method)[Root] = d.actor
  BY <1>1, RefusedBySchemaShown
<1>4. methodHandlers[d.actor][message.method] \in Handlers
  <2>1. message.method \in Methods
    BY DEF Message
  <2>2. QED
    BY <1>2, <2>1 DEF TreeInv, StateOK
<1>5. QED
  BY <1>2, <1>3, <1>4 DEF Invalid, Handlers

-----------------------------------------------------------------------------
(* FlattenSeq.                                                             *)

LEMMA FlattenRecursion ==
  ASSUME NEW X, NEW seqs \in Seq(Seq(X)), Len(seqs) # 0
  PROVE  \E f \in [1 .. Len(seqs) -> Seq(X)] :
           /\ FlattenSeq(seqs) = f[Len(seqs)]
           /\ \A i \in 1 .. Len(seqs) : f[i] = IF i = 1 THEN seqs[i] ELSE f[i - 1] \o seqs[i]
<1> PICK n \in Nat : n = Len(seqs)
  BY LenProperties
<1> PICK S : S = 1 .. n
  OBVIOUS
<1> PICK kids : kids = [i \in S |-> IF i = 1 THEN <<>> ELSE <<i - 1>>]
  OBVIOUS
<1> PICK V : V = Seq(X)
  OBVIOUS
<1> PICK F : F = [i \in S |-> [s \in Seq(V) |->
                   IF i = 1 \/ 1 \notin DOMAIN s THEN seqs[i] ELSE s[1] \o seqs[i]]]
  OBVIOUS
<1> DEFINE P(h) == h = [i \in 1 .. Len(seqs) |-> IF i = 1 THEN seqs[i] ELSE h[i - 1] \o seqs[i]]
<1>1. \A i \in S : seqs[i] \in V
  BY ElementOfSeq
<1>2. kids \in [S -> Seq(S)]
  <2>1. ASSUME NEW i \in S, i # 1 PROVE <<i - 1>> \in Seq(S)
    <3>1. i - 1 \in S
      BY <2>1
    <3>2. QED
      BY <3>1
  <2>2. ASSUME NEW i \in S PROVE kids[i] \in Seq(S)
    <3>1. CASE i = 1
      <4>1. kids[i] = <<>> /\ <<>> \in Seq(S)
        BY <3>1
      <4>2. QED
        BY <4>1
    <3>2. CASE i # 1
      <4>1. kids[i] = <<i - 1>>
        BY <3>2
      <4>2. QED
        BY <2>1, <3>2, <4>1
    <3>3. QED
      BY <3>1, <3>2
  <2>3. QED
    BY <2>2
<1>3. Grounded(S, kids)
  <2>1. SUFFICES ASSUME NEW T \in SUBSET S, T # {}
                 PROVE  \E a \in T : \A i \in DOMAIN kids[a] : kids[a][i] \notin T
    BY DEF Grounded
  <2>2. T \in SUBSET Nat
    OBVIOUS
  <2>3. PICK a \in T : \A j \in T : a <= j
    BY <2>1, <2>2, LeastNatural
  <2>4. a \in S /\ a \in Nat
    BY <2>2
  <2>5. CASE a = 1
    BY <2>3, <2>4, <2>5
  <2>6. CASE a # 1
    <3>1. kids[a] = <<a - 1>>
      BY <2>4, <2>6
    <3>2. a - 1 \notin T
      BY <2>2, <2>3, <2>4
    <3>3. \A i \in DOMAIN <<a - 1>> : <<a - 1>>[i] = a - 1
      OBVIOUS
    <3>4. QED
      BY <3>1, <3>2, <3>3
  <2>7. QED
    BY <2>5, <2>6
<1>4. F \in [S -> [Seq(V) -> V]]
  <2>1. ASSUME NEW i \in S, NEW s \in Seq(V), 1 \in DOMAIN s
        PROVE  s[1] \o seqs[i] \in V
    <3>1. s[1] \in V
      BY <2>1, ElementOfSeq, LenProperties
    <3>2. QED
      BY <1>1, <3>1, ConcatProperties
  <2>2. QED
    BY <1>1, <2>1
<1>5. PICK h : Solves(h, S, kids, V, F)
  BY <1>2, <1>3, <1>4, TreeRecursion
<1>6. ASSUME NEW i \in S
      PROVE  h[i] = IF i = 1 THEN seqs[i] ELSE h[i - 1] \o seqs[i]
  <2>1. h \in [S -> V] /\ h[i] = F[i][Each(h, kids[i])]
    BY <1>5 DEF Solves
  <2>2. kids[i] \in Seq(S) /\ \A j \in DOMAIN kids[i] : h[kids[i][j]] \in V
    <3>1. kids[i] \in Seq(S)
      BY <1>2
    <3>2. \A j \in DOMAIN kids[i] : kids[i][j] \in S
      BY ONLY <3>1, ElementOfSeq, LenProperties
    <3>3. \A j \in S : h[j] \in V
      BY ONLY <2>1
    <3>4. QED
      BY ONLY <3>1, <3>2, <3>3
  <2> PICK e : e = Each(h, kids[i])
    OBVIOUS
  <2>3. e \in Seq(V) /\ DOMAIN e = DOMAIN kids[i]
    BY ONLY <2>2, EachType, e = Each(h, kids[i])
  <2>4. h[i] = IF i = 1 \/ 1 \notin DOMAIN e THEN seqs[i] ELSE e[1] \o seqs[i]
    BY <2>1, <2>3
  <2>5. CASE i = 1
    BY <2>4, <2>5
  <2>6. CASE i # 1
    <3>1. kids[i] = <<i - 1>>
      BY <2>6
    <3>2. DOMAIN e = DOMAIN <<i - 1>> /\ e = [j \in DOMAIN <<i - 1>> |-> h[<<i - 1>>[j]]]
      BY <2>3, <3>1 DEF Each
    <3>3. 1 \in DOMAIN e /\ e[1] = h[i - 1]
      BY <3>2
    <3>4. QED
      BY <2>4, <2>6, <3>3
  <2>7. QED
    BY <2>5, <2>6
<1>7. P(h)
  <2>1. h \in [S -> V]
    BY ONLY <1>5 DEF Solves
  <2>2. h = [i \in S |-> h[i]]
    BY ONLY <2>1
  <2>3. h = [i \in S |-> IF i = 1 THEN seqs[i] ELSE h[i - 1] \o seqs[i]]
    BY ONLY <1>6, <2>2
  <2>4. QED
    BY <2>3
<1>8. FlattenSeq(seqs) = (CHOOSE g : P(g))[Len(seqs)]
  BY DEF FlattenSeq
<1> PICK f : f = CHOOSE g : P(g)
  OBVIOUS
<1> HIDE DEF P
<1>9. P(f)
  BY <1>7
<1> USE DEF P
<1>10. \A i \in S : f[i] = IF i = 1 THEN seqs[i] ELSE f[i - 1] \o seqs[i]
  BY <1>9
<1>11. \A i \in S : f[i] \in V
  <2> PICK T : T = {i \in S : f[i] \notin V}
    OBVIOUS
  <2>1. SUFFICES ASSUME T # {} PROVE FALSE
    OBVIOUS
  <2> T \in SUBSET S
    BY ONLY T = {i \in S : f[i] \notin V}
  <2>2. PICK a \in T : \A i \in DOMAIN kids[a] : kids[a][i] \notin T
    BY ONLY <1>3, <2>1, T \in SUBSET S DEF Grounded
  <2>3. CASE a = 1
    BY <1>1, <1>10, <2>3
  <2>4. CASE a # 1
    <3>1. kids[a] = <<a - 1>> /\ a - 1 \in S
      <4>1. a \in S
        BY ONLY T = {i \in S : f[i] \notin V}, a \in T
      <4>2. kids[a] = <<a - 1>>
        BY ONLY <2>4, <4>1, kids = [i \in S |-> IF i = 1 THEN <<>> ELSE <<i - 1>>]
      <4>3. a - 1 \in S
        BY ONLY <2>4, <4>1, S = 1 .. n, n \in Nat
      <4>4. QED
        BY ONLY <4>2, <4>3
    <3>2. a - 1 \notin T
      <4>1. 1 \in DOMAIN <<a - 1>> /\ <<a - 1>>[1] = a - 1
        BY ONLY TRUE
      <4>2. QED
        BY <2>2, <3>1, <4>1
    <3>3. f[a - 1] \in V /\ seqs[a] \in V
      BY <1>1, <3>1, <3>2
    <3>4. f[a - 1] \o seqs[a] \in V
      BY ONLY <3>3, JoinType, V = Seq(X)
    <3>5. QED
      BY <1>10, <2>4, <3>4
  <2>5. QED
    BY <2>3, <2>4
<1>12. f \in [S -> V]
  BY <1>9, <1>11
<1>13. f \in [1 .. Len(seqs) -> Seq(X)] /\ FlattenSeq(seqs) = f[Len(seqs)]
  BY <1>8, <1>12
<1>14. \A i \in 1 .. Len(seqs) : f[i] = IF i = 1 THEN seqs[i] ELSE f[i - 1] \o seqs[i]
  BY <1>10
<1> HIDE DEF P
<1>15. QED
  BY <1>13, <1>14

\* Each position p of flat is one of seqs: that of seqs[K[p]] at I[p], in order.
Spread(flat, seqs, n, K, I) ==
  /\ K \in [1 .. Len(flat) -> 1 .. n] /\ I \in [1 .. Len(flat) -> Nat]
  /\ \A p \in 1 .. Len(flat) :
       I[p] \in DOMAIN seqs[K[p]] /\ flat[p] = seqs[K[p]][I[p]]
  /\ \A p, q \in 1 .. Len(flat) : p < q => K[p] < K[q] \/ (K[p] = K[q] /\ I[p] < I[q])
  /\ \A k \in 1 .. n : \A i \in DOMAIN seqs[k] :
       \E p \in 1 .. Len(flat) : K[p] = k /\ I[p] = i

LEMMA SpreadMore ==
  ASSUME NEW X, NEW seqs \in Seq(Seq(X)), NEW n \in Nat, n + 1 \in 1 .. Len(seqs),
         NEW flat \in Seq(X), NEW K, NEW I, Spread(flat, seqs, n, K, I),
         NEW more, more = flat \o seqs[n + 1]
  PROVE  more \in Seq(X) /\ \E K2, I2 : Spread(more, seqs, n + 1, K2, I2)
<1> PICK s \in Seq(X) : s = seqs[n + 1]
  BY ElementOfSeq
<1> PICK a \in Nat : a = Len(flat)
  BY LenProperties
<1> PICK b \in Nat : b = Len(s)
  BY LenProperties
<1> PICK len \in Nat : len = a + b
  OBVIOUS
<1>1. /\ more \in Seq(X) /\ Len(more) = len
      /\ \A p \in 1 .. len : more[p] = IF p <= a THEN flat[p] ELSE s[p - a]
  BY ConcatProperties
<1>2. DOMAIN s = 1 .. b
  BY LenProperties
<1> PICK K2 : K2 = [p \in 1 .. len |-> IF p <= a THEN K[p] ELSE n + 1]
  OBVIOUS
<1> PICK I2 : I2 = [p \in 1 .. len |-> IF p <= a THEN I[p] ELSE p - a]
  OBVIOUS
<1>3. /\ \A p \in 1 .. a : K[p] \in 1 .. n /\ I[p] \in Nat
      /\ \A p \in 1 .. a : I[p] \in DOMAIN seqs[K[p]] /\ flat[p] = seqs[K[p]][I[p]]
      /\ \A p, q \in 1 .. a : p < q => K[p] < K[q] \/ (K[p] = K[q] /\ I[p] < I[q])
      /\ \A k \in 1 .. n : \A i \in DOMAIN seqs[k] : \E p \in 1 .. a : K[p] = k /\ I[p] = i
  BY DEF Spread
<1>4. \A p \in 1 .. len :
        \/ p \in 1 .. a /\ K2[p] = K[p] /\ I2[p] = I[p] /\ more[p] = flat[p]
        \/ /\ p \notin 1 .. a /\ K2[p] = n + 1 /\ I2[p] = p - a
           /\ p - a \in 1 .. b /\ more[p] = s[p - a]
  <2> TAKE p \in 1 .. len
  <2>1. CASE p <= a
    <3>1. p \in 1 .. a
      BY <2>1
    <3>2. K2[p] = K[p] /\ I2[p] = I[p] /\ more[p] = flat[p]
      BY <1>1, <2>1
    <3>3. QED
      BY <3>1, <3>2
  <2>2. CASE ~(p <= a)
    <3>1. p \notin 1 .. a /\ p - a \in 1 .. b
      BY <2>2
    <3>2. K2[p] = n + 1 /\ I2[p] = p - a /\ more[p] = s[p - a]
      BY <1>1, <2>2
    <3>3. QED
      BY <3>1, <3>2
  <2>3. QED
    BY <2>1, <2>2
<1>5. K2 \in [1 .. len -> 1 .. (n + 1)] /\ I2 \in [1 .. len -> Nat]
  <2>1. \A p \in 1 .. len : K2[p] \in 1 .. (n + 1) /\ I2[p] \in Nat
    BY <1>3, <1>4
  <2>2. QED
    BY <2>1
<1>6. ASSUME NEW p \in 1 .. len
      PROVE  I2[p] \in DOMAIN seqs[K2[p]] /\ more[p] = seqs[K2[p]][I2[p]]
  <2>1. CASE p \in 1 .. a
    <3>1. K2[p] = K[p] /\ I2[p] = I[p] /\ more[p] = flat[p]
      BY <1>4, <2>1
    <3>2. QED
      BY ONLY <1>3, <2>1, <3>1
  <2>2. CASE p \notin 1 .. a
    <3>1. K2[p] = n + 1 /\ I2[p] = p - a /\ p - a \in 1 .. b /\ more[p] = s[p - a]
      BY <1>4, <2>2
    <3>2. QED
      BY ONLY <1>2, <3>1, s = seqs[n + 1]
  <2>3. QED
    BY <2>1, <2>2
<1>7. ASSUME NEW p \in 1 .. len, NEW q \in 1 .. len, p < q
      PROVE  K2[p] < K2[q] \/ (K2[p] = K2[q] /\ I2[p] < I2[q])
  <2>1. CASE q \in 1 .. a
    <3>1. p \in 1 .. a
      BY ONLY a \in Nat, b \in Nat, len = a + b, p \in 1 .. len, q \in 1 .. len, <1>7, <2>1
    <3>2. K2[p] = K[p] /\ I2[p] = I[p] /\ K2[q] = K[q] /\ I2[q] = I[q]
      BY ONLY <1>4, <2>1, <3>1, p \in 1 .. len, q \in 1 .. len
    <3>3. K[p] < K[q] \/ (K[p] = K[q] /\ I[p] < I[q])
      BY ONLY <1>3, <1>7, <2>1, <3>1
    <3>4. QED
      BY ONLY <3>2, <3>3
  <2>2. CASE q \notin 1 .. a /\ p \in 1 .. a
    <3>1. K2[q] = n + 1 /\ K2[p] \in 1 .. n
      BY ONLY <1>3, <1>4, <2>2, p \in 1 .. len, q \in 1 .. len
    <3>2. QED
      BY ONLY <3>1, n \in Nat
  <2>3. CASE q \notin 1 .. a /\ p \notin 1 .. a
    BY ONLY <1>4, <1>7, <2>3, a \in Nat, b \in Nat, len = a + b, n \in Nat,
       p \in 1 .. len, q \in 1 .. len
  <2>4. QED
    BY <2>1, <2>2, <2>3
<1>8. ASSUME NEW k \in 1 .. (n + 1), NEW i \in DOMAIN seqs[k]
      PROVE  \E p \in 1 .. len : K2[p] = k /\ I2[p] = i
  <2>1. CASE k \in 1 .. n
    <3>1. PICK p \in 1 .. a : K[p] = k /\ I[p] = i
      BY <1>3, <1>8, <2>1
    <3>2. p \in 1 .. len
      BY ONLY a \in Nat, b \in Nat, len = a + b, p \in 1 .. a
    <3>3. QED
      BY ONLY <1>4, <3>1, <3>2
  <2>2. CASE k = n + 1
    <3>1. i \in 1 .. b
      BY <1>2, <1>8, <2>2
    <3>2. a + i \in 1 .. len /\ a + i \notin 1 .. a /\ (a + i) - a = i
      BY <3>1
    <3>3. K2[a + i] = n + 1 /\ I2[a + i] = i
      BY <1>4, <3>2
    <3>4. QED
      BY <2>2, <3>2, <3>3
  <2>3. k \in 1 .. n \/ k = n + 1
    OBVIOUS
  <2>4. QED
    BY <2>1, <2>2, <2>3
<1>9. QED
  <2>1. Len(more) = len /\ more \in Seq(X)
    BY <1>1
  <2>2. Spread(more, seqs, n + 1, K2, I2)
    BY ONLY <2>1, <1>5, <1>6, <1>7, <1>8 DEF Spread
  <2>3. QED
    BY ONLY <2>1, <2>2

LEMMA FlattenSpreads ==
  ASSUME NEW X, NEW seqs \in Seq(Seq(X))
  PROVE  /\ FlattenSeq(seqs) \in Seq(X)
         /\ \E K, I : Spread(FlattenSeq(seqs), seqs, Len(seqs), K, I)
<1>1. CASE Len(seqs) = 0
  <2>1. FlattenSeq(seqs) = <<>>
    BY <1>1, EmptySeq DEF FlattenSeq
  <2>2. 1 .. Len(<<>>) = {} /\ 1 .. Len(seqs) = {}
    BY <1>1
  <2> PICK K : K = [p \in 1 .. Len(<<>>) |-> 0]
    OBVIOUS
  <2>3. Spread(<<>>, seqs, Len(seqs), K, K)
    BY <2>2 DEF Spread
  <2>4. QED
    BY <2>1, <2>3
<1>2. CASE Len(seqs) # 0
  <2>1. PICK f \in [1 .. Len(seqs) -> Seq(X)] :
          /\ FlattenSeq(seqs) = f[Len(seqs)]
          /\ \A i \in 1 .. Len(seqs) : f[i] = IF i = 1 THEN seqs[i] ELSE f[i - 1] \o seqs[i]
    BY <1>2, FlattenRecursion
  <2> PICK n \in Nat : n = Len(seqs)
    BY LenProperties
  <2> PICK T : T = {i \in 1 .. n : ~ \E K, I : Spread(f[i], seqs, i, K, I)}
    OBVIOUS
  <2>2. ASSUME T # {} PROVE FALSE
    <3>1. PICK a \in T : \A j \in T : a <= j
      <4>1. T \in SUBSET Nat
        OBVIOUS
      <4>2. QED
        BY <2>2, <4>1, LeastNatural
    <3>2. a \in 1 .. n /\ ~ \E K, I : Spread(f[a], seqs, a, K, I)
      OBVIOUS
    <3>3. PICK before \in Seq(X) : /\ f[a] = before \o seqs[a]
                                   /\ \E K, I : Spread(before, seqs, a - 1, K, I)
      <4>1. CASE a = 1
        <5>1. seqs[a] \in Seq(X)
          BY <3>2, ElementOfSeq
        <5>2. f[a] = <<>> \o seqs[a]
          BY <2>1, <3>2, <4>1, <5>1, ConcatEmptySeq
        <5>3. 1 .. Len(<<>>) = {} /\ 1 .. (a - 1) = {}
          BY <4>1
        <5> PICK K : K = [p \in 1 .. Len(<<>>) |-> 0]
          OBVIOUS
        <5>4. Spread(<<>>, seqs, a - 1, K, K)
          BY <5>3 DEF Spread
        <5>5. <<>> \in Seq(X)
          OBVIOUS
        <5>6. QED
          BY <5>2, <5>4, <5>5
      <4>2. CASE a # 1
        <5>1. a - 1 \in 1 .. n /\ a - 1 \notin T
          <6>1. a \in 1 .. n
            BY <3>2
          <6>2. a - 1 \in 1 .. n /\ ~(a <= a - 1)
            BY <4>2, <6>1
          <6>3. QED
            BY <3>1, <6>2
        <5>2. f[a - 1] \in Seq(X) /\ f[a] = f[a - 1] \o seqs[a]
          BY <2>1, <3>2, <4>2, <5>1
        <5>3. QED
          BY <5>1, <5>2
      <4>3. QED
        BY <4>1, <4>2
    <3> PICK m \in Nat : m = a - 1
      BY <3>2
    <3>4. m + 1 = a
      BY <3>2
    <3>5. \E K, I : Spread(f[a], seqs, m + 1, K, I)
      BY <3>2, <3>3, <3>4, SpreadMore
    <3>6. QED
      BY <3>2, <3>4, <3>5
  <2>3. n \in 1 .. n
    BY <1>2
  <2>4. QED
    BY <2>1, <2>2, <2>3
<1>3. QED
  BY <1>1, <1>2

-----------------------------------------------------------------------------
(* Walks of the tree: sequences made of those of the children.             *)

\* What h makes of the children of a.
Below(h, a) == FlattenSeq([i \in DOMAIN children[a] |-> h[children[a][i]]])

\* h[a] is made by G[a] of the sequences of its children in a row.
Walks(h, G) == h = [a \in Actors |-> G[a][Below(h, a)]]

LEMMA BelowSpreads ==
  ASSUME TreeInv, NEW X, NEW h, NEW a \in Actors,
         \A i \in DOMAIN children[a] : h[children[a][i]] \in Seq(X)
  PROVE  /\ Below(h, a) \in Seq(X)
         /\ \E K, I : Spread(Below(h, a), [i \in DOMAIN children[a] |-> h[children[a][i]]],
                             Len(children[a]), K, I)
<1>1. children[a] \in Seq(Actors)
  BY ChildrenAreActors DEF TreeInv
<1> PICK seqs : seqs = [i \in DOMAIN children[a] |-> h[children[a][i]]]
  OBVIOUS
<1> PICK V : V = Seq(X)
  OBVIOUS
<1>2. /\ Each(h, children[a]) \in Seq(V) /\ Len(Each(h, children[a])) = Len(children[a])
  <2> PICK s : s = children[a]
    OBVIOUS
  <2>1. s \in Seq(Actors) /\ \A i \in DOMAIN s : h[s[i]] \in V
    BY <1>1
  <2>2. Each(h, s) \in Seq(V) /\ Len(Each(h, s)) = Len(s)
    BY ONLY <2>1, EachType
  <2>3. QED
    BY <2>2
<1>3. seqs \in Seq(Seq(X)) /\ Len(seqs) = Len(children[a])
  BY <1>2 DEF Each
<1>4. FlattenSeq(seqs) \in Seq(X) /\ \E K, I : Spread(FlattenSeq(seqs), seqs, Len(seqs), K, I)
  BY <1>3, FlattenSpreads
<1>5. QED
  BY <1>3, <1>4 DEF Below

LEMMA WalkExists ==
  ASSUME TreeInv, NEW X, NEW G \in [Actors -> [Seq(X) -> Seq(X)]]
  PROVE  \E h : Walks(h, G)
<1> PICK V : V = Seq(X)
  OBVIOUS
<1> PICK F : F = [a \in Actors |-> [s \in Seq(V) |-> G[a][FlattenSeq(s)]]]
  OBVIOUS
<1>1. F \in [Actors -> [Seq(V) -> V]]
  <2>1. \A s \in Seq(V) : FlattenSeq(s) \in Seq(X)
    BY FlattenSpreads
  <2>2. QED
    BY <2>1
<1>2. PICK h : FromChildren(h, V, F)
  BY <1>1, ActorRecursion
<1>3. ASSUME NEW a \in Actors
      PROVE  h[a] = G[a][Below(h, a)]
  <2>1. PICK e \in Seq(V) :
          /\ h[a] = F[a][e]
          /\ DOMAIN e = DOMAIN children[a] /\ Len(e) = Len(children[a])
          /\ \A i \in DOMAIN e : e[i] = h[children[a][i]]
    BY <1>2 DEF FromChildren
  <2>2. e = [i \in DOMAIN children[a] |-> h[children[a][i]]]
    <3>1. e = [i \in DOMAIN e |-> e[i]]
      BY LenProperties
    <3>2. QED
      BY <2>1, <3>1
  <2>3. F[a][e] = G[a][FlattenSeq(e)]
    OBVIOUS
  <2>4. QED
    BY <2>1, <2>2, <2>3 DEF Below
<1>4. QED
  BY <1>2, <1>3 DEF FromChildren, Walks

LEMMA WalkIs ==
  ASSUME TreeInv, NEW X, NEW G \in [Actors -> [Seq(X) -> Seq(X)]], NEW h, Walks(h, G)
  PROVE  h \in [Actors -> Seq(X)] /\ \A a \in Actors : h[a] = G[a][Below(h, a)]
<1>1. \A a \in Actors : h[a] = G[a][Below(h, a)]
  BY DEF Walks
<1> PICK Fine : Fine = {a \in Actors : h[a] \in Seq(X)}
  OBVIOUS
<1>2. ASSUME NEW a \in Actors, \A i \in DOMAIN children[a] : children[a][i] \in Fine
      PROVE  a \in Fine
  <2>1. Below(h, a) \in Seq(X)
    BY <1>2, BelowSpreads
  <2>2. QED
    BY <1>1, <2>1
<1>3. Fine = Actors
  BY <1>2, TreeInduction
<1>4. QED
  BY <1>1, <1>3 DEF Walks

\* Each element of flat is one of those of a child, those of s, and comes after
\* those of elder ones.
RunsThrough(flat, s, h, K, I) ==
  /\ \A p \in DOMAIN flat : /\ K[p] \in DOMAIN s /\ I[p] \in DOMAIN h[s[K[p]]]
                            /\ flat[p] = h[s[K[p]]][I[p]]
  /\ \A p, q \in DOMAIN flat : p < q => K[p] < K[q] \/ (K[p] = K[q] /\ I[p] < I[q])
  /\ \A k \in DOMAIN s : \A i \in DOMAIN h[s[k]] : \E p \in DOMAIN flat : K[p] = k /\ I[p] = i

LEMMA SpreadRuns ==
  ASSUME NEW flat, DOMAIN flat = 1 .. Len(flat), NEW s, DOMAIN s = 1 .. Len(s),
         NEW h, NEW seqs, seqs = [i \in DOMAIN s |-> h[s[i]]],
         NEW K, NEW I, Spread(flat, seqs, Len(s), K, I)
  PROVE  RunsThrough(flat, s, h, K, I)
<1>1. \A k \in DOMAIN s : seqs[k] = h[s[k]]
  OBVIOUS
<1>2. K \in [DOMAIN flat -> DOMAIN s]
  BY DEF Spread
<1>3. \A p \in DOMAIN flat : I[p] \in DOMAIN seqs[K[p]] /\ flat[p] = seqs[K[p]][I[p]]
  BY DEF Spread
<1>4. \A p, q \in DOMAIN flat : p < q => K[p] < K[q] \/ (K[p] = K[q] /\ I[p] < I[q])
  BY DEF Spread
<1>5. \A k \in DOMAIN s : \A i \in DOMAIN seqs[k] : \E p \in DOMAIN flat : K[p] = k /\ I[p] = i
  BY DEF Spread
<1>6. QED
  BY ONLY <1>1, <1>2, <1>3, <1>4, <1>5 DEF RunsThrough

LEMMA BelowIs ==
  ASSUME TreeInv, NEW X, NEW h \in [Actors -> Seq(X)], NEW a \in Actors
  PROVE  /\ Below(h, a) \in Seq(X)
         /\ \E K, I : RunsThrough(Below(h, a), children[a], h, K, I)
<1>1. \A i \in DOMAIN children[a] : h[children[a][i]] \in Seq(X)
  BY ChildrenAreActors DEF TreeInv
<1> PICK seqs : seqs = [i \in DOMAIN children[a] |-> h[children[a][i]]]
  OBVIOUS
<1>2. Below(h, a) \in Seq(X)
  BY <1>1, BelowSpreads
<1>3. PICK K, I : Spread(Below(h, a), seqs, Len(children[a]), K, I)
  BY <1>1, BelowSpreads
<1>4. /\ DOMAIN children[a] = 1 .. Len(children[a])
      /\ DOMAIN Below(h, a) = 1 .. Len(Below(h, a))
  <2>1. children[a] \in Seq(Actors)
    BY ChildrenAreActors DEF TreeInv
  <2>2. QED
    BY <1>2, <2>1, LenProperties
<1>5. RunsThrough(Below(h, a), children[a], h, K, I)
  BY <1>3, <1>4, SpreadRuns
<1>6. QED
  BY <1>2, <1>5

-----------------------------------------------------------------------------
(* Who handles a method: the first in preorder.                            *)

LEMMA PreorderIs ==
  ASSUME TreeInv
  PROVE  /\ Preorder \in [Actors -> Seq(Actors)]
         /\ \A a \in Actors : Preorder[a] = <<a>> \o Below(Preorder, a)
<1> PICK G : G = [a \in Actors |-> [s \in Seq(Actors) |-> <<a>> \o s]]
  OBVIOUS
<1>1. G \in [Actors -> [Seq(Actors) -> Seq(Actors)]]
  <2>1. ASSUME NEW a \in Actors, NEW s \in Seq(Actors) PROVE <<a>> \o s \in Seq(Actors)
    <3>1. <<a>> \in Seq(Actors)
      OBVIOUS
    <3>2. QED
      BY <3>1, ConcatProperties
  <2>2. QED
    BY <2>1
<1> DEFINE P(h) == h = [a \in Actors |->
                          <<a>> \o FlattenSeq([i \in DOMAIN children[a] |-> h[children[a][i]]])]
<1>2. ASSUME NEW h, \A a \in Actors : Below(h, a) \in Seq(Actors)
      PROVE  Walks(h, G) <=> P(h)
  BY <1>2 DEF Walks, Below
<1>3. PICK g : Walks(g, G)
  BY <1>1, WalkExists
<1>4. \A a \in Actors : Below(g, a) \in Seq(Actors)
  BY <1>1, <1>3, WalkIs, BelowIs
<1>5. P(g)
  BY <1>2, <1>3, <1>4
<1>6. Preorder = CHOOSE h : P(h)
  BY DEF Preorder
<1> HIDE DEF P
<1>7. P(Preorder)
  BY <1>5, <1>6
<1> USE DEF P
<1>8. \A a \in Actors : Preorder[a] = <<a>> \o Below(Preorder, a)
  BY <1>7 DEF Below
<1> PICK Fine : Fine = {a \in Actors : Preorder[a] \in Seq(Actors)}
  OBVIOUS
<1>9. ASSUME NEW a \in Actors, \A i \in DOMAIN children[a] : children[a][i] \in Fine
      PROVE  a \in Fine
  <2>1. Below(Preorder, a) \in Seq(Actors) /\ <<a>> \in Seq(Actors)
    BY <1>9, BelowSpreads
  <2>2. Preorder[a] \in Seq(Actors)
    BY ONLY <1>8, <2>1, JoinType, a \in Actors
  <2>3. QED
    BY ONLY <2>2, a \in Actors, Fine = {b \in Actors : Preorder[b] \in Seq(Actors)}
<1>10. Fine = Actors
  BY <1>9, TreeInduction
<1>11. QED
  BY <1>7, <1>8, <1>10

LEMMA PreorderPositions ==
  ASSUME TreeInv, NEW a \in Actors
  PROVE  /\ Below(Preorder, a) \in Seq(Actors) /\ Preorder[a] \in Seq(Actors)
         /\ Preorder[a][1] = a /\ 1 \in DOMAIN Preorder[a]
         /\ \A p \in DOMAIN Below(Preorder, a) :
              p + 1 \in DOMAIN Preorder[a] /\ Preorder[a][p + 1] = Below(Preorder, a)[p]
         /\ \A p \in DOMAIN Preorder[a] : p = 1 \/ p - 1 \in DOMAIN Below(Preorder, a)
<1> PICK s \in Seq(Actors) : s = Below(Preorder, a)
  BY PreorderIs, BelowIs
<1> PICK n \in Nat : n = Len(s)
  BY LenProperties
<1>1. Preorder[a] = <<a>> \o s /\ Preorder[a] \in Seq(Actors)
  BY PreorderIs
<1>2. <<a>> \in Seq(Actors) /\ Len(<<a>>) = 1 /\ <<a>>[1] = a
  OBVIOUS
<1>3. /\ Len(<<a>> \o s) = 1 + n
      /\ \A p \in 1 .. (1 + n) : (<<a>> \o s)[p] = IF p <= 1 THEN <<a>>[p] ELSE s[p - 1]
  BY <1>2, ConcatProperties
<1>4. DOMAIN s = 1 .. n /\ DOMAIN Preorder[a] = 1 .. (1 + n)
  BY <1>1, <1>3, LenProperties
<1>5. QED
  BY <1>1, <1>2, <1>3, <1>4

\* b is the first in the tree of a with a handler for m.
FirstFor(m, a, b) ==
  /\ b \in Actors /\ methodHandlers[b][m] # "none"
  /\ \E p \in DOMAIN Preorder[a] :
       /\ Preorder[a][p] = b
       /\ \A q \in DOMAIN Preorder[a] : q < p => methodHandlers[Preorder[a][q]][m] = "none"

LEMMA HasIfInPreorder ==
  ASSUME TreeInv, NEW m, NEW a \in Actors, ~Has(m)[a], NEW p \in DOMAIN Preorder[a]
  PROVE  methodHandlers[Preorder[a][p]][m] = "none"
<1> PICK Fine : Fine = {b \in Actors : Has(m)[b] \/
                  \A q \in DOMAIN Preorder[b] : methodHandlers[Preorder[b][q]][m] = "none"}
  OBVIOUS
<1>1. ASSUME NEW b \in Actors, \A i \in DOMAIN children[b] : children[b][i] \in Fine
      PROVE  b \in Fine
  <2>1. SUFFICES ASSUME ~Has(m)[b], NEW q \in DOMAIN Preorder[b]
                 PROVE  methodHandlers[Preorder[b][q]][m] = "none"
    OBVIOUS
  <2>2. methodHandlers[b][m] = "none" /\ \A i \in DOMAIN children[b] : ~Has(m)[children[b][i]]
    BY <2>1, HasIs
  <2>3. CASE q = 1
    BY <2>2, <2>3, PreorderPositions
  <2>4. CASE q # 1
    <3> PICK flat : flat = Below(Preorder, b)
      OBVIOUS
    <3>1. q - 1 \in DOMAIN flat /\ (q - 1) + 1 = q
      <4>1. Preorder[b] \in Seq(Actors)
        BY PreorderPositions
      <4>2. q \in Nat
        BY <4>1, LenProperties
      <4>3. q - 1 \in DOMAIN flat
        BY <2>4, PreorderPositions
      <4>4. QED
        BY <4>2, <4>3
    <3>2. Preorder[b][q] = flat[q - 1]
      BY <3>1, PreorderPositions
    <3>3. PICK K, I : RunsThrough(flat, children[b], Preorder, K, I)
      BY PreorderIs, BelowIs
    <3>4. /\ K[q - 1] \in DOMAIN children[b] /\ I[q - 1] \in DOMAIN Preorder[children[b][K[q - 1]]]
          /\ flat[q - 1] = Preorder[children[b][K[q - 1]]][I[q - 1]]
      BY <3>1, <3>3 DEF RunsThrough
    <3>5. QED
      BY <1>1, <2>2, <3>2, <3>4
  <2>5. QED
    BY <2>3, <2>4
<1>2. Fine = Actors
  BY <1>1, TreeInduction
<1>3. QED
  BY <1>2

\* The first in the tree of a child with the method is that of a, if a has no
\* handler and no elder child has the method.
LEMMA FirstOfChild ==
  ASSUME TreeInv, NEW m, NEW a \in Actors, methodHandlers[a][m] = "none",
         NEW k \in DOMAIN children[a],
         \A i \in DOMAIN children[a] : i < k => ~Has(m)[children[a][i]],
         NEW b, FirstFor(m, children[a][k], b)
  PROVE  FirstFor(m, a, b)
<1> PICK flat \in Seq(Actors) : flat = Below(Preorder, a)
  BY PreorderPositions
<1> PICK c \in Actors : c = children[a][k]
  BY ChildrenAreActors DEF TreeInv
<1>1. PICK i \in DOMAIN Preorder[c] :
        /\ Preorder[c][i] = b
        /\ \A q \in DOMAIN Preorder[c] : q < i => methodHandlers[Preorder[c][q]][m] = "none"
  BY DEF FirstFor
<1>2. PICK K, I : RunsThrough(flat, children[a], Preorder, K, I)
  BY PreorderIs, BelowIs
<1>3. PICK p \in DOMAIN flat : K[p] = k /\ I[p] = i
  <2>1. \A j \in DOMAIN Preorder[children[a][k]] : \E p \in DOMAIN flat : K[p] = k /\ I[p] = j
    BY <1>2 DEF RunsThrough
  <2>2. QED
    BY <1>1, <2>1
<1>4. flat[p] = b
  BY <1>1, <1>2, <1>3 DEF RunsThrough
<1>5. ASSUME NEW q \in DOMAIN flat, q < p
      PROVE  methodHandlers[flat[q]][m] = "none"
  <2>1. /\ K[q] \in DOMAIN children[a] /\ I[q] \in DOMAIN Preorder[children[a][K[q]]]
        /\ flat[q] = Preorder[children[a][K[q]]][I[q]]
        /\ K[q] < k \/ (K[q] = k /\ I[q] < i)
    BY <1>2, <1>3, <1>5 DEF RunsThrough
  <2>2. CASE K[q] < k
    <3>1. children[a][K[q]] \in Actors /\ ~Has(m)[children[a][K[q]]]
      BY <2>1, <2>2, ChildrenAreActors DEF TreeInv
    <3>2. QED
      BY <2>1, <3>1, HasIfInPreorder
  <2>3. CASE K[q] = k /\ I[q] < i
    BY <1>1, <2>1, <2>3
  <2>4. QED
    BY <2>1, <2>2, <2>3
<1>6. p + 1 \in DOMAIN Preorder[a] /\ Preorder[a][p + 1] = b
  BY <1>4, PreorderPositions
<1>7. ASSUME NEW q \in DOMAIN Preorder[a], q < p + 1
      PROVE  methodHandlers[Preorder[a][q]][m] = "none"
  <2>1. CASE q = 1
    BY <2>1, PreorderPositions
  <2>2. CASE q # 1
    <3>1. q \in Int /\ p \in Int
      <4>1. Preorder[a] \in Seq(Actors)
        BY PreorderPositions
      <4>2. QED
        BY <4>1, LenProperties
    <3>2. q - 1 \in DOMAIN flat /\ (q - 1) + 1 = q /\ q - 1 < p
      <4>1. q - 1 \in DOMAIN flat
        BY <2>2, PreorderPositions
      <4>2. p \in Int
        BY LenProperties
      <4>3. (q - 1) + 1 = q /\ q - 1 < p
        BY ONLY <1>7, <3>1, <4>2
      <4>4. QED
        BY ONLY <4>1, <4>3
    <3>3. Preorder[a][q] = flat[q - 1]
      <4>1. \A x \in DOMAIN flat : Preorder[a][x + 1] = flat[x]
        BY PreorderPositions
      <4>2. QED
        BY ONLY <3>2, <4>1
    <3>4. QED
      BY <1>5, <3>2, <3>3
  <2>3. QED
    BY <2>1, <2>2
<1>8. QED
  BY <1>6, <1>7 DEF FirstFor

Answered(d) == d.does \in {"callback", "invalid"}

\* An actor that has a handler for the method is the first of its own tree.
LEMMA FirstIfOwn ==
  ASSUME TreeInv, NEW m, NEW a \in Actors, methodHandlers[a][m] # "none"
  PROVE  FirstFor(m, a, a)
<1>1. Preorder[a][1] = a /\ 1 \in DOMAIN Preorder[a] /\ Preorder[a] \in Seq(Actors)
  BY PreorderPositions
<1>2. \A q \in DOMAIN Preorder[a] : ~(q < 1)
  BY <1>1, LenProperties
<1>3. QED
  BY <1>1, <1>2 DEF FirstFor

LEMMA FeedFirst ==
  ASSUME TreeInv, NEW message, message.type \in {"request", "notify"}, NEW a \in Actors, Has(message.method)[a]
  PROVE  Answered(Feed(message)[a]) /\ FirstFor(message.method, a, Feed(message)[a].actor)
<1> PICK m : m = message.method
  OBVIOUS
<1> DEFINE Right(b, d) == Answered(d) /\ FirstFor(m, b, d.actor)
<1> PICK Fine : Fine = {b \in Actors : Has(m)[b] => Right(b, Feed(message)[b])}
  OBVIOUS
<1>1. ASSUME NEW b \in Actors, \A i \in DOMAIN children[b] : children[b][i] \in Fine
      PROVE  b \in Fine
  <2>1. SUFFICES ASSUME Has(m)[b] PROVE Right(b, Feed(message)[b])
    OBVIOUS
  <2>2. CASE Stops(message, b) /\ Feed(message)[b] = Own(message, b)
    <3>1. methodHandlers[b][m] # "none"
      <4>1. SUFFICES ASSUME methodHandlers[b][m] = "none" PROVE FALSE
        OBVIOUS
      <4>2. ChildWith(b, m) = Nobody
        BY <2>2, <4>1 DEF Stops
      <4>3. \A i \in DOMAIN children[b] : ~Has(m)[children[b][i]]
        BY <4>2, ChildWithIs
      <4>4. QED
        BY <2>1, <4>1, <4>3, HasIs
    <3>2. Own(message, b).actor = b /\ Answered(Own(message, b))
      BY <3>1, OwnIs DEF Answered
    <3>3. FirstFor(m, b, b)
      BY <3>1, FirstIfOwn
    <3>4. QED
      BY <2>2, <3>2, <3>3
  <2>3. ASSUME methodHandlers[b][m] = "none", NEW k \in DOMAIN children[b],
               Feed(message)[b] = Feed(message)[children[b][k]], Has(m)[children[b][k]],
               \A i \in DOMAIN children[b] : i < k => ~Has(m)[children[b][i]]
        PROVE  Right(b, Feed(message)[b])
    <3>1. Right(children[b][k], Feed(message)[children[b][k]])
      BY <1>1, <2>3
    <3>2. FirstFor(m, b, Feed(message)[b].actor)
      BY <2>3, <3>1, FirstOfChild
    <3>3. QED
      BY <2>3, <3>1, <3>2
  <2> HIDE DEF Right
  <2>4. QED
    BY <2>2, <2>3, FeedStep
<1>2. Fine = Actors
  <2> HIDE DEF Right
  <2>1. QED
    BY <1>1, TreeInduction
<1>3. QED
  BY <1>2

\* Otherwise nobody below is asked.
LEMMA FeedWithout ==
  ASSUME TreeInv, NEW message, NEW a \in Actors,
         message.type \notin {"request", "notify"} \/ ~Has(message.method)[a]
  PROVE  ~Answered(Feed(message)[a]) /\ Feed(message)[a].actor = a
<1>1. Stops(message, a) /\ Feed(message)[a] = Own(message, a)
  BY FeedStep, HasIs
<1>2. message.type \notin {"request", "notify"} \/ methodHandlers[a][message.method] = "none"
  BY HasIs
<1>3. ~Answered(Own(message, a))
  BY <1>2 DEF Answered, Own, Decision
<1>4. QED
  BY <1>1, <1>3, OwnIs

\* HandlerOf(m) is the first.
LEMMA HandlerOfIs ==
  ASSUME TreeInv, NEW m, NEW b, FirstFor(m, Root, b)
  PROVE  HandlerOf(m) = b
<1> PICK s : s = Preorder[Root]
  OBVIOUS
<1>1. s \in Seq(Actors)
  BY ActorAssumption, PreorderPositions
<1>2. DOMAIN s = 1 .. Len(s) /\ Len(s) \in Nat
  BY <1>1, LenProperties
<1> PICK I : I = {i \in 1 .. Len(s) : methodHandlers[s[i]][m] # "none"}
  OBVIOUS
<1> PICK k : k = IF I # {} THEN Min(I) ELSE 0
  OBVIOUS
<1>3. \/ k = 0 /\ I = {}
      \/ k # 0 /\ k \in I /\ \A i \in 1 .. Len(s) : i < k => i \notin I
  <2>1. I \in SUBSET (1 .. Len(s))
    OBVIOUS
  <2>2. QED
    BY ONLY <1>2, <2>1, SelectFirst, k = IF I # {} THEN Min(I) ELSE 0
<1>4. HandlerOf(m) = s[k]
  BY DEF HandlerOf, SelectInSeq
<1>5. PICK p \in 1 .. Len(s) :
        /\ s[p] = b /\ methodHandlers[b][m] # "none"
        /\ \A q \in 1 .. Len(s) : q < p => methodHandlers[s[q]][m] = "none"
  BY <1>2 DEF FirstFor
<1>6. p \in I /\ \A q \in I : ~(q < p)
  BY <1>5
<1>7. k \in 1 .. Len(s) /\ ~(p < k) /\ ~(k < p)
  BY <1>3, <1>5, <1>6
<1>8. k = p
  BY <1>2, <1>7
<1>9. QED
  BY <1>4, <1>5, <1>8

-----------------------------------------------------------------------------
(* The methods shown.                                                      *)

Handled(a) == {m \in Methods : methodHandlers[a][m] # "none"}

\* Handlers are registered one at a time.
FewHandlers == \A a \in Actors : IsFiniteSet(Handled(a))

LEMMA InitFew == ActorInit => FewHandlers
<1> SUFFICES ASSUME ActorInit, NEW a \in Actors PROVE IsFiniteSet(Handled(a))
  BY DEF FewHandlers
<1>1. Handled(a) = {}
  BY DEF ActorInit, Handled
<1>2. QED
  BY <1>1, FS_EmptySet

LEMMA RegisterFew == TreeInv /\ FewHandlers /\ Register => FewHandlers'
<1> SUFFICES ASSUME TreeInv, FewHandlers, Register, NEW a \in Actors
             PROVE  IsFiniteSet(Handled(a)')
  BY DEF FewHandlers
<1>1. \E m : Handled(a)' \in SUBSET (Handled(a) \cup {m})
  <2>1. methodHandlers \in [Actors -> [Methods -> Handlers]]
    BY DEF TreeInv, StateOK
  <2>2. ASSUME NEW reg \in Registrations, OnRequest(reg[1], reg[2], reg[3])
        PROVE  Handled(a)' \in SUBSET (Handled(a) \cup {reg[2]})
    <3>1. methodHandlers' = [methodHandlers EXCEPT ![reg[1]][reg[2]] = reg[3]]
      BY <2>2 DEF OnRequest
    <3>2. QED
      BY <2>1, <3>1 DEF Handled
  <2>3. ASSUME NEW reg \in Registrations, Off(reg[1], reg[2])
        PROVE  Handled(a)' \in SUBSET (Handled(a) \cup {reg[2]})
    <3>1. methodHandlers' = [methodHandlers EXCEPT ![reg[1]][reg[2]] = "none"]
      BY <2>3 DEF Off
    <3>2. QED
      BY <2>1, <3>1 DEF Handled
  <2>4. CASE UNCHANGED methodHandlers
    BY <2>4 DEF Handled
  <2>5. QED
    BY <2>2, <2>3, <2>4 DEF Register, OnMissing, OnClose, AddChild
<1>2. PICK m : Handled(a)' \in SUBSET (Handled(a) \cup {m})
  BY <1>1
<1>3. IsFiniteSet(Handled(a) \cup {m})
  BY FS_AddElement DEF FewHandlers
<1>4. QED
  BY <1>2, <1>3, FS_Subset

LEMMA SetToSeqIs ==
  ASSUME NEW S, IsFiniteSet(S)
  PROVE  SetToSeq(S) \in Seq(S) /\ ToSet(SetToSeq(S)) = S
<1> PICK n \in Nat : n = Cardinality(S)
  BY FS_CardinalityType
<1>1. PICK g : g \in Bijection(1 .. n, S)
  BY FS_CardinalityType DEF ExistsBijection
<1>2. g \in [1 .. n -> S] /\ IsInjective(g)
  BY <1>1 DEF Bijection, Injection
<1> PICK f : f = SetToSeq(S)
  OBVIOUS
<1>3. f \in [1 .. n -> S] /\ IsInjective(f)
  BY <1>2 DEF SetToSeq
<1>4. f \in Injection(1 .. n, S)
  BY <1>3 DEF Injection
<1>5. IsFiniteSet(1 .. n) /\ Cardinality(1 .. n) = n
  BY FS_Interval
<1>6. f \in Surjection(1 .. n, S)
  BY <1>4, <1>5, FS_Injection
<1>7. \A x \in S : \E i \in 1 .. n : f[i] = x
  BY <1>6 DEF Surjection
<1>8. f \in Seq(S) /\ DOMAIN f = 1 .. n
  BY <1>3
<1>9. QED
  BY <1>3, <1>7, <1>8 DEF ToSet

LEMMA InConcat ==
  ASSUME NEW X, NEW s \in Seq(X), NEW t \in Seq(X)
  PROVE  ToSet(s \o t) = ToSet(s) \cup ToSet(t)
<1> PICK n \in Nat : n = Len(s)
  BY LenProperties
<1> PICK k \in Nat : k = Len(t)
  BY LenProperties
<1>1. /\ s \o t \in Seq(X) /\ Len(s \o t) = n + k
      /\ \A i \in 1 .. (n + k) : (s \o t)[i] = IF i <= n THEN s[i] ELSE t[i - n]
  BY ConcatProperties
<1> PICK u : u = s \o t
  OBVIOUS
<1>2. DOMAIN s = 1 .. n /\ DOMAIN t = 1 .. k /\ DOMAIN u = 1 .. (n + k)
  BY <1>1, LenProperties
<1>3. ASSUME NEW i \in 1 .. n PROVE i \in 1 .. (n + k) /\ u[i] = s[i]
  BY <1>1
<1>4. ASSUME NEW i \in 1 .. k PROVE n + i \in 1 .. (n + k) /\ u[n + i] = t[i]
  <2>1. n + i \in 1 .. (n + k) /\ ~(n + i <= n) /\ (n + i) - n = i
    OBVIOUS
  <2>2. QED
    BY <1>1, <2>1
<1>5. ASSUME NEW i \in 1 .. (n + k)
      PROVE  i \in 1 .. n \/ (i - n \in 1 .. k /\ u[i] = t[i - n])
  BY <1>1
<1>6. /\ ToSet(s) = {s[i] : i \in 1 .. n} /\ ToSet(t) = {t[i] : i \in 1 .. k}
      /\ ToSet(u) = {u[i] : i \in 1 .. (n + k)}
  BY <1>2 DEF ToSet
<1>7. ASSUME NEW x \in ToSet(u) PROVE x \in ToSet(s) \/ x \in ToSet(t)
  <2>1. PICK i \in 1 .. (n + k) : x = u[i]
    BY <1>6
  <2>2. QED
    BY <1>3, <1>5, <1>6, <2>1
<1>8. ASSUME NEW x, x \in ToSet(s) \/ x \in ToSet(t) PROVE x \in ToSet(u)
  BY <1>3, <1>4, <1>6, <1>8
<1>9. QED
  BY <1>7, <1>8

LEMMA InBelow ==
  ASSUME TreeInv, NEW X, NEW h \in [Actors -> Seq(X)], NEW a \in Actors, NEW x
  PROVE  x \in ToSet(Below(h, a)) <=> \E i \in DOMAIN children[a] : x \in ToSet(h[children[a][i]])
<1> PICK flat : flat = Below(h, a)
  OBVIOUS
<1> PICK s : s = children[a]
  OBVIOUS
<1>1. PICK K, I : RunsThrough(flat, s, h, K, I)
  BY BelowIs
<1>2. /\ \A p \in DOMAIN flat : /\ K[p] \in DOMAIN s /\ I[p] \in DOMAIN h[s[K[p]]]
                                /\ flat[p] = h[s[K[p]]][I[p]]
      /\ \A k \in DOMAIN s : \A i \in DOMAIN h[s[k]] : \E p \in DOMAIN flat : K[p] = k /\ I[p] = i
  BY <1>1 DEF RunsThrough
<1>3. x \in ToSet(flat) <=> \E k \in DOMAIN s : x \in ToSet(h[s[k]])
  BY ONLY <1>2 DEF ToSet
<1>4. QED
  BY <1>3

LEMMA MethodListIs ==
  ASSUME TreeInv, FewHandlers
  PROVE  /\ MethodList \in [Actors -> Seq(Methods)]
         /\ \A a \in Actors : MethodList[a] = SetToSeq(Handled(a)) \o Below(MethodList, a)
<1>1. \A a \in Actors : SetToSeq(Handled(a)) \in Seq(Methods)
  <2>1. ASSUME NEW a \in Actors PROVE SetToSeq(Handled(a)) \in Seq(Methods)
    <3>1. SetToSeq(Handled(a)) \in Seq(Handled(a))
      BY SetToSeqIs DEF FewHandlers
    <3>2. Handled(a) \in SUBSET Methods
      BY DEF Handled
    <3>3. QED
      BY <3>1, <3>2
  <2>2. QED
    BY <2>1
<1> PICK G : G = [a \in Actors |-> [s \in Seq(Methods) |-> SetToSeq(Handled(a)) \o s]]
  OBVIOUS
<1>2. G \in [Actors -> [Seq(Methods) -> Seq(Methods)]]
  BY <1>1, JoinType
<1> DEFINE P(h) == h = [a \in Actors |->
                          SetToSeq({m \in Methods : methodHandlers[a][m] # "none"})
                            \o FlattenSeq([i \in DOMAIN children[a] |-> h[children[a][i]]])]
<1>3. ASSUME NEW h, \A a \in Actors : Below(h, a) \in Seq(Methods)
      PROVE  Walks(h, G) <=> P(h)
  BY <1>3 DEF Walks, Below, Handled
<1>4. PICK g : Walks(g, G)
  BY <1>2, WalkExists
<1>5. \A a \in Actors : Below(g, a) \in Seq(Methods)
  BY <1>2, <1>4, WalkIs, BelowIs
<1>6. P(g)
  BY <1>3, <1>4, <1>5
<1>7. MethodList = CHOOSE h : P(h)
  BY DEF MethodList
<1> HIDE DEF P
<1>8. P(MethodList)
  BY <1>6, <1>7
<1> USE DEF P
<1>9. \A a \in Actors : MethodList[a] = SetToSeq(Handled(a)) \o Below(MethodList, a)
  BY <1>8 DEF Below, Handled
<1> PICK Fine : Fine = {a \in Actors : MethodList[a] \in Seq(Methods)}
  OBVIOUS
<1>10. ASSUME NEW a \in Actors, \A i \in DOMAIN children[a] : children[a][i] \in Fine
       PROVE  a \in Fine
  <2>1. Below(MethodList, a) \in Seq(Methods)
    BY <1>10, BelowSpreads
  <2>2. SetToSeq(Handled(a)) \in Seq(Methods)
    BY <1>1
  <2>3. MethodList[a] \in Seq(Methods)
    BY ONLY <1>9, <2>1, <2>2, JoinType, a \in Actors
  <2>4. QED
    BY ONLY <2>3, a \in Actors, Fine = {b \in Actors : MethodList[b] \in Seq(Methods)}
<1>11. Fine = Actors
  BY <1>10, TreeInduction
<1>12. QED
  BY <1>8, <1>9, <1>11

\* MethodList shows the methods that Has finds.
LEMMA ListedIfHas ==
  ASSUME TreeInv, FewHandlers, NEW m \in Methods, NEW a \in Actors
  PROVE  m \in ToSet(MethodList[a]) <=> Has(m)[a]
<1> PICK Fine : Fine = {b \in Actors : m \in ToSet(MethodList[b]) <=> Has(m)[b]}
  OBVIOUS
<1>1. ASSUME NEW b \in Actors, \A i \in DOMAIN children[b] : children[b][i] \in Fine
      PROVE  b \in Fine
  <2>1. /\ MethodList \in [Actors -> Seq(Methods)]
        /\ MethodList[b] = SetToSeq(Handled(b)) \o Below(MethodList, b)
    BY MethodListIs
  <2>2. Below(MethodList, b) \in Seq(Methods)
    BY <2>1, BelowIs
  <2>3. SetToSeq(Handled(b)) \in Seq(Methods) /\ ToSet(SetToSeq(Handled(b))) = Handled(b)
    <3>1. /\ SetToSeq(Handled(b)) \in Seq(Handled(b))
          /\ ToSet(SetToSeq(Handled(b))) = Handled(b)
      BY SetToSeqIs DEF FewHandlers
    <3>2. Handled(b) \in SUBSET Methods
      BY DEF Handled
    <3>3. QED
      BY <3>1, <3>2
  <2>4. ToSet(MethodList[b]) = Handled(b) \cup ToSet(Below(MethodList, b))
    BY <2>1, <2>2, <2>3, InConcat
  <2>5. (m \in ToSet(Below(MethodList, b)))
          <=> \E i \in DOMAIN children[b] : m \in ToSet(MethodList[children[b][i]])
    BY <2>1, InBelow
  <2>6. (m \in ToSet(Below(MethodList, b))) <=> \E i \in DOMAIN children[b] : Has(m)[children[b][i]]
    BY <1>1, <2>5
  <2>7. (m \in Handled(b)) <=> methodHandlers[b][m] # "none"
    BY DEF Handled
  <2>8. QED
    BY <2>4, <2>6, <2>7, HasIs
<1>2. Fine = Actors
  BY <1>1, TreeInduction
<1>3. QED
  BY <1>2

\* HandledByFirst, in any tree.
LEMMA FirstHandles ==
  ASSUME TreeInv, FewHandlers
  PROVE  HandledByFirst
<1> SUFFICES ASSUME NEW message \in Message
             PROVE  LET d == Feed(message)[Root] IN
                    /\ d.does \in {"callback", "invalid"} => d.actor = HandlerOf(message.method)
                    /\ d.does \in {"missing", "missing unguarded"} => d.actor = Root
                    /\ message.type # "reply" =>
                         (d.does \in {"callback", "invalid"}
                            <=> message.method \in ToSet(MethodList[Root]))
  BY DEF HandledByFirst
<1> PICK d : d = Feed(message)[Root]
  OBVIOUS
<1> PICK m \in Methods : m = message.method
  BY DEF Message
<1>1. Root \in Actors
  BY ActorAssumption
<1>2. message.type = "reply" <=> message.type \notin {"request", "notify"}
  BY DEF Message
<1>3. CASE message.type # "reply" /\ Has(m)[Root]
  <2>1. Answered(d) /\ FirstFor(m, Root, d.actor)
    BY <1>1, <1>2, <1>3, FeedFirst
  <2>2. HandlerOf(m) = d.actor
    BY <2>1, HandlerOfIs
  <2>3. m \in ToSet(MethodList[Root])
    BY <1>1, <1>3, ListedIfHas
  <2>4. QED
    BY <2>1, <2>2, <2>3 DEF Answered
<1>4. CASE message.type = "reply" \/ ~Has(m)[Root]
  <2>1. ~Answered(d) /\ d.actor = Root
    BY <1>1, <1>2, <1>4, FeedWithout
  <2>2. ~Has(m)[Root] => m \notin ToSet(MethodList[Root])
    BY <1>1, ListedIfHas
  <2>3. QED
    BY <1>4, <2>1, <2>2 DEF Answered
<1>5. QED
  BY <1>3, <1>4

-----------------------------------------------------------------------------
(* The subtrees of siblings are apart.                                     *)

\* All but the first of a subtree have a parent in it.
LEMMA ParentIn ==
  ASSUME TreeInv, NEW a \in Actors, NEW y \in Descendants[a], y # a
  PROVE  \E z \in Descendants[a] : \E k \in DOMAIN children[z] : children[z][k] = y
<1> PICK Fine : Fine = {b \in Actors : (y \in Descendants[b] /\ y # b) =>
                  \E z \in Descendants[b] : \E k \in DOMAIN children[z] : children[z][k] = y}
  OBVIOUS
<1>1. ASSUME NEW b \in Actors, \A i \in DOMAIN children[b] : children[b][i] \in Fine
      PROVE  b \in Fine
  <2>1. SUFFICES ASSUME y \in Descendants[b], y # b
                 PROVE  \E z \in Descendants[b] : \E k \in DOMAIN children[z] : children[z][k] = y
    OBVIOUS
  <2>2. PICK i \in DOMAIN children[b] : y \in Descendants[children[b][i]]
    BY <2>1, DescendantsOf
  <2>3. CASE y = children[b][i]
    BY <2>2, <2>3, DescendantsOf
  <2>4. CASE y # children[b][i]
    <3>1. \E z \in Descendants[children[b][i]] : \E k \in DOMAIN children[z] : children[z][k] = y
      BY <1>1, <2>2, <2>4
    <3>2. QED
      BY <2>2, <3>1, DescendantsOf
  <2>5. QED
    BY <2>3, <2>4
<1>2. Fine = Actors
  BY <1>1, TreeInduction
<1>3. QED
  BY <1>2

LEMMA DescendantsTransitive ==
  ASSUME TreeInv, NEW a \in Actors, NEW y \in Descendants[a]
  PROVE  Descendants[y] \in SUBSET Descendants[a]
<1> PICK Fine : Fine = {b \in Actors : b \in Descendants[a] =>
                          Descendants[b] \in SUBSET Descendants[a]}
  OBVIOUS
<1>1. ASSUME NEW b \in Actors, \A i \in DOMAIN children[b] : children[b][i] \in Fine
      PROVE  b \in Fine
  <2>1. SUFFICES ASSUME b \in Descendants[a], NEW z \in Descendants[b]
                 PROVE  z \in Descendants[a]
    OBVIOUS
  <2>2. CASE z = b
    BY <2>1, <2>2
  <2>3. CASE z # b
    <3>1. PICK i \in DOMAIN children[b] : z \in Descendants[children[b][i]]
      BY <2>3, DescendantsOf
    <3>2. children[b][i] \in Descendants[a]
      BY <2>1, DescendantsClosed
    <3>3. QED
      BY <1>1, <3>1, <3>2
  <2>4. QED
    BY <2>2, <2>3
<1>2. Fine = Actors
  BY <1>1, TreeInduction
<1>3. y \in Actors
  BY DescendantsOf
<1>4. QED
  BY <1>2, <1>3

LEMMA NotBelowItself ==
  ASSUME TreeInv, NEW a \in Actors, NEW i \in DOMAIN children[a]
  PROVE  a \notin Descendants[children[a][i]]
<1> SUFFICES ASSUME a \in Descendants[children[a][i]] PROVE FALSE
  OBVIOUS
<1> PICK T : T = {x \in Descendants[a] : a \in Descendants[x]}
  OBVIOUS
<1>1. T \in SUBSET Actors /\ a \in T
  BY DescendantsOf
<1>2. PICK x \in T : \A k \in DOMAIN children[x] : children[x][k] \notin T
  BY <1>1 DEF TreeInv, Grounded
<1>3. x \in Actors /\ x \in Descendants[a] /\ a \in Descendants[x]
  BY <1>1, <1>2
<1>4. \A k \in DOMAIN children[x] : children[x][k] \in Descendants[a]
  BY <1>3, DescendantsClosed
<1>5. CASE x = a
  BY <1>2, <1>4, <1>5
<1>6. CASE x # a
  <2>1. PICK k \in DOMAIN children[x] : a \in Descendants[children[x][k]]
    BY <1>3, <1>6, DescendantsOf
  <2>2. QED
    BY <1>2, <1>4, <2>1
<1>7. QED
  BY <1>5, <1>6

\* Of two trees with a common actor one is in the other.
LEMMA OneInTheOther ==
  ASSUME TreeInv, NEW a \in Actors, NEW b \in Actors,
         NEW y \in Descendants[a], y \in Descendants[b]
  PROVE  a \in Descendants[b] \/ b \in Descendants[a]
<1> PICK Fine : Fine = {c \in Actors : y \in Descendants[c] =>
                          c \in Descendants[b] \/ b \in Descendants[c]}
  OBVIOUS
<1>1. ASSUME NEW c \in Actors, \A i \in DOMAIN children[c] : children[c][i] \in Fine
      PROVE  c \in Fine
  <2>1. SUFFICES ASSUME y \in Descendants[c]
                 PROVE  c \in Descendants[b] \/ b \in Descendants[c]
    OBVIOUS
  <2>2. CASE y = c
    BY <2>2
  <2>3. CASE y # c
    <3>1. PICK i \in DOMAIN children[c] : y \in Descendants[children[c][i]]
      BY <2>1, <2>3, DescendantsOf
    <3>2. children[c][i] \in Descendants[b] \/ b \in Descendants[children[c][i]]
      BY <1>1, <3>1
    <3>3. CASE b \in Descendants[children[c][i]] \/ b = children[c][i]
      <4>1. children[c][i] \in Actors
        BY ChildrenAreActors DEF TreeInv
      <4>2. b \in Descendants[children[c][i]]
        BY <3>3, <4>1, DescendantsOf
      <4>3. QED
        BY <4>2, DescendantsOf
    <3>4. CASE children[c][i] \in Descendants[b] /\ children[c][i] # b
      <4>1. PICK z \in Descendants[b] : \E k \in DOMAIN children[z] : children[z][k] = children[c][i]
        BY <3>4, ParentIn
      <4>2. z \in Actors
        BY DescendantsOf
      <4>3. z = c
        BY <4>1, <4>2 DEF TreeInv, OneParent
      <4>4. QED
        BY <4>3
    <3>5. QED
      BY <3>2, <3>3, <3>4
  <2>4. QED
    BY <2>2, <2>3
<1>2. Fine = Actors
  BY <1>1, TreeInduction
<1>3. QED
  BY <1>2

LEMMA SiblingsApart ==
  ASSUME TreeInv, NEW a \in Actors, NEW i \in DOMAIN children[a], NEW j \in DOMAIN children[a],
         i # j, NEW y \in Descendants[children[a][i]], y \in Descendants[children[a][j]]
  PROVE  FALSE
<1> PICK c : c = [k \in DOMAIN children[a] |-> children[a][k]]
  OBVIOUS
<1>1. \A k \in DOMAIN children[a] : c[k] = children[a][k] /\ c[k] \in Actors
  BY ChildrenAreActors DEF TreeInv
<1>2. ASSUME NEW k \in DOMAIN children[a], NEW l \in DOMAIN children[a], k # l
      PROVE  c[k] \notin Descendants[c[l]]
  <2>1. SUFFICES ASSUME c[k] \in Descendants[c[l]] PROVE FALSE
    OBVIOUS
  <2>2. c[k] # c[l]
    BY <1>1, <1>2 DEF TreeInv, OneParent
  <2>3. PICK z \in Descendants[c[l]] : \E n \in DOMAIN children[z] : children[z][n] = c[k]
    BY <1>1, <2>1, <2>2, ParentIn
  <2>4. z \in Actors
    BY <1>1, <2>3, DescendantsOf
  <2>5. z = a
    BY <1>1, <2>3, <2>4 DEF TreeInv, OneParent
  <2>6. QED
    BY <1>1, <2>3, <2>5, NotBelowItself
<1>3. c[i] \in Descendants[c[j]] \/ c[j] \in Descendants[c[i]]
  BY <1>1, OneInTheOther
<1>4. QED
  BY <1>2, <1>3

-----------------------------------------------------------------------------
(* The end of a session.                                                   *)

\* The call of an actor's own close handler.
OwnClose(a) == IF a \in closeHandler THEN <<a>> ELSE <<>>

LEMMA CloseCallsIs ==
  ASSUME TreeInv
  PROVE  /\ CloseCalls \in [Actors -> Seq(Actors)]
         /\ \A a \in Actors : CloseCalls[a] = Below(CloseCalls, a) \o OwnClose(a)
<1>1. \A a \in Actors : OwnClose(a) \in Seq(Actors)
  <2>1. \A a \in Actors : <<a>> \in Seq(Actors) /\ <<>> \in Seq(Actors)
    OBVIOUS
  <2>2. QED
    BY <2>1 DEF OwnClose
<1> PICK G : G = [a \in Actors |-> [s \in Seq(Actors) |-> s \o OwnClose(a)]]
  OBVIOUS
<1>2. G \in [Actors -> [Seq(Actors) -> Seq(Actors)]]
  BY <1>1, JoinType
<1> DEFINE P(h) == h = [a \in Actors |->
                          FlattenSeq([i \in DOMAIN children[a] |-> h[children[a][i]]])
                            \o (IF a \in closeHandler THEN <<a>> ELSE <<>>)]
<1>3. ASSUME NEW h, \A a \in Actors : Below(h, a) \in Seq(Actors)
      PROVE  Walks(h, G) <=> P(h)
  BY <1>3 DEF Walks, Below, OwnClose
<1>4. PICK g : Walks(g, G)
  BY <1>2, WalkExists
<1>5. \A a \in Actors : Below(g, a) \in Seq(Actors)
  BY <1>2, <1>4, WalkIs, BelowIs
<1>6. P(g)
  BY <1>3, <1>4, <1>5
<1>7. CloseCalls = CHOOSE h : P(h)
  BY DEF CloseCalls
<1> HIDE DEF P
<1>8. P(CloseCalls)
  BY <1>6, <1>7
<1> USE DEF P
<1>9. \A a \in Actors : CloseCalls[a] = Below(CloseCalls, a) \o OwnClose(a)
  BY <1>8 DEF Below, OwnClose
<1> PICK Fine : Fine = {a \in Actors : CloseCalls[a] \in Seq(Actors)}
  OBVIOUS
<1>10. ASSUME NEW a \in Actors, \A i \in DOMAIN children[a] : children[a][i] \in Fine
       PROVE  a \in Fine
  <2>1. Below(CloseCalls, a) \in Seq(Actors)
    BY <1>10, BelowSpreads
  <2>2. OwnClose(a) \in Seq(Actors)
    BY <1>1
  <2>3. CloseCalls[a] \in Seq(Actors)
    BY ONLY <1>9, <2>1, <2>2, JoinType, a \in Actors
  <2>4. QED
    BY ONLY <2>3, a \in Actors, Fine = {b \in Actors : CloseCalls[b] \in Seq(Actors)}
<1>11. Fine = Actors
  BY <1>10, TreeInduction
<1>12. QED
  BY <1>8, <1>9, <1>11

\* Who is called.
LEMMA ClosedBelow ==
  ASSUME TreeInv, NEW a \in Actors
  PROVE  ToSet(CloseCalls[a]) = closeHandler \cap Descendants[a]
<1> PICK Fine : Fine = {b \in Actors : ToSet(CloseCalls[b]) = closeHandler \cap Descendants[b]}
  OBVIOUS
<1>1. ASSUME NEW b \in Actors, \A i \in DOMAIN children[b] : children[b][i] \in Fine
      PROVE  b \in Fine
  <2>1. /\ CloseCalls \in [Actors -> Seq(Actors)]
        /\ CloseCalls[b] = Below(CloseCalls, b) \o OwnClose(b)
    BY CloseCallsIs
  <2>2. Below(CloseCalls, b) \in Seq(Actors)
    BY <2>1, BelowIs
  <2>3. OwnClose(b) \in Seq(Actors) /\ ToSet(OwnClose(b)) = closeHandler \cap {b}
    <3>1. /\ <<b>> \in Seq(Actors) /\ <<>> \in Seq(Actors)
          /\ DOMAIN <<b>> = {1} /\ DOMAIN <<>> = {} /\ <<b>>[1] = b
      OBVIOUS
    <3>2. QED
      BY <3>1 DEF OwnClose, ToSet
  <2>4. ToSet(CloseCalls[b]) = ToSet(Below(CloseCalls, b)) \cup ToSet(OwnClose(b))
    BY <2>1, <2>2, <2>3, InConcat
  <2>5. \A y : y \in ToSet(Below(CloseCalls, b))
                 <=> \E i \in DOMAIN children[b] : y \in ToSet(CloseCalls[children[b][i]])
    BY <2>1, InBelow
  <2>6. \A y : y \in ToSet(Below(CloseCalls, b))
                 <=> /\ y \in closeHandler
                     /\ \E i \in DOMAIN children[b] : y \in Descendants[children[b][i]]
    BY <1>1, <2>5
  <2>7. \A y : y \in Descendants[b]
                 <=> y = b \/ \E i \in DOMAIN children[b] : y \in Descendants[children[b][i]]
    BY DescendantsOf
  <2>8. ToSet(CloseCalls[b]) = closeHandler \cap Descendants[b]
    BY <2>3, <2>4, <2>6, <2>7
  <2>9. QED
    BY <2>8
<1>2. Fine = Actors
  BY <1>1, TreeInduction
<1>3. QED
  BY <1>2

\* Once, and not after somebody above.
InTurn(calls) ==
  \A p, q \in DOMAIN calls : p < q => calls[p] # calls[q] /\ calls[q] \notin Descendants[calls[p]]

LEMMA ClosedInTurn ==
  ASSUME TreeInv, NEW a \in Actors
  PROVE  InTurn(CloseCalls[a])
<1> PICK Fine : Fine = {b \in Actors : InTurn(CloseCalls[b])}
  OBVIOUS
<1>1. ASSUME NEW b \in Actors, \A i \in DOMAIN children[b] : children[b][i] \in Fine
      PROVE  b \in Fine
  <2> PICK kids \in Seq(Actors) : kids = children[b]
    BY ChildrenAreActors DEF TreeInv
  <2> PICK flat \in Seq(Actors) : flat = Below(CloseCalls, b)
    BY CloseCallsIs, BelowIs
  <2> PICK calls \in Seq(Actors) : calls = CloseCalls[b]
    BY CloseCallsIs
  <2> PICK n \in Nat : n = Len(flat)
    BY LenProperties
  <2>1. PICK K, I : RunsThrough(flat, kids, CloseCalls, K, I)
    BY CloseCallsIs, BelowIs
  <2>2. \A k \in DOMAIN kids : kids[k] \in Actors /\ InTurn(CloseCalls[kids[k]])
    BY <1>1, ElementOfSeq, LenProperties
  \* The calls of the children.
  <2>3. ASSUME NEW p \in DOMAIN flat
        PROVE  /\ K[p] \in DOMAIN kids /\ I[p] \in DOMAIN CloseCalls[kids[K[p]]]
               /\ flat[p] = CloseCalls[kids[K[p]]][I[p]]
               /\ flat[p] \in Descendants[kids[K[p]]]
    <3>1. /\ K[p] \in DOMAIN kids /\ I[p] \in DOMAIN CloseCalls[kids[K[p]]]
          /\ flat[p] = CloseCalls[kids[K[p]]][I[p]]
      BY <2>1 DEF RunsThrough
    <3>2. flat[p] \in ToSet(CloseCalls[kids[K[p]]])
      BY <3>1 DEF ToSet
    <3>3. QED
      BY <2>2, <3>1, <3>2, ClosedBelow
  <2>4. ASSUME NEW p \in DOMAIN flat
        PROVE  Descendants[flat[p]] \in SUBSET Descendants[kids[K[p]]]
    BY <2>2, <2>3, DescendantsTransitive
  <2>5. ASSUME NEW p \in DOMAIN flat, NEW q \in DOMAIN flat, p < q
        PROVE  flat[p] # flat[q] /\ flat[q] \notin Descendants[flat[p]]
    <3>1. K[p] < K[q] \/ (K[p] = K[q] /\ I[p] < I[q])
      BY <2>1, <2>5 DEF RunsThrough
    <3>2. K[p] \in Int /\ K[q] \in Int
      BY <2>3, LenProperties
    <3>3. flat[p] \in Actors /\ flat[p] \in Descendants[flat[p]]
      <4>1. flat[p] \in Actors
        BY ElementOfSeq, LenProperties
      <4>2. QED
        BY <4>1, DescendantsOf
    <3>4. CASE K[p] < K[q]
      <4>1. K[p] # K[q]
        BY <3>2, <3>4
      <4>2. flat[q] \notin Descendants[flat[p]]
        BY <2>3, <2>4, <4>1, SiblingsApart
      <4>3. QED
        BY <3>3, <4>2
    <3>5. CASE K[p] = K[q] /\ I[p] < I[q]
      <4> PICK c : c = CloseCalls[kids[K[p]]]
        OBVIOUS
      <4>1. I[p] \in DOMAIN c /\ I[q] \in DOMAIN c /\ flat[p] = c[I[p]] /\ flat[q] = c[I[q]]
        BY <2>3, <3>5
      <4>2. InTurn(c)
        BY <2>2, <2>3
      <4>3. QED
        BY <3>5, <4>1, <4>2 DEF InTurn
    <3>6. QED
      BY <3>1, <3>4, <3>5
  \* The actor's own.
  <2>6. ASSUME NEW p \in DOMAIN flat
        PROVE  flat[p] # b /\ b \notin Descendants[flat[p]]
    <3>1. b \notin Descendants[kids[K[p]]]
      BY <2>3, NotBelowItself
    <3>2. QED
      BY <2>3, <2>4, <3>1
  <2>7. \A p \in DOMAIN calls : (p \in DOMAIN flat /\ calls[p] = flat[p])
                                  \/ (p = n + 1 /\ calls[p] = b)
    <3>1. calls = flat \o OwnClose(b)
      BY CloseCallsIs
    <3>2. CASE b \in closeHandler
      <4>1. calls = flat \o <<b>> /\ <<b>> \in Seq(Actors) /\ Len(<<b>>) = 1 /\ <<b>>[1] = b
        BY <3>1, <3>2 DEF OwnClose
      <4>2. /\ Len(flat \o <<b>>) = n + 1
            /\ \A p \in 1 .. (n + 1) : (flat \o <<b>>)[p] = IF p <= n THEN flat[p] ELSE <<b>>[p - n]
        BY <4>1, ConcatProperties
      <4>3. DOMAIN calls = 1 .. (n + 1) /\ DOMAIN flat = 1 .. n
        BY <4>1, <4>2, LenProperties
      <4>4. QED
        BY <4>1, <4>2, <4>3
    <3>3. CASE b \notin closeHandler
      <4>1. calls = flat
        BY <3>1, <3>3, ConcatEmptySeq DEF OwnClose
      <4>2. QED
        BY <4>1
    <3>4. QED
      BY <3>2, <3>3
  <2>8. DOMAIN flat = 1 .. n
    BY LenProperties
  <2>9. ASSUME NEW p \in DOMAIN calls, NEW q \in DOMAIN calls, p < q
        PROVE  calls[p] # calls[q] /\ calls[q] \notin Descendants[calls[p]]
    <3>1. p \in DOMAIN flat /\ calls[p] = flat[p]
      BY <2>7, <2>8, <2>9
    <3>2. CASE q \in DOMAIN flat /\ calls[q] = flat[q]
      BY <2>5, <2>9, <3>1, <3>2
    <3>3. CASE calls[q] = b
      BY <2>6, <3>1, <3>3
    <3>4. QED
      BY <2>7, <3>2, <3>3
  <2>10. InTurn(calls)
    BY <2>9 DEF InTurn
  <2>11. QED
    BY <2>10
<1>2. Fine = Actors
  BY <1>1, TreeInduction
<1>3. QED
  BY <1>2

\* ClosedEverywhere, in any tree.
LEMMA AllAreClosed ==
  ASSUME TreeInv
  PROVE  ClosedEverywhere
<1> PICK calls : calls = CloseCalls[Root]
  OBVIOUS
<1>1. Root \in Actors
  BY ActorAssumption
<1>2. calls \in Seq(Actors) /\ ToSet(calls) = closeHandler \cap Descendants[Root] /\ InTurn(calls)
  BY <1>1, CloseCallsIs, ClosedBelow, ClosedInTurn
<1>3. DOMAIN calls \in SUBSET Int
  BY <1>2, LenProperties
<1>4. \A p, q \in DOMAIN calls : p < q \/ q < p \/ p = q
  BY <1>3
<1>5. IsInjective(calls)
  BY <1>2, <1>4 DEF InTurn, IsInjective
<1>6. \A i, j \in DOMAIN calls : i < j => calls[j] \notin Descendants[calls[i]]
  BY <1>2 DEF InTurn
<1>7. QED
  BY <1>2, <1>5, <1>6 DEF ClosedEverywhere
-----------------------------------------------------------------------------
(* Values, fields and params on the wire.                                  *)

\* What a reader makes of a value: one it can have read.
PlainValues == Values \ {"typed slice"}

LEMMA JsonOfValue ==
  ASSUME NEW v \in Values
  PROVE  /\ Json(v).json \in Natures /\ Json(v).items \in Seq(Natures)
         /\ Json(v) = Null <=> v = "nil"
         /\ Json(v).json = "null" <=> v = "nil"
         /\ GoValue(Json(v).json) \in PlainValues
         /\ v \in PlainValues => GoValue(Json(v).json) = v
         /\ IsField(Json(v))
<1>1. /\ Json(v).json \in Natures
      /\ Json(v) = Null <=> v = "nil"
      /\ Json(v).json = "null" <=> v = "nil"
      /\ GoValue(Json(v).json) \in PlainValues
      /\ v \in PlainValues => GoValue(Json(v).json) = v
  BY DEF Json, Null, GoValue, Values, PlainValues, Natures
<1>2. <<"atom">> \in Seq(Natures) /\ <<>> \in Seq(Natures)
  BY DEF Natures
<1>3. Json(v).items \in Seq(Natures)
  BY <1>2 DEF Json
<1>4. Json(v) = [json |-> Json(v).json, items |-> Json(v).items]
  BY DEF Json
<1>5. IsField(Json(v))
  <2>1. CASE v = "nil"
    BY <2>1, <1>1 DEF IsField
  <2>2. CASE v # "nil"
    BY <2>2, <1>1, <1>3, <1>4 DEF IsField
  <2>3. QED
    BY <2>1, <2>2
<1>6. QED
  BY <1>1, <1>3, <1>5

LEMMA PlainSeq ==
  ASSUME NEW s \in Seq(PlainValues)
  PROVE  s \in Seq(Values)
<1>1. \A i \in 1 .. Len(s) : s[i] \in PlainValues
  BY ElementOfSeq
<1>2. \A i \in 1 .. Len(s) : s[i] \in Values
  BY <1>1 DEF PlainValues
<1>3. s = [i \in 1 .. Len(s) |-> s[i]] /\ Len(s) \in Nat
  BY LenProperties
<1>4. QED
  BY <1>2, <1>3, IsASeq

LEMMA ValueOfJson ==
  ASSUME NEW n \in Natures
  PROVE  /\ GoValue(n) \in PlainValues
         /\ Json(GoValue(n)).json = n
         /\ GoValue(n) = "nil" <=> n = "null"
  BY DEF Json, GoValue, Values, PlainValues, Natures

\* The params of a message that was read.
ReadParams(params) ==
  \/ params \in [list : {TRUE}, of : Seq(PlainValues)]
  \/ params = Params(FALSE, <<"atom">>)

LEMMA ParamsFieldOfList ==
  ASSUME NEW params, params.list = TRUE, params.of \in Seq(Values)
  PROVE  LET field == ParamsField(params) IN
         /\ field.json = "array" /\ field.items \in Seq(Natures)
         /\ Len(field.items) = Len(params.of)
         /\ \A i \in 1 .. Len(params.of) : field.items[i] = Json(params.of[i]).json
         /\ field # Null /\ IsField(field)
<1> DEFINE items == [i \in 1 .. Len(params.of) |-> Json(params.of[i]).json]
<1>1. \A i \in 1 .. Len(params.of) : params.of[i] \in Values
  BY ElementOfSeq
<1>2. \A i \in 1 .. Len(params.of) : Json(params.of[i]).json \in Natures
  BY <1>1, JsonOfValue
<1>3. items \in Seq(Natures) /\ Len(items) = Len(params.of)
  BY <1>2, IsASeq, LenProperties
<1>4. ParamsField(params) = [json |-> "array", items |-> items]
  BY DEF ParamsField
<1>5. ParamsField(params).json = "array" /\ ParamsField(params).items = items
  BY <1>4
<1>6. ParamsField(params) # Null
  BY <1>5 DEF Null
<1>7. IsField(ParamsField(params))
  BY <1>3, <1>4 DEF IsField, Natures
<1>8. QED
  BY <1>3, <1>5, <1>6, <1>7

LEMMA ParamsRead ==
  ASSUME NEW un, IsField(un.params), un.params # Null
  PROVE  ReadParams(decodeParams(un))
<1> PICK field : field = un.params
  OBVIOUS
<1>1. field \in [json : Natures \ {"null"}, items : Seq(Natures)]
  BY DEF IsField
<1>2. CASE field.json = "array"
  <2> DEFINE of == [i \in DOMAIN field.items |-> GoValue(field.items[i])]
  <2>1. field.items \in Seq(Natures)
    BY <1>1
  <2>2. of \in Seq(PlainValues)
    BY <2>1, ElementOfSeq, ValueOfJson, IsASeq, LenProperties
  <2>3. decodeParams(un) = [list |-> TRUE, of |-> of]
    BY <1>2 DEF decodeParams, Params
  <2>4. PICK o : o = of
    OBVIOUS
  <2>5. decodeParams(un) \in [list : {TRUE}, of : Seq(PlainValues)]
    BY <2>2, <2>3, <2>4
  <2>6. QED
    BY <2>5 DEF ReadParams
<1>3. CASE field.json # "array"
  <2>1. field.json = "atom"
    BY <1>1, <1>3 DEF Natures
  <2>2. decodeParams(un) = Params(FALSE, <<GoValue("atom")>>)
    BY <1>3, <2>1 DEF decodeParams
  <2>3. GoValue("atom") = "atom"
    BY DEF GoValue
  <2>4. QED
    BY <2>2, <2>3 DEF ReadParams
<1>4. QED
  BY <1>2, <1>3

LEMMA ParamsReread ==
  ASSUME NEW params, ReadParams(params), NEW un, un.params = ParamsField(params)
  PROVE  un.params # Null /\ decodeParams(un) = params
<1>1. CASE params \in [list : {TRUE}, of : Seq(PlainValues)]
  <2>1. params.list = TRUE /\ params.of \in Seq(PlainValues)
    BY <1>1
  <2>2. params.of \in Seq(Values)
    BY <2>1, PlainSeq
  <2>3. PICK field : field = ParamsField(params)
    OBVIOUS
  <2>4. /\ field.json = "array" /\ field # Null /\ field.items \in Seq(Natures)
        /\ Len(field.items) = Len(params.of)
        /\ \A i \in 1 .. Len(params.of) : field.items[i] = Json(params.of[i]).json
    BY <2>1, <2>2, <2>3, ParamsFieldOfList
  <2> DEFINE of == [i \in DOMAIN field.items |-> GoValue(field.items[i])]
  <2>5. \A i \in 1 .. Len(params.of) : params.of[i] \in PlainValues
    BY <2>1, ElementOfSeq
  <2>6. \A i \in 1 .. Len(params.of) : GoValue(field.items[i]) = params.of[i]
    <3>1. \A v \in PlainValues : GoValue(Json(v).json) = v
      BY JsonOfValue DEF PlainValues
    <3>2. QED
      BY <2>4, <2>5, <3>1
  <2>7. DOMAIN field.items = 1 .. Len(params.of)
    BY <2>4, LenProperties
  <2>8. of = params.of
    BY <2>1, <2>6, <2>7, LenProperties
  <2>9. decodeParams(un) = Params(TRUE, of)
    BY <2>3, <2>4 DEF decodeParams
  <2>10. params = [list |-> TRUE, of |-> params.of]
    BY <1>1
  <2>11. QED
    BY <2>3, <2>4, <2>8, <2>9, <2>10 DEF Params
<1>2. CASE params = Params(FALSE, <<"atom">>)
  <2>1. ParamsField(params) = Json("atom")
    BY <1>2 DEF ParamsField, Params
  <2>2. "atom" \in Values /\ "atom" \in PlainValues
    BY DEF Values, PlainValues
  <2>3. Json("atom") # Null /\ Json("atom").json = "atom"
    BY DEF Json, Null
  <2>4. GoValue("atom") = "atom"
    BY DEF GoValue
  <2>5. QED
    BY <1>2, <2>1, <2>3, <2>4 DEF decodeParams
<1>3. QED
  BY <1>1, <1>2 DEF ReadParams

-----------------------------------------------------------------------------
(* Messages on the wire.                                                   *)

\* A message that was read.
IsRead(m) ==
  /\ m = Make(m.kind, m.id, m.method, m.params, m.body, m.trace)
  /\ m.id \in ReadIds /\ m.id.type # "other"
  /\ \/ /\ m.kind \in {"request", "notify"} /\ (m.kind = "request" <=> m.id # NoId)
        /\ m.method \in Methods /\ ReadParams(m.params) /\ m.body = "nil"
     \/ /\ m.kind = "result" /\ m.method = "" /\ m.params = NoParams
        /\ m.body \in PlainValues /\ (m.id = NoId => m.body # "nil")
     \/ /\ m.kind = "error" /\ m.method = "" /\ m.params = NoParams
        /\ m.body = "error"

\* A request or notification as a caller makes it.
IsMade(m) ==
  /\ m = Make(m.kind, m.id, m.method, m.params, "nil", m.trace)
  /\ m.kind \in {"request", "notify"} /\ (m.kind = "request" <=> m.id # NoId)
  /\ m.id \in Ids /\ m.method \in Methods /\ IsParams(m.params)

LEMMA AskedIsMade == ASSUME NEW m \in Asked PROVE IsMade(m)
<1>1. /\ m.id \in Ids /\ m.method \in Methods /\ IsParams(m.params) /\ m.method # ""
      /\ \/ m = SetTraceId(NewRequestMessage(m.id, m.method, m.params), m.trace)
         \/ m = SetTraceId(NewNotifyMessage(m.method, m.params), m.trace)
  BY ExchangeAssumption
<1>2. CASE m = SetTraceId(NewRequestMessage(m.id, m.method, m.params), m.trace)
  <2>1. CASE m.id = NoId
    <3>1. NewRequestMessage(m.id, m.method, m.params) = Panic
      BY <2>1 DEF NewRequestMessage
    <3>2. \A t : [Panic EXCEPT !.trace = t].method = ""
      BY DEF Panic, Make
    <3> PICK t : t = m.trace
      OBVIOUS
    <3> PICK panic : panic = [Panic EXCEPT !.trace = t]
      OBVIOUS
    <3>4. m = panic /\ panic.method = ""
      BY <1>2, <3>1, <3>2 DEF SetTraceId
    <3>3. QED
      BY <1>1, <3>4
  <2>2. CASE m.id # NoId
    <3>1. m = Make("request", m.id, m.method, m.params, "nil", m.trace)
      BY <1>1, <1>2, <2>2 DEF NewRequestMessage, SetTraceId, Make
    <3>2. m.kind = "request"
      BY <3>1 DEF Make
    <3>3. QED
      BY <1>1, <2>2, <3>1, <3>2 DEF IsMade
  <2>3. QED
    BY <2>1, <2>2
<1>3. CASE m = SetTraceId(NewNotifyMessage(m.method, m.params), m.trace)
  <2>1. m = Make("notify", NoId, m.method, m.params, "nil", m.trace)
    BY <1>1, <1>3 DEF NewNotifyMessage, SetTraceId, Make
  <2>2. m.kind = "notify" /\ m.id = NoId
    BY <2>1 DEF Make
  <2>3. QED
    BY <1>1, <2>1, <2>2 DEF IsMade
<1>4. QED
  BY <1>1, <1>2, <1>3

LEMMA FieldsOfUnion ==
  ASSUME NEW id, NEW method, NEW params, NEW result, NEW error, NEW trace, NEW un,
         un = Union(id, method, params, result, error, trace)
  PROVE  /\ un.id = id /\ un.method = method /\ un.params = params
         /\ un.result = result /\ un.error = error /\ un.trace = trace
  BY DEF Union

\* Interface, one kind at a time.
LEMMA InterfaceOf ==
  ASSUME NEW m
  PROVE  /\ m.kind \in {"request", "notify"} =>
              Interface(m) = Union(IdField(m.id), m.method, ParamsField(m.params),
                                   Null, "null", m.trace)
         /\ m.kind = "result" =>
              Interface(m) = Union(IdField(m.id), m.method, Null,
                                   Json(m.body), "null", m.trace)
         /\ m.kind = "error" =>
              Interface(m) = Union(IdField(m.id), m.method, Null,
                                   Null, m.body, m.trace)
  BY DEF Interface

LEMMA IdOnTheWire ==
  ASSUME NEW id \in Ids
  PROVE  /\ IdField(id) \in ReadIds
         /\ IdField(id) = NoId <=> id = NoId
         /\ IdField(id).type = "other" <=> id.type = "other"
         /\ id \in ReadIds => IdField(id) = id
<1>1. CASE id = NoId
  BY <1>1 DEF IdField, ReadIds, Ids, NoId
<1>2. CASE id \in [type : {"int", "int64", "string", "other"}, val : {1, 2}]
  <2>1. CASE id.type = "int64"
    <3>1. IdField(id) = [type |-> "int", val |-> id.val]
      BY <1>2, <2>1 DEF IdField
    <3>2. QED
      BY <1>2, <2>1, <3>1 DEF ReadIds, Ids, NoId
  <2>2. CASE id.type # "int64"
    BY <1>2, <2>2 DEF IdField, ReadIds, Ids, NoId
  <2>3. QED
    BY <2>1, <2>2
<1>3. QED
  BY <1>1, <1>2 DEF Ids

\* What a reader makes of a union that has a method only, a result or an error.
LEMMA DecodeCall ==
  ASSUME NEW un, un.error = "null", un.result = Null, un.method # "",
         un.params # Null, un.id.type # "other"
  PROVE  DecodeMessage(un) =
           Make(IF un.id # NoId THEN "request" ELSE "notify",
                un.id, un.method, decodeParams(un), "nil", un.trace)
<1>1. CASE un.id # NoId
  <2>1. DecodeMessage(un) =
          SetTraceId(NewRequestMessage(un.id, un.method, decodeParams(un)), un.trace)
    BY <1>1 DEF DecodeMessage, NoParamsField, BadId, decodeId
  <2>2. QED
    BY <1>1, <2>1 DEF SetTraceId, NewRequestMessage, Make
<1>2. CASE un.id = NoId
  <2>1. DecodeMessage(un) = SetTraceId(NewNotifyMessage(un.method, decodeParams(un)), un.trace)
    BY <1>2 DEF DecodeMessage, NoParamsField, BadId, decodeId
  <2>2. QED
    BY <1>2, <2>1 DEF SetTraceId, NewNotifyMessage, Make
<1>3. QED
  BY <1>1, <1>2

LEMMA DecodeResult ==
  ASSUME NEW un, un.error = "null", un.id.type # "other",
         un.result # Null \/ (un.method = "" /\ un.id # NoId)
  PROVE  DecodeMessage(un) =
           Make("result", un.id, "", NoParams,
                IF un.result # Null THEN GoValue(un.result.json) ELSE "nil", un.trace)
<1>1. CASE un.result # Null
  <2>1. DecodeMessage(un) =
          SetTraceId(rawResultMessage(un.id, GoValue(un.result.json)), un.trace)
    BY <1>1 DEF DecodeMessage, BadId, decodeId
  <2>2. QED
    BY <1>1, <2>1 DEF SetTraceId, rawResultMessage, Make
<1>2. CASE un.result = Null
  <2>1. DecodeMessage(un) = SetTraceId(rawResultMessage(un.id, "nil"), un.trace)
    BY <1>2 DEF DecodeMessage, BadId, decodeId
  <2>2. QED
    BY <1>2, <2>1 DEF SetTraceId, rawResultMessage, Make
<1>3. QED
  BY <1>1, <1>2

LEMMA DecodeError ==
  ASSUME NEW un, un.error = "error", un.result = Null, un.id.type # "other"
  PROVE  DecodeMessage(un) = Make("error", un.id, "", NoParams, "error", un.trace)
<1>1. DecodeMessage(un) = SetTraceId(rawErrorMessage(un.id, "error"), un.trace)
  BY DEF DecodeMessage, BadId, decodeId
<1>2. QED
  BY <1>1 DEF SetTraceId, rawErrorMessage, Make

LEMMA DecodeFails ==
  ASSUME NEW un,
         \/ un.id.type = "other"
         \/ un.error # "null" /\ un.result # Null
         \/ un.error = "bad"
         \/ un.error = "null" /\ un.result = Null /\ un.method # "" /\ un.params = Null
         \/ un.error = "null" /\ un.result = Null /\ un.method = "" /\ un.id = NoId
  PROVE  DecodeMessage(un) = Failure
  BY DEF DecodeMessage, NoParamsField, BadId, decodeId
\* What a reader accepts it could have written itself.
LEMMA UnionRead ==
  ASSUME NEW un, IsUnion(un), un.method \in Methods \cup {""}
  PROVE  DecodeMessage(un) = Failure \/ IsRead(DecodeMessage(un))
<1>1. /\ un.id \in ReadIds /\ IsField(un.params) /\ IsField(un.result)
      /\ un.error \in {"null", "error", "bad"}
  BY DEF IsUnion
<1>2. CASE un.id.type = "other"
  BY <1>2, DecodeFails
<1>3. CASE un.id.type # "other" /\ un.error # "null"
  <2>1. CASE un.result # Null \/ un.error = "bad"
    BY <1>3, <2>1, DecodeFails
  <2>2. CASE un.result = Null /\ un.error # "bad"
    <3>1. PICK m : m = DecodeMessage(un)
      OBVIOUS
    <3>2. m = Make("error", un.id, "", NoParams, "error", un.trace)
      BY <1>1, <1>3, <2>2, <3>1, DecodeError
    <3>3. IsRead(m)
      BY <1>1, <1>3, <3>2 DEF IsRead, Make
    <3>4. QED
      BY <3>1, <3>3
  <2>3. QED
    BY <2>1, <2>2
<1>4. CASE un.id.type # "other" /\ un.error = "null" /\ un.result # Null
  <2>1. PICK m : m = DecodeMessage(un)
    OBVIOUS
  <2>2. PICK body : body = GoValue(un.result.json)
    OBVIOUS
  <2>3. m = Make("result", un.id, "", NoParams, body, un.trace)
    BY <1>4, <2>1, <2>2, DecodeResult
  <2>4. body \in PlainValues /\ body # "nil"
    <3>1. un.result.json \in Natures /\ un.result.json # "null"
      BY <1>1, <1>4 DEF IsField
    <3>2. QED
      BY <2>2, <3>1, ValueOfJson
  <2>5. IsRead(m)
    BY <1>1, <1>4, <2>3, <2>4 DEF IsRead, Make
  <2>6. QED
    BY <2>1, <2>5
<1>5. CASE un.id.type # "other" /\ un.error = "null" /\ un.result = Null /\ un.method # ""
  <2>1. CASE un.params = Null
    BY <1>5, <2>1, DecodeFails
  <2>2. CASE un.params # Null
    <3>1. PICK m : m = DecodeMessage(un)
      OBVIOUS
    <3>2. PICK params : params = decodeParams(un)
      OBVIOUS
    <3>3. m = Make(IF un.id # NoId THEN "request" ELSE "notify",
                   un.id, un.method, params, "nil", un.trace)
      BY <1>5, <2>2, <3>1, <3>2, DecodeCall
    <3>4. ReadParams(params)
      BY <1>1, <2>2, <3>2, ParamsRead
    <3>5. IsRead(m)
      BY <1>1, <1>5, <3>3, <3>4 DEF IsRead, Make
    <3>6. QED
      BY <3>1, <3>5
  <2>3. QED
    BY <2>1, <2>2
<1>6. CASE un.id.type # "other" /\ un.error = "null" /\ un.result = Null /\ un.method = ""
  <2>1. CASE un.id = NoId
    BY <1>6, <2>1, DecodeFails
  <2>2. CASE un.id # NoId
    <3>1. PICK m : m = DecodeMessage(un)
      OBVIOUS
    <3>2. m = Make("result", un.id, "", NoParams, "nil", un.trace)
      BY <1>6, <2>2, <3>1, DecodeResult
    <3>3. "nil" \in PlainValues
      BY DEF PlainValues, Values
    <3>4. IsRead(m)
      BY <1>1, <1>6, <2>2, <3>2, <3>3 DEF IsRead, Make
    <3>5. QED
      BY <3>1, <3>4
  <2>3. QED
    BY <2>1, <2>2
<1>7. QED
  BY <1>2, <1>3, <1>4, <1>5, <1>6

\* What was read is written as it was, and read again as it was.
LEMMA Reread ==
  ASSUME NEW m, IsRead(m)
  PROVE  OverTheWire(m) = m
<1>1. /\ m = Make(m.kind, m.id, m.method, m.params, m.body, m.trace)
      /\ m.id \in ReadIds /\ m.id \in Ids /\ m.id.type # "other"
  BY DEF IsRead, ReadIds
<1>2. IdField(m.id) = m.id
  BY <1>1, IdOnTheWire
<1>3. PICK un : un = Interface(m)
  OBVIOUS
<1>4. CASE m.kind \in {"request", "notify"}
  <2>1. un = Union(m.id, m.method, ParamsField(m.params), Null, "null", m.trace)
    BY <1>2, <1>3, <1>4, InterfaceOf
  <2>2. /\ un.id = m.id /\ un.method = m.method /\ un.params = ParamsField(m.params)
        /\ un.result = Null /\ un.error = "null" /\ un.trace = m.trace
    BY <2>1, FieldsOfUnion
  <2>3. /\ m.kind = "request" <=> m.id # NoId
        /\ m.method # "" /\ ReadParams(m.params) /\ m.body = "nil"
    BY <1>4, ExchangeAssumption DEF IsRead
  <2>4. un.params # Null /\ decodeParams(un) = m.params
    BY <2>2, <2>3, ParamsReread
  <2>5. DecodeMessage(un) =
          Make(IF un.id # NoId THEN "request" ELSE "notify",
               un.id, un.method, decodeParams(un), "nil", un.trace)
    BY <1>1, <2>2, <2>3, <2>4, DecodeCall
  <2>6. m.kind = IF un.id # NoId THEN "request" ELSE "notify"
    BY <1>4, <2>2, <2>3
  <2>7. QED
    BY <1>1, <1>3, <2>2, <2>3, <2>4, <2>5, <2>6 DEF OverTheWire
<1>5. CASE m.kind = "result"
  <2>1. un = Union(m.id, m.method, Null, Json(m.body), "null", m.trace)
    BY <1>2, <1>3, <1>5, InterfaceOf
  <2>2. /\ un.id = m.id /\ un.method = m.method /\ un.result = Json(m.body)
        /\ un.error = "null" /\ un.trace = m.trace
    BY <2>1, FieldsOfUnion
  <2>3. /\ m.method = "" /\ m.params = NoParams
        /\ m.body \in PlainValues /\ (m.id = NoId => m.body # "nil")
    BY <1>5 DEF IsRead
  <2>4. /\ Json(m.body) = Null <=> m.body = "nil"
        /\ GoValue(Json(m.body).json) = m.body
    BY <2>3, JsonOfValue DEF PlainValues
  <2>5. DecodeMessage(un) =
          Make("result", un.id, "", NoParams,
               IF un.result # Null THEN GoValue(un.result.json) ELSE "nil", un.trace)
    BY <1>1, <2>2, <2>3, <2>4, DecodeResult
  <2>6. m.body = IF un.result # Null THEN GoValue(un.result.json) ELSE "nil"
    BY <2>2, <2>4
  <2>7. QED
    BY <1>1, <1>3, <1>5, <2>2, <2>3, <2>5, <2>6 DEF OverTheWire
<1>6. CASE m.kind = "error"
  <2>1. un = Union(m.id, m.method, Null, Null, m.body, m.trace)
    BY <1>2, <1>3, <1>6, InterfaceOf
  <2>2. /\ un.id = m.id /\ un.result = Null /\ un.error = m.body /\ un.trace = m.trace
    BY <2>1, FieldsOfUnion
  <2>3. m.method = "" /\ m.params = NoParams /\ m.body = "error"
    BY <1>6 DEF IsRead
  <2>4. DecodeMessage(un) = Make("error", un.id, "", NoParams, "error", un.trace)
    BY <1>1, <2>2, <2>3, DecodeError
  <2>5. QED
    BY <1>1, <1>3, <1>6, <2>2, <2>3, <2>4 DEF OverTheWire
<1>7. QED
  BY <1>4, <1>5, <1>6 DEF IsRead

-----------------------------------------------------------------------------
(* What callers make.                                                      *)

LEMMA MeantSeq ==
  ASSUME NEW m, m.params.of \in Seq(Values)
  PROVE  LET given == [i \in DOMAIN m.params.of |-> GoValue(Json(m.params.of[i]).json)]
         IN  given \in Seq(PlainValues) /\ Len(given) = Len(m.params.of)
<1>1. \A i \in 1 .. Len(m.params.of) : m.params.of[i] \in Values
  BY ElementOfSeq
<1>2. \A v \in Values : GoValue(Json(v).json) \in PlainValues
  BY JsonOfValue
<1>3. QED
  BY <1>1, <1>2, IsASeq, LenProperties

\* The params field of what callers make, and what becomes of it.
LEMMA ParamsMeant ==
  ASSUME NEW m, IsParams(m.params), NEW un, un.params = ParamsField(m.params)
  PROVE  /\ IsField(un.params)
         /\ un.params = Null <=> m.params = Params(FALSE, <<"nil">>)
         /\ un.params # Null => decodeParams(un).of = Meant(m)
<1>1. CASE m.params \in [list : {TRUE}, of : Seq(Values)]
  <2>1. m.params.list = TRUE /\ m.params.of \in Seq(Values)
    BY <1>1
  <2>2. PICK params : params = m.params
    OBVIOUS
  <2>3. PICK field : field = ParamsField(params)
    OBVIOUS
  <2>4. /\ field.json = "array" /\ field # Null /\ IsField(field)
        /\ field.items \in Seq(Natures) /\ Len(field.items) = Len(params.of)
        /\ \A i \in 1 .. Len(params.of) : field.items[i] = Json(params.of[i]).json
    BY <2>1, <2>2, <2>3, ParamsFieldOfList
  <2>5. DOMAIN field.items = 1 .. Len(params.of) /\ DOMAIN params.of = 1 .. Len(params.of)
    BY <2>1, <2>2, <2>4, LenProperties
  <2>6. decodeParams(un) =
          Params(TRUE, [i \in DOMAIN field.items |-> GoValue(field.items[i])])
    BY <2>2, <2>3, <2>4 DEF decodeParams
  <2>7. decodeParams(un).of = [i \in DOMAIN field.items |-> GoValue(field.items[i])]
    BY <2>6 DEF Params
  <2>8. Meant(m) = [i \in DOMAIN params.of |-> GoValue(Json(params.of[i]).json)]
    BY <2>1, <2>2 DEF Meant
  <2>9. decodeParams(un).of = Meant(m)
    BY <2>4, <2>5, <2>7, <2>8
  <2>10. m.params # Params(FALSE, <<"nil">>)
    BY <2>1 DEF Params
  <2>11. QED
    BY <2>2, <2>3, <2>4, <2>9, <2>10
<1>2. ASSUME NEW v \in Values \ {"slice"}, m.params = [list |-> FALSE, of |-> <<v>>]
      PROVE  /\ IsField(un.params)
             /\ un.params = Null <=> m.params = Params(FALSE, <<"nil">>)
             /\ un.params # Null => decodeParams(un).of = Meant(m)
  <2>1. m.params.list = FALSE /\ m.params.of = <<v>>
    BY <1>2
  <2>2. PICK field : field = Json(v)
    OBVIOUS
  <2>3. un.params = field
    BY <2>1, <2>2 DEF ParamsField
  <2>4. IsField(field) /\ (field = Null <=> v = "nil")
    BY <2>2, JsonOfValue
  <2>5. m.params = Params(FALSE, <<"nil">>) <=> v = "nil"
    <3>1. <<v>>[1] = v /\ <<"nil">>[1] = "nil"
      OBVIOUS
    <3>2. m.params = Params(FALSE, <<v>>)
      BY <1>2 DEF Params
    <3>3. ASSUME m.params = Params(FALSE, <<"nil">>) PROVE v = "nil"
      BY <2>1, <3>1, <3>3 DEF Params
    <3>4. QED
      BY <3>2, <3>3
  <2>6. CASE v = "atom"
    <3>1. field.json = "atom" /\ GoValue("atom") = "atom"
      BY <2>2, <2>6 DEF Json, GoValue
    <3>2. decodeParams(un) = Params(FALSE, <<"atom">>)
      BY <2>3, <3>1 DEF decodeParams
    <3>3. Meant(m) = [i \in DOMAIN <<"atom">> |-> GoValue(Json(<<"atom">>[i]).json)]
      BY <2>1, <2>6 DEF Meant
    <3>4. GoValue(Json("atom").json) = "atom"
      BY <2>2, <2>6, <3>1
    <3>5. Meant(m) = <<"atom">>
      BY <3>3, <3>4
    <3>6. decodeParams(un).of = <<"atom">>
      BY <3>2 DEF Params
    <3>7. QED
      BY <2>3, <2>4, <2>5, <3>5, <3>6
  <2>7. CASE v = "typed slice"
    <3>1. field.json = "array" /\ field.items = <<"atom">>
      BY <2>2, <2>7 DEF Json
    <3>2. decodeParams(un) = Params(TRUE, [i \in DOMAIN <<"atom">> |-> GoValue(<<"atom">>[i])])
      BY <2>3, <3>1 DEF decodeParams
    <3>3. GoValue("atom") = "atom"
      BY DEF GoValue
    <3>4. [i \in DOMAIN <<"atom">> |-> GoValue(<<"atom">>[i])] = <<"atom">>
      BY <3>3
    <3>5. decodeParams(un).of = <<"atom">>
      BY <3>2, <3>4 DEF Params
    <3>6. Meant(m) = <<"atom">>
      BY <2>1, <2>7 DEF Meant
    <3>7. QED
      BY <2>3, <2>4, <2>5, <3>5, <3>6
  <2>8. CASE v = "nil"
    BY <2>3, <2>4, <2>5, <2>8
  <2>9. QED
    BY <2>6, <2>7, <2>8 DEF Values
<1>3. QED
  BY <1>1, <1>2 DEF IsParams

\* A request or notification arrives as it was made, or its reader refuses it.
LEMMA MadeArrives ==
  ASSUME NEW m, IsMade(m), NEW received, received = OverTheWire(m)
  PROVE  \/ /\ received = Failure
            /\ m.params = Params(FALSE, <<"nil">>) \/ m.id.type = "other"
         \/ /\ IsRead(received)
            /\ received.kind = m.kind /\ received.method = m.method
            /\ received.trace = m.trace /\ received.params.of = Meant(m)
            /\ m.id.type # "int64" => received.id = m.id
<1>1. /\ m.kind \in {"request", "notify"} /\ (m.kind = "request" <=> m.id # NoId)
      /\ m.id \in Ids /\ m.method \in Methods /\ m.method # "" /\ IsParams(m.params)
  BY ExchangeAssumption DEF IsMade
<1>2. PICK un : un = Interface(m)
  OBVIOUS
<1>3. un = Union(IdField(m.id), m.method, ParamsField(m.params), Null, "null", m.trace)
  BY <1>1, <1>2, InterfaceOf
<1>4. /\ un.id = IdField(m.id) /\ un.method = m.method /\ un.params = ParamsField(m.params)
      /\ un.result = Null /\ un.error = "null" /\ un.trace = m.trace
  BY <1>3, FieldsOfUnion
<1>5. /\ un.id \in ReadIds /\ (un.id = NoId <=> m.id = NoId)
      /\ (un.id.type = "other" <=> m.id.type = "other")
      /\ m.id.type # "int64" => un.id = m.id
  BY <1>1, <1>4, IdOnTheWire DEF ReadIds
<1>6. /\ IsField(un.params)
      /\ un.params = Null <=> m.params = Params(FALSE, <<"nil">>)
      /\ un.params # Null => decodeParams(un).of = Meant(m)
  BY <1>1, <1>4, ParamsMeant
<1>7. received = DecodeMessage(un)
  BY <1>2 DEF OverTheWire
<1>8. CASE un.params = Null \/ un.id.type = "other"
  <2>1. received = Failure
    BY <1>1, <1>4, <1>7, <1>8, DecodeFails
  <2>2. QED
    BY <1>5, <1>6, <1>8, <2>1
<1>9. CASE un.params # Null /\ un.id.type # "other"
  <2>1. PICK params : params = decodeParams(un)
    OBVIOUS
  <2>2. received = Make(IF un.id # NoId THEN "request" ELSE "notify",
                        un.id, un.method, params, "nil", un.trace)
    BY <1>1, <1>4, <1>7, <1>9, <2>1, DecodeCall
  <2>3. ReadParams(params)
    BY <1>6, <1>9, <2>1, ParamsRead
  <2>4. received = Make(m.kind, un.id, m.method, params, "nil", m.trace)
    BY <1>1, <1>4, <1>5, <2>2
  <2>5. /\ received.kind = m.kind /\ received.method = m.method
        /\ received.trace = m.trace /\ received.params = params
        /\ received.id = un.id /\ received.body = "nil"
    BY <2>4 DEF Make
  <2>6. IsRead(received)
    BY <1>1, <1>5, <1>9, <2>3, <2>4, <2>5 DEF IsRead
  <2>7. QED
    BY <1>5, <1>6, <1>9, <2>1, <2>5, <2>6
<1>10. QED
  BY <1>8, <1>9

LEMMA CloneIsMade ==
  ASSUME NEW m, IsMade(m), m.kind = "request", NEW c, c = Clone(m, FreshId)
  PROVE  /\ IsMade(c) /\ c.kind = "request" /\ c.method = m.method /\ c.trace = m.trace
         /\ c.id = FreshId /\ c.params = Params(TRUE, m.params.of)
         /\ Meant(c) = Meant(m) \/ m.params = Params(FALSE, <<"typed slice">>)
<1>1. m.method \in Methods /\ m.method # "" /\ IsParams(m.params)
  BY ExchangeAssumption DEF IsMade
<1>2. FreshId # NoId /\ FreshId \in Ids
  BY DEF FreshId, NoId, Ids
<1>3. PICK params : params = Params(TRUE, m.params.of)
  OBVIOUS
<1>4. c = Make("request", FreshId, m.method, params, "nil", m.trace)
  BY <1>1, <1>2, <1>3 DEF Clone, NewRequestMessage, SetTraceId, Make
<1>5. /\ c.kind = "request" /\ c.method = m.method /\ c.trace = m.trace
      /\ c.id = FreshId /\ c.params = params
  BY <1>4 DEF Make
<1>6. m.params.of \in Seq(Values)
  <2>1. \A v \in Values : <<v>> \in Seq(Values)
    OBVIOUS
  <2>2. QED
    BY <1>1, <2>1 DEF IsParams
<1>7. IsParams(params)
  BY <1>3, <1>6 DEF IsParams, Params
<1>8. IsMade(c)
  BY <1>1, <1>2, <1>4, <1>5, <1>7 DEF IsMade
<1>9. params.list = TRUE /\ params.of = m.params.of
  BY <1>3 DEF Params
<1>10. Meant(c) = [i \in DOMAIN m.params.of |-> GoValue(Json(m.params.of[i]).json)]
  BY <1>5, <1>9 DEF Meant
<1>11. ASSUME m.params # Params(FALSE, <<"typed slice">>)
       PROVE  m.params.list \/ m.params.of # <<"typed slice">>
  BY <1>1, <1>11 DEF IsParams, Params
<1>12. QED
  BY <1>3, <1>5, <1>8, <1>10, <1>11 DEF Meant

-----------------------------------------------------------------------------
(* The invariant of an exchange.                                           *)

Stages == {"registering", "made", "arrived", "answered", "returned", "restored",
           "handed", "refused", "silent", "panicked"}

\* What went out.
Sent == IF renamed THEN Clone(asked, FreshId) ELSE asked

StageInv ==
  /\ stage \in Stages /\ renamed \in BOOLEAN
  /\ asked = NoMessage \/ asked \in Asked
  /\ stage = "registering" => asked = NoMessage /\ ~renamed
  /\ renamed => asked \in Asked /\ asked.kind = "request"
  /\ stage = "made" => asked \in Asked /\ msg = Sent

SeenInv ==
  /\ stage \notin {"registering", "made"} =>
       /\ asked # NoMessage => seen = OverTheWire(Sent)
       /\ IF stage = "refused" THEN seen = Failure ELSE IsRead(seen)
  /\ stage = "arrived" => msg = seen

\* An answer of the library's own, not one a handler relays.
OwnAnswer == /\ msg.kind \in {"result", "error"}
        /\ msg.id = seen.id /\ msg.trace = seen.trace

AnswerInv ==
  /\ stage \in {"answered", "returned", "restored", "handed"} => seen.kind = "request"
  /\ stage \in {"answered", "returned"} => IsRead(msg) /\ (outcome # "message" => OwnAnswer)
  /\ stage = "restored" =>
       /\ asked # NoMessage /\ msg.kind \in {"result", "error"} /\ msg.id = asked.id
       /\ msg.trace = seen.trace \/ outcome = "message"
       /\ renamed \/ asked.id.type # "int64"
  /\ stage = "handed" => outcome = "message" \/ (asked.id.type = "int64" /\ ~renamed)
  /\ stage \in {"answered", "silent"} =>
       (stage = "answered" <=> seen.kind = "request" /\ outcome # "WrappedResponse")
  /\ stage = "panicked" =>
       \/ outcome = "other" \/ seen.kind \in {"result", "error"}
       \/ outcome = "none" /\ "nil" \in ToSet(seen.params.of)

Inv == TreeInv /\ FewHandlers /\ StageInv /\ SeenInv /\ AnswerInv

LEMMA NotMade ==
  /\ ~IsRead(Failure) /\ ~IsRead(NoMessage) /\ NoMessage \notin Asked
  /\ NoMessage # Failure /\ NoMessage.kind = "none"
<1>1. Failure.kind = "failure" /\ NoMessage.kind = "none"
  BY DEF Failure, NoMessage, Make
<1>2. NoMessage \notin Asked
  BY <1>1, AskedIsMade DEF IsMade
<1>3. QED
  BY <1>1, <1>2 DEF IsRead

\* What went out is made, and means what the caller made but for one case.
LEMMA SentIsMade ==
  ASSUME StageInv, asked \in Asked
  PROVE  /\ IsMade(Sent) /\ Sent.kind = asked.kind /\ Sent.method = asked.method
         /\ Sent.trace = asked.trace
         /\ \/ Meant(Sent) = Meant(asked)
            \/ renamed /\ asked.params = Params(FALSE, <<"typed slice">>)
         /\ Sent.params = Params(FALSE, <<"nil">>) => asked.params = Params(FALSE, <<"nil">>)
         /\ Sent.id.type = "other" => asked.id.type = "other"
         /\ Sent.id = SendId
<1>1. IsMade(asked)
  BY AskedIsMade
<1>2. CASE ~renamed
  <2>1. Sent = asked
    BY <1>2 DEF Sent
  <2>2. QED
    BY <1>1, <1>2, <2>1 DEF SendId
<1>3. CASE renamed
  <2>1. PICK c : c = Clone(asked, FreshId)
    OBVIOUS
  <2>2. Sent = c /\ asked.kind = "request"
    BY <1>3, <2>1 DEF Sent, StageInv
  <2>3. /\ IsMade(c) /\ c.kind = "request" /\ c.method = asked.method /\ c.trace = asked.trace
        /\ c.id = FreshId /\ c.params = Params(TRUE, asked.params.of)
        /\ Meant(c) = Meant(asked) \/ asked.params = Params(FALSE, <<"typed slice">>)
    BY <1>1, <2>1, <2>2, CloneIsMade
  <2>4. \A of : Params(TRUE, of) # Params(FALSE, <<"nil">>)
    BY DEF Params
  <2>5. c.params # Params(FALSE, <<"nil">>)
    BY <2>3, <2>4
  <2>6. FreshId.type # "other"
    BY DEF FreshId
  <2>7. QED
    BY <1>3, <2>2, <2>3, <2>5, <2>6 DEF SendId
<1>4. QED
  BY <1>2, <1>3 DEF StageInv

\* The answer to a message that was read can be read; only relayed ones differ.
LEMMA AnswerIsRead ==
  ASSUME NEW m, IsRead(m), NEW what, NEW answer \in AnswersTo(m, what)
  PROVE  /\ answer = NoMessage <=> m.kind # "request" \/ what \in {"nothing", "WrappedResponse"}
         /\ answer # NoMessage =>
              /\ IsRead(answer)
              /\ what # "message" => /\ answer.kind \in {"result", "error"}
                                     /\ answer.id = m.id /\ answer.trace = m.trace
<1> USE NotMade
<1>1. CASE m.kind # "request" \/ what \in {"nothing", "WrappedResponse"}
  BY <1>1 DEF AnswersTo
<1>2. ASSUME m.kind = "request", what \notin {"nothing", "WrappedResponse"}
      PROVE  /\ answer # NoMessage /\ IsRead(answer)
             /\ what # "message" => /\ answer.kind \in {"result", "error"}
                                    /\ answer.id = m.id /\ answer.trace = m.trace
  <2>1. m.id \in ReadIds /\ m.id.type # "other" /\ m.id # NoId
    BY <1>2 DEF IsRead
  <2>2. ASSUME NEW body \in {"nil", "atom"}, answer = NewResultMessage(m, body)
        PROVE  /\ IsRead(answer) /\ answer.kind = "result"
               /\ answer.id = m.id /\ answer.trace = m.trace
    <3> PICK id, trace : id = m.id /\ trace = m.trace
      OBVIOUS
    <3>1. answer = Make("result", id, "", NoParams, body, trace)
      BY <2>2 DEF NewResultMessage, rawResultMessage, SetTraceId, MustId, Make
    <3>2. /\ answer.kind = "result" /\ answer.id = id /\ answer.method = ""
          /\ answer.params = NoParams /\ answer.body = body /\ answer.trace = trace
      BY ONLY <3>1 DEF Make
    <3>3. body \in PlainValues
      BY DEF PlainValues, Values
    <3>4. QED
      BY <2>1, <3>1, <3>2, <3>3 DEF IsRead
  <2>3. ASSUME answer = NewErrorMessage(m, "error")
        PROVE  /\ IsRead(answer) /\ answer.kind = "error"
               /\ answer.id = m.id /\ answer.trace = m.trace
    <3> PICK id, trace : id = m.id /\ trace = m.trace
      OBVIOUS
    <3>1. answer = Make("error", id, "", NoParams, "error", trace)
      BY <2>3 DEF NewErrorMessage, rawErrorMessage, SetTraceId, MustId, Make
    <3>2. /\ answer.kind = "error" /\ answer.id = id /\ answer.method = ""
          /\ answer.params = NoParams /\ answer.body = "error" /\ answer.trace = trace
      BY ONLY <3>1 DEF Make
    <3>3. QED
      BY <2>1, <3>1, <3>2 DEF IsRead
  <2>4. ASSUME what = "message" PROVE IsRead(answer)
    <3>1. answer \in Relayed
      BY <1>2, <2>4 DEF AnswersTo
    <3>2. PICK un \in Others : answer = DecodeMessage(un) /\ answer # Failure
      BY <3>1 DEF Relayed
    <3>3. IsUnion(un) /\ un.method \in Methods \cup {""}
      BY ExchangeAssumption
    <3>4. QED
      BY <3>2, <3>3, UnionRead
  <2>5. \/ \E body \in {"nil", "atom"} : answer = NewResultMessage(m, body)
        \/ answer = NewErrorMessage(m, "error")
        \/ what = "message"
    BY <1>2 DEF AnswersTo
  <2>6. QED
    BY <2>2, <2>3, <2>4, <2>5
<1>3. QED
  BY <1>1, <1>2

\* Only a null for an interface makes a typed handler panic.
LEMMA PanicsOnNull ==
  ASSUME NEW sig, NEW given, NEW fits, DOMAIN given = 1 .. Len(given),
         TypedCall(sig, given, fits) = "panics"
  PROVE  "nil" \in ToSet(given)
<1> PICK nulls : nulls = {i \in DOMAIN sig : i \in DOMAIN given /\ given[i] = "nil"}
  OBVIOUS
<1>1. PICK i \in nulls : sig[i] = "interface"
  BY DEF TypedCall
<1>2. i \in DOMAIN given /\ given[i] = "nil"
  BY <1>1
<1>3. QED
  BY <1>2 DEF ToSet

-----------------------------------------------------------------------------
(* The invariant is one.                                                   *)

LEMMA InitInv == ExchangeInit => Inv
<1> SUFFICES ASSUME ExchangeInit PROVE Inv
  OBVIOUS
<1>1. TreeInv /\ FewHandlers
  BY InitTree, InitFew DEF ExchangeInit
<1>2. StageInv /\ SeenInv /\ AnswerInv
  BY DEF ExchangeInit, StageInv, SeenInv, AnswerInv, Stages
<1>3. QED
  BY <1>1, <1>2 DEF Inv

LEMMA SameHandlers == FewHandlers /\ UNCHANGED actorVars => FewHandlers'
  BY DEF FewHandlers, Handled, actorVars

LEMMA AskKeeps == Inv /\ Ask => (StageInv /\ SeenInv /\ AnswerInv)'
<1> SUFFICES ASSUME Inv, Ask PROVE (StageInv /\ SeenInv /\ AnswerInv)'
  OBVIOUS
<1>1. /\ stage' = "made" /\ asked' \in Asked /\ msg' = asked'
      /\ renamed = FALSE /\ renamed' = FALSE
  BY DEF Inv, StageInv, Ask, Ready
<1>2. Sent' = msg'
  BY <1>1 DEF Sent
<1>3. QED
  BY <1>1, <1>2 DEF StageInv, SeenInv, AnswerInv, Stages

LEMMA RenameKeeps == Inv /\ Rename => (StageInv /\ SeenInv /\ AnswerInv)'
<1> SUFFICES ASSUME Inv, Rename PROVE (StageInv /\ SeenInv /\ AnswerInv)'
  OBVIOUS
<1>1. /\ stage = "made" /\ stage' = "made" /\ ~renamed /\ renamed' = TRUE
      /\ asked' = asked /\ asked \in Asked
      /\ msg.kind = "request" /\ msg' = Clone(msg, FreshId)
  BY DEF Inv, StageInv, Rename
<1>2. msg = asked
  BY <1>1 DEF Inv, StageInv, Sent
<1>3. Sent' = msg'
  BY <1>1, <1>2 DEF Sent
<1>4. QED
  BY <1>1, <1>2, <1>3 DEF StageInv, SeenInv, AnswerInv, Stages

LEMMA TransmitKeeps == Inv /\ Transmit => (StageInv /\ SeenInv /\ AnswerInv)'
<1> SUFFICES ASSUME Inv, Transmit PROVE (StageInv /\ SeenInv /\ AnswerInv)'
  OBVIOUS
<1>1. /\ stage = "made" /\ asked' = asked /\ asked \in Asked /\ renamed' = renamed
      /\ msg' = OverTheWire(Sent) /\ seen' = msg'
      /\ stage' = IF msg' = Failure THEN "refused" ELSE "arrived"
  BY DEF Inv, StageInv, Transmit, Arrives
<1>2. Sent' = Sent
  BY <1>1 DEF Sent
<1>3. IsMade(Sent)
  BY <1>1, SentIsMade DEF Inv
<1>4. msg' = Failure \/ IsRead(msg')
  BY <1>1, <1>3, MadeArrives
<1>5. StageInv'
  BY <1>1 DEF Inv, StageInv, Stages
<1>6. SeenInv'
  BY <1>1, <1>2, <1>4 DEF SeenInv
<1>7. AnswerInv'
  BY <1>1 DEF AnswerInv
<1>8. QED
  BY <1>5, <1>6, <1>7

LEMMA PeerSendsKeeps == Inv /\ PeerSends => (StageInv /\ SeenInv /\ AnswerInv)'
<1> SUFFICES ASSUME Inv, PeerSends PROVE (StageInv /\ SeenInv /\ AnswerInv)'
  OBVIOUS
<1>1. PICK un \in Unions : Arrives(DecodeMessage(un))
  BY DEF PeerSends
<1>2. /\ stage = "registering" /\ asked = NoMessage /\ renamed = FALSE
      /\ asked' = asked /\ renamed' = FALSE
      /\ msg' = DecodeMessage(un) /\ seen' = msg'
      /\ stage' = IF msg' = Failure THEN "refused" ELSE "arrived"
  BY <1>1 DEF Inv, StageInv, PeerSends, Ready, Arrives
<1>3. msg' = Failure \/ IsRead(msg')
  <2>1. IsUnion(un) /\ un.method \in Methods \cup {""}
    BY ExchangeAssumption
  <2>2. QED
    BY <1>2, <2>1, UnionRead
<1>4. StageInv'
  <2>1. stage' \in {"refused", "arrived"}
    BY <1>2
  <2>2. QED
    BY <1>2, <2>1 DEF StageInv, Stages
<1>5. SeenInv'
  BY <1>2, <1>3 DEF SeenInv
<1>6. AnswerInv'
  BY <1>2 DEF AnswerInv
<1>7. QED
  BY <1>4, <1>5, <1>6

\* What is true after an answer, or silence.
LEMMA AnswersKeep ==
  ASSUME Inv, stage = "arrived", NEW what,
         msg.kind = "request" => what # "nothing",
         Answers(what), UNCHANGED <<asked, renamed, seen>>
  PROVE  (StageInv /\ SeenInv /\ AnswerInv)'
<1>1. msg = seen /\ IsRead(seen)
  BY DEF Inv, SeenInv
<1>2. PICK answer \in AnswersTo(seen, what) : msg' = answer
  BY <1>1 DEF Answers
<1>3. /\ stage' = IF answer = NoMessage THEN "silent" ELSE "answered"
      /\ outcome' = what
  BY <1>2 DEF Answers
<1>4. stage' \in {"silent", "answered"}
  BY <1>3
<1>5. Sent' = Sent
  BY DEF Sent
<1>6. StageInv'
  BY <1>4 DEF Inv, StageInv, Stages
<1>7. SeenInv'
  BY <1>4, <1>5 DEF Inv, SeenInv
<1>8. /\ answer = NoMessage <=> seen.kind # "request" \/ what = "WrappedResponse"
      /\ answer # NoMessage =>
           /\ IsRead(answer)
           /\ what # "message" => /\ answer.kind \in {"result", "error"}
                                  /\ answer.id = seen.id /\ answer.trace = seen.trace
  BY <1>1, AnswerIsRead
<1>9. AnswerInv'
  BY <1>2, <1>3, <1>8 DEF AnswerInv, OwnAnswer
<1>10. QED
  BY <1>6, <1>7, <1>9

\* What is true after a panic.
LEMMA PanicsKeep ==
  ASSUME Inv, stage = "arrived", NEW what, Panics(what), UNCHANGED <<asked, renamed, seen>>,
         \/ what = "other" \/ seen.kind \in {"result", "error"}
         \/ what = "none" /\ "nil" \in ToSet(seen.params.of)
  PROVE  (StageInv /\ SeenInv /\ AnswerInv)'
<1>1. /\ msg = seen /\ IsRead(seen)
      /\ stage' = "panicked" /\ outcome' = what
  BY DEF Inv, SeenInv, Panics
<1>2. Sent' = Sent
  BY DEF Sent
<1>3. StageInv' /\ SeenInv'
  BY <1>1, <1>2 DEF Inv, StageInv, SeenInv, Stages
<1>4. AnswerInv'
  BY <1>1 DEF AnswerInv
<1>5. QED
  BY <1>3, <1>4

LEMMA EndsKeep ==
  ASSUME Inv, stage = "arrived", NEW decision, NEW o \in Outcomes(decision.does),
         msg.kind = "request" => decision.does # "nothing",
         Unguarded(decision) => msg.kind \in {"result", "error"},
         Ends(decision, o), UNCHANGED <<asked, renamed, seen>>
  PROVE  (StageInv /\ SeenInv /\ AnswerInv)'
<1> PICK what : what = o.what
  OBVIOUS
<1>1. CASE PanicsThrough(decision, o)
  <2>1. Panics(what)
    BY <1>1 DEF Ends
  <2>2. what = "other" \/ Unguarded(decision)
    BY <1>1 DEF PanicsThrough, Unguarded
  <2>3. msg = seen
    BY DEF Inv, SeenInv
  <2>4. QED
    BY <2>1, <2>2, <2>3, PanicsKeep
<1>2. CASE ~PanicsThrough(decision, o)
  <2>1. Answers(what)
    BY <1>2 DEF Ends
  <2>2. decision.does # "nothing" => what # "nothing"
    <3>1. "nothing" \notin {"value", "opaque", "message", "other"} \cup Errors
      BY DEF Errors
    <3>2. \A x \in Outcome : x.what # "nothing"
      BY <3>1 DEF Outcome
    <3>3. [how |-> "returns", what |-> "RPCError"].what # "nothing"
      OBVIOUS
    <3>4. decision.does # "nothing" =>
            o \in Outcome \/ o = [how |-> "returns", what |-> "RPCError"]
      BY DEF Outcomes
    <3>5. QED
      BY <3>2, <3>3, <3>4
  <2>3. QED
    BY <2>1, <2>2, AnswersKeep
<1>3. QED
  BY <1>1, <1>2

LEMMA HandleKeeps == Inv /\ Handle => (StageInv /\ SeenInv /\ AnswerInv)'
<1> SUFFICES ASSUME Inv, Handle PROVE (StageInv /\ SeenInv /\ AnswerInv)'
  OBVIOUS
<1>1. stage = "arrived" /\ UNCHANGED <<actorVars, asked, renamed, seen>>
  BY DEF Handle
<1>2. PICK valid \in BOOLEAN, fits \in BOOLEAN :
        \/ \E o \in Outcomes(Feed(Fed(valid))[Root].does) : Ends(Feed(Fed(valid))[Root], o)
        \/ /\ Feed(Fed(valid))[Root].does = "callback"
           /\ \E sig \in Signatures :
                \/ \E o \in Outcomes("callback") : Ends(Feed(Fed(valid))[Root], o)
                \/ TypedCall(sig, msg.params.of, fits) = "panics" /\ Panics("none")
                \/ Answers("RPCError")
  BY DEF Handle
<1> PICK fed : fed = Fed(valid)
  OBVIOUS
<1> PICK decision : decision = Feed(fed)[Root]
  OBVIOUS
<1>3. Root \in Actors /\ fed.type = IF msg.kind \in {"request", "notify"} THEN msg.kind ELSE "reply"
  BY ActorAssumption DEF Fed
<1>4. msg = seen /\ IsRead(seen)
  BY <1>1 DEF Inv, SeenInv
<1>5. msg.kind = "request" => decision.does # "nothing"
  BY <1>3, RequestsAnswered DEF Inv
<1>6. Unguarded(decision) => msg.kind \in {"result", "error"}
  <2>1. msg.kind \in {"request", "notify"} => fed.type \in {"request", "notify"}
    BY <1>3
  <2>2. msg.kind \in {"request", "notify", "result", "error"}
    BY <1>4 DEF IsRead
  <2>3. ASSUME fed.type \in {"request", "notify"} PROVE ~Unguarded(decision)
    <3>1. TreeInv /\ Root \in Actors
      BY ActorAssumption DEF Inv
    <3>2. ~Unguarded(Feed(fed)[Root])
      BY <2>3, <3>1, CallsAreGuarded
    <3>3. QED
      BY <3>2
  <2>4. QED
    BY <2>1, <2>2, <2>3
<1>7. ASSUME NEW o \in Outcomes(decision.does), Ends(decision, o)
      PROVE  (StageInv /\ SeenInv /\ AnswerInv)'
  BY <1>1, <1>5, <1>6, <1>7, EndsKeep
<1>8. ASSUME NEW sig, TypedCall(sig, msg.params.of, fits) = "panics", Panics("none")
      PROVE  (StageInv /\ SeenInv /\ AnswerInv)'
  <2>1. DOMAIN seen.params.of = 1 .. Len(seen.params.of)
    <3>1. NoParams.of = <<>> /\ Params(FALSE, <<"atom">>).of = <<"atom">>
      BY DEF NoParams, Params
    <3>2. \/ seen.params.of \in Seq(PlainValues) \/ seen.params.of = <<>>
          \/ seen.params.of = <<"atom">>
      BY <1>4, <3>1 DEF IsRead, ReadParams
    <3>3. QED
      BY <3>2, LenProperties
  <2>2. "nil" \in ToSet(seen.params.of)
    BY <1>4, <1>8, <2>1, PanicsOnNull
  <2>3. QED
    BY <1>1, <1>8, <2>2, PanicsKeep
<1>9. ASSUME Answers("RPCError")
      PROVE  (StageInv /\ SeenInv /\ AnswerInv)'
  BY <1>1, <1>9, AnswersKeep
<1>10. QED
  BY <1>2, <1>7, <1>8, <1>9

LEMMA ReturnKeeps == Inv /\ Return => (StageInv /\ SeenInv /\ AnswerInv)'
<1> SUFFICES ASSUME Inv, Return PROVE (StageInv /\ SeenInv /\ AnswerInv)'
  OBVIOUS
<1>1. /\ stage = "answered" /\ stage' = "returned" /\ msg' = OverTheWire(msg)
      /\ asked' = asked /\ renamed' = renamed /\ seen' = seen /\ outcome' = outcome
  BY DEF Return
<1>2. IsRead(msg)
  BY <1>1 DEF Inv, AnswerInv
<1>3. msg' = msg
  BY <1>1, <1>2, Reread
<1>4. Sent' = Sent
  BY <1>1 DEF Sent
<1>5. StageInv' /\ SeenInv'
  BY <1>1, <1>3, <1>4 DEF Inv, StageInv, SeenInv, Stages
<1>6. AnswerInv'
  BY <1>1, <1>2, <1>3 DEF Inv, AnswerInv, OwnAnswer
<1>7. QED
  BY <1>5, <1>6

LEMMA RestoreKeeps == Inv /\ Restore => (StageInv /\ SeenInv /\ AnswerInv)'
<1> SUFFICES ASSUME Inv, Restore PROVE (StageInv /\ SeenInv /\ AnswerInv)'
  OBVIOUS
<1> PICK matches \in BOOLEAN : matches = (msg.kind \in {"result", "error"} /\ msg.id = SendId)
  OBVIOUS
<1>1. /\ stage = "returned" /\ asked # NoMessage
      /\ asked' = asked /\ renamed' = renamed /\ seen' = seen /\ outcome' = outcome
      /\ stage' = IF matches THEN "restored" ELSE "handed"
  BY DEF Restore
<1>2. seen.kind = "request" /\ IsRead(msg) /\ (outcome # "message" => OwnAnswer)
  BY <1>1 DEF Inv, AnswerInv
<1>3. Sent' = Sent
  BY <1>1 DEF Sent
<1>4. StageInv' /\ SeenInv'
  BY <1>1, <1>3 DEF Inv, StageInv, SeenInv, Stages
<1>5. CASE matches
  <2>1. msg' = IF msg.id # asked.id THEN ReplaceId(msg, asked.id) ELSE msg
    BY <1>5 DEF Restore
  <2>2. ASSUME msg.id # asked.id
        PROVE  msg'.kind = msg.kind /\ msg'.id = asked.id /\ msg'.trace = msg.trace
    <3>1. msg' = Make(msg.kind, asked.id, "", NoParams, msg.body, msg.trace)
      BY <1>5, <2>1, <2>2 DEF ReplaceId, rawResultMessage, rawErrorMessage, SetTraceId, Make
    <3>2. QED
      BY ONLY <3>1 DEF Make
  <2>3. msg'.kind \in {"result", "error"} /\ msg'.id = asked.id /\ msg'.trace = msg.trace
    BY <1>5, <2>1, <2>2
  <2>4. renamed \/ asked.id.type # "int64"
    BY <1>2, <1>5 DEF IsRead, ReadIds, SendId
  <2>5. QED
    BY <1>1, <1>2, <1>4, <1>5, <2>3, <2>4 DEF AnswerInv, OwnAnswer
<1>6. CASE ~matches
  <2>1. ASSUME outcome # "message" PROVE asked.id.type = "int64" /\ ~renamed
    <3>1. msg.id # SendId /\ msg.id = seen.id
      BY <1>2, <1>6, <2>1 DEF OwnAnswer
    <3>2. asked \in Asked /\ seen = OverTheWire(Sent) /\ IsRead(seen)
      BY <1>1 DEF Inv, StageInv, SeenInv
    <3>3. IsMade(Sent) /\ Sent.id = SendId
      BY <3>2, SentIsMade DEF Inv
    <3>4. SendId.type # "int64" => seen.id = SendId
      BY <3>2, <3>3, MadeArrives, NotMade
    <3>5. QED
      BY <3>1, <3>4 DEF SendId, FreshId
  <2>2. QED
    BY <1>1, <1>2, <1>4, <1>6, <2>1 DEF AnswerInv
<1>7. QED
  BY <1>5, <1>6

LEMMA SameExchange ==
  StageInv /\ SeenInv /\ AnswerInv /\ UNCHANGED exchangeVars => (StageInv /\ SeenInv /\ AnswerInv)'
  BY DEF StageInv, SeenInv, AnswerInv, OwnAnswer, Sent, exchangeVars

LEMMA StepInv == Inv /\ [Next]_<<actorVars, exchangeVars>> => Inv'
<1> SUFFICES ASSUME Inv, [Next]_<<actorVars, exchangeVars>> PROVE Inv'
  OBVIOUS
<1>1. (TreeInv /\ FewHandlers)'
  <2>1. CASE Register
    BY <2>1, RegisterKeeps, RegisterFew DEF Inv
  <2>2. CASE UNCHANGED actorVars
    BY <2>2, SameTree, SameHandlers DEF Inv
  <2>3. QED
    BY <2>1, <2>2 DEF Next, Registering, Ask, Rename, Transmit, PeerSends, Arrives, Handle,
                      Return, Restore
<1>2. (StageInv /\ SeenInv /\ AnswerInv)'
  <2>1. CASE Registering \/ UNCHANGED exchangeVars
    BY <2>1, SameExchange DEF Inv, Registering
  <2>2. CASE Ask
    BY <2>2, AskKeeps
  <2>3. CASE Rename
    BY <2>3, RenameKeeps
  <2>4. CASE Transmit
    BY <2>4, TransmitKeeps
  <2>5. CASE PeerSends
    BY <2>5, PeerSendsKeeps
  <2>6. CASE Handle
    BY <2>6, HandleKeeps
  <2>7. CASE Return
    BY <2>7, ReturnKeeps
  <2>8. CASE Restore
    BY <2>8, RestoreKeeps
  <2>9. QED
    BY <2>1, <2>2, <2>3, <2>4, <2>5, <2>6, <2>7, <2>8 DEF Next
<1>3. QED
  BY <1>1, <1>2 DEF Inv

LEMMA AlwaysInv == ExchangeSpec => []Inv
  BY InitInv, StepInv, PTL DEF ExchangeSpec

-----------------------------------------------------------------------------
(* What follows from it.                                                   *)

LEMMA InvMeant == Inv => ArrivesAsMeant
<1> SUFFICES ASSUME Inv, asked # NoMessage, stage \in {"arrived", "refused"}
             PROVE
    \/ /\ <<seen.kind, seen.method, seen.trace>> = <<asked.kind, asked.method, asked.trace>>
       /\ \/ seen.params.of = Meant(asked)
          \/ renamed /\ asked.params = Params(FALSE, <<"typed slice">>)
    \/ /\ stage = "refused"
       /\ \/ asked.params = Params(FALSE, <<"nil">>)
          \/ asked.id.type = "other"
  BY DEF ArrivesAsMeant
<1>1. StageInv /\ asked \in Asked /\ seen = OverTheWire(Sent)
      /\ IF stage = "refused" THEN seen = Failure ELSE IsRead(seen)
  BY DEF Inv, StageInv, SeenInv
<1>2. /\ IsMade(Sent) /\ Sent.kind = asked.kind /\ Sent.method = asked.method
      /\ Sent.trace = asked.trace
      /\ \/ Meant(Sent) = Meant(asked)
         \/ renamed /\ asked.params = Params(FALSE, <<"typed slice">>)
      /\ Sent.params = Params(FALSE, <<"nil">>) => asked.params = Params(FALSE, <<"nil">>)
      /\ Sent.id.type = "other" => asked.id.type = "other"
  BY <1>1, SentIsMade
<1>3. \/ /\ seen = Failure
         /\ Sent.params = Params(FALSE, <<"nil">>) \/ Sent.id.type = "other"
      \/ /\ IsRead(seen)
         /\ seen.kind = Sent.kind /\ seen.method = Sent.method
         /\ seen.trace = Sent.trace /\ seen.params.of = Meant(Sent)
  BY <1>1, <1>2, MadeArrives
<1>4. QED
  BY <1>1, <1>2, <1>3, NotMade

LEMMA InvFits == Inv => AnswerFits
<1> SUFFICES ASSUME Inv PROVE AnswerFits
  OBVIOUS
<1>1. ASSUME stage = "restored", outcome # "message" PROVE msg.trace = asked.trace
  <2>1. msg.trace = seen.trace /\ asked # NoMessage
    BY <1>1 DEF Inv, AnswerInv
  <2>2. asked \in Asked /\ seen = OverTheWire(Sent) /\ IsRead(seen)
    BY <1>1, <2>1 DEF Inv, StageInv, SeenInv
  <2>3. IsMade(Sent) /\ Sent.trace = asked.trace
    BY <2>2, SentIsMade DEF Inv
  <2>4. seen.trace = Sent.trace
    BY <2>2, <2>3, MadeArrives, NotMade
  <2>5. QED
    BY <2>1, <2>3, <2>4
<1>2. QED
  BY <1>1 DEF AnswerFits, Inv, AnswerInv

LEMMA InvSentOn == Inv => SentOnUnchanged
<1> SUFFICES ASSUME Inv, stage \in {"arrived", "returned"} PROVE OverTheWire(msg) = msg
  BY DEF SentOnUnchanged
<1>1. IsRead(msg)
  BY DEF Inv, SeenInv, AnswerInv
<1>2. QED
  BY <1>1, Reread

-----------------------------------------------------------------------------
(* The theorems.                                                           *)

\* What arrives at a handler is what the caller meant, whether or not the client
\* replaced the id (Clone, Interface, DecodeMessage), whatever is asked.
THEOREM AsMeant == ExchangeSpec => []ArrivesAsMeant
  BY AlwaysInv, InvMeant, PTL

\* Whatever handlers, callers and peers there are: what a caller is given has the
\* id it asked with, only relayed answers and those to an int64 id go astray
\* (handleResult), and only a WrappedResponse or a panic past the recover leaves a
\* request unanswered (Feed, wrapResult).
THEOREM Fits == ExchangeSpec => []AnswerFits
  BY AlwaysInv, InvFits, PTL

\* What a reader accepts it can send on: the next reader gets the same (parse.go
\* and Interface of messageimpl.go are inverses there).
THEOREM SentOn == ExchangeSpec => []SentOnUnchanged
  BY AlwaysInv, InvSentOn, PTL

\* Feed, Has and MethodList agree in any tree of actors a program can make: the
\* first actor with the method answers.
THEOREM FirstOfTheTree == ExchangeSpec => []HandledByFirst
<1>1. Inv => HandledByFirst
  BY FirstHandles DEF Inv
<1>2. QED
  BY <1>1, AlwaysInv, PTL

\* Feed and GetSchema agree in any tree: no params pass that the schema shown
\* refuses.
THEOREM Guarded == ExchangeSpec => []SchemaGuards
<1>1. Inv => SchemaGuards
  BY GuardedBySchema DEF Inv
<1>2. QED
  BY <1>1, AlwaysInv, PTL

\* HandleClose calls every close handler of any tree, once, children first.
THEOREM AllClosed == ExchangeSpec => []ClosedEverywhere
<1>1. Inv => ClosedEverywhere
  BY AllAreClosed DEF Inv
<1>2. QED
  BY <1>1, AlwaysInv, PTL
===============================================================================
