------------------------------ MODULE CanvasProofs ------------------------------
(***************************************************************************)
(* The canvas, for any graph, limits, arrivals and messages under way: its *)
(* tables stay exact, its edges join what is shown, its limit is kept.     *)
(***************************************************************************)
EXTENDS GraphCanvas, FiniteSetTheorems, SequenceTheorems, TLAPS

\* The arrays: no id, no arrival and no edge twice, and edges join what is shown.
Numbered(n) == [id : VertexIds, seq : 1 .. n]

HasId(vs, v) == \E i \in 1 .. Len(vs) : vs[i].id = v
HasEdge(es, e) == \E i \in 1 .. Len(es) : es[i] = e
JoinIds(es, vs) == \A k \in 1 .. Len(es) : HasId(vs, es[k][1]) /\ HasId(vs, es[k][2])

ArraysOK(vs, es, n) ==
  /\ vs \in Seq(Numbered(n))
  /\ \A i, j \in 1 .. Len(vs) : vs[i].id = vs[j].id => i = j
  /\ \A i, j \in 1 .. Len(vs) : vs[i].seq = vs[j].seq => i = j
  /\ es \in Seq(EdgeIds)
  /\ \A i, j \in 1 .. Len(es) : es[i] = es[j] => i = j
  /\ JoinIds(es, vs)

\* The tables: of what is not there, and of what is.
NoStrays(vs, refs, es, eRefs) ==
  /\ refs \in [VertexIds -> Nat]
  /\ \A v \in VertexIds : refs[v] # 0 => HasId(vs, v)
  /\ eRefs \in [EdgeIds -> Nat]
  /\ \A e \in EdgeIds : eRefs[e] # 0 => HasEdge(es, e)

TablesOK(vs, refs, es, eRefs) ==
  /\ NoStrays(vs, refs, es, eRefs)
  /\ \A i \in 1 .. Len(vs) : refs[vs[i].id] = i
  /\ \A i \in 1 .. Len(es) : eRefs[es[i]] = i

PictureOK ==
  /\ ArraysOK(vertices, edges, vertexSequence)
  /\ TablesOK(vertices, vertexRefs, edges, edgeRefs)
  /\ fading \subseteq Numbered(vertexSequence)
  /\ vertexSequence \in 0 .. MAX_SEQUENCE /\ vertexSequenceEnd \in 0 .. vertexSequence

\* A graph names no vertex twice; a query asks for something.
GoodMessages ==
  {m \in Message :
     /\ m.provider = "graph" => \A i, j \in 1 .. Len(m.ids) : m.ids[i] = m.ids[j] => i = j
     /\ m.provider = "notready" => m.query # {}}

OrdersOK == order \in Query /\ coming \in Seq(GoodMessages) /\ Len(coming) <= MAX_UNDER_WAY

SettingsOK ==
  /\ stored \subseteq VertexIds /\ limit \in Limits
  /\ connected \in BOOLEAN /\ ready \in BOOLEAN
  /\ firstTry \in BOOLEAN /\ autoRefresh \in BOOLEAN

CanvasInv == PictureOK /\ OrdersOK /\ SettingsOK /\ Len(vertices) <= limit

LEMMA UpTo ==
  ASSUME NEW n \in Nat
  PROVE  IsFiniteSet(1 .. n) /\ Cardinality(1 .. n) = n
  BY FS_Interval

LEMMA Pigeons ==
  ASSUME NEW n \in Nat, NEW k \in Nat, NEW f \in [1 .. n -> 1 .. k],
         \A i, j \in 1 .. n : f[i] = f[j] => i = j
  PROVE  n <= k
  <1>1. IsFiniteSet(1 .. n) /\ Cardinality(1 .. n) = n /\ IsFiniteSet(1 .. k) /\ Cardinality(1 .. k) = k
    BY UpTo
  <1>2. SUFFICES ASSUME Cardinality(1 .. k) < Cardinality(1 .. n) PROVE FALSE
    BY <1>1
  <1> QED BY <1>1, <1>2, FS_PigeonHole

LEMMA Enumerated ==
  ASSUME NEW S, IsFiniteSet(S)
  PROVE  /\ Cardinality(S) \in Nat
         /\ \E f \in [1 .. Cardinality(S) -> S] :
              /\ \A i, j \in 1 .. Cardinality(S) : f[i] = f[j] => i = j
              /\ \A x \in S : \E i \in 1 .. Cardinality(S) : f[i] = x
  <1>1. Cardinality(S) \in Nat /\ ExistsBijection(1 .. Cardinality(S), S)
    BY FS_CardinalityType
  <1>2. PICK f \in Bijection(1 .. Cardinality(S), S) : TRUE
    BY <1>1 DEF ExistsBijection
  <1>3. /\ f \in [1 .. Cardinality(S) -> S]
        /\ \A i, j \in 1 .. Cardinality(S) : f[i] = f[j] => i = j
        /\ \A x \in S : \E i \in 1 .. Cardinality(S) : f[i] = x
    BY DEF Bijection, Injection, Surjection, IsInjective
  <1>4. Cardinality(S) = Cardinality(S)
    OBVIOUS
  <1> QED BY <1>1, <1>3, <1>4

\* F has what is at the places P of a, each once.
IsFiltered(F, a, P, S) ==
  /\ F \in Seq(S) /\ Len(F) \in 0 .. Len(a)
  /\ \E f \in [1 .. Len(F) -> P] :
       /\ \A k \in 1 .. Len(F) : F[k] = a[f[k]]
       /\ \A i, j \in 1 .. Len(F) : f[i] = f[j] => i = j
       /\ \A p \in P : \E k \in 1 .. Len(F) : f[k] = p

LEMMA FilteredIs ==
  ASSUME NEW S, NEW a \in Seq(S), NEW P \in SUBSET (1 .. Len(a))
  PROVE  IsFiltered(Filtered(a, P), a, P, S)
  <1> DEFINE n == Cardinality(P)
             below(i) == {j \in P : j <= i}
             rank == [i \in P |-> Cardinality(below(i))]
             f == [k \in 1 .. n |-> CHOOSE i \in P : Cardinality(below(i)) = k]
  <1>0. n = Cardinality(P) /\ \A i \in P : rank[i] = Cardinality(below(i))
    OBVIOUS
  <1>1. Len(a) \in Nat /\ IsFiniteSet(1 .. Len(a)) /\ Cardinality(1 .. Len(a)) = Len(a)
    <2>1. Len(a) \in Nat
      OBVIOUS
    <2> QED BY <2>1, UpTo
  <1>2. IsFiniteSet(P) /\ n \in Nat /\ n <= Len(a)
    <2>1. IsFiniteSet(P) /\ Cardinality(P) <= Cardinality(1 .. Len(a))
      BY <1>1, FS_Subset
    <2>2. Cardinality(P) \in Nat
      BY <2>1, FS_CardinalityType
    <2> QED BY <1>0, <1>1, <2>1, <2>2
  <1>3. \A i \in P : /\ IsFiniteSet(below(i)) /\ Cardinality(below(i)) \in Nat
                     /\ Cardinality(below(i)) <= n
    <2> SUFFICES ASSUME NEW i \in P
                 PROVE  /\ IsFiniteSet(below(i)) /\ Cardinality(below(i)) \in Nat
                        /\ Cardinality(below(i)) <= n
      OBVIOUS
    <2>1. below(i) \in SUBSET P
      OBVIOUS
    <2> HIDE DEF below
    <2> QED BY <1>0, <1>2, <2>1, FS_Subset, FS_CardinalityType
  <1>4. \A i \in P : rank[i] \in 1 .. n
    <2> SUFFICES ASSUME NEW i \in P PROVE Cardinality(below(i)) \in 1 .. n
      BY <1>0
    <2>1. i \in below(i)
      OBVIOUS
    <2>2. Cardinality(below(i)) # 0
      BY <1>3, <2>1, FS_EmptySet
    <2> HIDE DEF below, n
    <2> QED BY <1>2, <1>3, <2>2
  <1>5. \A i, j \in P : rank[i] = rank[j] => i = j
    <2>1. ASSUME NEW i \in P, NEW j \in P, i < j PROVE rank[i] # rank[j]
      <3>0. i \in Int /\ j \in Int
        OBVIOUS
      <3>1. below(i) \in SUBSET below(j)
        <4> SUFFICES ASSUME NEW k \in P, k <= i PROVE k <= j
          OBVIOUS
        <4>1. k \in Int
          OBVIOUS
        <4> QED BY <2>1, <3>0, <4>1
      <3>2. j \in below(j) /\ j \notin below(i)
        BY <2>1, <3>0
      <3>3. below(i) # below(j)
        BY <3>2
      <3> HIDE DEF below
      <3>4. Cardinality(below(i)) # Cardinality(below(j))
        BY <1>3, <3>1, <3>3, FS_Subset
      <3> HIDE DEF rank
      <3> QED BY <1>0, <3>4
    <2> SUFFICES ASSUME NEW i \in P, NEW j \in P, i # j PROVE rank[i] # rank[j]
      OBVIOUS
    <2>2. i < j \/ j < i
      OBVIOUS
    <2> HIDE DEF rank
    <2> QED BY <2>1, <2>2
  <1>6. \A k \in 1 .. n : \E i \in P : rank[i] = k
    <2> SUFFICES ASSUME NEW k \in 1 .. n, \A i \in P : rank[i] # k PROVE FALSE
      OBVIOUS
    <2> DEFINE T == (1 .. n) \ {k}
    <2>1. IsFiniteSet(1 .. n) /\ Cardinality(1 .. n) = n
      BY <1>2, UpTo
    <2>2. IsFiniteSet(T) /\ Cardinality(T) = n - 1
      BY <2>1, FS_RemoveElement
    <2>3. rank \in [P -> T]
      BY <1>4
    <2> HIDE DEF T, rank, n
    <2>4. Cardinality(T) < Cardinality(P)
      BY <1>0, <1>2, <2>2
    <2>5. \E i, j \in P : i # j /\ rank[i] = rank[j]
      BY <1>2, <2>2, <2>3, <2>4, FS_PigeonHole
    <2> QED BY <1>5, <2>5
  <1>7. \A k \in 1 .. n : f[k] \in P /\ rank[f[k]] = k
    <2> HIDE DEF n, below
    <2> QED BY <1>6
  <1>8. \A i \in P : f[rank[i]] = i
    <2> SUFFICES ASSUME NEW i \in P PROVE f[rank[i]] = i
      OBVIOUS
    <2> HIDE DEF f, rank
    <2> QED BY <1>4, <1>5, <1>7
  <1>9. Filtered(a, P) = [k \in 1 .. n |-> a[f[k]]]
    BY DEF Filtered
  <1> HIDE DEF f, rank, n
  <1>10. f \in [1 .. n -> P]
    BY <1>7 DEF f
  <1>11. \A k \in 1 .. n : a[f[k]] \in S
    BY <1>7, \A p \in P : a[p] \in S
  <1>12. Filtered(a, P) \in Seq(S) /\ Len(Filtered(a, P)) = n
    BY <1>2, <1>9, <1>11
  <1>13. \A i, j \in 1 .. n : f[i] = f[j] => i = j
    BY <1>7
  <1>14. \A p \in P : \E k \in 1 .. n : f[k] = p
    BY <1>4, <1>8
  <1>15. n \in 0 .. Len(a) /\ \A k \in 1 .. n : Filtered(a, P)[k] = a[f[k]]
    BY <1>1, <1>2, <1>9
  <1>16. Len(Filtered(a, P)) \in 0 .. Len(a)
    BY <1>12, <1>15
  <1>17. \E g \in [1 .. Len(Filtered(a, P)) -> P] :
           /\ \A k \in 1 .. Len(Filtered(a, P)) : Filtered(a, P)[k] = a[g[k]]
           /\ \A i, j \in 1 .. Len(Filtered(a, P)) : g[i] = g[j] => i = j
           /\ \A p \in P : \E k \in 1 .. Len(Filtered(a, P)) : g[k] = p
    <2>1. \E g \in [1 .. n -> P] :
             /\ \A k \in 1 .. n : Filtered(a, P)[k] = a[g[k]]
             /\ \A i, j \in 1 .. n : g[i] = g[j] => i = j
             /\ \A p \in P : \E k \in 1 .. n : g[k] = p
      BY <1>10, <1>13, <1>14, <1>15
    <2>2. Len(Filtered(a, P)) = n
      BY <1>12
    <2> QED BY <2>1, <2>2
  <1>18. Filtered(a, P) \in Seq(S)
    BY <1>12
  <1> QED BY <1>16, <1>17, <1>18 DEF IsFiltered

\* The index of what is there once.
LEMMA VertexIndexIs ==
  ASSUME NEW vs, NEW n \in Nat, Len(vs) = n,
         \A i, j \in 1 .. n : vs[i].id = vs[j].id => i = j
  PROVE  /\ \A i \in 1 .. n : VertexIndex(vs, vs[i].id) = i
         /\ \A v : (\A i \in 1 .. n : vs[i].id # v) => VertexIndex(vs, v) = 0
  <1>1. ASSUME NEW i \in 1 .. n PROVE VertexIndex(vs, vs[i].id) = i
    <2>1. {k \in 1 .. Len(vs) : vs[k].id = vs[i].id} = {i}
      OBVIOUS
    <2>2. Max({i}) = i
      BY DEF Max
    <2> QED BY <2>1, <2>2 DEF VertexIndex, SelectLastInSeq
  <1>2. ASSUME NEW v, \A i \in 1 .. n : vs[i].id # v PROVE VertexIndex(vs, v) = 0
    <2>1. {k \in 1 .. Len(vs) : vs[k].id = v} = {}
      BY <1>2
    <2> QED BY <2>1 DEF VertexIndex, SelectLastInSeq
  <1> QED BY <1>1, <1>2

LEMMA EdgeIndexIs ==
  ASSUME NEW es, NEW n \in Nat, Len(es) = n, \A i, j \in 1 .. n : es[i] = es[j] => i = j
  PROVE  /\ \A i \in 1 .. n : EdgeIndex(es, es[i]) = i
         /\ \A e : (\A i \in 1 .. n : es[i] # e) => EdgeIndex(es, e) = 0
  <1>1. ASSUME NEW i \in 1 .. n PROVE EdgeIndex(es, es[i]) = i
    <2>1. {k \in 1 .. Len(es) : es[k] = es[i]} = {i}
      OBVIOUS
    <2>2. Max({i}) = i
      BY DEF Max
    <2> QED BY <2>1, <2>2 DEF EdgeIndex, SelectLastInSeq
  <1>2. ASSUME NEW e, \A i \in 1 .. n : es[i] # e PROVE EdgeIndex(es, e) = 0
    <2>1. {k \in 1 .. Len(es) : es[k] = e} = {}
      BY <1>2
    <2> QED BY <2>1 DEF EdgeIndex, SelectLastInSeq
  <1> QED BY <1>1, <1>2

LEMMA SetToSeqIs ==
  ASSUME NEW S, IsFiniteSet(S)
  PROVE  /\ SetToSeq(S) \in Seq(S)
         /\ \A i, j \in 1 .. Len(SetToSeq(S)) :
              SetToSeq(S)[i] = SetToSeq(S)[j] => i = j
  <1> DEFINE n == Cardinality(S)
  <1>1. n \in Nat /\ \E f \in [1 .. n -> S] : \A i, j \in 1 .. n : f[i] = f[j] => i = j
    BY Enumerated
  <1>2. \E f \in [1 .. n -> S] : IsInjective(f)
    BY <1>1 DEF IsInjective
  <1>3. SetToSeq(S) \in [1 .. n -> S] /\ IsInjective(SetToSeq(S))
    BY <1>2 DEF SetToSeq
  <1> HIDE DEF n
  <1>4. SetToSeq(S) \in Seq(S) /\ Len(SetToSeq(S)) = n
    BY <1>1, <1>3
  <1> QED BY <1>3, <1>4 DEF IsInjective

\* What is left of the arrays and tables when ids are removed.
LEMMA Removal ==
  ASSUME NEW last \in Nat, NEW vs, NEW es, NEW refs, NEW eRefs, NEW ids, NEW old \in 0 .. Len(vs),
         ArraysOK(vs, es, last), NoStrays(vs, refs, es, eRefs), fading \subseteq Numbered(last),
         RemoveFromCanvas(ids, vs, old, es, refs, eRefs)
  PROVE  /\ ArraysOK(vertices', edges', last)
         /\ TablesOK(vertices', vertexRefs', edges', edgeRefs')
         /\ stored' \subseteq VertexIds /\ fading' \subseteq Numbered(last)
         /\ Len(vertices') <= Len(vs)
         /\ \A k \in 1 .. Len(vertices') :
              \E i \in 1 .. Len(vs) : vertices'[k] = vs[i] /\ vs[i].id \notin ids
         /\ \A i \in 1 .. Len(vs) :
              vs[i].id \notin ids => \E k \in 1 .. Len(vertices') : vertices'[k] = vs[i]
  <1> DEFINE VP == {i \in 1 .. Len(vs) : vs[i].id \notin ids}
             EP == {i \in 1 .. Len(es) : {es[i][1], es[i][2]} \cap ids = {}}
  <1>1. /\ vs \in Seq(Numbered(last)) /\ Len(vs) \in Nat /\ VP \in SUBSET (1 .. Len(vs))
        /\ es \in Seq(EdgeIds) /\ Len(es) \in Nat /\ EP \in SUBSET (1 .. Len(es))
    BY DEF ArraysOK
  <1>2. vertices' = Filtered(vs, VP) /\ edges' = Filtered(es, EP)
    BY DEF RemoveFromCanvas
  <1> HIDE DEF VP, EP
  <1> DEFINE n == Len(vertices')
             m == Len(edges')
  <1>3. PICK f \in [1 .. n -> VP] :
           /\ vertices' \in Seq(Numbered(last)) /\ n \in 0 .. Len(vs)
           /\ \A k \in 1 .. n : vertices'[k] = vs[f[k]]
           /\ \A i, j \in 1 .. n : f[i] = f[j] => i = j
           /\ \A p \in VP : \E k \in 1 .. n : f[k] = p
    <2>1. IsFiltered(vertices', vs, VP, Numbered(last))
      BY <1>1, <1>2, FilteredIs
    <2> QED BY <2>1 DEF IsFiltered
  <1>4. PICK g \in [1 .. m -> EP] :
           /\ edges' \in Seq(EdgeIds) /\ m \in 0 .. Len(es)
           /\ \A k \in 1 .. m : edges'[k] = es[g[k]]
           /\ \A i, j \in 1 .. m : g[i] = g[j] => i = j
           /\ \A p \in EP : \E k \in 1 .. m : g[k] = p
    <2>1. IsFiltered(edges', es, EP, EdgeIds)
      BY <1>1, <1>2, FilteredIs
    <2> QED BY <2>1 DEF IsFiltered
  <1> HIDE DEF n, m
  <1>5. n \in Nat /\ m \in Nat /\ n <= Len(vs)
    BY <1>1, <1>3, <1>4
  <1>6. \A k \in 1 .. n : f[k] \in 1 .. Len(vs) /\ vertices'[k] = vs[f[k]] /\ vs[f[k]].id \notin ids
    BY <1>3 DEF VP
  <1>7. \A i \in 1 .. Len(vs) : vs[i].id \notin ids => \E k \in 1 .. n : vertices'[k] = vs[i]
    <2> SUFFICES ASSUME NEW i \in 1 .. Len(vs), vs[i].id \notin ids
                 PROVE  \E k \in 1 .. n : vertices'[k] = vs[i]
      OBVIOUS
    <2>1. i \in VP
      BY DEF VP
    <2> QED BY <1>3, <2>1
  <1>8. /\ \A i, j \in 1 .. Len(vs) : vs[i].id = vs[j].id => i = j
        /\ \A i, j \in 1 .. Len(vs) : vs[i].seq = vs[j].seq => i = j
        /\ \A i, j \in 1 .. Len(es) : es[i] = es[j] => i = j
        /\ \A k \in 1 .. Len(es) : HasId(vs, es[k][1]) /\ HasId(vs, es[k][2])
    BY DEF ArraysOK, JoinIds
  <1>9. /\ \A i, j \in 1 .. n : vertices'[i].id = vertices'[j].id => i = j
        /\ \A i, j \in 1 .. n : vertices'[i].seq = vertices'[j].seq => i = j
    <2>1. ASSUME NEW i \in 1 .. n, NEW j \in 1 .. n, vs[f[i]].id = vs[f[j]].id \/ vs[f[i]].seq = vs[f[j]].seq
          PROVE  i = j
      <3>1. f[i] \in 1 .. Len(vs) /\ f[j] \in 1 .. Len(vs)
        BY <1>6
      <3>2. f[i] = f[j]
        BY <1>8, <2>1, <3>1
      <3> QED BY <1>3, <3>2
    <2> SUFFICES ASSUME NEW i \in 1 .. n, NEW j \in 1 .. n,
                        \/ vertices'[i].id = vertices'[j].id
                        \/ vertices'[i].seq = vertices'[j].seq
                 PROVE  i = j
      OBVIOUS
    <2>2. vertices'[i] = vs[f[i]] /\ vertices'[j] = vs[f[j]]
      BY <1>6
    <2> QED BY <2>1, <2>2
  <1>10. \A k \in 1 .. m : g[k] \in 1 .. Len(es) /\ edges'[k] = es[g[k]]
                           /\ {es[g[k]][1], es[g[k]][2]} \cap ids = {}
    BY <1>4 DEF EP
  <1>11. \A i, j \in 1 .. m : edges'[i] = edges'[j] => i = j
    <2> SUFFICES ASSUME NEW i \in 1 .. m, NEW j \in 1 .. m, edges'[i] = edges'[j] PROVE i = j
      OBVIOUS
    <2>1. g[i] \in 1 .. Len(es) /\ g[j] \in 1 .. Len(es) /\ es[g[i]] = es[g[j]]
      BY <1>10
    <2>2. g[i] = g[j]
      BY <1>8, <2>1
    <2> QED BY <1>4, <2>2
  <1>12. JoinIds(edges', vertices')
    <2>1. ASSUME NEW v, HasId(vs, v), v \notin ids PROVE HasId(vertices', v)
      <3>1. PICK i \in 1 .. Len(vs) : vs[i].id = v
        BY <2>1 DEF HasId
      <3>2. PICK k \in 1 .. n : vertices'[k] = vs[i]
        BY <1>7, <2>1, <3>1
      <3> QED BY <3>1, <3>2 DEF HasId, n
    <2> SUFFICES ASSUME NEW k \in 1 .. m
                 PROVE  HasId(vertices', edges'[k][1]) /\ HasId(vertices', edges'[k][2])
      BY DEF JoinIds, m
    <2>2. g[k] \in 1 .. Len(es) /\ edges'[k] = es[g[k]]
      BY <1>10
    <2>3. edges'[k][1] \notin ids /\ edges'[k][2] \notin ids
      BY <1>10, <2>2
    <2>4. HasId(vs, edges'[k][1]) /\ HasId(vs, edges'[k][2])
      BY <1>8, <2>2
    <2> QED BY <2>1, <2>3, <2>4
  <1>13. ArraysOK(vertices', edges', last)
    BY <1>3, <1>4, <1>9, <1>11, <1>12 DEF ArraysOK, n, m
  <1>14. vertexRefs' = [v \in VertexIds |-> IF v \in Ids(vs)
                                            THEN VertexIndex(vertices', v) ELSE refs[v]]
         /\ edgeRefs' = [e \in EdgeIds |-> IF e \in ToSet(es)
                                                  THEN EdgeIndex(edges', e) ELSE eRefs[e]]
    BY DEF RemoveFromCanvas
  <1>15. /\ \A i \in 1 .. n : VertexIndex(vertices', vertices'[i].id) = i
         /\ \A v : (\A i \in 1 .. n : vertices'[i].id # v) => VertexIndex(vertices', v) = 0
    BY <1>5, <1>9, VertexIndexIs DEF n
  <1>16. /\ \A i \in 1 .. m : EdgeIndex(edges', edges'[i]) = i
         /\ \A e : (\A i \in 1 .. m : edges'[i] # e) => EdgeIndex(edges', e) = 0
    BY <1>5, <1>11, EdgeIndexIs DEF m
  <1>17. /\ \A v : v \in Ids(vs) <=> HasId(vs, v)
         /\ \A e : e \in ToSet(es) <=> HasEdge(es, e)
    BY <1>1 DEF Ids, ToSet, HasId, HasEdge
  <1>18. \A i \in 1 .. n : vertices'[i].id \in VertexIds /\ vertices'[i].id \in Ids(vs)
    <2> SUFFICES ASSUME NEW i \in 1 .. n
                 PROVE  vertices'[i].id \in VertexIds /\ vertices'[i].id \in Ids(vs)
      OBVIOUS
    <2>1. f[i] \in 1 .. Len(vs) /\ vertices'[i] = vs[f[i]]
      BY <1>6
    <2>2. vs[f[i]] \in Numbered(last)
      BY <1>1, <2>1
    <2> QED BY <1>17, <2>1, <2>2 DEF Numbered, HasId
  <1>19. \A i \in 1 .. m : edges'[i] \in EdgeIds /\ edges'[i] \in ToSet(es)
    <2> SUFFICES ASSUME NEW i \in 1 .. m
                 PROVE  edges'[i] \in EdgeIds /\ edges'[i] \in ToSet(es)
      OBVIOUS
    <2>1. g[i] \in 1 .. Len(es) /\ edges'[i] = es[g[i]]
      BY <1>10
    <2>2. es[g[i]] \in EdgeIds
      BY <1>1, <2>1
    <2> QED BY <1>17, <2>1, <2>2 DEF HasEdge
  <1>20. \A i \in 1 .. n : vertexRefs'[vertices'[i].id] = i
    BY <1>14, <1>15, <1>18
  <1>21. \A i \in 1 .. m : edgeRefs'[edges'[i]] = i
    BY <1>14, <1>16, <1>19
  <1>22. ASSUME NEW v \in VertexIds
         PROVE  vertexRefs'[v] \in Nat /\ (vertexRefs'[v] # 0 => HasId(vertices', v))
    <2>1. CASE v \in Ids(vs)
      <3>1. vertexRefs'[v] = VertexIndex(vertices', v)
        BY <1>14, <2>1
      <3> QED BY <1>15, <3>1 DEF HasId, n
    <2>2. CASE v \notin Ids(vs)
      BY <1>14, <1>17, <2>2 DEF NoStrays
    <2> QED BY <2>1, <2>2
  <1>23. ASSUME NEW e \in EdgeIds
         PROVE  edgeRefs'[e] \in Nat /\ (edgeRefs'[e] # 0 => HasEdge(edges', e))
    <2>1. CASE e \in ToSet(es)
      <3>1. edgeRefs'[e] = EdgeIndex(edges', e)
        BY <1>14, <2>1
      <3> QED BY <1>16, <3>1 DEF HasEdge, m
    <2>2. CASE e \notin ToSet(es)
      BY <1>14, <1>17, <2>2 DEF NoStrays
    <2> QED BY <2>1, <2>2
  <1>24. vertexRefs' \in [VertexIds -> Nat] /\ edgeRefs' \in [EdgeIds -> Nat]
    BY <1>14, <1>22, <1>23
  <1>25. TablesOK(vertices', vertexRefs', edges', edgeRefs')
    BY <1>3, <1>4, <1>20, <1>21, <1>22, <1>23, <1>24 DEF TablesOK, NoStrays, n, m
  <1>26. stored' \subseteq VertexIds
    <2>1. stored' = Ids(vertices')
      BY DEF RemoveFromCanvas
    <2>2. DOMAIN vertices' = 1 .. n
      BY <1>3 DEF n
    <2> QED BY <1>18, <2>1, <2>2 DEF Ids, ToSet
  <1>27. fading' \subseteq Numbered(last)
    <2>1. Circles(vs, old) \subseteq Numbered(last)
      BY <1>1 DEF Circles
    <2> QED BY <2>1 DEF RemoveFromCanvas
  <1> QED BY <1>3, <1>5, <1>6, <1>7, <1>13, <1>25, <1>26, <1>27 DEF n

\* Too many vertices: the circles that are not recent are evicted,
LEMMA Eviction ==
  ASSUME NEW vs, NEW old \in 0 .. Len(vs), Len(vs) \in Nat,
         \A i, j \in 1 .. Len(vs) : vs[i].id = vs[j].id => i = j,
         NEW sequence \in Nat, NEW maximum \in Nat, Len(vs) > maximum,
         NEW i \in 1 .. old, vs[i].seq \in Nat, vs[i].seq <= sequence - maximum
  PROVE  vs[i].id \in Overflowing(vs, old, sequence, maximum)
  <1>1. ASSUME NEW k \in 1 .. i - 1
        PROVE  vs[k].id # vs[i].id
    <2>1. k \in 1 .. Len(vs) /\ i \in 1 .. Len(vs) /\ k # i
      BY Len(vs) \in Nat
    <2> QED BY <2>1
  <1>2. vs[i] \in Circles(vs, old)
    BY <1>1 DEF Circles
  <1>3. vs[i].seq < sequence - maximum + 1
    OBVIOUS
  <1> QED BY <1>2, <1>3 DEF Overflowing

\* and what is recent is no more than there may be.
LEMMA Recent ==
  ASSUME NEW vs, Len(vs) \in Nat, \A i, j \in 1 .. Len(vs) : vs[i].seq = vs[j].seq => i = j,
         NEW sequence \in Nat, NEW maximum \in Nat,
         \A i \in 1 .. Len(vs) : /\ vs[i].seq \in Nat /\ vs[i].seq > sequence - maximum
                                 /\ vs[i].seq <= sequence
  PROVE  Len(vs) <= maximum
  <1> DEFINE f == [i \in 1 .. Len(vs) |-> vs[i].seq - (sequence - maximum)]
  <1>1. f \in [1 .. Len(vs) -> 1 .. maximum]
    OBVIOUS
  <1>2. \A i, j \in 1 .. Len(vs) : f[i] = f[j] => i = j
    OBVIOUS
  <1> HIDE DEF f
  <1> QED BY <1>1, <1>2, Pigeons

(* A message with a graph. *)

Named(ids) == ids \in Seq(VertexIds) /\ \A i, j \in 1 .. Len(ids) : ids[i] = ids[j] => i = j

Drawn(ids) == SubSeq(ids, 1, Min({limit, Len(ids)}))

LEMMA DrawnIs ==
  ASSUME limit \in Nat \ {0}, NEW ids, Named(ids), ids # << >>
  PROVE  /\ Named(Drawn(ids))
         /\ Len(Drawn(ids)) \in 1 .. Len(ids) /\ Len(Drawn(ids)) <= limit
         /\ Len(Drawn(ids)) < Len(ids) => Len(Drawn(ids)) = limit
         /\ \A k \in 1 .. Len(Drawn(ids)) : Drawn(ids)[k] = ids[k]
  <1> DEFINE n == Min({limit, Len(ids)})
  <1>1. ids \in Seq(VertexIds) /\ Len(ids) \in Nat \ {0}
    BY DEF Named
  <1>2. n \in 1 .. Len(ids) /\ n <= limit /\ (n < Len(ids) => n = limit)
    <2>1. \E x \in {limit, Len(ids)} : \A y \in {limit, Len(ids)} : x =< y
      BY <1>1
    <2>2. n \in {limit, Len(ids)} /\ \A y \in {limit, Len(ids)} : n =< y
      BY <2>1 DEF Min
    <2> HIDE DEF n
    <2> QED BY <1>1, <2>2
  <1> HIDE DEF n
  <1>3. Drawn(ids) = SubSeq(ids, 1, n)
    BY DEF Drawn, n
  <1>4. /\ SubSeq(ids, 1, n) \in Seq(VertexIds) /\ Len(SubSeq(ids, 1, n)) = n
        /\ \A k \in 1 .. n : SubSeq(ids, 1, n)[k] = ids[k]
    BY <1>1, <1>2
  <1>5. \A i, j \in 1 .. n : ids[i] = ids[j] => i = j
    BY <1>1, <1>2 DEF Named
  <1> QED BY <1>1, <1>2, <1>3, <1>4, <1>5 DEF Named

LEMMA NumberIs ==
  ASSUME NEW drawn, Named(drawn), NEW k \in 1 .. Len(drawn)
  PROVE  Number(drawn, drawn[k]) = vertexSequence + k
  <1>1. {i \in 1 .. Len(drawn) : drawn[i] = drawn[k]} = {k}
    BY DEF Named
  <1>2. Min({k}) = k
    BY DEF Min
  <1>3. SelectInSeq(drawn, LAMBDA v : v = drawn[k]) = k
    BY <1>1, <1>2 DEF SelectInSeq
  <1> QED BY <1>3 DEF Number

Arrival(drawn, k) == [id |-> drawn[k], seq |-> vertexSequence + k]

LEMMA ToSetIs ==
  ASSUME NEW S, NEW s \in Seq(S)
  PROVE  \A x : x \in ToSet(s) <=> \E k \in 1 .. Len(s) : s[k] = x
  BY DEF ToSet

LEMMA UpdatedIs ==
  ASSUME PictureOK, NEW drawn, Named(drawn)
  PROVE  /\ Updated(drawn) \in Seq(Numbered(vertexSequence + Len(drawn)))
         /\ Len(Updated(drawn)) = Len(vertices)
         /\ \A i \in 1 .. Len(vertices) :
              /\ Updated(drawn)[i].id = vertices[i].id
              /\ \/ \E k \in 1 .. Len(drawn) : Updated(drawn)[i] = Arrival(drawn, k)
                 \/ /\ Updated(drawn)[i] = vertices[i]
                    /\ \A k \in 1 .. Len(drawn) : drawn[k] # vertices[i].id
  <1> DEFINE U == Updated(drawn)
             S == Numbered(vertexSequence + Len(drawn))
  <1>1. /\ vertices \in Seq(Numbered(vertexSequence)) /\ vertexSequence \in Nat /\ Len(vertices) \in Nat
        /\ \A i \in 1 .. Len(vertices) : vertexRefs[vertices[i].id] = i
        /\ drawn \in Seq(VertexIds) /\ Len(drawn) \in Nat
    BY DEF PictureOK, ArraysOK, TablesOK, Named
  <1>2. U = [i \in 1 .. Len(vertices) |->
               IF vertices[i].id \in ToSet(drawn)
               THEN [vertices[i] EXCEPT !.seq = Number(drawn, vertices[i].id)]
               ELSE vertices[i]]
    BY <1>1 DEF Updated
  <1>3. ASSUME NEW i \in 1 .. Len(vertices)
        PROVE  /\ U[i] \in S /\ U[i].id = vertices[i].id
               /\ \/ \E k \in 1 .. Len(drawn) : U[i] = Arrival(drawn, k)
                  \/ U[i] = vertices[i] /\ \A k \in 1 .. Len(drawn) : drawn[k] # vertices[i].id
    <2>1. vertices[i] \in Numbered(vertexSequence)
      BY <1>1
    <2>2. CASE vertices[i].id \in ToSet(drawn)
      <3>1. PICK k \in 1 .. Len(drawn) : drawn[k] = vertices[i].id
        BY <1>1, <2>2, ToSetIs
      <3>2. Number(drawn, vertices[i].id) = vertexSequence + k
        BY <3>1, NumberIs
      <3>3. U[i] = [vertices[i] EXCEPT !.seq = vertexSequence + k]
        BY <1>2, <2>2, <3>2
      <3>4. U[i] = [id |-> vertices[i].id, seq |-> vertexSequence + k]
        BY <2>1, <3>3 DEF Numbered
      <3>5. vertices[i].id \in VertexIds /\ vertexSequence + k \in 1 .. (vertexSequence + Len(drawn))
        BY <1>1, <2>1 DEF Numbered
      <3> HIDE DEF U
      <3> QED BY <3>1, <3>4, <3>5 DEF Numbered, Arrival
    <2>3. CASE vertices[i].id \notin ToSet(drawn)
      <3>1. U[i] = vertices[i]
        BY <1>2, <2>3
      <3>2. \A k \in 1 .. Len(drawn) : drawn[k] # vertices[i].id
        BY <1>1, <2>3, ToSetIs
      <3>3. vertices[i] \in S
        BY <1>1, <2>1 DEF Numbered
      <3> QED BY <3>1, <3>2, <3>3
    <2> QED BY <2>2, <2>3
  <1>4. U \in Seq(S) /\ Len(U) = Len(vertices)
    <2>1. U \in [1 .. Len(vertices) -> S]
      BY <1>2, <1>3
    <2> HIDE DEF U, S
    <2> QED BY <1>1, <2>1
  <1> HIDE DEF U, S
  <1> QED BY <1>3, <1>4 DEF U, S

LEMMA FreshIs ==
  ASSUME PictureOK, NEW drawn, Named(drawn)
  PROVE  LET F == Fresh(drawn)
         IN  /\ F \in Seq(Numbered(vertexSequence + Len(drawn)))
             /\ \A i \in 1 .. Len(F) : \E k \in 1 .. Len(drawn) :
                  F[i] = Arrival(drawn, k) /\ vertexRefs[drawn[k]] = 0
             /\ \A k \in 1 .. Len(drawn) : vertexRefs[drawn[k]] = 0 =>
                  \E i \in 1 .. Len(F) : F[i].id = drawn[k]
             /\ \A i, j \in 1 .. Len(F) : F[i].id = F[j].id => i = j
  <1> DEFINE P == {i \in 1 .. Len(drawn) : vertexRefs[drawn[i]] = 0}
             ids == Filtered(drawn, P)
             n == Len(ids)
             F == Fresh(drawn)
  <1>1. drawn \in Seq(VertexIds) /\ Len(drawn) \in Nat /\ vertexSequence \in Nat
    BY DEF Named, PictureOK
  <1>2. IsFiltered(ids, drawn, P, VertexIds)
    <2>1. P \in SUBSET (1 .. Len(drawn))
      OBVIOUS
    <2> HIDE DEF P
    <2> QED BY <1>1, <2>1, FilteredIs
  <1>3. F = [k \in 1 .. n |-> [id |-> ids[k], seq |-> Number(drawn, ids[k])]]
    BY DEF Fresh, Undefined
  <1> HIDE DEF ids, F, n
  <1>4. PICK f \in [1 .. n -> P] :
          /\ ids \in Seq(VertexIds) /\ n \in Nat
          /\ \A k \in 1 .. n : ids[k] = drawn[f[k]]
          /\ \A i, j \in 1 .. n : f[i] = f[j] => i = j
          /\ \A p \in P : \E k \in 1 .. n : f[k] = p
    <2> HIDE DEF P
    <2>1. n \in Nat
      BY <1>1, <1>2 DEF IsFiltered, n
    <2> QED BY <1>2, <2>1 DEF IsFiltered, n
  <1>5. ASSUME NEW i \in 1 .. n
        PROVE  /\ f[i] \in 1 .. Len(drawn) /\ vertexRefs[drawn[f[i]]] = 0
               /\ F[i] = Arrival(drawn, f[i]) /\ F[i].id = drawn[f[i]]
               /\ F[i] \in Numbered(vertexSequence + Len(drawn))
    <2>1. f[i] \in 1 .. Len(drawn) /\ vertexRefs[drawn[f[i]]] = 0
      BY <1>4
    <2>2. ids[i] = drawn[f[i]] /\ Number(drawn, ids[i]) = vertexSequence + f[i]
      BY <1>4, <2>1, NumberIs
    <2>3. F[i] = Arrival(drawn, f[i])
      BY <1>3, <2>2 DEF Arrival
    <2>4. drawn[f[i]] \in VertexIds /\ vertexSequence + f[i] \in 1 .. (vertexSequence + Len(drawn))
      BY <1>1, <2>1
    <2> QED BY <2>1, <2>3, <2>4 DEF Arrival, Numbered
  <1>6. Len(F) = n /\ F \in Seq(Numbered(vertexSequence + Len(drawn)))
    BY <1>3, <1>4, <1>5
  <1>7. \A i, j \in 1 .. n : F[i].id = F[j].id => i = j
    <2> SUFFICES ASSUME NEW i \in 1 .. n, NEW j \in 1 .. n, F[i].id = F[j].id PROVE i = j
      OBVIOUS
    <2>1. drawn[f[i]] = drawn[f[j]]
      BY <1>5
    <2>2. f[i] = f[j]
      BY <1>5, <2>1 DEF Named
    <2> QED BY <1>4, <2>2
  <1>8. \A k \in 1 .. Len(drawn) : vertexRefs[drawn[k]] = 0 => \E i \in 1 .. n : F[i].id = drawn[k]
    <2> SUFFICES ASSUME NEW k \in 1 .. Len(drawn), vertexRefs[drawn[k]] = 0
                 PROVE  \E i \in 1 .. n : F[i].id = drawn[k]
      OBVIOUS
    <2>1. PICK i \in 1 .. n : f[i] = k
      BY <1>4
    <2> QED BY <1>5, <2>1
  <1> QED BY <1>5, <1>6, <1>7, <1>8 DEF F

Joined(r, s, t, S) ==
  /\ r \in Seq(S) /\ Len(r) = Len(s) + Len(t)
  /\ \A i \in 1 .. Len(s) : r[i] = s[i]
  /\ \A i \in 1 .. Len(t) : r[Len(s) + i] = t[i]
  /\ \A i \in 1 .. Len(r) :
       i \in 1 .. Len(s) \/ (i - Len(s) \in 1 .. Len(t) /\ r[i] = t[i - Len(s)])

LEMMA Concatenation ==
  ASSUME NEW S, NEW s \in Seq(S), NEW t \in Seq(S)
  PROVE  Joined(s \o t, s, t, S)
  BY DEF Joined

\* What has arrived: the vertices there were, some of them updated, and new ones.
ArrivedOK(A, drawn) ==
  /\ A \in Seq(Numbered(vertexSequence + Len(drawn))) /\ Len(vertices) <= Len(A)
  /\ \A i \in 1 .. Len(vertices) : A[i].id = vertices[i].id
  /\ \A i \in 1 .. Len(A) :
       \/ \E k \in 1 .. Len(drawn) : A[i] = Arrival(drawn, k)
       \/ /\ i <= Len(vertices) /\ A[i] = vertices[i]
          /\ \A k \in 1 .. Len(drawn) : drawn[k] # A[i].id
  /\ \A k \in 1 .. Len(drawn) : HasId(A, drawn[k])
  /\ \A i, j \in 1 .. Len(A) : A[i].id = A[j].id => i = j
  /\ \A i, j \in 1 .. Len(A) : A[i].seq = A[j].seq => i = j

LEMMA ArrivedIs ==
  ASSUME PictureOK, NEW drawn, Named(drawn)
  PROVE  ArrivedOK(Arrived(drawn), drawn)
  <1> DEFINE A == Arrived(drawn)
             U == Updated(drawn)
             F == Fresh(drawn)
             S == Numbered(vertexSequence + Len(drawn))
             n == Len(vertices)
             m == Len(F)
  <1>1. /\ vertices \in Seq(Numbered(vertexSequence)) /\ n \in Nat
        /\ vertexSequence \in Nat /\ Len(drawn) \in Nat /\ drawn \in Seq(VertexIds)
        /\ \A i, j \in 1 .. n : vertices[i].id = vertices[j].id => i = j
        /\ \A i, j \in 1 .. n : vertices[i].seq = vertices[j].seq => i = j
        /\ \A i \in 1 .. n : vertexRefs[vertices[i].id] = i
        /\ \A v \in VertexIds : vertexRefs[v] # 0 => HasId(vertices, v)
    BY DEF PictureOK, ArraysOK, TablesOK, NoStrays, Named
  <1>2. /\ U \in Seq(S) /\ Len(U) = n
        /\ \A i \in 1 .. n :
             /\ U[i].id = vertices[i].id
             /\ \/ \E k \in 1 .. Len(drawn) : U[i] = Arrival(drawn, k)
                \/ U[i] = vertices[i] /\ \A k \in 1 .. Len(drawn) : drawn[k] # vertices[i].id
    BY UpdatedIs
  <1>3. /\ F \in Seq(S)
        /\ \A i \in 1 .. m : \E k \in 1 .. Len(drawn) :
             F[i] = Arrival(drawn, k) /\ vertexRefs[drawn[k]] = 0
        /\ \A k \in 1 .. Len(drawn) : vertexRefs[drawn[k]] = 0 => \E i \in 1 .. m : F[i].id = drawn[k]
        /\ \A i, j \in 1 .. m : F[i].id = F[j].id => i = j
    BY FreshIs
  <1>4. A = U \o F
    BY DEF Arrived
  <1> HIDE DEF A, U, F, S, n
  <1>5. m \in Nat
    BY <1>3
  <1> HIDE DEF m
  <1>6. /\ A \in Seq(S) /\ Len(A) = n + m
        /\ \A i \in 1 .. n : A[i] = U[i]
        /\ \A i \in 1 .. m : A[n + i] = F[i]
        /\ \A i \in 1 .. Len(A) : i \in 1 .. n \/ (i - n \in 1 .. m /\ A[i] = F[i - n])
    <2>1. Joined(A, U, F, S)
      BY <1>2, <1>3, <1>4, Concatenation
    <2> QED BY <1>2, <2>1 DEF Joined, m
  <1>7. \A i \in 1 .. n : A[i].id = vertices[i].id
    BY <1>2, <1>6
  <1>8. ASSUME NEW i \in 1 .. Len(A), i \notin 1 .. n
        PROVE  \E k \in 1 .. Len(drawn) : A[i] = Arrival(drawn, k) /\ vertexRefs[drawn[k]] = 0
    BY <1>3, <1>6, <1>8
  <1>9. ASSUME NEW i \in 1 .. Len(A)
        PROVE  \/ \E k \in 1 .. Len(drawn) : A[i] = Arrival(drawn, k)
               \/ i <= n /\ A[i] = vertices[i] /\ \A k \in 1 .. Len(drawn) : drawn[k] # A[i].id
    <2>1. CASE i \in 1 .. n
      BY <1>2, <1>6, <1>7, <2>1
    <2>2. CASE i \notin 1 .. n
      BY <1>8, <2>2
    <2> QED BY <2>1, <2>2
  <1>10. ASSUME NEW i \in 1 .. Len(A), i \notin 1 .. n PROVE vertexRefs[A[i].id] = 0
    <2>1. PICK k \in 1 .. Len(drawn) : A[i] = Arrival(drawn, k) /\ vertexRefs[drawn[k]] = 0
      BY <1>8, <1>10
    <2> QED BY <2>1 DEF Arrival
  <1>11. ASSUME NEW i \in 1 .. Len(A), NEW j \in 1 .. Len(A), A[i].id = A[j].id PROVE i = j
    <2>1. ASSUME NEW x \in 1 .. n
          PROVE  vertexRefs[A[x].id] = x /\ x # 0
      <3>1. A[x].id = vertices[x].id
        BY <1>7
      <3>2. vertexRefs[vertices[x].id] = x
        BY <1>1
      <3> QED BY <3>1, <3>2
    <2>2. CASE i \in 1 .. n /\ j \in 1 .. n
      BY <1>11, <2>1, <2>2
    <2>3. CASE i \notin 1 .. n /\ j \notin 1 .. n
      <3>1. /\ i - n \in 1 .. m /\ A[i] = F[i - n]
            /\ j - n \in 1 .. m /\ A[j] = F[j - n]
        BY <1>6, <2>3
      <3>2. F[i - n].id = F[j - n].id
        BY <1>11, <3>1
      <3>3. i - n = j - n
        BY <1>3, <3>1, <3>2
      <3>4. n \in Nat /\ i \in Int /\ j \in Int
        BY <1>1, <1>6
      <3> QED BY <3>3, <3>4
    <2>4. CASE i \in 1 .. n /\ j \notin 1 .. n
      BY <1>10, <1>11, <2>1, <2>4
    <2>5. CASE i \notin 1 .. n /\ j \in 1 .. n
      BY <1>10, <1>11, <2>1, <2>5
    <2> QED BY <2>2, <2>3, <2>4, <2>5
  <1>12. ASSUME NEW i \in 1 .. Len(A), NEW j \in 1 .. Len(A), A[i].seq = A[j].seq PROVE i = j
    <2>1. ASSUME NEW x \in 1 .. Len(A), x <= n, A[x] = vertices[x]
          PROVE  A[x].seq \in Nat /\ A[x].seq <= vertexSequence /\ x \in 1 .. n
      <3>1. x \in 1 .. n
        BY <1>1, <1>6, <2>1
      <3>2. vertices[x] \in Numbered(vertexSequence)
        BY <1>1, <3>1 DEF n
      <3> QED BY <1>1, <2>1, <3>1, <3>2 DEF Numbered
    <2>2. CASE \E k, l \in 1 .. Len(drawn) : A[i] = Arrival(drawn, k) /\ A[j] = Arrival(drawn, l)
      <3>1. PICK k, l \in 1 .. Len(drawn) : A[i] = Arrival(drawn, k) /\ A[j] = Arrival(drawn, l)
        BY <2>2
      <3>2. vertexSequence + k = vertexSequence + l
        BY <1>12, <3>1 DEF Arrival
      <3>3. k = l
        BY <1>1, <3>2
      <3>4. A[i].id = A[j].id
        BY <3>1, <3>3
      <3> QED BY <1>11, <3>4
    <2>3. CASE i <= n /\ A[i] = vertices[i] /\ j <= n /\ A[j] = vertices[j]
      BY <1>1, <1>12, <2>1, <2>3
    <2>4. CASE i <= n /\ A[i] = vertices[i] /\ \E k \in 1 .. Len(drawn) : A[j] = Arrival(drawn, k)
      BY <1>1, <1>12, <2>1, <2>4 DEF Arrival
    <2>5. CASE j <= n /\ A[j] = vertices[j] /\ \E k \in 1 .. Len(drawn) : A[i] = Arrival(drawn, k)
      BY <1>1, <1>12, <2>1, <2>5 DEF Arrival
    <2> QED BY <1>9, <2>2, <2>3, <2>4, <2>5
  <1>13. ASSUME NEW k \in 1 .. Len(drawn) PROVE HasId(A, drawn[k])
    <2>1. CASE vertexRefs[drawn[k]] = 0
      <3>1. PICK i \in 1 .. m : F[i].id = drawn[k]
        BY <1>3, <2>1
      <3>2. n + i \in 1 .. Len(A) /\ A[n + i] = F[i]
        BY <1>1, <1>5, <1>6
      <3> QED BY <3>1, <3>2 DEF HasId
    <2>2. CASE vertexRefs[drawn[k]] # 0
      <3>1. PICK i \in 1 .. n : vertices[i].id = drawn[k]
        BY <1>1, <2>2 DEF HasId, n
      <3>2. i \in 1 .. Len(A)
        BY <1>1, <1>5, <1>6
      <3> QED BY <1>7, <3>1, <3>2 DEF HasId
    <2> QED BY <2>1, <2>2
  <1>14. n <= Len(A)
    BY <1>1, <1>5, <1>6
  <1>15. Len(A) \in Nat
    BY <1>1, <1>5, <1>6
  <1> QED BY <1>6, <1>7, <1>9, <1>11, <1>12, <1>13, <1>14 DEF A, S, n, ArrivedOK

LEMMA ReferencedIs ==
  ASSUME PictureOK, NEW drawn, Named(drawn), NEW beyond, \A k \in 1 .. Len(drawn) : drawn[k] \notin beyond
  PROVE  LET A == Arrived(drawn)
             R == Referenced(A, drawn, beyond)
         IN  /\ R \in [VertexIds -> Nat]
             /\ \A v \in VertexIds : R[v] # 0 => HasId(A, v)
             /\ \A i \in 1 .. Len(A) : A[i].id \notin beyond => R[A[i].id] = i
  <1> DEFINE A == Arrived(drawn)
             R == Referenced(A, drawn, beyond)
             n == Len(vertices)
  <1>1. /\ n \in Nat /\ drawn \in Seq(VertexIds) /\ vertexRefs \in [VertexIds -> Nat]
        /\ \A i \in 1 .. n : vertexRefs[vertices[i].id] = i
        /\ \A v \in VertexIds : vertexRefs[v] # 0 => HasId(vertices, v)
    BY DEF PictureOK, ArraysOK, TablesOK, NoStrays, Named
  <1>2. /\ A \in Seq(Numbered(vertexSequence + Len(drawn))) /\ n <= Len(A) /\ Len(A) \in Nat
        /\ \A i \in 1 .. n : A[i].id = vertices[i].id
        /\ \A i \in 1 .. Len(A) :
             \/ \E k \in 1 .. Len(drawn) : A[i] = Arrival(drawn, k)
             \/ /\ i <= Len(vertices) /\ A[i] = vertices[i]
                /\ \A k \in 1 .. Len(drawn) : drawn[k] # A[i].id
        /\ \A i, j \in 1 .. Len(A) : A[i].id = A[j].id => i = j
    <2>1. ArrivedOK(A, drawn)
      BY ArrivedIs
    <2> HIDE DEF A, R
    <2> QED BY <2>1 DEF ArrivedOK
  <1>3. R = [v \in VertexIds |->
               IF v \in beyond THEN 0
               ELSE IF v \in ToSet(drawn) /\ vertexRefs[v] = 0 THEN VertexIndex(A, v)
               ELSE vertexRefs[v]]
    BY DEF Referenced, Undefined
  <1> HIDE DEF A, R, n
  <1>4. /\ \A i \in 1 .. Len(A) : VertexIndex(A, A[i].id) = i
        /\ \A v : (\A i \in 1 .. Len(A) : A[i].id # v) => VertexIndex(A, v) = 0
    BY <1>2, VertexIndexIs
  <1>5. ASSUME NEW v \in VertexIds
        PROVE  R[v] \in Nat /\ (R[v] # 0 => HasId(A, v))
    <2>1. VertexIndex(A, v) \in Nat
          /\ (VertexIndex(A, v) # 0 => HasId(A, v))
      <3>1. CASE HasId(A, v)
        <4>1. PICK i \in 1 .. Len(A) : A[i].id = v
          BY <3>1 DEF HasId
        <4>2. VertexIndex(A, v) = i
          BY <1>4, <4>1
        <4> QED BY <3>1, <4>2
      <3>2. CASE ~ HasId(A, v)
        <4>1. VertexIndex(A, v) = 0
          BY <1>4, <3>2 DEF HasId
        <4> QED BY <4>1
      <3> QED BY <3>1, <3>2
    <2>2. vertexRefs[v] # 0 => HasId(A, v)
      <3> SUFFICES ASSUME vertexRefs[v] # 0 PROVE HasId(A, v)
        OBVIOUS
      <3>1. PICK i \in 1 .. n : vertices[i].id = v
        BY <1>1 DEF HasId, n
      <3>2. i \in 1 .. Len(A) /\ A[i].id = v
        BY <1>1, <1>2, <3>1
      <3> QED BY <3>2 DEF HasId
    <2> QED BY <1>1, <1>3, <2>1, <2>2
  <1>6. ASSUME NEW i \in 1 .. Len(A), A[i].id \notin beyond PROVE R[A[i].id] = i
    <2>1. A[i].id \in VertexIds
      <3>1. A[i] \in Numbered(vertexSequence + Len(drawn))
        BY <1>2
      <3> QED BY <3>1 DEF Numbered
    <2>2. CASE vertexRefs[A[i].id] # 0
      <3>1. PICK j \in 1 .. n : vertices[j].id = A[i].id
        BY <1>1, <2>1, <2>2 DEF HasId, n
      <3>2. j = i
        BY <1>1, <1>2, <3>1
      <3>3. vertexRefs[A[i].id] = i
        BY <1>1, <3>1, <3>2
      <3> QED BY <1>3, <1>6, <2>1, <2>2, <3>3
    <2>3. CASE vertexRefs[A[i].id] = 0
      <3>1. i \notin 1 .. n
        <4> SUFFICES ASSUME i \in 1 .. n PROVE FALSE
          OBVIOUS
        <4>1. A[i].id = vertices[i].id
          BY <1>2
        <4>2. vertexRefs[vertices[i].id] = i /\ i # 0
          BY <1>1
        <4> QED BY <2>3, <4>1, <4>2
      <3>2. PICK k \in 1 .. Len(drawn) : A[i] = Arrival(drawn, k)
        BY <1>1, <1>2, <3>1 DEF n
      <3>3. A[i].id \in ToSet(drawn)
        BY <1>1, <3>2, ToSetIs DEF Arrival
      <3> QED BY <1>3, <1>4, <1>6, <2>1, <2>3, <3>3
    <2> QED BY <2>2, <2>3
  <1>7. R \in [VertexIds -> Nat]
    BY <1>3, <1>5
  <1> QED BY <1>5, <1>6, <1>7 DEF A, R

\* The new edges of a message, in some order.
NewEdgesOK(t, vs) ==
  /\ t \in Seq(EdgeIds)
  /\ \A i, j \in 1 .. Len(t) : t[i] = t[j] => i = j
  /\ \A k \in 1 .. Len(t) : edgeRefs[t[k]] = 0
  /\ JoinIds(t, vs)

LEMMA NewEdgesAre ==
  ASSUME PictureOK, NEW A, NEW refs, NEW ids,
         \A v \in VertexIds : refs[v] # 0 => HasId(A, v)
  PROVE  NewEdgesOK(SetToSeq(NewEdges(ids, refs)), A)
  <1> DEFINE new == NewEdges(ids, refs)
             t == SetToSeq(new)
  <1>1. new \subseteq EdgeIds
        /\ \A e \in new : edgeRefs[e] = 0 /\ refs[e[1]] # 0 /\ refs[e[2]] # 0
    BY DEF NewEdges, Undefined
  <1>2. IsFiniteSet(new)
    <2>1. IsFiniteSet(VertexIds)
      BY GraphAssumption
    <2>2. IsFiniteSet(VertexIds \X VertexIds)
      BY <2>1, FS_Product
    <2> HIDE DEF new
    <2> QED BY <1>1, <2>2, FS_Subset DEF EdgeIds
  <1> HIDE DEF new
  <1>3. t \in Seq(new) /\ \A i, j \in 1 .. Len(t) : t[i] = t[j] => i = j
    BY <1>2, SetToSeqIs
  <1> HIDE DEF t
  <1>4. t \in Seq(EdgeIds) /\ \A k \in 1 .. Len(t) : t[k] \in new
    BY <1>1, <1>3
  <1>5. ASSUME NEW e \in new PROVE HasId(A, e[1]) /\ HasId(A, e[2])
    <2>1. e \in VertexIds \X VertexIds /\ refs[e[1]] # 0 /\ refs[e[2]] # 0
      BY <1>1 DEF EdgeIds
    <2>2. e[1] \in VertexIds /\ e[2] \in VertexIds
      BY <2>1
    <2> QED BY <2>1, <2>2
  <1>6. JoinIds(t, A) /\ \A k \in 1 .. Len(t) : edgeRefs[t[k]] = 0
    BY <1>1, <1>4, <1>5 DEF JoinIds
  <1> QED BY <1>3, <1>4, <1>6 DEF t, new, NewEdgesOK

\* The edges after a message.
LEMMA EdgesAre ==
  ASSUME PictureOK, NEW A, \A v : HasId(vertices, v) => HasId(A, v),
         NEW t, NewEdgesOK(t, A), NEW es, Joined(es, edges, t, EdgeIds)
  PROVE  /\ \A i, j \in 1 .. Len(es) : es[i] = es[j] => i = j
         /\ JoinIds(es, A)
  <1> DEFINE n == Len(edges)
             m == Len(t)
  <1>1. n \in Nat /\ (\A i \in 1 .. n : edgeRefs[edges[i]] = i) /\ JoinIds(edges, vertices)
    BY DEF PictureOK, ArraysOK, TablesOK
  <1>2. /\ Len(es) = n + m
        /\ \A i \in 1 .. n : es[i] = edges[i]
        /\ \A i \in 1 .. Len(es) : i \in 1 .. n \/ (i - n \in 1 .. m /\ es[i] = t[i - n])
    BY DEF Joined
  <1>3. /\ m \in Nat /\ \A i, j \in 1 .. m : t[i] = t[j] => i = j
        /\ \A k \in 1 .. m : edgeRefs[t[k]] = 0
        /\ JoinIds(t, A)
    BY DEF NewEdgesOK
  <1> HIDE DEF n, m
  <1>4. ASSUME NEW i \in 1 .. Len(es), NEW j \in 1 .. Len(es), es[i] = es[j] PROVE i = j
    <2>1. \A x \in 1 .. Len(es) : x \notin 1 .. n => edgeRefs[es[x]] = 0
      BY <1>2, <1>3
    <2>2. \A x \in 1 .. n : edgeRefs[es[x]] = x /\ x # 0
      BY <1>1, <1>2
    <2>3. CASE i \in 1 .. n \/ j \in 1 .. n
      BY <1>4, <2>1, <2>2, <2>3
    <2>4. CASE i \notin 1 .. n /\ j \notin 1 .. n
      <3>1. i - n \in 1 .. m /\ j - n \in 1 .. m /\ t[i - n] = t[j - n]
        BY <1>2, <1>4, <2>4
      <3>2. i - n = j - n
        BY <1>3, <3>1
      <3>3. n \in Nat /\ i \in Int /\ j \in Int
        BY <1>1, <1>2
      <3> QED BY <3>2, <3>3
    <2> QED BY <2>3, <2>4
  <1>5. ASSUME NEW k \in 1 .. Len(es) PROVE HasId(A, es[k][1]) /\ HasId(A, es[k][2])
    <2>1. CASE k \in 1 .. n
      <3>1. HasId(vertices, edges[k][1]) /\ HasId(vertices, edges[k][2]) /\ es[k] = edges[k]
        BY <1>1, <1>2, <2>1 DEF JoinIds, n
      <3> QED BY <3>1
    <2>2. CASE k \notin 1 .. n
      <3>1. k - n \in 1 .. m /\ es[k] = t[k - n]
        BY <1>2, <2>2
      <3> QED BY <1>3, <3>1 DEF JoinIds, m
    <2> QED BY <2>1, <2>2
  <1> QED BY <1>4, <1>5 DEF JoinIds

LEMMA EdgeTableIs ==
  ASSUME NEW es \in Seq(EdgeIds), \A i, j \in 1 .. Len(es) : es[i] = es[j] => i = j,
         NEW eRefs, eRefs = [e \in EdgeIds |-> EdgeIndex(es, e)]
  PROVE  /\ eRefs \in [EdgeIds -> Nat]
         /\ \A e \in EdgeIds : eRefs[e] # 0 => HasEdge(es, e)
         /\ \A i \in 1 .. Len(es) : eRefs[es[i]] = i
  <1>1. /\ \A i \in 1 .. Len(es) : EdgeIndex(es, es[i]) = i
        /\ \A e : (\A i \in 1 .. Len(es) : es[i] # e) => EdgeIndex(es, e) = 0
    <2>1. Len(es) \in Nat
      OBVIOUS
    <2> QED BY <2>1, EdgeIndexIs
  <1>2. \A i \in 1 .. Len(es) : es[i] \in EdgeIds
    OBVIOUS
  <1>3. \A e \in EdgeIds :
           EdgeIndex(es, e) \in Nat /\ (EdgeIndex(es, e) # 0 => HasEdge(es, e))
    BY <1>1 DEF HasEdge
  <1> QED BY <1>1, <1>2, <1>3

\* Whoever is neither recent nor among the ids of a message is evicted, and so
\* is whoever is beyond the limit; the arrivals stay.
Drawing(ids, drawn, A, last, overflow) ==
  /\ drawn = Drawn(ids)
  /\ A = Arrived(drawn)
  /\ last = vertexSequence + Len(drawn)
  /\ overflow = Overflowing(A, Len(vertices), last, limit)

LEMMA Evicted ==
  ASSUME PictureOK, limit \in Nat \ {0}, NEW ids, Named(ids), ids # << >>,
         NEW drawn, NEW A, NEW last, NEW overflow, Drawing(ids, drawn, A, last, overflow)
  PROVE  /\ \A i \in 1 .. Len(A) : /\ A[i].seq \in Nat /\ A[i].seq <= last
                                   /\ \/ A[i].seq > last - limit
                                      \/ A[i].id \in overflow
                                      \/ Len(A) <= limit
         /\ \A i \in 1 .. Len(A) :
              A[i].id \in ToSet(ids) \ ToSet(drawn) => A[i].id \in overflow
         /\ \A k \in 1 .. Len(drawn) :
              drawn[k] \in overflow => \E c \in fading : c.id = drawn[k]
  <1> DEFINE n == Len(vertices)
             d == Len(drawn)
  <1>0. /\ drawn = Drawn(ids) /\ A = Arrived(drawn) /\ last = vertexSequence + d
        /\ overflow = Overflowing(A, n, last, limit)
    BY DEF Drawing
  <1>1. /\ n \in Nat /\ vertexSequence \in Nat /\ vertices \in Seq(Numbered(vertexSequence))
        /\ fading \subseteq Numbered(vertexSequence)
    BY DEF PictureOK, ArraysOK
  <1>2. /\ Named(drawn) /\ d \in 1 .. Len(ids) /\ d <= limit
        /\ d < Len(ids) => d = limit
        /\ \A k \in 1 .. d : drawn[k] = ids[k]
        /\ ids \in Seq(VertexIds) /\ Len(ids) \in Nat
    BY <1>0, DrawnIs DEF Named
  <1>3. /\ A \in Seq(Numbered(vertexSequence + d)) /\ n <= Len(A)
        /\ \A i \in 1 .. Len(A) :
             \/ \E k \in 1 .. d : A[i] = Arrival(drawn, k)
             \/ i <= n /\ A[i] = vertices[i] /\ \A k \in 1 .. d : drawn[k] # A[i].id
        /\ \A k \in 1 .. d : HasId(A, drawn[k])
        /\ \A i, j \in 1 .. Len(A) : A[i].id = A[j].id => i = j
    <2>1. A = Arrived(drawn) /\ Named(drawn)
      BY <1>0, <1>2
    <2>2. ArrivedOK(A, drawn)
      BY <2>1, ArrivedIs
    <2> QED BY <2>2 DEF ArrivedOK
  <1>4. Len(A) \in Nat /\ n \in 0 .. Len(A) /\ d \in Nat /\ drawn \in Seq(VertexIds)
    BY <1>1, <1>2, <1>3 DEF Named
  <1>5. last \in Nat
    BY <1>0, <1>1, <1>4
  <1>6. \A i \in 1 .. Len(A) : A[i].seq \in Nat /\ A[i].seq <= last
    <2> SUFFICES ASSUME NEW i \in 1 .. Len(A) PROVE A[i].seq \in Nat /\ A[i].seq <= last
      OBVIOUS
    <2>1. A[i] \in Numbered(last)
      BY <1>0, <1>3
    <2> QED BY <1>5, <2>1 DEF Numbered
  <1>7. ASSUME NEW i \in 1 .. n, A[i].seq <= last - limit, Len(A) > limit
        PROVE  A[i].id \in overflow
    <2>1. i \in 1 .. Len(A)
      BY <1>4
    <2>2. A[i].seq \in Nat
      BY <1>6, <2>1
    <2> HIDE DEF n
    <2>3. A[i].id \in Overflowing(A, n, last, limit)
      BY <1>3, <1>4, <1>5, <1>7, <2>2, Eviction
    <2> QED BY <1>0, <2>3 DEF n
  <1>8. ASSUME NEW i \in 1 .. Len(A), NEW k \in 1 .. d, A[i] = Arrival(drawn, k)
        PROVE  A[i].seq > vertexSequence /\ A[i].seq > last - limit
    <2>1. A[i].seq = vertexSequence + k
      BY <1>8 DEF Arrival
    <2> QED BY <1>0, <1>1, <1>2, <1>4, <2>1
  <1>9. ASSUME NEW i \in 1 .. Len(A)
        PROVE  A[i].seq > last - limit \/ A[i].id \in overflow \/ Len(A) <= limit
    <2>1. CASE \E k \in 1 .. d : A[i] = Arrival(drawn, k)
      BY <1>8, <2>1
    <2>2. CASE i <= n
      <3>1. i \in 1 .. n
        BY <1>1, <2>2
      <3>2. A[i].seq > last - limit \/ A[i].seq <= last - limit
        BY <1>5, <1>6
      <3>3. Len(A) <= limit \/ Len(A) > limit
        BY <1>4
      <3> QED BY <1>7, <3>1, <3>2, <3>3
    <2> QED BY <1>3, <2>1, <2>2
  <1>10. ASSUME NEW i \in 1 .. Len(A), A[i].id \in ToSet(ids) \ ToSet(drawn)
         PROVE  A[i].id \in overflow
    <2>1. PICK k \in 1 .. Len(ids) : ids[k] = A[i].id
      BY <1>2, <1>10, ToSetIs
    <2>2. \A x \in 1 .. d : drawn[x] # A[i].id
      BY <1>4, <1>10, ToSetIs
    <2>3. d = limit
      BY <1>2, <1>4, <2>1, <2>2
    <2>4. i \in 1 .. n /\ A[i] = vertices[i]
      <3>1. ~ \E x \in 1 .. d : A[i] = Arrival(drawn, x)
        <4> SUFFICES ASSUME NEW x \in 1 .. d, A[i] = Arrival(drawn, x) PROVE FALSE
          OBVIOUS
        <4>1. A[i].id = drawn[x]
          BY DEF Arrival
        <4> QED BY <2>2, <4>1
      <3> HIDE DEF n, d
      <3>2. i <= n /\ A[i] = vertices[i]
        BY <1>3, <3>1
      <3> QED BY <1>1, <1>4, <3>2
    <2>5. A[i].seq <= last - limit
      <3>1. vertices[i] \in Numbered(vertexSequence)
        BY <1>1, <2>4
      <3> QED BY <1>0, <1>1, <2>3, <2>4, <3>1 DEF Numbered
    <2>6. Len(A) > limit
      <3> DEFINE place(v) == CHOOSE j \in 1 .. Len(A) : A[j].id = v
                 f == [x \in 1 .. d + 1 |-> IF x = d + 1 THEN i ELSE place(drawn[x])]
      <3>1. \A x \in 1 .. d : place(drawn[x]) \in 1 .. Len(A) /\ A[place(drawn[x])].id = drawn[x]
        BY <1>3 DEF HasId
      <3> HIDE DEF place
      <3>2. f \in [1 .. d + 1 -> 1 .. Len(A)]
        <4>1. \A x \in 1 .. d + 1 : x # d + 1 => x \in 1 .. d
          BY <1>4
        <4>2. \A x \in 1 .. d + 1 : f[x] = IF x = d + 1 THEN i ELSE place(drawn[x])
          OBVIOUS
        <4> HIDE DEF d
        <4> QED BY <3>1, <4>1, <4>2
      <3>3. ASSUME NEW x \in 1 .. d + 1, NEW y \in 1 .. d + 1, f[x] = f[y] PROVE x = y
        <4>1. CASE x = d + 1 /\ y = d + 1
          BY <4>1
        <4>2. CASE x # d + 1 /\ y = d + 1
          <5>1. x \in 1 .. d /\ f[x] = place(drawn[x]) /\ f[y] = i
            BY <1>4, <4>2
          <5> QED BY <2>2, <3>1, <3>3, <5>1
        <4>3. CASE x = d + 1 /\ y # d + 1
          <5>1. y \in 1 .. d /\ f[y] = place(drawn[y]) /\ f[x] = i
            BY <1>4, <4>3
          <5> QED BY <2>2, <3>1, <3>3, <5>1
        <4>4. CASE x # d + 1 /\ y # d + 1
          <5>1. x \in 1 .. d /\ f[x] = place(drawn[x]) /\ y \in 1 .. d /\ f[y] = place(drawn[y])
            BY <1>4, <4>4
          <5>2. drawn[x] = drawn[y]
            BY <3>1, <3>3, <5>1
          <5> QED BY <1>2, <5>1, <5>2 DEF Named
        <4> QED BY <4>1, <4>2, <4>3, <4>4
      <3> HIDE DEF f
      <3>4. d + 1 \in Nat
        BY <1>4
      <3>5. d + 1 <= Len(A)
        BY <1>4, <3>2, <3>3, <3>4, Pigeons
      <3> QED BY <1>4, <2>3, <3>5
    <2> QED BY <1>7, <2>4, <2>5, <2>6
  <1>11. ASSUME NEW k \in 1 .. d, drawn[k] \in overflow PROVE \E c \in fading : c.id = drawn[k]
    <2>1. PICK c \in Circles(A, n) : c.id = drawn[k] /\ c.seq < last - limit + 1
      BY <1>0, <1>11 DEF Overflowing
    <2>2. c \in fading \/ \E i \in 1 .. n : c = A[i]
      BY DEF Circles
    <2>3. ASSUME NEW i \in 1 .. n, c = A[i] PROVE FALSE
      <3>1. i \in 1 .. Len(A) /\ A[i].id = drawn[k]
        BY <1>4, <2>1, <2>3
      <3>2. PICK x \in 1 .. d : A[i] = Arrival(drawn, x)
        BY <1>3, <3>1
      <3>3. A[i].seq > last - limit /\ A[i].seq \in Nat
        BY <1>6, <1>8, <3>1, <3>2
      <3> QED BY <1>5, <2>1, <2>3, <3>3
    <2> QED BY <2>1, <2>2, <2>3
  <1> QED BY <1>6, <1>9, <1>10, <1>11

\* The arrays and tables when the arrivals are in them.
ArrivalOK(A, es, R, eRefs, beyond, last) ==
  /\ ArraysOK(A, es, last)
  /\ NoStrays(A, R, es, eRefs)
  /\ \A i \in 1 .. Len(A) : A[i].id \notin beyond => R[A[i].id] = i
  /\ \A i \in 1 .. Len(es) : eRefs[es[i]] = i

LEMMA AfterArrival ==
  ASSUME PictureOK, NEW drawn, Named(drawn),
         NEW beyond, \A k \in 1 .. Len(drawn) : drawn[k] \notin beyond, NEW ids
  PROVE  LET A == Arrived(drawn)
             R == Referenced(A, drawn, beyond)
             es == edges \o SetToSeq(NewEdges(ids, R))
             eRefs == [e \in EdgeIds |-> EdgeIndex(es, e)]
         IN  ArrivalOK(A, es, R, eRefs, beyond, vertexSequence + Len(drawn))
  <1> DEFINE A == Arrived(drawn)
             R == Referenced(A, drawn, beyond)
             t == SetToSeq(NewEdges(ids, R))
             es == edges \o t
             eRefs == [e \in EdgeIds |-> EdgeIndex(es, e)]
             last == vertexSequence + Len(drawn)
  <1>1. /\ A \in Seq(Numbered(last)) /\ Len(vertices) <= Len(A)
        /\ \A i \in 1 .. Len(vertices) : A[i].id = vertices[i].id
        /\ \A i, j \in 1 .. Len(A) : A[i].id = A[j].id => i = j
        /\ \A i, j \in 1 .. Len(A) : A[i].seq = A[j].seq => i = j
    <2>1. ArrivedOK(A, drawn)
      BY ArrivedIs
    <2> HIDE DEF A, R, t, es, eRefs
    <2> QED BY <2>1 DEF ArrivedOK
  <1>2. /\ R \in [VertexIds -> Nat]
        /\ \A v \in VertexIds : R[v] # 0 => HasId(A, v)
        /\ \A i \in 1 .. Len(A) : A[i].id \notin beyond => R[A[i].id] = i
    BY ReferencedIs
  <1> HIDE DEF A, R
  <1>3. NewEdgesOK(t, A)
    BY <1>2, NewEdgesAre
  <1> HIDE DEF t
  <1>4. edges \in Seq(EdgeIds) /\ t \in Seq(EdgeIds)
    BY <1>3 DEF PictureOK, ArraysOK, NewEdgesOK
  <1>5. Joined(es, edges, t, EdgeIds)
    BY <1>4, Concatenation
  <1> HIDE DEF es
  <1>6. \A v : HasId(vertices, v) => HasId(A, v)
    <2> SUFFICES ASSUME NEW v, HasId(vertices, v) PROVE HasId(A, v)
      OBVIOUS
    <2>1. PICK i \in 1 .. Len(vertices) : vertices[i].id = v
      BY DEF HasId
    <2>2. Len(vertices) \in Nat /\ Len(A) \in Nat
      BY <1>1 DEF PictureOK, ArraysOK
    <2>3. i \in 1 .. Len(A) /\ A[i].id = v
      BY <1>1, <2>1, <2>2
    <2> QED BY <2>3 DEF HasId
  <1>7. /\ \A i, j \in 1 .. Len(es) : es[i] = es[j] => i = j
        /\ JoinIds(es, A)
    BY <1>3, <1>5, <1>6, EdgesAre
  <1>8. es \in Seq(EdgeIds)
    BY <1>5 DEF Joined
  <1>9. /\ eRefs \in [EdgeIds -> Nat]
        /\ \A e \in EdgeIds : eRefs[e] # 0 => HasEdge(es, e)
        /\ \A i \in 1 .. Len(es) : eRefs[es[i]] = i
    BY <1>7, <1>8, EdgeTableIs
  <1> HIDE DEF eRefs, last
  <1>10. ArraysOK(A, es, last)
    BY <1>1, <1>7, <1>8 DEF ArraysOK
  <1>11. NoStrays(A, R, es, eRefs)
    BY <1>2, <1>9 DEF NoStrays
  <1>12. ArrivalOK(A, es, R, eRefs, beyond, last)
    BY <1>2, <1>9, <1>10, <1>11 DEF ArrivalOK
  <1> QED BY <1>12 DEF last, eRefs, es, t, R, A

LEMMA DrawStep ==
  ASSUME PictureOK, limit \in Nat \ {0},
         NEW ids, Named(ids), ids # << >>, Draw(ids)
  PROVE  /\ PictureOK' /\ stored' \subseteq VertexIds /\ Len(vertices') <= limit
         /\ vertexSequence' - vertexSequence \in 1 .. Len(ids)
         /\ \A k \in 1 .. vertexSequence' - vertexSequence :
              HasId(vertices', ids[k]) \/ \E c \in fading : c.id = ids[k]
  <1> DEFINE drawn == Drawn(ids)
             A == Arrived(drawn)
             last == vertexSequence + Len(drawn)
             beyond == ToSet(ids) \ ToSet(drawn)
             R == Referenced(A, drawn, beyond)
             es == edges \o SetToSeq(NewEdges(ToSet(ids), R))
             eRefs == [e \in EdgeIds |-> EdgeIndex(es, e)]
             overflow == Overflowing(A, Len(vertices), last, limit)
  <1>1. /\ last <= MAX_SEQUENCE /\ vertexSequenceEnd' = vertexSequence /\ vertexSequence' = last
        /\ IF overflow # {}
           THEN RemoveFromCanvas(overflow, A, Len(vertices), es, R, eRefs)
           ELSE /\ vertices' = A /\ vertexRefs' = R /\ edges' = es /\ edgeRefs' = eRefs
                /\ stored' = Ids(A) /\ fading' = fading
    BY DEF Draw, Drawn
  <1>2. /\ Named(drawn) /\ Len(drawn) \in 1 .. Len(ids)
        /\ \A k \in 1 .. Len(drawn) : drawn[k] = ids[k]
    BY DrawnIs
  <1>3. Drawing(ids, drawn, A, last, overflow)
    BY DEF Drawing
  <1> HIDE DEF drawn
  <1>4. drawn \in Seq(VertexIds) /\ Len(drawn) \in Nat
        /\ \A k \in 1 .. Len(drawn) : drawn[k] \notin beyond
    <2>1. drawn \in Seq(VertexIds)
      BY <1>2 DEF Named
    <2> QED BY <2>1, ToSetIs
  <1> HIDE DEF beyond
  <1>5. /\ ArraysOK(A, es, last) /\ NoStrays(A, R, es, eRefs)
        /\ \A i \in 1 .. Len(A) : A[i].id \notin beyond => R[A[i].id] = i
        /\ \A i \in 1 .. Len(es) : eRefs[es[i]] = i
    <2>1. ArrivalOK(A, es, R, eRefs, beyond, last)
      BY <1>2, <1>4, AfterArrival, Zenon
    <2> HIDE DEF A, R, es, eRefs, last
    <2> QED BY <2>1 DEF ArrivalOK
  <1>6. /\ Len(vertices) <= Len(A)
        /\ \A k \in 1 .. Len(drawn) : HasId(A, drawn[k])
    <2>1. ArrivedOK(A, drawn)
      BY <1>2, ArrivedIs
    <2> HIDE DEF A, R, es, eRefs, last
    <2> QED BY <2>1 DEF ArrivedOK
  <1> HIDE DEF A, R, es, eRefs, overflow, last
  <1>7. /\ \A i \in 1 .. Len(A) : /\ A[i].seq \in Nat /\ A[i].seq <= last
                                  /\ \/ A[i].seq > last - limit
                                     \/ A[i].id \in overflow
                                     \/ Len(A) <= limit
        /\ \A i \in 1 .. Len(A) : A[i].id \in beyond => A[i].id \in overflow
        /\ \A k \in 1 .. Len(drawn) :
             drawn[k] \in overflow => \E c \in fading : c.id = drawn[k]
    BY <1>2, <1>3, Evicted DEF beyond
  <1>8. /\ last \in 0 .. MAX_SEQUENCE /\ vertexSequence \in 0 .. last /\ vertexSequence \in Nat
        /\ last - vertexSequence = Len(drawn) /\ Len(vertices) \in 0 .. Len(A) /\ Len(A) \in Nat
        /\ last \in Nat
    <2>1. /\ vertexSequence \in 0 .. MAX_SEQUENCE /\ MAX_SEQUENCE \in Nat
          /\ Len(vertices) \in Nat /\ Len(A) \in Nat
      BY <1>5, CanvasBounds DEF PictureOK, ArraysOK
    <2> QED BY <1>1, <1>4, <1>6, <2>1 DEF last
  <1>9. fading \subseteq Numbered(last)
    <2>1. fading \subseteq Numbered(vertexSequence)
      BY DEF PictureOK
    <2> QED BY <1>8, <2>1 DEF Numbered
  <1>10. ASSUME overflow = {}
         PROVE  /\ ArraysOK(vertices', edges', last)
                /\ TablesOK(vertices', vertexRefs', edges', edgeRefs')
                /\ stored' \subseteq VertexIds /\ fading' \subseteq Numbered(last)
                /\ Len(vertices') <= limit
                /\ \A k \in 1 .. Len(drawn) : HasId(vertices', drawn[k])
    <2>1. /\ vertices' = A /\ vertexRefs' = R /\ edges' = es /\ edgeRefs' = eRefs
          /\ stored' = Ids(A) /\ fading' = fading
      BY <1>1, <1>10
    <2>2. \A i \in 1 .. Len(A) : R[A[i].id] = i
      BY <1>5, <1>7, <1>10
    <2>3. TablesOK(A, R, es, eRefs)
      BY <1>5, <2>2 DEF TablesOK
    <2>4. Len(A) <= limit
      <3> SUFFICES ASSUME ~ (Len(A) <= limit) PROVE FALSE
        OBVIOUS
      <3>1. \A i \in 1 .. Len(A) : /\ A[i].seq \in Nat /\ A[i].seq > last - limit
                                   /\ A[i].seq <= last
        BY <1>7, <1>10
      <3>2. \A i, j \in 1 .. Len(A) : A[i].seq = A[j].seq => i = j
        BY <1>5 DEF ArraysOK
      <3> QED BY <1>8, <3>1, <3>2, Recent
    <2>5. Ids(A) \subseteq VertexIds
      <3>1. A \in Seq(Numbered(last))
        BY <1>5 DEF ArraysOK
      <3>2. \A v \in ToSet(A) : v \in Numbered(last)
        BY <3>1 DEF ToSet
      <3> QED BY <3>2 DEF Ids, Numbered
    <2> QED BY <1>5, <1>6, <1>9, <2>1, <2>3, <2>4, <2>5
  <1>11. ASSUME overflow # {}
         PROVE  /\ ArraysOK(vertices', edges', last)
                /\ TablesOK(vertices', vertexRefs', edges', edgeRefs')
                /\ stored' \subseteq VertexIds /\ fading' \subseteq Numbered(last)
                /\ Len(vertices') <= limit
                /\ \A k \in 1 .. Len(drawn) : HasId(vertices', drawn[k]) \/ drawn[k] \in overflow
    <2>1. RemoveFromCanvas(overflow, A, Len(vertices), es, R, eRefs)
      BY <1>1, <1>11
    <2>2. /\ ArraysOK(vertices', edges', last)
          /\ TablesOK(vertices', vertexRefs', edges', edgeRefs')
          /\ stored' \subseteq VertexIds /\ fading' \subseteq Numbered(last)
          /\ Len(vertices') <= Len(A)
          /\ \A k \in 1 .. Len(vertices') :
               \E i \in 1 .. Len(A) : vertices'[k] = A[i] /\ A[i].id \notin overflow
          /\ \A i \in 1 .. Len(A) :
               A[i].id \notin overflow => \E k \in 1 .. Len(vertices') : vertices'[k] = A[i]
      BY <1>5, <1>8, <1>9, <2>1, Removal
    <2>3. Len(vertices') \in Nat /\ \A i, j \in 1 .. Len(vertices') :
                                      vertices'[i].seq = vertices'[j].seq => i = j
      BY <2>2 DEF ArraysOK
    <2>4. Len(vertices') <= limit
      <3>1. CASE Len(A) <= limit
        BY <1>8, <2>2, <2>3, <3>1
      <3>2. CASE ~ (Len(A) <= limit)
        <4>1. \A k \in 1 .. Len(vertices') : /\ vertices'[k].seq \in Nat
                                             /\ vertices'[k].seq > last - limit
                                             /\ vertices'[k].seq <= last
          BY <1>7, <2>2, <3>2
        <4> QED BY <1>8, <2>3, <4>1, Recent
      <3> QED BY <3>1, <3>2
    <2>5. ASSUME NEW k \in 1 .. Len(drawn), drawn[k] \notin overflow PROVE HasId(vertices', drawn[k])
      <3>1. PICK i \in 1 .. Len(A) : A[i].id = drawn[k]
        BY <1>6 DEF HasId
      <3>2. PICK j \in 1 .. Len(vertices') : vertices'[j] = A[i]
        BY <2>2, <2>5, <3>1
      <3> QED BY <3>1, <3>2 DEF HasId
    <2> QED BY <2>2, <2>4, <2>5
  <1>12. /\ ArraysOK(vertices', edges', last)
         /\ TablesOK(vertices', vertexRefs', edges', edgeRefs')
         /\ stored' \subseteq VertexIds /\ fading' \subseteq Numbered(last)
         /\ Len(vertices') <= limit
         /\ \A k \in 1 .. Len(drawn) : HasId(vertices', drawn[k]) \/ drawn[k] \in overflow
    BY <1>10, <1>11
  <1>13. PictureOK'
    BY <1>1, <1>8, <1>12
       DEF PictureOK, ArraysOK, TablesOK, NoStrays, JoinIds, HasId, HasEdge, Numbered, EdgeIds
  <1>14. \A k \in 1 .. Len(drawn) : HasId(vertices', ids[k]) \/ \E c \in fading : c.id = ids[k]
    BY <1>2, <1>7, <1>12
  <1> QED BY <1>1, <1>2, <1>8, <1>12, <1>13, <1>14

(* The steps of the canvas. *)

LEMMA LimitIs ==
  ASSUME SettingsOK
  PROVE  limit \in Nat \ {0}
  BY LimitsAssumption DEF SettingsOK

\* An answer names the vertices of a set in some order.
LEMMA AnswerIs ==
  ASSUME NEW query \in Query, query # {}, NEW m \in Answer(query)
  PROVE  m \in GoodMessages
  <1>1. CASE ready
    <2>0. PICK S \in query : \E ids \in SetToSeqs(S) : m = [provider |-> "graph", ids |-> ids]
      BY <1>1 DEF Answer
    <2>1. PICK ids \in SetToSeqs(S) : m = [provider |-> "graph", ids |-> ids]
      BY <2>0
    <2> DEFINE n == Cardinality(S)
    <2>2. S \in SUBSET VertexIds /\ IsFiniteSet(VertexIds)
      BY GraphAssumption DEF Query
    <2>3. n \in 0 .. Cardinality(VertexIds) /\ n \in Nat
      <3>1. /\ Cardinality(S) \in Nat /\ Cardinality(VertexIds) \in Nat
            /\ Cardinality(S) <= Cardinality(VertexIds)
        BY <2>2, FS_Subset, FS_CardinalityType
      <3>2. n = Cardinality(S) /\ Cardinality(VertexIds) = Cardinality(VertexIds)
        OBVIOUS
      <3> HIDE DEF n
      <3> QED BY <3>1, <3>2
    <2>4. ids \in [1 .. n -> S] /\ \A i, j \in 1 .. n : i # j => ids[i] # ids[j]
      BY DEF SetToSeqs
    <2> HIDE DEF n
    <2>5. ids \in [1 .. n -> VertexIds] /\ Len(ids) = n
      BY <2>2, <2>3, <2>4
    <2>6. m \in Message
      BY <2>1, <2>3, <2>5 DEF Message
    <2>7. \A i, j \in 1 .. Len(ids) : ids[i] = ids[j] => i = j
      BY <2>4, <2>5
    <2> QED BY <2>1, <2>6, <2>7 DEF GoodMessages
  <1>2. CASE ~ ready
    <2>1. m = [provider |-> "notready", query |-> query]
      BY <1>2 DEF Answer
    <2> QED BY <2>1 DEF GoodMessages, Message
  <1> QED BY <1>1, <1>2

LEMMA SendStep ==
  ASSUME OrdersOK, NEW query \in Query, query # {}, Send(query)
  PROVE  OrdersOK' /\ coming' # << >>
  <1>1. /\ Len(coming) < MAX_UNDER_WAY /\ order' = {}
        /\ \E m \in Answer(query) : coming' = Append(coming, m)
    BY DEF Send, NoOrder
  <1>2. PICK m \in GoodMessages : coming' = Append(coming, m)
    BY <1>1, AnswerIs
  <1>3. coming \in Seq(GoodMessages) /\ MAX_UNDER_WAY \in Nat
    BY CanvasBounds DEF OrdersOK
  <1>4. coming' \in Seq(GoodMessages) /\ Len(coming') <= MAX_UNDER_WAY /\ coming' # << >>
    BY <1>1, <1>2, <1>3
  <1>5. {} \in Query
    BY DEF Query
  <1>6. Query' = Query /\ GoodMessages' = GoodMessages
    BY DEF Query, GoodMessages, Message
  <1> QED BY <1>1, <1>4, <1>5 DEF OrdersOK, Query, GoodMessages, Message

LEMMA UpdateNowStep ==
  ASSUME OrdersOK, SettingsOK, UpdateNow
  PROVE  OrdersOK' /\ (stored # {} => coming' # << >>)
  <1>1. CASE stored # {}
    <2>1. Send({stored})
      BY <1>1 DEF UpdateNow
    <2>2. {stored} \in Query /\ {stored} # {}
      BY DEF SettingsOK, Query
    <2> QED BY <2>1, <2>2, SendStep
  <1>2. CASE stored = {}
    <2>1. UNCHANGED <<order, coming>>
      BY <1>2 DEF UpdateNow, orders
    <2> QED BY <1>2, <2>1 DEF OrdersOK, Query, GoodMessages, Message
  <1> QED BY <1>1, <1>2

\* What changes nothing of the picture keeps it.
LEMMA SamePicture ==
  ASSUME PictureOK, UNCHANGED picture
  PROVE  PictureOK' /\ vertices' = vertices /\ vertexSequence' = vertexSequence
  <1>1. UNCHANGED <<vertices, vertexRefs, edges, edgeRefs, vertexSequence, vertexSequenceEnd, fading>>
    BY DEF picture
  <1>2. ArraysOK(vertices, edges, vertexSequence)'
    BY <1>1 DEF PictureOK, ArraysOK, JoinIds, HasId, Numbered, EdgeIds
  <1>3. TablesOK(vertices, vertexRefs, edges, edgeRefs)'
    BY <1>1 DEF PictureOK, TablesOK, NoStrays, HasId, HasEdge, EdgeIds
  <1> QED BY <1>1, <1>2, <1>3 DEF PictureOK, Numbered

LEMMA SameOrders ==
  ASSUME OrdersOK, UNCHANGED orders
  PROVE  OrdersOK'
  BY DEF OrdersOK, orders, Query, GoodMessages, Message

LEMMA VicinityIs ==
  ASSUME NEW S \in SUBSET VertexIds
  PROVE  Vicinity(S) \in SUBSET VertexIds
  BY GraphAssumption DEF Vicinity

\* The queries of the user.
LEMMA UserOrderStep ==
  ASSUME PictureOK, OrdersOK, SettingsOK, UserOrder
  PROVE  OrdersOK' /\ coming' # << >>
  <1>1. vertices \in Seq(Numbered(vertexSequence)) /\ fading \subseteq Numbered(vertexSequence)
        /\ stored \in SUBSET VertexIds
    BY DEF PictureOK, ArraysOK, SettingsOK
  <1>2. Shown \subseteq VertexIds
    <2>1. \A v \in ToSet(vertices) : v \in Numbered(vertexSequence)
      BY <1>1 DEF ToSet
    <2> QED BY <2>1 DEF Shown, Ids, Numbered
  <1>3. LatestVertices \subseteq VertexIds
    <2>1. \A c \in Circles(vertices, Len(vertices)) : c \in Numbered(vertexSequence)
      BY <1>1 DEF Circles
    <2> QED BY <2>1 DEF LatestVertices, Numbered
  <1>4. PICK query \in {AtMost(limit), {Vicinity(stored)},
                         {Vicinity(LatestVertices)}}
                         \cup {{Vicinity({v})} : v \in Shown} : Send(query)
    BY DEF UserOrder
  <1>5. AtMost(limit) \in Query /\ AtMost(limit) # {}
    <2>1. limit \in Nat
      BY LimitIs
    <2>2. Cardinality({}) = 0
      BY FS_EmptySet
    <2> QED BY <2>1, <2>2 DEF AtMost, Query
  <1>6. \A S \in SUBSET VertexIds : {Vicinity(S)} \in Query /\ {Vicinity(S)} # {}
    BY VicinityIs DEF Query
  <1>7. query \in Query /\ query # {}
    <2>1. CASE query = AtMost(limit)
      BY <1>5, <2>1
    <2>2. CASE query = {Vicinity(stored)} \/ query = {Vicinity(LatestVertices)}
      BY <1>1, <1>3, <1>6, <2>2
    <2>3. CASE \E v \in Shown : query = {Vicinity({v})}
      BY <1>2, <1>6, <2>3
    <2> QED BY <1>4, <2>1, <2>2, <2>3
  <1> QED BY <1>4, <1>7, SendStep

\* What the user removes.
LEMMA RemoveIdsStep ==
  ASSUME PictureOK, OrdersOK, NEW ids, RemoveIds(ids)
  PROVE  /\ PictureOK' /\ OrdersOK' /\ stored' \subseteq VertexIds /\ vertexSequence' = vertexSequence
         /\ Len(vertices') <= Len(vertices)
         /\ \A k \in 1 .. Len(vertices') :
              \E i \in 1 .. Len(vertices) : vertices'[k] = vertices[i] /\ vertices[i].id \notin ids
         /\ UNCHANGED <<connected, ready, firstTry, autoRefresh, order, coming>>
  <1>1. /\ RemoveFromCanvas(ids, vertices, Len(vertices), edges, vertexRefs, edgeRefs)
        /\ vertexSequence' = vertexSequence /\ vertexSequenceEnd' = vertexSequenceEnd
        /\ UNCHANGED <<connected, ready, firstTry, autoRefresh, order, coming>>
        /\ UNCHANGED orders
    BY DEF RemoveIds, orders
  <1>2. /\ ArraysOK(vertices, edges, vertexSequence) /\ NoStrays(vertices, vertexRefs, edges, edgeRefs)
        /\ fading \subseteq Numbered(vertexSequence) /\ vertexSequence \in Nat
        /\ Len(vertices) \in 0 .. Len(vertices)
        /\ vertexSequence \in 0 .. MAX_SEQUENCE /\ vertexSequenceEnd \in 0 .. vertexSequence
    <2>1. /\ ArraysOK(vertices, edges, vertexSequence) /\ NoStrays(vertices, vertexRefs, edges, edgeRefs)
          /\ fading \subseteq Numbered(vertexSequence)
          /\ vertexSequence \in 0 .. MAX_SEQUENCE /\ vertexSequenceEnd \in 0 .. vertexSequence
      BY DEF PictureOK, TablesOK
    <2>2. vertexSequence \in Nat
      BY <2>1, CanvasBounds
    <2>3. Len(vertices) \in Nat
      BY <2>1 DEF ArraysOK
    <2> QED BY <2>1, <2>2, <2>3
  <1>3. /\ ArraysOK(vertices', edges', vertexSequence)
        /\ TablesOK(vertices', vertexRefs', edges', edgeRefs')
        /\ stored' \subseteq VertexIds /\ fading' \subseteq Numbered(vertexSequence)
        /\ Len(vertices') <= Len(vertices)
        /\ \A k \in 1 .. Len(vertices') :
             \E i \in 1 .. Len(vertices) : vertices'[k] = vertices[i] /\ vertices[i].id \notin ids
    BY <1>1, <1>2, Removal
  <1>4. PictureOK'
    BY <1>1, <1>2, <1>3
       DEF PictureOK, ArraysOK, TablesOK, NoStrays, JoinIds, HasId, HasEdge, Numbered, EdgeIds
  <1>5. OrdersOK'
    BY <1>1, SameOrders
  <1> QED BY <1>1, <1>3, <1>4, <1>5

LEMMA ChangeLimitStep ==
  ASSUME CanvasInv, NEW n \in Limits, ChangeLimit(n)
  PROVE  CanvasInv'
  <1> DEFINE ids == Overflowing(vertices, Len(vertices), vertexSequence, n)
  <1>1. limit' = n /\ RemoveIds(ids)
    BY DEF ChangeLimit
  <1> HIDE DEF ids
  <1>2. n \in Nat
    BY LimitsAssumption
  <1>3. /\ PictureOK' /\ OrdersOK' /\ stored' \subseteq VertexIds
        /\ Len(vertices') <= Len(vertices)
        /\ \A k \in 1 .. Len(vertices') :
             \E i \in 1 .. Len(vertices) : vertices'[k] = vertices[i] /\ vertices[i].id \notin ids
        /\ UNCHANGED <<connected, ready, firstTry, autoRefresh>>
    BY <1>1, RemoveIdsStep DEF CanvasInv
  <1>4. /\ vertices \in Seq(Numbered(vertexSequence)) /\ Len(vertices) \in Nat /\ vertexSequence \in Nat
        /\ \A i, j \in 1 .. Len(vertices) : vertices[i].id = vertices[j].id => i = j
        /\ Len(vertices) \in 0 .. Len(vertices)
    BY DEF CanvasInv, PictureOK, ArraysOK
  <1>5. /\ Len(vertices') \in Nat
        /\ \A i, j \in 1 .. Len(vertices') : vertices'[i].seq = vertices'[j].seq => i = j
    BY <1>3 DEF PictureOK, ArraysOK
  <1>6. Len(vertices') <= n
    <2>1. CASE Len(vertices) <= n
      BY <1>2, <1>3, <1>4, <1>5, <2>1
    <2>2. CASE Len(vertices) > n
      <3>1. ASSUME NEW i \in 1 .. Len(vertices), vertices[i].id \notin ids
            PROVE  /\ vertices[i].seq \in Nat /\ vertices[i].seq > vertexSequence - n
                   /\ vertices[i].seq <= vertexSequence
        <4>1. vertices[i] \in Numbered(vertexSequence)
          BY <1>4
        <4>2. vertices[i].seq \in Nat /\ vertices[i].seq <= vertexSequence
          BY <1>4, <4>1 DEF Numbered
        <4>3. ~ (vertices[i].seq <= vertexSequence - n)
          BY <1>2, <1>4, <2>2, <3>1, <4>2, Eviction DEF ids
        <4> QED BY <1>2, <1>4, <4>2, <4>3
      <3>2. \A k \in 1 .. Len(vertices') : /\ vertices'[k].seq \in Nat
                                           /\ vertices'[k].seq > vertexSequence - n
                                           /\ vertices'[k].seq <= vertexSequence
        BY <1>3, <3>1
      <3> QED BY <1>2, <1>4, <1>5, <3>2, Recent
    <2> QED BY <1>2, <1>4, <2>1, <2>2
  <1> QED BY <1>1, <1>3, <1>6 DEF CanvasInv, SettingsOK

LEMMA ClearCanvasStep ==
  ASSUME PictureOK, ClearCanvas
  PROVE  PictureOK' /\ Len(vertices') = 0 /\ vertexSequence' = vertexSequence
  <1>1. /\ vertices' = << >> /\ vertexRefs' = [v \in VertexIds |-> 0]
        /\ edges' = << >> /\ edgeRefs' = [e \in EdgeIds |-> 0] /\ fading' = {}
        /\ vertexSequence' = vertexSequence /\ vertexSequenceEnd' = vertexSequenceEnd
    BY DEF ClearCanvas, Undefined
  <1>2. vertexSequence \in 0 .. MAX_SEQUENCE /\ vertexSequenceEnd \in 0 .. vertexSequence
    BY DEF PictureOK
  <1>3. ArraysOK(<< >>, << >>, vertexSequence)
    BY DEF ArraysOK, JoinIds
  <1>4. TablesOK(<< >>, vertexRefs', << >>, edgeRefs')
    BY <1>1 DEF TablesOK, NoStrays
  <1> QED BY <1>1, <1>2, <1>3, <1>4
          DEF PictureOK, ArraysOK, TablesOK, NoStrays, JoinIds, HasId, HasEdge, Numbered, EdgeIds

LEMMA FireOrderStep ==
  ASSUME CanvasInv, FireOrder
  PROVE  CanvasInv' /\ coming' # << >>
  <1>1. order # {} /\ Send(order) /\ order \in Query
    BY DEF FireOrder, NoOrder, CanvasInv, OrdersOK
  <1>2. OrdersOK' /\ coming' # << >>
    BY <1>1, SendStep DEF CanvasInv
  <1>3. /\ UNCHANGED picture
        /\ UNCHANGED <<stored, limit, connected, ready, firstTry, autoRefresh>>
    BY DEF FireOrder
  <1>4. PictureOK' /\ vertices' = vertices
    BY <1>3, SamePicture DEF CanvasInv
  <1> QED BY <1>2, <1>3, <1>4 DEF CanvasInv, SettingsOK

LEMMA UserOrderKeeps ==
  ASSUME CanvasInv, UserOrder
  PROVE  CanvasInv' /\ coming' # << >>
  <1>1. OrdersOK' /\ coming' # << >>
    BY UserOrderStep DEF CanvasInv
  <1>2. /\ UNCHANGED picture
        /\ UNCHANGED <<stored, limit, connected, ready, firstTry, autoRefresh>>
    BY DEF UserOrder
  <1>3. PictureOK' /\ vertices' = vertices
    BY <1>2, SamePicture DEF CanvasInv
  <1> QED BY <1>1, <1>2, <1>3 DEF CanvasInv, SettingsOK

LEMMA RemoveKeeps ==
  ASSUME CanvasInv, NEW ids, RemoveIds(ids), UNCHANGED limit
  PROVE  CanvasInv'
  <1>1. /\ PictureOK' /\ OrdersOK' /\ stored' \subseteq VertexIds
        /\ Len(vertices') <= Len(vertices)
        /\ UNCHANGED <<connected, ready, firstTry, autoRefresh>>
    BY RemoveIdsStep DEF CanvasInv
  <1>2. Len(vertices') \in Nat /\ Len(vertices) \in Nat /\ limit \in Nat
    BY <1>1, LimitIs DEF CanvasInv, PictureOK, ArraysOK
  <1> QED BY <1>1, <1>2 DEF CanvasInv, SettingsOK

LEMMA ClearingKeeps ==
  ASSUME CanvasInv, RemoveAll \/ Close
  PROVE  CanvasInv'
  <1>1. /\ ClearCanvas /\ order' = {} /\ (coming' = coming \/ coming' = << >>)
        /\ (stored' = stored \/ stored' = {}) /\ limit' = limit
        /\ connected' \in BOOLEAN /\ UNCHANGED <<ready, firstTry, autoRefresh>>
    BY DEF RemoveAll, Close, NoOrder, CanvasInv, SettingsOK
  <1>2. PictureOK' /\ Len(vertices') = 0
    BY <1>1, ClearCanvasStep DEF CanvasInv
  <1>3. OrdersOK'
    <2>1. coming \in Seq(GoodMessages) /\ Len(coming) <= MAX_UNDER_WAY /\ MAX_UNDER_WAY \in Nat
      BY CanvasBounds DEF CanvasInv, OrdersOK
    <2>2. coming' \in Seq(GoodMessages) /\ Len(coming') <= MAX_UNDER_WAY
      <3>1. CASE coming' = coming
        BY <2>1, <3>1
      <3>2. CASE coming' = << >>
        <4>1. << >> \in Seq(GoodMessages) /\ Len(<< >>) = 0
          OBVIOUS
        <4> QED BY <2>1, <3>2, <4>1
      <3> QED BY <1>1, <3>1, <3>2
    <2>3. {} \in Query
      BY DEF Query
    <2> QED BY <1>1, <2>2, <2>3 DEF OrdersOK, Query, GoodMessages, Message
  <1>4. limit \in Nat
    BY LimitIs DEF CanvasInv
  <1> QED BY <1>1, <1>2, <1>3, <1>4 DEF CanvasInv, SettingsOK

LEMMA FadeOutKeeps ==
  ASSUME CanvasInv, NEW c, FadeOut(c)
  PROVE  CanvasInv'
  <1>1. /\ UNCHANGED <<vertices, vertexRefs, edges, edgeRefs, vertexSequence, vertexSequenceEnd, stored,
                       limit, connected, ready, firstTry, autoRefresh>>
        /\ UNCHANGED orders /\ fading' \subseteq fading
    BY DEF FadeOut
  <1>2. PictureOK'
    BY <1>1 DEF CanvasInv, PictureOK, ArraysOK, TablesOK, NoStrays, JoinIds, HasId, HasEdge, Numbered,
                EdgeIds
  <1>3. OrdersOK'
    BY <1>1, SameOrders DEF CanvasInv
  <1> QED BY <1>1, <1>2, <1>3 DEF CanvasInv, SettingsOK

\* The message that is received.
MessageIs(m) ==
  /\ m \in GoodMessages
  /\ m.provider = "notready" => m.query \in Query /\ m.query # {}
  /\ m.provider = "graph" => Named(m.ids)

LEMMA HeadIs ==
  ASSUME CanvasInv, coming # << >>
  PROVE  /\ MessageIs(Head(coming))
         /\ Tail(coming) \in Seq(GoodMessages) /\ Len(Tail(coming)) <= Len(coming)
  <1>1. coming \in Seq(GoodMessages)
    BY DEF CanvasInv, OrdersOK
  <1> DEFINE m == Head(coming)
  <1>2. m \in GoodMessages /\ Tail(coming) \in Seq(GoodMessages) /\ Len(Tail(coming)) <= Len(coming)
    BY <1>1
  <1> HIDE DEF m
  <1>3. m \in Message
    BY <1>2 DEF GoodMessages
  <1>4. ASSUME m.provider = "notready" PROVE m.query \in Query /\ m.query # {}
    BY <1>2, <1>3, <1>4 DEF GoodMessages, Message
  <1>5. ASSUME m.provider = "graph" PROVE Named(m.ids)
    <2>1. PICK n \in 0 .. Cardinality(VertexIds) : m.ids \in [1 .. n -> VertexIds]
      BY <1>3, <1>5 DEF Message
    <2>2. n \in Nat
      BY <2>1
    <2>3. m.ids \in Seq(VertexIds)
      BY <2>1, <2>2
    <2> QED BY <1>2, <1>5, <2>3 DEF GoodMessages, Named
  <1> QED BY <1>2, <1>4, <1>5 DEF MessageIs, m

\* Receiving a graph, with what happens to the arrivals and to the order.
ReceivedGraph(m) ==
  m.provider = "graph" /\ m.ids # << >> /\ Draw(m.ids) /\ Refresh

LEMMA ReceiveIs ==
  ASSUME Receive
  PROVE  /\ coming # << >> /\ coming' = Tail(coming)
         /\ UNCHANGED <<limit, connected, ready, firstTry, autoRefresh>>
         /\ \/ /\ Head(coming).provider = "notready" /\ order' = Head(coming).query
               /\ UNCHANGED picture /\ stored' = stored
            \/ /\ Head(coming).provider = "graph" /\ Head(coming).ids = << >>
               /\ UNCHANGED picture /\ stored' = stored /\ order' = order
            \/ ReceivedGraph(Head(coming))
  BY DEF Receive, Retry, ReceivedGraph

LEMMA RefreshIs ==
  ASSUME CanvasInv, Refresh, stored' \subseteq VertexIds
  PROVE  order' \in Query /\ (autoRefresh /\ stored' # {} => order' # {})
  <1>1. order \in Query
    BY DEF CanvasInv, OrdersOK
  <1>2. CASE autoRefresh
    <2>1. order' = IF stored' # {} THEN {stored'} ELSE order
      BY <1>2 DEF Refresh, UpdateLater
    <2> QED BY <1>1, <2>1 DEF Query
  <1>3. CASE ~ autoRefresh
    <2>1. order' = order
      BY <1>3 DEF Refresh
    <2> QED BY <1>1, <1>3, <2>1
  <1> QED BY <1>2, <1>3

LEMMA ReceiveKeeps ==
  ASSUME CanvasInv, Receive
  PROVE  CanvasInv'
  <1>1. /\ coming # << >> /\ coming' = Tail(coming)
        /\ UNCHANGED <<limit, connected, ready, firstTry, autoRefresh>>
    BY ReceiveIs
  <1>2. /\ MessageIs(Head(coming))
        /\ coming' \in Seq(GoodMessages) /\ Len(coming') <= MAX_UNDER_WAY
    <2>1. Len(coming) <= MAX_UNDER_WAY /\ coming \in Seq(GoodMessages) /\ MAX_UNDER_WAY \in Nat
      BY CanvasBounds DEF CanvasInv, OrdersOK
    <2>2. /\ MessageIs(Head(coming))
          /\ Tail(coming) \in Seq(GoodMessages) /\ Len(Tail(coming)) <= Len(coming)
      BY <1>1, HeadIs
    <2>3. Len(Tail(coming)) \in Nat /\ Len(coming) \in Nat
      BY <2>1, <2>2
    <2> QED BY <1>1, <2>1, <2>2, <2>3
  <1>3. limit \in Nat \ {0}
    BY LimitIs DEF CanvasInv
  <1>4. ASSUME order' \in Query PROVE OrdersOK'
    BY <1>2, <1>4 DEF OrdersOK, Query, GoodMessages, Message
  <1>5. CASE UNCHANGED picture /\ stored' = stored /\ order' \in Query
    <2>1. PictureOK' /\ vertices' = vertices
      BY <1>5, SamePicture DEF CanvasInv
    <2> QED BY <1>1, <1>4, <1>5, <2>1 DEF CanvasInv, SettingsOK
  <1>6. CASE ReceivedGraph(Head(coming))
    <2>1. /\ Draw(Head(coming).ids) /\ Refresh
          /\ Named(Head(coming).ids) /\ Head(coming).ids # << >>
      BY <1>2, <1>6 DEF ReceivedGraph, MessageIs
    <2>2. PictureOK' /\ stored' \subseteq VertexIds /\ Len(vertices') <= limit
      BY <1>3, <2>1, DrawStep DEF CanvasInv
    <2>3. order' \in Query
      BY <2>1, <2>2, RefreshIs
    <2> QED BY <1>1, <1>4, <2>2, <2>3 DEF CanvasInv, SettingsOK
  <1>7. CASE Head(coming).provider = "notready" /\ order' = Head(coming).query
             /\ UNCHANGED picture /\ stored' = stored
    BY <1>2, <1>5, <1>7 DEF MessageIs
  <1>8. CASE order' = order /\ UNCHANGED picture /\ stored' = stored
    BY <1>5, <1>8 DEF CanvasInv, OrdersOK
  <1> QED BY <1>6, <1>7, <1>8, ReceiveIs

LEMMA StateMessageKeeps ==
  ASSUME CanvasInv, NEW running \in BOOLEAN, NEW resting \in BOOLEAN,
         StateMessage(running, resting)
  PROVE  /\ CanvasInv'
         /\ stored' = stored
         /\ connected' = connected
         /\ autoRefresh' = running
         /\ \/ stored # {} => coming' # << >>
            \/ UNCHANGED orders
  <1>1. /\ firstTry' = FALSE /\ autoRefresh' = running
        /\ UNCHANGED picture /\ UNCHANGED <<stored, limit, connected, ready>>
        /\ UpdateNow \/ UNCHANGED orders
    BY DEF StateMessage
  <1>2. PictureOK' /\ vertices' = vertices
    BY <1>1, SamePicture DEF CanvasInv
  <1>3. OrdersOK' /\ ((stored # {} => coming' # << >>) \/ UNCHANGED orders)
    <2>1. CASE UpdateNow
      BY <2>1, UpdateNowStep DEF CanvasInv
    <2>2. CASE UNCHANGED orders
      BY <2>2, SameOrders DEF CanvasInv
    <2> QED BY <1>1, <2>1, <2>2
  <1> QED BY <1>1, <1>2, <1>3 DEF CanvasInv, SettingsOK

LEMMA QuietKeeps ==
  ASSUME CanvasInv, Open \/ BecomeReady \/ UNCHANGED vars
  PROVE  CanvasInv'
  <1>1. UNCHANGED picture /\ UNCHANGED orders /\ UNCHANGED <<stored, limit, autoRefresh>>
        /\ connected' \in BOOLEAN /\ ready' \in BOOLEAN /\ firstTry' \in BOOLEAN
    BY DEF Open, BecomeReady, vars, CanvasInv, SettingsOK
  <1>2. PictureOK' /\ vertices' = vertices
    BY <1>1, SamePicture DEF CanvasInv
  <1>3. OrdersOK'
    BY <1>1, SameOrders DEF CanvasInv
  <1> QED BY <1>1, <1>2, <1>3 DEF CanvasInv, SettingsOK

LEMMA CanvasStep ==
  ASSUME CanvasInv, [Next]_vars
  PROVE  CanvasInv'
  <1>1. CASE FireOrder
    BY <1>1, FireOrderStep
  <1>2. CASE UserOrder
    BY <1>2, UserOrderKeeps
  <1>3. CASE RemoveSelected \/ RemoveOrphans \/ RemoveNonLatest
    <2>1. PICK ids : RemoveIds(ids) /\ UNCHANGED limit
      BY <1>3 DEF RemoveSelected, RemoveOrphans, RemoveNonLatest
    <2> QED BY <2>1, RemoveKeeps
  <1>4. CASE RemoveAll \/ Close
    BY <1>4, ClearingKeeps
  <1>5. CASE \E n \in Limits : ChangeLimit(n)
    BY <1>5, ChangeLimitStep
  <1>6. CASE \E c \in fading : FadeOut(c)
    BY <1>6, FadeOutKeeps
  <1>7. CASE Receive
    BY <1>7, ReceiveKeeps
  <1>8. CASE \E running, resting \in BOOLEAN : StateMessage(running, resting)
    BY <1>8, StateMessageKeeps
  <1>9. CASE Open \/ BecomeReady \/ UNCHANGED vars
    BY <1>9, QuietKeeps
  <1> QED BY <1>1, <1>2, <1>3, <1>4, <1>5, <1>6, <1>7, <1>8, <1>9 DEF Next

LEMMA CanvasInit ==
  ASSUME Init
  PROVE  CanvasInv
  <1>1. /\ vertices = << >> /\ vertexRefs = [v \in VertexIds |-> 0]
        /\ edges = << >> /\ edgeRefs = [e \in EdgeIds |-> 0]
        /\ vertexSequence = 0 /\ vertexSequenceEnd = 0 /\ fading = {}
        /\ stored \in SUBSET VertexIds /\ limit \in Limits /\ connected = FALSE
        /\ ready \in BOOLEAN /\ firstTry = TRUE /\ autoRefresh = FALSE
        /\ order = {} /\ coming = << >>
    BY DEF Init, Undefined, NoOrder
  <1>2. MAX_SEQUENCE \in Nat /\ MAX_UNDER_WAY \in Nat /\ limit \in Nat
    BY <1>1, CanvasBounds, LimitsAssumption
  <1>3. ArraysOK(<< >>, << >>, 0)
    BY DEF ArraysOK, JoinIds
  <1>4. TablesOK(<< >>, vertexRefs, << >>, edgeRefs)
    BY <1>1 DEF TablesOK, NoStrays
  <1>5. PictureOK
    BY <1>1, <1>2, <1>3, <1>4 DEF PictureOK
  <1>6. OrdersOK
    BY <1>1, <1>2 DEF OrdersOK, Query
  <1>7. SettingsOK
    BY <1>1 DEF SettingsOK
  <1>8. Len(vertices) <= limit
    BY <1>1, <1>2
  <1> QED BY <1>5, <1>6, <1>7, <1>8 DEF CanvasInv

\* For any graph, limits and bounds: after every arrival, removal and loss of the
\* connection the canvas is exact, in order of arrival and within the limit.
THEOREM CanvasInvariant == Spec => []CanvasInv
  <1>1. Init => CanvasInv
    BY CanvasInit
  <1>2. CanvasInv /\ [Next]_vars => CanvasInv'
    BY CanvasStep
  <1> QED BY <1>1, <1>2, PTL DEF Spec

(* What follows from the invariant. *)

LEMMA PictureFacts ==
  ASSUME PictureOK
  PROVE  /\ vertices \in Seq(Numbered(vertexSequence)) /\ Len(vertices) \in Nat
         /\ edges \in Seq(EdgeIds) /\ Len(edges) \in Nat
         /\ vertexRefs \in [VertexIds -> Nat] /\ edgeRefs \in [EdgeIds -> Nat]
         /\ \A i \in 1 .. Len(vertices) : vertexRefs[vertices[i].id] = i
         /\ \A i \in 1 .. Len(edges) : edgeRefs[edges[i]] = i
         /\ \A v \in VertexIds : vertexRefs[v] # 0 =>
              \E i \in 1 .. Len(vertices) : vertices[i].id = v /\ vertexRefs[v] = i
         /\ \A e \in EdgeIds : edgeRefs[e] # 0 =>
              \E i \in 1 .. Len(edges) : edges[i] = e /\ edgeRefs[e] = i
  <1>1. /\ vertices \in Seq(Numbered(vertexSequence)) /\ Len(vertices) \in Nat
        /\ edges \in Seq(EdgeIds) /\ Len(edges) \in Nat
        /\ vertexRefs \in [VertexIds -> Nat] /\ edgeRefs \in [EdgeIds -> Nat]
        /\ \A i \in 1 .. Len(vertices) : vertexRefs[vertices[i].id] = i
        /\ \A i \in 1 .. Len(edges) : edgeRefs[edges[i]] = i
        /\ \A v \in VertexIds : vertexRefs[v] # 0 => HasId(vertices, v)
        /\ \A e \in EdgeIds : edgeRefs[e] # 0 => HasEdge(edges, e)
    BY DEF PictureOK, ArraysOK, TablesOK, NoStrays
  <1>2. ASSUME NEW v, HasId(vertices, v)
        PROVE  \E i \in 1 .. Len(vertices) : vertices[i].id = v /\ vertexRefs[v] = i
    BY <1>1, <1>2 DEF HasId
  <1>3. ASSUME NEW e, HasEdge(edges, e)
        PROVE  \E i \in 1 .. Len(edges) : edges[i] = e /\ edgeRefs[e] = i
    BY <1>1, <1>3 DEF HasEdge
  <1> QED BY <1>1, <1>2, <1>3

LEMMA IdsAre ==
  ASSUME NEW S, NEW vs \in Seq(S)
  PROVE  \A v : v \in Ids(vs) <=> HasId(vs, v)
  BY DEF Ids, ToSet, HasId

\* The state is well typed: in particular no table points outside its array and
\* no more messages are under way than the bound.
THEOREM CanvasTypes == Spec => []TypeOK
  <1>1. CanvasInv => TypeOK
    <2> SUFFICES ASSUME CanvasInv PROVE TypeOK
      OBVIOUS
    <2>1. PictureOK /\ OrdersOK /\ SettingsOK
      BY DEF CanvasInv
    <2>2. vertices \in Seq([id : VertexIds, seq : 1 .. vertexSequence]) /\ edges \in Seq(EdgeIds)
      BY <2>1, PictureFacts DEF Numbered
    <2>3. vertexRefs \in [VertexIds -> 0 .. Len(vertices)]
      <3>1. \A v \in VertexIds : vertexRefs[v] \in 0 .. Len(vertices)
        BY <2>1, PictureFacts
      <3>2. vertexRefs \in [VertexIds -> Nat]
        BY <2>1, PictureFacts
      <3> QED BY <3>1, <3>2
    <2>4. edgeRefs \in [EdgeIds -> 0 .. Len(edges)]
      <3>1. \A e \in EdgeIds : edgeRefs[e] \in 0 .. Len(edges)
        BY <2>1, PictureFacts
      <3>2. edgeRefs \in [EdgeIds -> Nat]
        BY <2>1, PictureFacts
      <3> QED BY <3>1, <3>2
    <2>5. /\ vertexSequence \in 0 .. MAX_SEQUENCE /\ vertexSequenceEnd \in 0 .. vertexSequence
          /\ fading \subseteq [id : VertexIds, seq : 1 .. vertexSequence]
      BY <2>1 DEF PictureOK, Numbered
    <2>6. /\ stored \subseteq VertexIds /\ limit \in Limits
          /\ {connected, ready, firstTry, autoRefresh} \subseteq BOOLEAN
      BY <2>1 DEF SettingsOK
    <2>7. /\ order \in Query /\ Len(coming) <= MAX_UNDER_WAY
          /\ \A i \in 1 .. Len(coming) : coming[i] \in Message
      <3>1. coming \in Seq(GoodMessages) /\ GoodMessages \subseteq Message
        BY <2>1 DEF OrdersOK, GoodMessages
      <3> QED BY <2>1, <3>1 DEF OrdersOK
    <2> QED BY <2>2, <2>3, <2>4, <2>5, <2>6, <2>7 DEF TypeOK
  <1> QED BY <1>1, CanvasInvariant, PTL

\* removeVerticesFromCanvas and onmessage keep vertexRefs and edgeRefs exact
\* through every removal, eviction and arrival, for every graph and limit.
THEOREM CanvasTablesExact == Spec => []TablesExact
  <1>1. CanvasInv => TablesExact
    BY PictureFacts DEF CanvasInv, TablesExact, Undefined
  <1> QED BY <1>1, CanvasInvariant, PTL

\* No edge is drawn to a vertex that is no longer on the canvas.
THEOREM CanvasEdgesJoinShown == Spec => []EdgesJoinShown
  <1>1. CanvasInv => EdgesJoinShown
    <2> SUFFICES ASSUME CanvasInv, NEW i \in 1 .. Len(edges)
                 PROVE  {edges[i][1], edges[i][2]} \subseteq Shown
      BY DEF EdgesJoinShown
    <2>1. vertices \in Seq(Numbered(vertexSequence)) /\ JoinIds(edges, vertices)
      BY DEF CanvasInv, PictureOK, ArraysOK
    <2>2. HasId(vertices, edges[i][1]) /\ HasId(vertices, edges[i][2])
      BY <2>1 DEF JoinIds
    <2> QED BY <2>1, <2>2, IdsAre DEF Shown
  <1> QED BY <1>1, CanvasInvariant, PTL

\* The canvas keeps no more than gp_maxVertexCount vertices, whatever a message
\* brings and whenever the limit is changed.
THEOREM CanvasWithinLimit == Spec => []WithinLimit
  <1>1. CanvasInv => WithinLimit
    BY DEF CanvasInv, WithinLimit
  <1> QED BY <1>1, CanvasInvariant, PTL

\* Only a message with a graph numbers arrivals.
LEMMA ArrivalsCome ==
  ASSUME CanvasInv, [Next]_vars, vertexSequence' > vertexSequence
  PROVE  Receive
  <1>0. vertexSequence \in Nat /\ vertexSequence' # vertexSequence
    BY DEF CanvasInv, PictureOK
  <1>1. CASE FireOrder \/ UserOrder \/ Open \/ BecomeReady
             \/ (\E running, resting \in BOOLEAN : StateMessage(running, resting))
             \/ UNCHANGED vars
    <2>1. UNCHANGED picture
      BY <1>1 DEF FireOrder, UserOrder, Open, BecomeReady,
                  StateMessage, vars
    <2> QED BY <1>0, <2>1 DEF picture
  <1>2. CASE \E ids : RemoveIds(ids)
    BY <1>0, <1>2 DEF RemoveIds
  <1>3. CASE RemoveSelected \/ RemoveOrphans \/ RemoveNonLatest
             \/ \E n \in Limits : ChangeLimit(n)
    BY <1>2, <1>3 DEF RemoveSelected, RemoveOrphans, RemoveNonLatest,
                      ChangeLimit
  <1>4. CASE RemoveAll \/ Close
    BY <1>0, <1>4 DEF RemoveAll, Close, ClearCanvas
  <1>5. CASE \E c \in fading : FadeOut(c)
    BY <1>0, <1>5 DEF FadeOut
  <1> QED BY <1>1, <1>3, <1>4, <1>5 DEF Next

\* An arrival is shown after the step that draws it, unless a circle of the same
\* id is still fading: onmessage evicts none of what it has just drawn.
THEOREM CanvasArrivedKept == Spec => ArrivedStays
  <1> DEFINE Kept == vertexSequence' > vertexSequence =>
               \A k \in 1 .. vertexSequence' - vertexSequence :
                  Head(coming).ids[k] \in Ids(vertices')
                  \/ Head(coming).ids[k] \in {c.id : c \in fading}
  <1>1. CanvasInv /\ [Next]_vars => Kept
    <2> SUFFICES ASSUME CanvasInv, [Next]_vars, vertexSequence' > vertexSequence,
                        NEW k \in 1 .. vertexSequence' - vertexSequence
                 PROVE  Head(coming).ids[k] \in Ids(vertices')
                        \/ Head(coming).ids[k] \in {c.id : c \in fading}
      OBVIOUS
    <2>1. Receive
      BY ArrivalsCome
    <2>2. vertexSequence' # vertexSequence
      BY DEF CanvasInv, PictureOK
    <2>3. ~ UNCHANGED picture
      BY <2>2 DEF picture
    <2>4. ReceivedGraph(Head(coming)) /\ coming # << >>
      BY <2>1, <2>3, ReceiveIs
    <2>5. /\ Draw(Head(coming).ids)
          /\ Named(Head(coming).ids) /\ Head(coming).ids # << >>
      BY <2>4, HeadIs DEF ReceivedGraph, MessageIs
    <2>6. limit \in Nat \ {0} /\ PictureOK
      BY LimitIs DEF CanvasInv
    <2>7. /\ HasId(vertices', Head(coming).ids[k]) \/ \E c \in fading : c.id = Head(coming).ids[k]
          /\ PictureOK'
      BY <2>5, <2>6, DrawStep
    <2>8. \E S : vertices' \in Seq(S)
      BY <2>7 DEF PictureOK, ArraysOK
    <2> QED BY <2>7, <2>8, IdsAre
  <1>2. CanvasInv /\ [Next]_vars => [Kept]_vars
    BY <1>1
  <1> QED BY <1>2, CanvasInvariant, PTL DEF Spec, ArrivedStays

\* While the execution runs and there is something to show, only an answer
\* without vertices ends the chain of refreshes.
THEOREM CanvasRefreshEnds == Spec => RefreshEndsByEmptyAnswer
  <1> DEFINE Ends == Refreshing /\ ~ Refreshing' =>
               \/ ~ connected' \/ ~ autoRefresh' \/ stored' = {}
               \/ /\ Head(coming).provider = "graph" /\ Head(coming).ids = <<>>
                  /\ coming' = Tail(coming)
  <1>1. CanvasInv /\ [Next]_vars => Ends
    <2> SUFFICES ASSUME CanvasInv, [Next]_vars, Refreshing, ~ Refreshing',
                        connected', autoRefresh', stored' # {}
                 PROVE  /\ Head(coming).provider = "graph" /\ Head(coming).ids = <<>>
                        /\ coming' = Tail(coming)
      OBVIOUS
    <2>1. /\ order' = {} /\ coming' = << >>
          /\ connected /\ autoRefresh /\ stored # {} /\ (order # {} \/ coming # << >>)
      BY DEF Refreshing, NoOrder
    <2>2. CASE UNCHANGED orders
      BY <2>1, <2>2 DEF orders
    <2>3. CASE FireOrder
      BY <2>1, <2>3, FireOrderStep
    <2>4. CASE UserOrder
      BY <2>1, <2>4, UserOrderKeeps
    <2>5. CASE \E ids : RemoveIds(ids)
      BY <2>2, <2>5 DEF RemoveIds
    <2>6. CASE RemoveSelected \/ RemoveOrphans \/ RemoveNonLatest
               \/ \E n \in Limits : ChangeLimit(n)
      BY <2>5, <2>6 DEF RemoveSelected, RemoveOrphans, RemoveNonLatest,
                        ChangeLimit
    <2>7. CASE RemoveAll \/ Close
      BY <2>7 DEF RemoveAll, Close
    <2>8. CASE (\E c \in fading : FadeOut(c)) \/ Open \/ BecomeReady
               \/ UNCHANGED vars
      BY <2>2, <2>8 DEF FadeOut, Open, BecomeReady, vars
    <2>9. CASE \E running, resting \in BOOLEAN : StateMessage(running, resting)
      BY <2>1, <2>2, <2>9, StateMessageKeeps
    <2>10. CASE Receive
      <3>1. coming # << >> /\ coming' = Tail(coming)
        BY <2>10, ReceiveIs
      <3>2. CASE Head(coming).provider = "notready" /\ order' = Head(coming).query
        BY <2>1, <3>1, <3>2, HeadIs DEF MessageIs
      <3>3. CASE Head(coming).provider = "graph" /\ Head(coming).ids = << >>
        BY <3>1, <3>3
      <3>4. CASE ReceivedGraph(Head(coming))
        <4>1. CanvasInv'
          BY <2>10, ReceiveKeeps
        <4>2. stored' \subseteq VertexIds /\ Refresh
          BY <3>4, <4>1 DEF CanvasInv, SettingsOK, ReceivedGraph
        <4> QED BY <2>1, <4>2, RefreshIs
      <3> QED BY <2>10, <3>2, <3>3, <3>4, ReceiveIs
    <2> QED BY <2>3, <2>4, <2>6, <2>7, <2>8, <2>9, <2>10 DEF Next
  <1>2. CanvasInv /\ [Next]_vars => [Ends]_vars
    BY <1>1
  <1> QED BY <1>2, CanvasInvariant, PTL DEF Spec, RefreshEndsByEmptyAnswer
===============================================================================
