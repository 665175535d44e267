------------------------------- MODULE GraphCanvas -------------------------------
(***************************************************************************)
(* The graph on the console's canvas: GraphD3 of graph-drawing.js with the *)
(* orders of graph.js.  d3 wants the vertices in an array, the server      *)
(* speaks of ids; so two tables (vertexRefs, edgeRefs) tell where in the   *)
(* arrays an id is, and every removal has to put them right.  The ids on   *)
(* the canvas are kept in the local storage, to be ordered again when the  *)
(* page or the connection is new.                                          *)
(*                                                                         *)
(* A query is the set of the answers it may get, each a set of ids.  The   *)
(* timer of an order without delay is taken together with its sending; so  *)
(* `order' is one that waits: the next refresh, or a retry.                *)
(***************************************************************************)
EXTENDS Integers, FiniteSets, SequencesExt

CONSTANTS
  VertexIds,
  Targets,        \* the edges of the graph on the server: targets per vertex
  Limits,         \* what gp_maxVertexCount may be set to
  MAX_SEQUENCE,   \* bound on vertexSequence
  MAX_UNDER_WAY   \* bound on the messages under way

ASSUME GraphAssumption ==
  /\ IsFiniteSet(VertexIds)
  /\ Targets \in [VertexIds -> SUBSET VertexIds]
ASSUME LimitsAssumption == Limits \subseteq Nat \ {0} /\ Limits # {}
ASSUME CanvasBounds == MAX_SEQUENCE \in Nat /\ MAX_UNDER_WAY \in Nat

VARIABLES
  vertices,       \* d3's array: ids with the number of their latest arrival
  vertexRefs,     \* id -> index in vertices
  edges,          \* d3's array of <<source, target>>
  edgeRefs,       \* edge -> index in edges
  vertexSequence, \* number of the latest arrival
  vertexSequenceEnd,  \* the same before the latest message
  fading,         \* circles that are being removed from the canvas (100 ms)
  stored,         \* localStorage["vertexIds"]
  limit,          \* gp_maxVertexCount
  connected,
  ready,          \* the server has its coordinator
  firstTry,       \* of State: no state message since the connection is open
  autoRefresh,
  order,          \* the order that waits for its timer
  coming          \* messages from the server, under way

picture == <<vertices, vertexRefs, edges, edgeRefs, vertexSequence, vertexSequenceEnd, fading>>
orders == <<order, coming>>
vars == <<picture, stored, limit, connected, ready, firstTry, autoRefresh, orders>>

Undefined == 0
NoOrder == {}

EdgeIds == VertexIds \X VertexIds
Query == SUBSET SUBSET VertexIds
Message == [provider : {"graph"}, ids : UNION {[1 .. n -> VertexIds] : n \in 0 .. Cardinality(VertexIds)}]
             \cup [provider : {"notready"}, query : Query]

Ids(vs) == {v.id : v \in ToSet(vs)}

\* Array.filter by index: what the array has at these places, in their order.
\* (SelectSeq is recursive: the provers know nothing of it.)
Filtered(array, places) ==
  [k \in 1 .. Cardinality(places) |->
     array[CHOOSE i \in places : Cardinality({j \in places : j <= i}) = k]]

\* Where an id is in an array, as a loop that sets references leaves it.
VertexIndex(vs, id) == SelectLastInSeq(vs, LAMBDA v : v.id = id)
EdgeIndex(es, edge) == SelectLastInSeq(es, LAMBDA e : e = edge)
Shown == Ids(vertices)

TypeOK ==
  /\ vertices \in Seq([id : VertexIds, seq : 1 .. vertexSequence])
  /\ vertexRefs \in [VertexIds -> 0 .. Len(vertices)]
  /\ edges \in Seq(EdgeIds)
  /\ edgeRefs \in [EdgeIds -> 0 .. Len(edges)]
  /\ vertexSequence \in 0 .. MAX_SEQUENCE
  /\ vertexSequenceEnd \in 0 .. vertexSequence
  /\ fading \subseteq [id : VertexIds, seq : 1 .. vertexSequence]
  /\ stored \subseteq VertexIds
  /\ limit \in Limits
  /\ {connected, ready, firstTry, autoRefresh} \subseteq BOOLEAN
  /\ order \in Query
  /\ Len(coming) <= MAX_UNDER_WAY
  /\ \A i \in 1 .. Len(coming) : coming[i] \in Message

\* The page is loaded; an earlier visit may have left ids in the storage.
Init ==
  /\ vertices = <<>>
  /\ vertexRefs = [v \in VertexIds |-> Undefined]
  /\ edges = <<>>
  /\ edgeRefs = [e \in EdgeIds |-> Undefined]
  /\ vertexSequence = 0
  /\ vertexSequenceEnd = 0
  /\ fading = {}
  /\ stored \in SUBSET VertexIds
  /\ limit \in Limits
  /\ connected = FALSE
  /\ ready \in BOOLEAN
  /\ firstTry = TRUE
  /\ autoRefresh = FALSE
  /\ order = NoOrder
  /\ coming = <<>>

-------------------------------------------------------------------------------
(* Orders. *)

Answer(query) ==
  IF ready
  THEN {[provider |-> "graph", ids |-> ids] : ids \in UNION {SetToSeqs(S) : S \in query}}
  ELSE {[provider |-> "notready", query |-> query]}

\* scc.order without delay takes the place of the order that waits.
Send(query) ==
  /\ Len(coming) < MAX_UNDER_WAY
  /\ order' = NoOrder
  /\ \E m \in Answer(query) : coming' = Append(coming, m)

\* Graph.update, at once or later: the ids are looked up when it is called.
UpdateNow == IF stored # {} THEN Send({stored}) ELSE UNCHANGED orders

UpdateLater == order' = IF stored' # {} THEN {stored'} ELSE order

\* The timer of the order that waits.
FireOrder ==
  /\ order # NoOrder
  /\ Send(order)
  /\ UNCHANGED <<picture, stored, limit, connected, ready, firstTry, autoRefresh>>

\* findVicinity, with a radius of 1 along the outgoing edges.
Vicinity(S) == S \cup UNION {Targets[v] : v \in S}

AtMost(n) == {S \in SUBSET VertexIds : Cardinality(S) <= n}

\* The circles in the page.  Of two vertices with one id only the first has a
\* circle; `old' vertices were there when the circles were drawn last.
Circles(vs, old) ==
  {vs[i] : i \in {j \in 1 .. old : \A k \in 1 .. j - 1 : vs[k].id # vs[j].id}} \cup fading

LatestVertices == {c.id : c \in {x \in Circles(vertices, Len(vertices)) : x.seq > vertexSequenceEnd}}

\* addTop and addBySubstring, which find no more than there is room for and
\* perhaps nothing; the vicinities of all, of the latest, or of one vertex.
UserOrder ==
  /\ connected
  /\ \E query \in {AtMost(limit), {Vicinity(stored)}, {Vicinity(LatestVertices)}}
                   \cup {{Vicinity({v})} : v \in Shown} :
       Send(query)
  /\ UNCHANGED <<picture, stored, limit, connected, ready, firstTry, autoRefresh>>

-------------------------------------------------------------------------------
(* Removals. *)

\* Faulty variants of Overflowing: one arrival too few is kept; one too many is.
OverflowingTooMany(vs, old, sequence, maximum) ==
  IF Len(vs) > maximum
  THEN {c.id : c \in {x \in Circles(vs, old) : x.seq < sequence - maximum + 2}}
  ELSE {}

OverflowingTooFew(vs, old, sequence, maximum) ==
  IF Len(vs) > maximum
  THEN {c.id : c \in {x \in Circles(vs, old) : x.seq < sequence - maximum}}
  ELSE {}

\* getOverflowingVertices: the circles older than as many arrivals as there may
\* be vertices, when there are more vertices than that.
Overflowing(vs, old, sequence, maximum) ==
  IF Len(vs) > maximum
  THEN {c.id : c \in {x \in Circles(vs, old) : x.seq < sequence - maximum + 1}}
  ELSE {}

\* Faulty variants of RemoveFromCanvas: the references are not renumbered;
\* only outgoing edges are removed.
RemoveFromCanvasKeepingRefs(ids, vs, old, es, refs, eRefs) ==
  /\ vertices' = Filtered(vs, {i \in 1 .. Len(vs) : vs[i].id \notin ids})
  /\ vertexRefs' = [v \in VertexIds |-> IF v \in ids THEN Undefined ELSE refs[v]]
  /\ edges' = Filtered(es, {i \in 1 .. Len(es) : {es[i][1], es[i][2]} \cap ids = {}})
  /\ edgeRefs' = [e \in EdgeIds |-> IF {e[1], e[2]} \cap ids # {} THEN Undefined ELSE eRefs[e]]
  /\ stored' = Ids(vertices')
  /\ fading' = {c \in Circles(vs, old) : c.id \in ids \/ c \in fading}

RemoveFromCanvasOutgoing(ids, vs, old, es, refs, eRefs) ==
  /\ vertices' = Filtered(vs, {i \in 1 .. Len(vs) : vs[i].id \notin ids})
  /\ vertexRefs' = [v \in VertexIds |-> VertexIndex(vertices', v)]
  /\ edges' = Filtered(es, {i \in 1 .. Len(es) : es[i][1] \notin ids})
  /\ edgeRefs' = [e \in EdgeIds |-> EdgeIndex(edges', e)]
  /\ stored' = Ids(vertices')
  /\ fading' = {c \in Circles(vs, old) : c.id \in ids \/ c \in fading}

\* removeVerticesFromCanvas on the arrays vs and es, of which `old' vertices
\* have circles: both are renumbered, the rest is stored.
RemoveFromCanvas(ids, vs, old, es, refs, eRefs) ==
  /\ vertices' = Filtered(vs, {i \in 1 .. Len(vs) : vs[i].id \notin ids})
  /\ vertexRefs' = [v \in VertexIds |->
                      IF v \in Ids(vs) THEN VertexIndex(vertices', v)
                                       ELSE refs[v]]
  /\ edges' = Filtered(es, {i \in 1 .. Len(es) : {es[i][1], es[i][2]} \cap ids = {}})
  /\ edgeRefs' = [e \in EdgeIds |->
                    IF e \in ToSet(es) THEN EdgeIndex(edges', e)
                                       ELSE eRefs[e]]
  /\ stored' = Ids(vertices')
  /\ fading' = {c \in Circles(vs, old) : c.id \in ids \/ c \in fading}

RemoveIds(ids) ==
  /\ RemoveFromCanvas(ids, vertices, Len(vertices), edges, vertexRefs, edgeRefs)
  /\ UNCHANGED <<vertexSequence, vertexSequenceEnd, connected, ready, firstTry, autoRefresh, orders>>

\* The vertices that the user has drawn a rectangle around.
RemoveSelected ==
  /\ \E ids \in SUBSET Shown : RemoveIds(ids)
  /\ UNCHANGED limit

RemoveOrphans ==
  /\ RemoveIds(Shown \ UNION {{e[1], e[2]} : e \in ToSet(edges)})
  /\ UNCHANGED limit

RemoveNonLatest ==
  /\ RemoveIds({c.id : c \in {x \in Circles(vertices, Len(vertices)) : x.seq <= vertexSequenceEnd}})
  /\ UNCHANGED limit

\* The change handler of gp_maxVertexCount, behind the one that keeps the setting.
ChangeLimit(n) ==
  /\ n # limit
  /\ limit' = n
  /\ RemoveIds(Overflowing(vertices, Len(vertices), vertexSequence, n))

\* destroy, but for the order that waits.
ClearCanvas ==
  /\ vertices' = <<>>
  /\ vertexRefs' = [v \in VertexIds |-> Undefined]
  /\ edges' = <<>>
  /\ edgeRefs' = [e \in EdgeIds |-> Undefined]
  /\ fading' = {}
  /\ UNCHANGED <<vertexSequence, vertexSequenceEnd>>

\* removeAllVertices: what is under way is not cancelled, and nothing is ordered.
RemoveAll ==
  /\ stored' = {}
  /\ ClearCanvas
  /\ order' = NoOrder
  /\ UNCHANGED <<limit, connected, ready, firstTry, autoRefresh, coming>>

\* The transition of a removed circle ends.
FadeOut(c) ==
  /\ fading' = fading \ {c}
  /\ UNCHANGED <<vertices, vertexRefs, edges, edgeRefs, vertexSequence, vertexSequenceEnd, stored,
                 limit, connected, ready, firstTry, autoRefresh, orders>>

-------------------------------------------------------------------------------
(* Messages. *)

\* The number of an arrival.
Number(drawn, id) == vertexSequence + SelectInSeq(drawn, LAMBDA v : v = id)

\* A vertex of a message updates the one that its reference points to, or is a
\* new one; what is beyond the limit loses its reference.
Updated(drawn) ==
  [i \in 1 .. Len(vertices) |->
     IF vertices[i].id \in ToSet(drawn) /\ vertexRefs[vertices[i].id] = i
     THEN [vertices[i] EXCEPT !.seq = Number(drawn, vertices[i].id)]
     ELSE vertices[i]]

Fresh(drawn) ==
  LET ids == Filtered(drawn, {i \in 1 .. Len(drawn) : vertexRefs[drawn[i]] = Undefined})
  IN  [k \in 1 .. Len(ids) |-> [id |-> ids[k], seq |-> Number(drawn, ids[k])]]

Arrived(drawn) == Updated(drawn) \o Fresh(drawn)

Referenced(vs, drawn, beyond) ==
  [v \in VertexIds |->
     IF v \in beyond THEN Undefined
     ELSE IF v \in ToSet(drawn) /\ vertexRefs[v] = Undefined THEN VertexIndex(vs, v)
     ELSE vertexRefs[v]]

\* The edges of a message that are not there yet and have both ends referenced.
NewEdges(ids, refs) ==
  {e \in EdgeIds : /\ e[1] \in ids /\ e[2] \in ids \cap Targets[e[1]]
                   /\ edgeRefs[e] = Undefined
                   /\ refs[e[1]] # Undefined /\ refs[e[2]] # Undefined}

\* onmessage with a graph.
Draw(ids) ==
  LET drawn == SubSeq(ids, 1, Min({limit, Len(ids)}))
      vs == Arrived(drawn)
      refs == Referenced(vs, drawn, ToSet(ids) \ ToSet(drawn))
      es == edges \o SetToSeq(NewEdges(ToSet(ids), refs))
      eRefs == [e \in EdgeIds |-> EdgeIndex(es, e)]
      overflow == Overflowing(vs, Len(vertices), vertexSequence + Len(drawn), limit)
  IN  /\ vertexSequence + Len(drawn) <= MAX_SEQUENCE
      /\ vertexSequenceEnd' = vertexSequence
      /\ vertexSequence' = vertexSequence + Len(drawn)
      /\ IF overflow # {}
         THEN RemoveFromCanvas(overflow, vs, Len(vertices), es, refs, eRefs)
         ELSE /\ vertices' = vs
              /\ vertexRefs' = refs
              /\ edges' = es
              /\ edgeRefs' = eRefs
              /\ stored' = Ids(vs)
              /\ UNCHANGED fading

\* Faulty variant of Retry: a query that came too early is forgotten.
RetryNot(query) == UNCHANGED order

\* main.js orders what is not ready yet again, in half a second.
Retry(query) == order' = query

\* The end of onmessage.
Refresh == IF autoRefresh THEN UpdateLater ELSE UNCHANGED order

\* A graph, which is ordered again later when autoRefresh is on; an empty one,
\* with which the handler returns early; or "notready".
Receive ==
  /\ coming # <<>>
  /\ coming' = Tail(coming)
  /\ LET m == Head(coming)
     IN  \/ /\ m.provider = "notready"
            /\ Retry(m.query)
            /\ UNCHANGED <<picture, stored>>
         \/ /\ m.provider = "graph" /\ m.ids = <<>>
            /\ UNCHANGED <<picture, stored, order>>
         \/ /\ m.provider = "graph" /\ m.ids # <<>>
            /\ Draw(m.ids)
            /\ Refresh
  /\ UNCHANGED <<limit, connected, ready, firstTry, autoRefresh>>

-------------------------------------------------------------------------------
(* The connection and the execution. *)

Open ==
  /\ ~ connected
  /\ connected' = TRUE
  /\ firstTry' = TRUE
  /\ UNCHANGED <<picture, stored, limit, ready, autoRefresh, orders>>

Close ==
  /\ connected
  /\ connected' = FALSE
  /\ order' = NoOrder
  /\ coming' = <<>>
  /\ ClearCanvas
  /\ UNCHANGED <<stored, limit, ready, firstTry, autoRefresh>>

\* State.onmessage: the first message on a connection updates the graph; so
\* does one that tells that the execution has begun to run, or has come to rest.
StateMessage(running, resting) ==
  /\ connected
  /\ ~ (running /\ resting)
  /\ firstTry' = FALSE
  /\ autoRefresh' = running
  /\ IF firstTry \/ resting \/ (running /\ ~ autoRefresh) THEN UpdateNow ELSE UNCHANGED orders
  /\ UNCHANGED <<picture, stored, limit, connected, ready>>

BecomeReady ==
  /\ ~ ready
  /\ ready' = TRUE
  /\ UNCHANGED <<picture, stored, limit, connected, firstTry, autoRefresh, orders>>

-------------------------------------------------------------------------------

Next ==
  \/ FireOrder
  \/ UserOrder
  \/ RemoveSelected
  \/ RemoveOrphans
  \/ RemoveNonLatest
  \/ RemoveAll
  \/ \E n \in Limits : ChangeLimit(n)
  \/ \E c \in fading : FadeOut(c)
  \/ Receive
  \/ Open
  \/ Close
  \/ \E running, resting \in BOOLEAN : StateMessage(running, resting)
  \/ BecomeReady

Spec == Init /\ [][Next]_vars

-------------------------------------------------------------------------------

\* The tables say exactly where every vertex and every edge is in its array, so
\* an id is never on the canvas twice.  (A message with more vertices than the
\* limit drops the references of the rest, shown or not: those that are shown
\* are always among the ones it evicts.)
TablesExact ==
  /\ \A v \in VertexIds : vertexRefs[v] # Undefined => vertices[vertexRefs[v]].id = v
  /\ \A i \in 1 .. Len(vertices) : vertexRefs[vertices[i].id] = i
  /\ \A e \in EdgeIds : edgeRefs[e] # Undefined => edges[edgeRefs[e]] = e
  /\ \A i \in 1 .. Len(edges) : edgeRefs[edges[i]] = i

\* No edge is drawn to a vertex that has been removed, be it by the user, by
\* the limit or with the connection.
EdgesJoinShown == \A i \in 1 .. Len(edges) : {edges[i][1], edges[i][2]} \subseteq Shown

\* The canvas never keeps more vertices than the user allows, whatever a message
\* brings and whenever the limit is changed.
WithinLimit == Len(vertices) <= limit

\* A vertex that has just arrived is not evicted as an old one, unless a circle
\* that the same id had before is still fading from the canvas: evictions are
\* read from the circles in the page.
ArrivedStays ==
  [][vertexSequence' > vertexSequence =>
       \A k \in 1 .. vertexSequence' - vertexSequence :
          LET v == Head(coming).ids[k]
          IN  v \in Ids(vertices') \/ v \in {c.id : c \in fading}]_vars

Refreshing == connected /\ autoRefresh /\ stored # {} /\ (order # NoOrder \/ coming # <<>>)

\* While the execution runs, with vertices to show, the graph goes on being
\* ordered through retries, removals and orders of the user's own; the one
\* thing that ends it is an answer without vertices.
RefreshEndsByEmptyAnswer ==
  [][Refreshing /\ ~ Refreshing' =>
       \/ ~ connected' \/ ~ autoRefresh' \/ stored' = {}
       \/ /\ Head(coming).provider = "graph" /\ Head(coming).ids = <<>>
          /\ coming' = Tail(coming)]_vars
===============================================================================
