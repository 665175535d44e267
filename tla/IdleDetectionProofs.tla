-------------------------- MODULE IdleDetectionProofs --------------------------
(***************************************************************************)
(* awaitIdle never returns early, for any number of workers, any program   *)
(* of the driving thread and any number of signals.                        *)
(*                                                                         *)
(* The first part is about sums over finite sets.  The provers cannot      *)
(* instantiate the induction theorems of the library, which take an        *)
(* operator: the two induction lemmas below take the set of what is good   *)
(* instead, and rest on WFMin, that a well-founded order has minima.       *)
(***************************************************************************)
EXTENDS IdleDetection, FiniteSetTheorems, SequenceTheorems, WellFoundedInduction, TLAPS

(* Induction, and sums over a finite set. *)

\* A set is good if every subset of it is good whose own subsets are.
LEMMA FiniteInduction ==
  ASSUME NEW S, IsFiniteSet(S), NEW Good,
         \A T \in SUBSET S : (\A U \in SUBSET T : U # T => U \in Good) => T \in Good
  PROVE  S \in Good
  <1> SUFFICES ASSUME S \notin Good PROVE FALSE
    OBVIOUS
  <1> DEFINE Bad == {T \in SUBSET S : T \notin Good}
  <1>1. FiniteSubsetsOf(S) = SUBSET S
    BY FS_Subset DEF FiniteSubsetsOf
  <1>2. IsWellFoundedOn(StrictSubsetOrdering(S), FiniteSubsetsOf(S))
    BY FS_StrictSubsetOrderingWellFounded
  <1>3. PICK T \in Bad : \A U \in Bad : ~ (<<U, T>> \in StrictSubsetOrdering(S))
    <2>1. Bad \subseteq FiniteSubsetsOf(S) /\ Bad # {}
      BY <1>1
    <2> HIDE DEF Bad
    <2> QED BY <2>1, <1>2, WFMin
  <1>4. \A U \in SUBSET T : U # T => U \in Good
    BY <1>3 DEF StrictSubsetOrdering
  <1> QED BY <1>3, <1>4

NatLess == OpToRel(<, Nat)

LEMMA NatSetInduction ==
  ASSUME NEW Good, 0 \in Good, \A n \in Nat : n \in Good => n + 1 \in Good
  PROVE  Nat \subseteq Good
  <1> SUFFICES ASSUME ~ (Nat \subseteq Good) PROVE FALSE
    OBVIOUS
  <1> DEFINE Bad == {n \in Nat : n \notin Good}
  <1>1. IsWellFoundedOn(NatLess, Nat)
    BY NatLessThanWellFounded DEF NatLess
  <1>2. PICK n \in Bad : \A m \in Bad : ~ (<<m, n>> \in NatLess)
    <2>1. Bad \subseteq Nat /\ Bad # {}
      OBVIOUS
    <2> HIDE DEF Bad
    <2> QED BY <2>1, <1>1, WFMin
  <1>3. n # 0 /\ n - 1 \in Nat /\ n - 1 < n
    OBVIOUS
  <1>4. <<n - 1, n>> \in NatLess
    BY <1>3 DEF NatLess, OpToRel
  <1>5. n - 1 \in Good
    BY <1>2, <1>3, <1>4
  <1> QED BY <1>2, <1>3, <1>5

Pick(s) == CHOOSE x \in s : TRUE

\* What the fold behind SumFunction computes for every subset of S.
AddsUp(iter, f, S) ==
  iter = [s \in SUBSET S |-> IF s = {} THEN 0 ELSE f[Pick(s)] + iter[s \ {Pick(s)}]]

LEMMA PickOne == \A s : s # {} => Pick(s) \in s
  BY DEF Pick

\* The fold is defined, by induction on the cardinality of the subsets.
LEMMA SumExists ==
  ASSUME NEW S, IsFiniteSet(S), NEW f
  PROVE  \E iter : AddsUp(iter, f, S)
  <1> DEFINE Small(n) == {s \in SUBSET S : Cardinality(s) <= n}
             Sum(g, s) == IF s = {} THEN 0 ELSE f[Pick(s)] + g[s \ {Pick(s)}]
             Good == {n \in Nat : \E g : g = [s \in Small(n) |-> Sum(g, s)]}
  <1>0. \A s \in SUBSET S : IsFiniteSet(s) /\ Cardinality(s) \in Nat
    BY FS_Subset, FS_CardinalityType
  <1>1. \A n \in Nat : \A s \in Small(n + 1) : s # {} => s \ {Pick(s)} \in Small(n)
    BY <1>0, PickOne, FS_RemoveElement
  <1>2. 0 \in Good
    <2>1. Small(0) = {{}}
      BY <1>0, FS_EmptySet
    <2> DEFINE g == [s \in Small(0) |-> 0]
    <2>2. g = [s \in Small(0) |-> Sum(g, s)]
      BY <2>1
    <2> QED BY <2>2
  <1>3. ASSUME NEW n \in Nat, n \in Good PROVE n + 1 \in Good
    <2>1. PICK g : g = [s \in Small(n) |-> Sum(g, s)]
      BY <1>3
    <2> DEFINE h == [s \in Small(n + 1) |-> Sum(g, s)]
    <2>2. Small(n) \subseteq Small(n + 1)
      BY <1>0
    <2>3. \A s \in Small(n) : h[s] = g[s]
      BY <2>1, <2>2
    <2>4. \A s \in Small(n + 1) : Sum(g, s) = Sum(h, s)
      BY <2>3, <1>1
    <2>5. h = [s \in Small(n + 1) |-> Sum(h, s)]
      BY <2>4
    <2> HIDE DEF h, Sum, Small
    <2> QED BY <2>5
  <1>4. Cardinality(S) \in Good
    <2> HIDE DEF Good
    <2>1. \A n \in Nat : n \in Good => n + 1 \in Good
      BY <1>3
    <2>2. Nat \subseteq Good
      BY <1>2, <2>1, NatSetInduction
    <2> QED BY <1>0, <2>2
  <1>5. Small(Cardinality(S)) = SUBSET S
    BY FS_Subset
  <1>6. PICK g : g = [s \in Small(Cardinality(S)) |-> Sum(g, s)]
    BY <1>4
  <1>7. AddsUp(g, f, S)
    BY <1>5, <1>6 DEF AddsUp
  <1> QED BY <1>7

LEMMA SumUnfold ==
  ASSUME NEW S, IsFiniteSet(S), NEW f
  PROVE  \E iter : AddsUp(iter, f, S) /\ SumFunctionOnSet(f, S) = iter[S]
  <1>1. SumFunctionOnSet(f, S) =
          (CHOOSE iter : iter = [s \in SUBSET S |->
             IF s = {} THEN 0
             ELSE f[CHOOSE x \in s : TRUE] + iter[s \ {CHOOSE x \in s : TRUE}]])[S]
    BY DEF SumFunctionOnSet, FoldFunctionOnSet, MapThenFoldSet
  <1>2. SumFunctionOnSet(f, S) = (CHOOSE iter : AddsUp(iter, f, S))[S]
    BY <1>1 DEF AddsUp, Pick
  <1> QED BY <1>2, SumExists

\* The fold, whatever the order in which it takes the elements.
Totals(iter, f, S) ==
  /\ iter \in [SUBSET S -> Int]
  /\ iter[{}] = 0
  /\ \A s \in SUBSET S : \A x \in s : iter[s] = f[x] + iter[s \ {x}]

LEMMA TotalOf ==
  ASSUME NEW S, IsFiniteSet(S), NEW f \in [S -> Int]
  PROVE  \E iter : Totals(iter, f, S) /\ SumFunction(f) = iter[S]
  <1>1. PICK iter : AddsUp(iter, f, S) /\ SumFunctionOnSet(f, S) = iter[S]
    BY SumUnfold
  <1> DEFINE Good == {s \in SUBSET S : /\ iter[s] \in Int
                                       /\ \A x \in s : iter[s] = f[x] + iter[s \ {x}]}
  <1>2. iter[{}] = 0
    BY <1>1 DEF AddsUp
  <1>9. ASSUME NEW T \in SUBSET S, T # {}
        PROVE  Pick(T) \in T /\ iter[T] = f[Pick(T)] + iter[T \ {Pick(T)}]
    BY <1>1, <1>9, PickOne DEF AddsUp
  <1>3. ASSUME NEW T \in SUBSET S, \A U \in SUBSET T : U # T => U \in Good
        PROVE  T \in Good
    <2>1. CASE T = {}
      BY <2>1, <1>2
    <2>2. CASE T # {}
      <3> DEFINE p == Pick(T)
      <3>1. p \in T /\ iter[T] = f[p] + iter[T \ {p}]
        BY <2>2, <1>9
      <3>2. T \ {p} \in Good
        BY <3>1, <1>3
      <3>3. iter[T \ {p}] \in Int /\ f[p] \in Int
        BY <3>1, <3>2
      <3>4. ASSUME NEW x \in T PROVE iter[T] = f[x] + iter[T \ {x}]
        <4>1. CASE x = p
          BY <4>1, <3>1
        <4>2. CASE x # p
          <5>1. T \ {x} \in Good /\ (T \ {p}) \ {x} = (T \ {x}) \ {p}
            BY <1>3
          <5>2. x \in T \ {p} /\ p \in T \ {x}
            BY <4>2, <3>1
          <5> DEFINE both == (T \ {p}) \ {x}
          <5>3. iter[T \ {p}] = f[x] + iter[both]
            BY <5>2, <3>2
          <5>4. iter[T \ {x}] = f[p] + iter[both]
            BY <5>1, <5>2
          <5>5. both \in Good
            BY <3>1, <1>3
          <5>6. f[x] \in Int /\ iter[both] \in Int
            BY <5>5
          <5> HIDE DEF p, Good, both
          <5> QED BY <5>3, <5>4, <5>6, <3>1, <3>3
        <4> QED BY <4>1, <4>2
      <3>5. iter[T] \in Int
        BY <3>1, <3>3
      <3> QED BY <3>4, <3>5
    <2> QED BY <2>1, <2>2
  <1>4. \A s \in SUBSET S : s \in Good
    <2> TAKE s \in SUBSET S
    <2>1. IsFiniteSet(s)
      BY FS_Subset
    <2>2. \A T \in SUBSET s : (\A U \in SUBSET T : U # T => U \in Good) => T \in Good
      BY <1>3
    <2> HIDE DEF Good
    <2> QED BY <2>1, <2>2, FiniteInduction
  <1>6. iter \in [SUBSET S -> Int]
    BY <1>1, <1>4 DEF AddsUp
  <1>7. SumFunction(f) = iter[S]
    BY <1>1 DEF SumFunction
  <1>8. Totals(iter, f, S)
    BY <1>2, <1>4, <1>6 DEF Totals
  <1> QED BY <1>7, <1>8

\* A sum is a number.
LEMMA SumInt ==
  ASSUME NEW S, IsFiniteSet(S), NEW f \in [S -> Int]
  PROVE  SumFunction(f) \in Int
  <1>1. PICK iter : Totals(iter, f, S) /\ SumFunction(f) = iter[S]
    BY TotalOf
  <1> QED BY <1>1 DEF Totals

\* Two sums differ by what their functions differ by at one place.
LEMMA SumChange ==
  ASSUME NEW S, IsFiniteSet(S), NEW f \in [S -> Int], NEW g \in [S -> Int],
         NEW w \in S, \A x \in S \ {w} : f[x] = g[x]
  PROVE  SumFunction(g) = SumFunction(f) + (g[w] - f[w])
  <1>1. PICK F : Totals(F, f, S) /\ SumFunction(f) = F[S]
    BY TotalOf
  <1>2. PICK G : Totals(G, g, S) /\ SumFunction(g) = G[S]
    BY TotalOf
  <1> DEFINE R == S \ {w}
             Good == {s \in SUBSET R : F[s] = G[s]}
  <1>3. ASSUME NEW T \in SUBSET R, \A U \in SUBSET T : U # T => U \in Good
        PROVE  T \in Good
    <2>1. CASE T = {}
      BY <2>1, <1>1, <1>2 DEF Totals
    <2>2. CASE T # {}
      <3>1. PICK x \in T : TRUE
        BY <2>2
      <3>2. T \ {x} \in Good
        BY <3>1, <1>3
      <3>3. F[T] = f[x] + F[T \ {x}]
        BY <3>1, <1>1 DEF Totals
      <3>4. G[T] = g[x] + G[T \ {x}]
        BY <3>1, <1>2 DEF Totals
      <3>5. f[x] = g[x]
        OBVIOUS
      <3> QED BY <3>2, <3>3, <3>4, <3>5
    <2> QED BY <2>1, <2>2
  <1>4. R \in Good
    <2>1. IsFiniteSet(R)
      BY FS_Subset
    <2>2. \A T \in SUBSET R : (\A U \in SUBSET T : U # T => U \in Good) => T \in Good
      BY <1>3
    <2> HIDE DEF Good, R
    <2> QED BY <2>1, <2>2, FiniteInduction
  <1>5. F[S] = f[w] + F[R] /\ G[S] = g[w] + G[R]
    BY <1>1, <1>2 DEF Totals
  <1>6. F[R] = G[R] /\ F[R] \in Int /\ f[w] \in Int /\ g[w] \in Int
    BY <1>1, <1>4 DEF Totals
  <1> HIDE DEF R, Good
  <1> QED BY <1>1, <1>2, <1>5, <1>6

\* Sums are ordered like their functions; equal sums of ordered functions are
\* sums of equal functions.
LEMMA SumOrder ==
  ASSUME NEW S, IsFiniteSet(S), NEW f \in [S -> Int], NEW g \in [S -> Int],
         \A x \in S : f[x] <= g[x]
  PROVE  /\ SumFunction(f) <= SumFunction(g)
         /\ SumFunction(f) = SumFunction(g) => \A x \in S : f[x] = g[x]
  <1>1. PICK F : Totals(F, f, S) /\ SumFunction(f) = F[S]
    BY TotalOf
  <1>2. PICK G : Totals(G, g, S) /\ SumFunction(g) = G[S]
    BY TotalOf
  <1> DEFINE Good == {s \in SUBSET S : /\ F[s] <= G[s]
                                       /\ F[s] = G[s] => \A x \in s : f[x] = g[x]}
  <1>3. ASSUME NEW T \in SUBSET S, \A U \in SUBSET T : U # T => U \in Good
        PROVE  T \in Good
    <2>1. CASE T = {}
      BY <2>1, <1>1, <1>2 DEF Totals
    <2>2. CASE T # {}
      <3>1. ASSUME NEW x \in T
            PROVE  F[T] <= G[T] /\ (F[T] = G[T] => f[x] = g[x])
        <4>1. T \ {x} \in Good
          BY <1>3
        <4>2. F[T] = f[x] + F[T \ {x}] /\ F[T \ {x}] \in Int
          BY <1>1 DEF Totals
        <4>3. G[T] = g[x] + G[T \ {x}] /\ G[T \ {x}] \in Int
          BY <1>2 DEF Totals
        <4>4. f[x] <= g[x] /\ f[x] \in Int /\ g[x] \in Int
          OBVIOUS
        <4>5. F[T \ {x}] <= G[T \ {x}]
          BY <4>1
        <4> HIDE DEF Good
        <4> QED BY <4>2, <4>3, <4>4, <4>5
      <3> QED BY <2>2, <3>1
    <2> QED BY <2>1, <2>2
  <1>4. S \in Good
    <2>1. \A T \in SUBSET S : (\A U \in SUBSET T : U # T => U \in Good) => T \in Good
      BY <1>3
    <2> HIDE DEF Good
    <2> QED BY <2>1, FiniteInduction
  <1> QED BY <1>1, <1>2, <1>4

\* A sum of zeros, and of ones.
LEMMA SumConstant ==
  ASSUME NEW S, IsFiniteSet(S), NEW k \in {0, 1}
  PROVE  SumFunction([x \in S |-> k]) = k * Cardinality(S)
  <1> DEFINE f == [x \in S |-> k]
  <1>1. PICK F : Totals(F, f, S) /\ SumFunction(f) = F[S]
    BY TotalOf
  <1> DEFINE Good == {s \in SUBSET S : F[s] = k * Cardinality(s)}
  <1>2. ASSUME NEW T \in SUBSET S, \A U \in SUBSET T : U # T => U \in Good
        PROVE  T \in Good
    <2>1. CASE T = {}
      <3>1. F[T] = 0 /\ Cardinality(T) = 0
        BY <2>1, <1>1, FS_EmptySet DEF Totals
      <3> QED BY <3>1
    <2>2. CASE T # {}
      <3>1. PICK x \in T : TRUE
        BY <2>2
      <3>2. T \ {x} \in Good
        BY <3>1, <1>2
      <3>3. F[T] = f[x] + F[T \ {x}]
        BY <3>1, <1>1 DEF Totals
      <3>4. f[x] = k
        OBVIOUS
      <3>5. IsFiniteSet(T)
        BY FS_Subset
      <3>6. Cardinality(T \ {x}) = Cardinality(T) - 1 /\ Cardinality(T) \in Nat
        BY <3>1, <3>5, FS_RemoveElement, FS_CardinalityType
      <3>7. F[T \ {x}] = k * (Cardinality(T) - 1)
        BY <3>2, <3>6
      <3> DEFINE c == Cardinality(T)
      <3>8. F[T] = k + k * (c - 1) /\ c \in Nat
        BY <3>3, <3>4, <3>6, <3>7
      <3> HIDE DEF c
      <3>9. F[T] = k * c
        BY <3>8
      <3> QED BY <3>9 DEF c
    <2> QED BY <2>1, <2>2
  <1>3. S \in Good
    <2>1. \A T \in SUBSET S : (\A U \in SUBSET T : U # T => U \in Good) => T \in Good
      BY <1>2
    <2> HIDE DEF Good
    <2> QED BY <2>1, FiniteInduction
  <1> QED BY <1>1, <1>3

(* Queues. *)

Elements(q) == {q[i] : i \in 1 .. Len(q)}

LEMMA NoElements == \A S : << >> \in Seq(S) /\ Len(<< >>) = 0 /\ Elements(<< >>) = {}
  <1>1. \A S : << >> \in Seq(S) /\ Len(<< >>) = 0
    BY EmptySeq
  <1> QED BY <1>1 DEF Elements

LEMMA OneElement ==
  ASSUME NEW S, NEW e \in S
  PROVE  <<e>> \in Seq(S) /\ Len(<<e>>) = 1 /\ Elements(<<e>>) = {e}
  BY DEF Elements

LEMMA JoinedElements ==
  ASSUME NEW S, NEW q \in Seq(S), NEW r \in Seq(S)
  PROVE  q \o r \in Seq(S) /\ Elements(q \o r) \subseteq Elements(q) \cup Elements(r)
  <1>1. /\ q \o r \in Seq(S)
        /\ Len(q) \in Nat /\ Len(r) \in Nat
        /\ Len(q \o r) = Len(q) + Len(r)
        /\ \A i \in 1 .. Len(q) + Len(r) :
             (q \o r)[i] = IF i <= Len(q) THEN q[i] ELSE r[i - Len(q)]
    BY ConcatProperties, LenProperties
  <1> QED BY <1>1 DEF Elements

LEMMA AppendedElement ==
  ASSUME NEW S, NEW q \in Seq(S), NEW e \in S
  PROVE  /\ Append(q, e) \in Seq(S) /\ Elements(Append(q, e)) = Elements(q) \cup {e}
         /\ Len(Append(q, e)) = Len(q) + 1 /\ Len(q) \in Nat
         /\ Append(q, e)[Len(q) + 1] = e
         /\ \A i \in 1 .. Len(q) : Append(q, e)[i] = q[i]
  <1>1. /\ Append(q, e) \in Seq(S)
        /\ Len(q) \in Nat /\ Len(Append(q, e)) = Len(q) + 1
        /\ Append(q, e)[Len(q) + 1] = e
        /\ \A i \in 1 .. Len(q) : Append(q, e)[i] = q[i]
    BY AppendProperties, LenProperties
  <1> QED BY <1>1 DEF Elements

LEMMA TakenElement ==
  ASSUME NEW S, NEW q \in Seq(S), q # << >>
  PROVE  /\ Head(q) \in S /\ Head(q) \in Elements(q) /\ Head(q) = q[1]
         /\ Tail(q) \in Seq(S) /\ Elements(Tail(q)) \subseteq Elements(q)
         /\ Len(q) \in Nat \ {0} /\ Len(Tail(q)) = Len(q) - 1
         /\ \A i \in 1 .. Len(q) - 1 : Tail(q)[i] = q[i + 1]
  <1>1. Len(q) \in Nat \ {0}
    BY LenProperties, EmptySeq
  <1>2. /\ Tail(q) \in Seq(S) /\ Head(q) \in S /\ Len(Tail(q)) = Len(q) - 1
        /\ Head(q) = q[1]
        /\ \A i \in 1 .. Len(Tail(q)) : Tail(q)[i] = q[i + 1]
    BY HeadTailProperties
  <1> QED BY <1>1, <1>2 DEF Elements

LEMMA ElementsTyped ==
  ASSUME NEW S, NEW q \in Seq(S)
  PROVE  Elements(q) \subseteq S
  BY ElementOfSeq DEF Elements

(* What the variables hold. *)

Flags == [Workers -> BOOLEAN]
WorkersTyped ==
  /\ isIdle \in Flags /\ isPaused \in Flags /\ operationsScheduled \in Flags
  /\ allWorkDoneWhenContinueSent \in Flags /\ isIdleDetectionEnabled \in Flags
  /\ toCollect \in Flags /\ toSignal \in Flags /\ flushed \in Flags
  /\ sent \in [Workers -> [Workers -> Nat]]
  /\ replies \in [Workers -> Nat] /\ counted \in [Workers -> Nat]
  /\ signals \in [Workers -> Nat]
  /\ statuses \in [Workers -> Seq(Status)]
  /\ calls \in [Workers -> Seq(Requests \cup {"addVertex"})]

\* No worker sends, and none finds in its mailbox, more than MAX_SIGNALS.
BudgetInv ==
  /\ budget \in Nat
  /\ \A w, u \in Workers : sent[w][u] + budget <= MAX_SIGNALS
  /\ \A w \in Workers : signals[w] + budget <= MAX_SIGNALS
  /\ budget <= MAX_SIGNALS

SelfMessages == [type : {"BulkStatus"}, fromWorkers : Statuses]
                \cup [type : {"IdleReportRequested"}, allIdle : BOOLEAN]

NodeTyped ==
  /\ onNode \in Statuses /\ mostRecent \in Statuses /\ unreported \in Statuses
  /\ selfMessages \in Seq(SelfMessages)
  /\ forwarded \subseteq Workers
  /\ nodeReported \in BOOLEAN /\ pending \in BOOLEAN
  /\ superseded \in BOOLEAN /\ treeReported \in BOOLEAN

CoordinatorTyped ==
  /\ workerStatus \in Statuses
  /\ reports \in Seq(Statuses)
  /\ onIdle \in {"none", "asked", "registered", "answered"}

Quiet(w) == isPaused[w] \/ (~ toCollect[w] /\ ~ toSignal[w])

(* A turn of a worker: what ReceiveSignal, ReceiveCall, Operate and PutOff *)
(* have in common.                                                         *)

\* The statuses that a worker announces say what it has counted; one that is
\* idle, with all replies, comes from a quiet worker.
Honest(a, w) ==
  \A s \in Elements(a) :
    /\ s.counted = counted'[w] /\ s.sent = sent'[w] /\ s.replies <= replies'[w]
    /\ s.idle /\ s.replies = replies'[w] => ~ operationsScheduled'[w] /\ Quiet(w)'

Announced(w) ==
  \E a \in Seq(Status) : statuses' = [statuses EXCEPT ![w] = statuses[w] \o a] /\ Honest(a, w)

\* One call or signal is received, or the scheduled operations are.
Received(w) ==
  \/ /\ signals[w] + Len(calls[w]) > 0
     /\ counted' = [counted EXCEPT ![w] = counted[w] + 1]
  \/ /\ operationsScheduled[w]
     /\ UNCHANGED <<counted, calls, replies, replied>>

\* Only a request is replied to.
Answered(w) ==
  \/ UNCHANGED <<calls, replies, replied>>
  \/ /\ calls[w] # << >> /\ Head(calls[w]) \notin Requests
     /\ calls' = [calls EXCEPT ![w] = Tail(calls[w])]
     /\ UNCHANGED <<replies, replied>>
  \/ /\ calls[w] # << >> /\ Head(calls[w]) \in Requests
     /\ calls' = [calls EXCEPT ![w] = Tail(calls[w])]
     /\ replies' = [replies EXCEPT ![w] = replies[w] + 1]
     /\ replied' = replied \cup {w}

\* Some vertices are signalled.
Sent(w, number) ==
  /\ sent' = [sent EXCEPT ![w] = [u \in Workers |-> sent[w][u] + number[u]]]
  /\ budget' \in Nat /\ \A u \in Workers : budget' + number[u] <= budget
  /\ budget' <= budget
  /\ \A u \in Workers \ {w} : signals'[u] = signals[u] + number[u]
  /\ counted'[w] + signals'[w] + Len(calls'[w])
       = counted[w] + signals[w] + Len(calls[w]) + number[w]
  /\ signals'[w] <= signals[w] + number[w]

Turn(w) ==
  /\ WorkersTyped'
  /\ Announced(w) /\ Received(w) /\ Answered(w)
  /\ \E number \in [Workers -> 0 .. 1] : Sent(w, number)
  /\ \A u \in Workers \ {w} :
       /\ isPaused'[u] = isPaused[u] /\ operationsScheduled'[u] = operationsScheduled[u]
       /\ toCollect'[u] = toCollect[u] /\ toSignal'[u] = toSignal[u]
  /\ UNCHANGED <<nodeVars, reports, coordinatorVars, position, waiting, callsSent,
                 callsAnswered>>

\* scheduleOperations and what precedes it.
LEMMA Scheduling ==
  ASSUME WorkersTyped, NEW w \in Workers, NEW first \in Seq(Status), Len(first) <= 1,
         ScheduleUnlessScheduled(w, first),
         sent' \in [Workers -> [Workers -> Nat]], counted' \in [Workers -> Nat],
         replies' \in [Workers -> Nat],
         isPaused' \in Flags, toCollect' \in Flags, toSignal' \in Flags, flushed' \in Flags,
         isIdleDetectionEnabled' \in Flags,
         \A s \in Elements(first) :
           s.counted = counted'[w] /\ s.sent = sent'[w] /\ s.replies < replies'[w]
  PROVE  /\ Announced(w)
         /\ isIdle' \in Flags /\ operationsScheduled' \in Flags
         /\ allWorkDoneWhenContinueSent' \in Flags
         /\ statuses' \in [Workers -> Seq(Status)]
         /\ \A u \in Workers \ {w} : operationsScheduled'[u] = operationsScheduled[u]
  <1> DEFINE busy == StatusNow(w, FALSE)
  <1>1. busy \in Status /\ busy.counted = counted'[w] /\ busy.sent = sent'[w]
        /\ busy.replies = replies'[w] /\ ~ busy.idle
    BY DEF StatusNow, Status
  <1>2. statuses[w] \in Seq(Status) /\ statuses \in [Workers -> Seq(Status)]
    BY DEF WorkersTyped
  <1>3. ASSUME operationsScheduled[w]
        PROVE  /\ statuses' = [statuses EXCEPT ![w] = statuses[w] \o first]
               /\ Honest(first, w)
               /\ UNCHANGED <<isIdle, allWorkDoneWhenContinueSent, operationsScheduled>>
    <2>1. \A s \in Elements(first) : s.replies \in Nat
      BY ElementsTyped DEF Status
    <2> QED BY <1>3, <2>1 DEF ScheduleUnlessScheduled, Announce, Honest
  <1>4. ASSUME ~ operationsScheduled[w]
        PROVE  \E a \in Seq(Status) :
                 /\ statuses' = [statuses EXCEPT ![w] = statuses[w] \o a]
                 /\ Honest(a, w)
    <2> DEFINE then == Announcement(w, FALSE)
               a == first \o then
    <2>1. then \in Seq(Status) /\ Elements(then) \subseteq {busy}
      <3>1. then = <<busy>> \/ then = << >>
        BY DEF Announcement
      <3>2. <<busy>> \in Seq(Status) /\ Elements(<<busy>>) = {busy}
        BY <1>1, OneElement
      <3> HIDE DEF busy, then
      <3> QED BY <3>1, <3>2, NoElements
    <2>2. statuses' = [statuses EXCEPT ![w] = statuses[w] \o a]
      BY <1>4 DEF ScheduleUnlessScheduled, ScheduleOperations, Announce
    <2> HIDE DEF then, busy
    <2>3. a \in Seq(Status) /\ Elements(a) \subseteq Elements(first) \cup {busy}
      BY <2>1, JoinedElements
    <2>4. \A s \in Elements(first) : s.replies \in Nat
      BY ElementsTyped DEF Status
    <2>5. replies'[w] \in Nat
      OBVIOUS
    <2>6. Honest(a, w)
      BY <1>1, <2>3, <2>4, <2>5 DEF Honest
    <2> QED BY <2>2, <2>3, <2>6
  <1>5. Announced(w)
    BY <1>3, <1>4 DEF Announced
  <1>6. statuses' \in [Workers -> Seq(Status)]
    <2>1. PICK a \in Seq(Status) : statuses' = [statuses EXCEPT ![w] = statuses[w] \o a]
      BY <1>5 DEF Announced
    <2>2. statuses[w] \o a \in Seq(Status)
      BY <1>2, JoinedElements
    <2> QED BY <1>2, <2>1, <2>2
  <1>7. /\ isIdle' \in Flags /\ operationsScheduled' \in Flags
        /\ allWorkDoneWhenContinueSent' \in Flags
        /\ \A u \in Workers \ {w} : operationsScheduled'[u] = operationsScheduled[u]
    <2>1. CASE operationsScheduled[w]
      <3>1. isIdle' = isIdle /\ allWorkDoneWhenContinueSent' = allWorkDoneWhenContinueSent
            /\ operationsScheduled' = operationsScheduled
        BY <2>1, <1>3
      <3> QED BY <3>1 DEF WorkersTyped
    <2>2. CASE ~ operationsScheduled[w]
      <3>1. AllWorkDone(w) \in BOOLEAN
        BY DEF AllWorkDone
      <3> QED
        BY <2>2, <3>1 DEF ScheduleUnlessScheduled, ScheduleOperations, WorkersTyped, Flags
    <2> QED BY <2>1, <2>2
  <1> QED BY <1>5, <1>6, <1>7

\* The same for an operation that schedules the next one.
LEMMA SchedulingAgain ==
  ASSUME WorkersTyped, NEW w \in Workers, ScheduleOperations(w, << >>),
         sent' \in [Workers -> [Workers -> Nat]], counted' \in [Workers -> Nat],
         replies' \in [Workers -> Nat],
         isPaused' \in Flags, toCollect' \in Flags, toSignal' \in Flags, flushed' \in Flags,
         isIdleDetectionEnabled' \in Flags
  PROVE  /\ Announced(w)
         /\ isIdle' \in Flags /\ operationsScheduled' \in Flags
         /\ allWorkDoneWhenContinueSent' \in Flags
         /\ statuses' \in [Workers -> Seq(Status)]
         /\ \A u \in Workers \ {w} : operationsScheduled'[u] = operationsScheduled[u]
  <1> DEFINE busy == StatusNow(w, FALSE)
             then == Announcement(w, FALSE)
  <1>1. busy \in Status /\ busy.counted = counted'[w] /\ busy.sent = sent'[w]
        /\ busy.replies = replies'[w] /\ ~ busy.idle
    BY DEF StatusNow, Status
  <1>2. statuses[w] \in Seq(Status) /\ statuses \in [Workers -> Seq(Status)]
    BY DEF WorkersTyped
  <1>3. then \in Seq(Status) /\ Elements(then) \subseteq {busy}
    <2>1. then = <<busy>> \/ then = << >>
      BY DEF Announcement
    <2>2. <<busy>> \in Seq(Status) /\ Elements(<<busy>>) = {busy}
      BY <1>1, OneElement
    <2> HIDE DEF busy, then
    <2> QED BY <2>1, <2>2, NoElements
  <1>4. statuses' = [statuses EXCEPT ![w] = statuses[w] \o (<< >> \o then)]
    BY DEF ScheduleOperations, Announce
  <1>5. /\ isIdle' \in Flags /\ operationsScheduled' \in Flags
        /\ allWorkDoneWhenContinueSent' \in Flags
        /\ \A u \in Workers \ {w} : operationsScheduled'[u] = operationsScheduled[u]
    <2>1. AllWorkDone(w) \in BOOLEAN
      BY DEF AllWorkDone
    <2> QED BY <2>1 DEF ScheduleOperations, WorkersTyped, Flags
  <1> HIDE DEF busy, then
  <1>6. << >> \o then = then
    BY <1>3, ConcatEmptySeq
  <1>7. replies'[w] \in Nat
    OBVIOUS
  <1>8. Honest(then, w)
    BY <1>1, <1>3, <1>7 DEF Honest
  <1>9. statuses[w] \o then \in Seq(Status)
    BY <1>2, <1>3, JoinedElements
  <1> QED
    BY <1>2, <1>3, <1>4, <1>5, <1>6, <1>8, <1>9 DEF Announced

\* The vertices send within the budget.
LEMMA Signalling ==
  ASSUME WorkersTyped, BudgetInv, NEW w \in Workers, SendSignals(w)
  PROVE  \E number \in [Workers -> 0 .. 1] :
           /\ sent' = [sent EXCEPT ![w] = [u \in Workers |-> sent[w][u] + number[u]]]
           /\ signals' = [u \in Workers |-> signals[u] + number[u]]
           /\ budget' \in Nat /\ \A u \in Workers : budget' + number[u] <= budget
           /\ budget' <= budget
  <1>1. PICK targets \in SUBSET Workers :
          /\ Cardinality(targets) <= budget
          /\ sent' = [sent EXCEPT ![w] =
               [u \in Workers |-> sent[w][u] + IF u \in targets THEN 1 ELSE 0]]
          /\ signals' = [u \in Workers |-> signals[u] + IF u \in targets THEN 1 ELSE 0]
          /\ budget' = budget - Cardinality(targets)
    BY DEF SendSignals, WorkersTyped
  <1> DEFINE number == [u \in Workers |-> IF u \in targets THEN 1 ELSE 0]
  <1>2. Cardinality(targets) \in Nat /\ IsFiniteSet(targets)
    BY FS_Subset, FS_CardinalityType, WorkersAssumption
  <1>3. \A u \in targets : Cardinality(targets) >= 1
    BY <1>2, FS_EmptySet
  <1>4. budget' \in Nat /\ budget' <= budget
        /\ \A u \in Workers : budget' + number[u] <= budget
    BY <1>1, <1>2, <1>3 DEF BudgetInv
  <1>5. number \in [Workers -> 0 .. 1]
    OBVIOUS
  <1>6. sent' = [sent EXCEPT ![w] = [u \in Workers |-> sent[w][u] + number[u]]]
    BY <1>1
  <1>7. signals' = [u \in Workers |-> signals[u] + number[u]]
    BY <1>1
  <1> HIDE DEF number
  <1> QED BY <1>4, <1>5, <1>6, <1>7

\* Nothing is sent.
LEMMA Silence ==
  ASSUME WorkersTyped, BudgetInv, NEW w \in Workers, UNCHANGED <<sent, budget>>,
         signals' \in [Workers -> Nat], \A u \in Workers \ {w} : signals'[u] = signals[u],
         counted'[w] + signals'[w] + Len(calls'[w])
           = counted[w] + signals[w] + Len(calls[w]),
         signals'[w] <= signals[w]
  PROVE  \E number \in [Workers -> 0 .. 1] : Sent(w, number)
  <1> DEFINE number == [u \in Workers |-> 0]
  <1>1. number \in [Workers -> 0 .. 1]
    OBVIOUS
  <1>2. sent' = [sent EXCEPT ![w] = [u \in Workers |-> sent[w][u] + number[u]]]
    BY DEF WorkersTyped
  <1>3. Len(calls[w]) \in Nat
    BY LenProperties DEF WorkersTyped
  <1>4. signals[w] \in Nat /\ counted[w] \in Nat /\ number[w] = 0
    BY DEF WorkersTyped
  <1>5. \A u \in Workers \ {w} : signals'[u] = signals[u] + number[u]
    BY DEF WorkersTyped
  <1>6. /\ counted'[w] + signals'[w] + Len(calls'[w])
             = counted[w] + signals[w] + Len(calls[w]) + number[w]
        /\ signals'[w] <= signals[w] + number[w]
    BY <1>3, <1>4
  <1>7. /\ budget' \in Nat /\ budget' <= budget
        /\ \A u \in Workers : budget' + number[u] <= budget
    BY DEF BudgetInv
  <1>8. Sent(w, number)
    BY <1>2, <1>5, <1>6, <1>7 DEF Sent
  <1> QED BY <1>1, <1>8

LEMMA SignalTurn ==
  ASSUME WorkersTyped, BudgetInv, NEW w \in Workers, ReceiveSignal(w)
  PROVE  Turn(w)
  <1> USE DEF ReceiveSignal
  <1>1. /\ signals' \in [Workers -> Nat] /\ counted' \in [Workers -> Nat]
        /\ toCollect' \in Flags /\ flushed' \in Flags
    BY DEF WorkersTyped, Flags
  <1>2. /\ sent' \in [Workers -> [Workers -> Nat]] /\ replies' \in [Workers -> Nat]
        /\ isPaused' \in Flags /\ toSignal' \in Flags /\ isIdleDetectionEnabled' \in Flags
        /\ calls' \in [Workers -> Seq(Requests \cup {"addVertex"})]
    BY DEF WorkersTyped
  <1>3. << >> \in Seq(Status) /\ Len(<< >>) <= 1 /\ Elements(<< >>) = {}
        /\ ScheduleUnlessScheduled(w, << >>)
    <2>1. << >> \in Seq(Status) /\ Len(<< >>) = 0 /\ Elements(<< >>) = {}
      BY NoElements
    <2> QED BY <2>1
  <1>4. /\ Announced(w)
        /\ isIdle' \in Flags /\ operationsScheduled' \in Flags
        /\ allWorkDoneWhenContinueSent' \in Flags
        /\ statuses' \in [Workers -> Seq(Status)]
        /\ \A u \in Workers \ {w} : operationsScheduled'[u] = operationsScheduled[u]
    <2> HIDE DEF ReceiveSignal
    <2> QED BY <1>1, <1>2, <1>3, Scheduling
  <1>5. WorkersTyped'
    BY <1>1, <1>2, <1>4 DEF WorkersTyped
  <1>6. Len(calls[w]) \in Nat
    BY LenProperties DEF WorkersTyped
  <1>7. Received(w)
    BY <1>6 DEF Received, WorkersTyped
  <1>8. Answered(w)
    BY DEF Answered, driverVars
  <1>9. \E number \in [Workers -> 0 .. 1] : Sent(w, number)
    <2>1. /\ \A u \in Workers \ {w} : signals'[u] = signals[u]
          /\ counted'[w] + signals'[w] + Len(calls'[w])
               = counted[w] + signals[w] + Len(calls[w])
          /\ signals'[w] <= signals[w]
      BY <1>6 DEF WorkersTyped
    <2> QED BY <1>1, <2>1, Silence
  <1>10. \A u \in Workers \ {w} : isPaused'[u] = isPaused[u] /\ toCollect'[u] = toCollect[u]
           /\ toSignal'[u] = toSignal[u]
    BY DEF WorkersTyped, Flags
  <1> QED
    BY <1>4, <1>5, <1>7, <1>8, <1>9, <1>10 DEF Turn, driverVars

\* What the calls of the driver have in common.
LEMMA CallTurn ==
  ASSUME WorkersTyped, BudgetInv, NEW w \in Workers, ReceiveCall(w)
  PROVE  Turn(w)
  <1> DEFINE call == Head(calls[w])
  <1>12. /\ isPaused \in Flags /\ toCollect \in Flags /\ toSignal \in Flags /\ flushed \in Flags
         /\ isIdleDetectionEnabled \in Flags /\ replies \in [Workers -> Nat]
         /\ sent \in [Workers -> [Workers -> Nat]] /\ signals \in [Workers -> Nat]
         /\ isIdle \in Flags /\ counted \in [Workers -> Nat]
    BY DEF WorkersTyped
  <1>1. /\ calls[w] \in Seq(Requests \cup {"addVertex"}) /\ calls[w] # << >>
        /\ counted' = [counted EXCEPT ![w] = counted[w] + 1]
        /\ calls' = [calls EXCEPT ![w] = Tail(calls[w])]
    BY DEF ReceiveCall, WorkersTyped
  <1>2. /\ Tail(calls[w]) \in Seq(Requests \cup {"addVertex"})
        /\ Len(calls[w]) \in Nat \ {0} /\ Len(Tail(calls[w])) = Len(calls[w]) - 1
    BY <1>1, TakenElement
  <1>3. counted' \in [Workers -> Nat] /\ calls' \in [Workers -> Seq(Requests \cup {"addVertex"})]
    <2>1. counted' \in [Workers -> Nat]
      BY <1>1, <1>12
    <2>2. calls \in [Workers -> Seq(Requests \cup {"addVertex"})]
      BY DEF WorkersTyped
    <2> QED BY <1>1, <1>2, <2>1, <2>2
  <1>4. counted'[w] = counted[w] + 1 /\ Len(calls'[w]) = Len(calls[w]) - 1
        /\ Len(calls[w]) \in Nat
    BY <1>1, <1>2 DEF WorkersTyped
  <1>5. Received(w)
    <2>1. signals[w] \in Nat
      BY <1>12
    <2> QED BY <1>1, <1>2, <2>1 DEF Received
  <1>6. UNCHANGED <<nodeVars, reports, coordinatorVars, position, waiting, callsSent,
                    callsAnswered>>
    BY DEF ReceiveCall
  <1>7. ASSUME UNCHANGED <<sent, signals, budget>>
        PROVE  \E number \in [Workers -> 0 .. 1] : Sent(w, number)
    <2>1. /\ signals' \in [Workers -> Nat] /\ counted[w] \in Nat /\ signals[w] \in Nat
      BY <1>7 DEF WorkersTyped
    <2>2. /\ \A u \in Workers \ {w} : signals'[u] = signals[u]
          /\ counted'[w] + signals'[w] + Len(calls'[w])
               = counted[w] + signals[w] + Len(calls[w])
          /\ signals'[w] <= signals[w]
      BY <1>2, <1>4, <1>7, <2>1
    <2> QED BY <1>7, <2>1, <2>2, Silence
  <1>8. ASSUME SendSignals(w)
        PROVE  /\ \E number \in [Workers -> 0 .. 1] : Sent(w, number)
               /\ sent' \in [Workers -> [Workers -> Nat]] /\ signals' \in [Workers -> Nat]
    <2>1. PICK number \in [Workers -> 0 .. 1] :
           /\ sent' = [sent EXCEPT ![w] = [u \in Workers |-> sent[w][u] + number[u]]]
           /\ signals' = [u \in Workers |-> signals[u] + number[u]]
           /\ budget' \in Nat /\ \A u \in Workers : budget' + number[u] <= budget
           /\ budget' <= budget
      BY <1>8, Signalling
    <2>2. counted[w] \in Nat /\ signals[w] \in Nat /\ number[w] \in 0 .. 1
          /\ signals'[w] = signals[w] + number[w]
      BY <1>12, <2>1
    <2>3. counted'[w] + signals'[w] + Len(calls'[w])
            = counted[w] + signals[w] + Len(calls[w]) + number[w]
      <3> DEFINE a == counted[w]
                 b == signals[w]
                 c == Len(calls[w])
                 n == number[w]
      <3>1. counted'[w] + signals'[w] + Len(calls'[w]) = (a + 1) + (b + n) + (c - 1)
        BY <1>4, <2>2
      <3>2. a \in Int /\ b \in Int /\ c \in Int /\ n \in Int
        BY <1>4, <2>2
      <3> HIDE DEF a, b, c, n
      <3>3. (a + 1) + (b + n) + (c - 1) = a + b + c + n
        BY <3>2
      <3> QED BY <3>1, <3>3 DEF a, b, c, n
    <2>4. Sent(w, number)
      BY <2>1, <2>2, <2>3 DEF Sent
    <2>5. /\ signals' \in [Workers -> Nat]
          /\ [u \in Workers |-> sent[w][u] + number[u]] \in [Workers -> Nat]
      <3>1. \A u \in Workers : /\ signals[u] \in Nat /\ sent[w][u] \in Nat
                               /\ number[u] \in Nat
        BY <1>12
      <3>2. \A u \in Workers : /\ signals[u] + number[u] \in Nat
                               /\ sent[w][u] + number[u] \in Nat
        BY <3>1
      <3> QED BY <2>1, <3>2
    <2>6. sent' \in [Workers -> [Workers -> Nat]]
      BY <1>12, <2>1, <2>5
    <2> QED BY <2>4, <2>5, <2>6
  <1>9. \A u \in Workers \ {w} : calls'[u] = calls[u]
    BY <1>1 DEF WorkersTyped
  <1>10. ASSUME NEW first \in Seq(Status), Len(first) <= 1,
                ScheduleUnlessScheduled(w, first),
                \A s \in Elements(first) :
                  s.counted = counted'[w] /\ s.sent = sent'[w] /\ s.replies < replies'[w],
                Answered(w), replies' \in [Workers -> Nat],
                \E number \in [Workers -> 0 .. 1] : Sent(w, number),
                sent' \in [Workers -> [Workers -> Nat]], signals' \in [Workers -> Nat],
                isPaused' \in Flags, toCollect' \in Flags, toSignal' \in Flags,
                flushed' \in Flags, isIdleDetectionEnabled' \in Flags,
                \A u \in Workers \ {w} : /\ isPaused'[u] = isPaused[u]
                                         /\ toCollect'[u] = toCollect[u]
                                         /\ toSignal'[u] = toSignal[u]
         PROVE  Turn(w)
    <2>1. /\ Announced(w)
          /\ isIdle' \in Flags /\ operationsScheduled' \in Flags
          /\ allWorkDoneWhenContinueSent' \in Flags
          /\ statuses' \in [Workers -> Seq(Status)]
          /\ \A u \in Workers \ {w} : operationsScheduled'[u] = operationsScheduled[u]
      BY <1>3, <1>10, Scheduling
    <2>2. WorkersTyped'
      BY <1>3, <1>10, <2>1 DEF WorkersTyped
    <2> QED BY <1>5, <1>6, <1>10, <2>1, <2>2 DEF Turn
  <1>11. << >> \in Seq(Status) /\ Len(<< >>) <= 1 /\ Elements(<< >>) = {}
    <2>1. << >> \in Seq(Status) /\ Len(<< >>) = 0 /\ Elements(<< >>) = {}
      BY NoElements
    <2> QED BY <2>1
  <1>13. ASSUME call \in Requests, Reply(w)
         PROVE  Answered(w) /\ replies' \in [Workers -> Nat] /\ replies'[w] = replies[w] + 1
    BY <1>1, <1>12, <1>13 DEF Answered, Reply
  <1>14. CASE call = "addVertex" /\ AddVertex(w)
    <2>1. Answered(w)
      BY <1>1, <1>12, <1>14 DEF AddVertex, Answered, Requests
    <2>2. /\ toSignal' \in Flags /\ flushed' \in Flags
          /\ \A u \in Workers \ {w} : toSignal'[u] = toSignal[u]
      BY <1>1, <1>12, <1>14 DEF AddVertex, Flags
    <2> QED BY <1>1, <1>10, <1>12, <1>7, <1>11, <1>14, <2>1, <2>2 DEF AddVertex
  <1>15. CASE call = "initializeIdleDetection" /\ InitializeIdleDetection(w)
    <2> DEFINE s == [StatusNow(w, isIdle[w]) EXCEPT !.replies = replies[w]]
    <2>1. s = [idle |-> isIdle[w], sent |-> sent'[w], replies |-> replies[w],
               counted |-> counted'[w]]
      BY DEF StatusNow
    <2>2. /\ isIdle[w] \in BOOLEAN /\ replies[w] \in Nat /\ counted'[w] \in Nat
          /\ sent'[w] \in [Workers -> Nat]
      BY <1>3, <1>12, <1>15 DEF InitializeIdleDetection, Flags
    <2>3. s \in Status /\ s.counted = counted'[w] /\ s.sent = sent'[w] /\ s.replies = replies[w]
      BY <2>1, <2>2 DEF Status
    <2>4. <<s>> \in Seq(Status) /\ Len(<<s>>) <= 1 /\ Elements(<<s>>) = {s}
      <3> HIDE DEF s
      <3>1. <<s>> \in Seq(Status) /\ Len(<<s>>) = 1 /\ Elements(<<s>>) = {s}
        BY <2>3, OneElement
      <3> QED BY <3>1
    <2>5. Answered(w) /\ replies' \in [Workers -> Nat] /\ replies'[w] = replies[w] + 1
      BY <1>13, <1>15 DEF InitializeIdleDetection, Requests
    <2>6. isIdleDetectionEnabled' \in Flags
      BY <1>12, <1>15 DEF InitializeIdleDetection, Flags
    <2>7. ScheduleUnlessScheduled(w, <<s>>)
      BY <1>15 DEF InitializeIdleDetection
    <2>8. /\ UNCHANGED <<sent, signals, budget>>
          /\ UNCHANGED <<isPaused, toCollect, toSignal, flushed>>
      BY <1>15 DEF InitializeIdleDetection, workVars
    <2> HIDE DEF s
    <2>9. \A x \in Elements(<<s>>) :
            x.counted = counted'[w] /\ x.sent = sent'[w] /\ x.replies < replies'[w]
      BY <2>2, <2>3, <2>4, <2>5
    <2> QED BY <1>1, <1>10, <1>12, <1>7, <2>4, <2>5, <2>6, <2>7, <2>8, <2>9
  <1>16. CASE call = "signalStep" /\ SignalStep(w)
    <2>1. Answered(w) /\ replies' \in [Workers -> Nat]
      BY <1>13, <1>16 DEF SignalStep, Requests
    <2>2. /\ toSignal' \in Flags /\ flushed' \in Flags
          /\ \A u \in Workers \ {w} : toSignal'[u] = toSignal[u]
      BY <1>12, <1>16 DEF SignalStep, Flags
    <2>3. /\ \E number \in [Workers -> 0 .. 1] : Sent(w, number)
          /\ sent' \in [Workers -> [Workers -> Nat]] /\ signals' \in [Workers -> Nat]
      BY <1>7, <1>8, <1>12, <1>16 DEF SignalStep
    <2> QED BY <1>1, <1>10, <1>12, <1>11, <1>16, <2>1, <2>2, <2>3 DEF SignalStep
  <1>17. CASE call = "collectStep" /\ CollectStep(w)
    <2>1. Answered(w) /\ replies' \in [Workers -> Nat]
      BY <1>13, <1>17 DEF CollectStep, Requests
    <2>2. toCollect' \in Flags /\ \A u \in Workers \ {w} : toCollect'[u] = toCollect[u]
      BY <1>12, <1>17 DEF CollectStep, Flags
    <2>3. PICK wants \in BOOLEAN : toSignal' = [toSignal EXCEPT ![w] = toSignal[w] \/ wants]
      BY <1>12, <1>17 DEF CollectStep, Flags
    <2>4. toSignal' \in Flags /\ \A u \in Workers \ {w} : toSignal'[u] = toSignal[u]
      <3>1. (toSignal[w] \/ wants) \in BOOLEAN
        OBVIOUS
      <3> QED BY <1>12, <2>3, <3>1 DEF Flags
    <2> QED BY <1>1, <1>10, <1>12, <1>7, <1>11, <1>17, <2>1, <2>2, <2>4 DEF CollectStep
  <1>18. ASSUME NEW paused \in BOOLEAN, call \in Requests, SetPaused(w, paused)
         PROVE  Turn(w)
    <2>1. Answered(w) /\ replies' \in [Workers -> Nat]
      BY <1>13, <1>18 DEF SetPaused
    <2>2. isPaused' \in Flags /\ \A u \in Workers \ {w} : isPaused'[u] = isPaused[u]
      BY <1>12, <1>18 DEF SetPaused, Flags
    <2> QED BY <1>1, <1>10, <1>12, <1>7, <1>11, <1>18, <2>1, <2>2 DEF SetPaused
  <1>19. CASE call = "startComputation" /\ SetPaused(w, FALSE)
    BY <1>18, <1>19 DEF Requests
  <1>20. CASE call = "pauseComputation" /\ SetPaused(w, TRUE)
    BY <1>18, <1>20 DEF Requests
  <1> QED
    BY <1>14, <1>15, <1>16, <1>17, <1>19, <1>20 DEF ReceiveCall

\* A worker with nothing left to do turns idle.
LEMMA IdleTurn ==
  ASSUME WorkersTyped, BudgetInv, NEW w \in Workers, operationsScheduled[w], BecomeIdle(w),
         UNCHANGED <<calls, nodeVars, reports, coordinatorVars, driverVars>>
  PROVE  Turn(w)
  <1> DEFINE idle == StatusNow(w, TRUE)
             a == Announcement(w, TRUE)
  <1>1. /\ UNCHANGED <<isPaused, toCollect, toSignal, flushed, sent, replies, counted, signals,
                       budget, isIdleDetectionEnabled, allWorkDoneWhenContinueSent, calls>>
        /\ UNCHANGED <<position, waiting, replied, callsSent, callsAnswered>>
        /\ AllWorkDone(w)
        /\ statuses' = [statuses EXCEPT ![w] = statuses[w] \o a]
        /\ isIdle' = [isIdle EXCEPT ![w] = TRUE]
        /\ operationsScheduled' = [operationsScheduled EXCEPT ![w] = FALSE]
    BY DEF BecomeIdle, workVars, countVars, driverVars, Announce
  <1>2. idle \in Status /\ idle.counted = counted'[w] /\ idle.sent = sent'[w]
        /\ idle.replies = replies'[w] /\ replies[w] \in Nat
    BY <1>1 DEF StatusNow, Status, WorkersTyped
  <1>3. a \in Seq(Status) /\ Elements(a) \subseteq {idle}
    <2>1. a = <<idle>> \/ a = << >>
      BY DEF Announcement
    <2>2. <<idle>> \in Seq(Status) /\ Elements(<<idle>>) = {idle}
      BY <1>2, OneElement
    <2> HIDE DEF idle, a
    <2> QED BY <2>1, <2>2, NoElements
  <1>4. ~ operationsScheduled'[w] /\ Quiet(w)'
    BY <1>1 DEF AllWorkDone, Quiet, WorkersTyped, Flags
  <1> HIDE DEF idle, a
  <1>5. Honest(a, w)
    BY <1>1, <1>2, <1>3, <1>4 DEF Honest
  <1>6. Announced(w)
    BY <1>1, <1>3, <1>5 DEF Announced
  <1>7. statuses' \in [Workers -> Seq(Status)]
    <2>1. statuses[w] \o a \in Seq(Status)
      BY <1>3, JoinedElements DEF WorkersTyped
    <2> QED BY <1>1, <2>1 DEF WorkersTyped
  <1>8. isIdle' \in Flags /\ operationsScheduled' \in Flags
        /\ \A u \in Workers \ {w} : operationsScheduled'[u] = operationsScheduled[u]
    BY <1>1 DEF WorkersTyped, Flags
  <1>9. WorkersTyped'
    BY <1>1, <1>7, <1>8 DEF WorkersTyped
  <1>10. \E number \in [Workers -> 0 .. 1] : Sent(w, number)
    <2>1. signals' \in [Workers -> Nat] /\ signals[w] \in Nat
      BY <1>1 DEF WorkersTyped
    <2> QED BY <1>1, <2>1, Silence
  <1>11. Received(w) /\ Answered(w)
    BY <1>1 DEF Received, Answered
  <1> QED BY <1>1, <1>6, <1>8, <1>9, <1>10, <1>11 DEF Turn

\* A worker executes its operations and schedules the next ones.
LEMMA BusyTurn ==
  ASSUME WorkersTyped, BudgetInv, NEW w \in Workers, operationsScheduled[w],
         signals[w] = 0 /\ calls[w] = << >>, ExecuteOperations(w),
         UNCHANGED <<calls, nodeVars, reports, coordinatorVars, driverVars>>
  PROVE  Turn(w)
  <1>1. /\ UNCHANGED <<isPaused, replies, counted, isIdleDetectionEnabled, calls>>
        /\ UNCHANGED <<position, waiting, replied, callsSent, callsAnswered>>
        /\ flushed' = [flushed EXCEPT ![w] = TRUE]
        /\ ScheduleOperations(w, << >>)
    BY DEF ExecuteOperations, driverVars
  <1>2. CASE UNCHANGED <<toCollect, toSignal, sent, signals, budget>>
    <2>1. signals' \in [Workers -> Nat] /\ signals[w] \in Nat
      BY <1>2 DEF WorkersTyped
    <2>2. \E number \in [Workers -> 0 .. 1] : Sent(w, number)
      BY <1>1, <1>2, <2>1, Silence
    <2>3. flushed' \in Flags
      BY <1>1 DEF WorkersTyped, Flags
    <2>4. /\ sent' \in [Workers -> [Workers -> Nat]] /\ counted' \in [Workers -> Nat]
          /\ replies' \in [Workers -> Nat]
          /\ isPaused' \in Flags /\ toCollect' \in Flags /\ toSignal' \in Flags
          /\ isIdleDetectionEnabled' \in Flags
          /\ calls' \in [Workers -> Seq(Requests \cup {"addVertex"})]
      BY <1>1, <1>2 DEF WorkersTyped
    <2>5. /\ Announced(w)
          /\ isIdle' \in Flags /\ operationsScheduled' \in Flags
          /\ allWorkDoneWhenContinueSent' \in Flags
          /\ statuses' \in [Workers -> Seq(Status)]
          /\ \A u \in Workers \ {w} : operationsScheduled'[u] = operationsScheduled[u]
      BY <1>1, <2>3, <2>4, SchedulingAgain
    <2>6. WorkersTyped'
      BY <2>1, <2>3, <2>4, <2>5 DEF WorkersTyped
    <2>7. Received(w) /\ Answered(w)
      BY <1>1 DEF Received, Answered
    <2> QED BY <1>1, <1>2, <2>2, <2>5, <2>6, <2>7 DEF Turn
  <1>3. CASE /\ toCollect' = [toCollect EXCEPT ![w] = FALSE]
             /\ toSignal' = [toSignal EXCEPT ![w] = FALSE]
             /\ SendSignals(w)
    <2>1. PICK number \in [Workers -> 0 .. 1] :
           /\ sent' = [sent EXCEPT ![w] = [u \in Workers |-> sent[w][u] + number[u]]]
           /\ signals' = [u \in Workers |-> signals[u] + number[u]]
           /\ budget' \in Nat /\ \A u \in Workers : budget' + number[u] <= budget
           /\ budget' <= budget
      BY <1>3, Signalling
    <2>2. \A u \in Workers : /\ signals[u] \in Nat /\ sent[w][u] \in Nat
                             /\ number[u] \in Nat
      <3>1. signals \in [Workers -> Nat] /\ sent \in [Workers -> [Workers -> Nat]]
        BY DEF WorkersTyped
      <3> QED BY <3>1
    <2>3. \A u \in Workers : /\ signals[u] + number[u] \in Nat
                             /\ sent[w][u] + number[u] \in Nat
      BY <2>2
    <2>4. /\ signals' \in [Workers -> Nat]
          /\ [u \in Workers |-> sent[w][u] + number[u]] \in [Workers -> Nat]
      BY <2>1, <2>3
    <2>5. sent' \in [Workers -> [Workers -> Nat]]
      BY <2>1, <2>4 DEF WorkersTyped
    <2>6. Len(calls[w]) = 0 /\ signals'[w] = number[w] /\ counted[w] \in Nat
      BY <2>1, <2>2, NoElements DEF WorkersTyped
    <2>7. /\ counted'[w] + signals'[w] + Len(calls'[w])
               = counted[w] + signals[w] + Len(calls[w]) + number[w]
          /\ signals'[w] <= signals[w] + number[w]
      BY <1>1, <2>2, <2>6
    <2>8. Sent(w, number)
      BY <2>1, <2>7 DEF Sent
    <2>9. /\ flushed' \in Flags /\ toCollect' \in Flags /\ toSignal' \in Flags
          /\ \A u \in Workers \ {w} : toCollect'[u] = toCollect[u] /\ toSignal'[u] = toSignal[u]
      BY <1>1, <1>3 DEF WorkersTyped, Flags
    <2>10. /\ counted' \in [Workers -> Nat] /\ replies' \in [Workers -> Nat]
           /\ isPaused' \in Flags /\ isIdleDetectionEnabled' \in Flags
           /\ calls' \in [Workers -> Seq(Requests \cup {"addVertex"})]
      BY <1>1 DEF WorkersTyped
    <2>11. /\ Announced(w)
           /\ isIdle' \in Flags /\ operationsScheduled' \in Flags
           /\ allWorkDoneWhenContinueSent' \in Flags
           /\ statuses' \in [Workers -> Seq(Status)]
           /\ \A u \in Workers \ {w} : operationsScheduled'[u] = operationsScheduled[u]
      BY <1>1, <2>5, <2>9, <2>10, SchedulingAgain
    <2>12. WorkersTyped'
      BY <2>4, <2>5, <2>9, <2>10, <2>11 DEF WorkersTyped
    <2>13. Received(w) /\ Answered(w)
      BY <1>1 DEF Received, Answered
    <2> QED BY <1>1, <2>8, <2>9, <2>11, <2>12, <2>13 DEF Turn
  <1> QED
    BY <1>2, <1>3 DEF ExecuteOperations

LEMMA PutOffTurn ==
  ASSUME WorkersTyped, BudgetInv, NEW w \in Workers, PutOff(w)
  PROVE  Turn(w)
  <1>1. /\ UNCHANGED <<isPaused, toCollect, toSignal, flushed, sent, replies, counted, signals,
                       budget, isIdleDetectionEnabled, calls>>
        /\ UNCHANGED <<nodeVars, reports, coordinatorVars>>
        /\ UNCHANGED <<position, waiting, replied, callsSent, callsAnswered>>
        /\ operationsScheduled[w] /\ ScheduleOperations(w, << >>)
    BY DEF PutOff, workVars, countVars, driverVars
  <1>2. signals' \in [Workers -> Nat] /\ signals[w] \in Nat
    BY <1>1 DEF WorkersTyped
  <1>3. \E number \in [Workers -> 0 .. 1] : Sent(w, number)
    BY <1>1, <1>2, Silence
  <1>4. /\ sent' \in [Workers -> [Workers -> Nat]] /\ counted' \in [Workers -> Nat]
        /\ replies' \in [Workers -> Nat]
        /\ isPaused' \in Flags /\ toCollect' \in Flags /\ toSignal' \in Flags
        /\ isIdleDetectionEnabled' \in Flags /\ flushed' \in Flags
        /\ calls' \in [Workers -> Seq(Requests \cup {"addVertex"})]
    BY <1>1 DEF WorkersTyped
  <1>5. /\ Announced(w)
        /\ isIdle' \in Flags /\ operationsScheduled' \in Flags
        /\ allWorkDoneWhenContinueSent' \in Flags
        /\ statuses' \in [Workers -> Seq(Status)]
        /\ \A u \in Workers \ {w} : operationsScheduled'[u] = operationsScheduled[u]
    BY <1>1, <1>4, SchedulingAgain
  <1>6. WorkersTyped'
    BY <1>2, <1>4, <1>5 DEF WorkersTyped
  <1>7. Received(w) /\ Answered(w)
    BY <1>1 DEF Received, Answered
  <1> QED BY <1>1, <1>3, <1>5, <1>6, <1>7 DEF Turn

Work(w) == ReceiveSignal(w) \/ ReceiveCall(w) \/ Operate(w) \/ PutOff(w)

LEMMA WorkIsATurn ==
  ASSUME WorkersTyped, BudgetInv, NEW w \in Workers, Work(w)
  PROVE  Turn(w)
  <1>1. CASE Operate(w)
    BY <1>1, IdleTurn, BusyTurn DEF Operate
  <1> QED BY <1>1, SignalTurn, CallTurn, PutOffTurn DEF Work

(* Types and what the driver has called. *)

\* A request is the last call in a mailbox, and has not been replied to.
CallsOK(w) ==
  \A i \in 1 .. Len(calls[w]) :
    calls[w][i] \in Requests => i = Len(calls[w]) /\ w \in waiting \ replied

\* The driving thread issues a call when the one before it has returned.
DriverInv ==
  /\ position \in 1 .. Len(Program) + 1
  /\ waiting \subseteq Workers /\ replied \subseteq waiting
  /\ callsSent \in [Workers -> Nat] /\ callsAnswered \in Nat
  /\ waiting # {} => Running /\ Call \in Requests
  /\ onIdle # "none" => Running /\ Call = "awaitIdle" /\ waiting = {}
  /\ \A w \in Workers :
       /\ CallsOK(w)
       /\ callsSent[w] <= position + 1 + (IF waiting = {} THEN 0 ELSE 1)
       /\ replies[w] <= position + (IF waiting = {} \/ w \in waiting \ replied THEN 0 ELSE 1)

TypesInv == WorkersTyped /\ BudgetInv /\ NodeTyped /\ CoordinatorTyped /\ DriverInv

LEMMA BudgetTurn ==
  ASSUME WorkersTyped, BudgetInv, NEW w \in Workers, Turn(w)
  PROVE  BudgetInv'
  <1>1. PICK number \in [Workers -> 0 .. 1] : Sent(w, number)
    BY DEF Turn
  <1>2. /\ sent' = [sent EXCEPT ![w] = [u \in Workers |-> sent[w][u] + number[u]]]
        /\ budget' \in Nat /\ \A u \in Workers : budget' + number[u] <= budget
        /\ budget' <= budget
        /\ \A u \in Workers \ {w} : signals'[u] = signals[u] + number[u]
        /\ signals'[w] <= signals[w] + number[w]
    BY <1>1 DEF Sent
  <1>3. /\ sent \in [Workers -> [Workers -> Nat]] /\ signals \in [Workers -> Nat]
        /\ signals' \in [Workers -> Nat]
    BY DEF WorkersTyped, Turn
  <1>4. ASSUME NEW u \in Workers PROVE signals'[u] + budget' <= MAX_SIGNALS
    <2>1. signals'[u] <= signals[u] + number[u]
      BY <1>2, <1>3
    <2>2. signals[u] + budget <= MAX_SIGNALS /\ budget' + number[u] <= budget
      BY <1>2 DEF BudgetInv
    <2>3. signals[u] \in Nat /\ signals'[u] \in Nat /\ number[u] \in 0 .. 1
          /\ budget \in Nat /\ budget' \in Nat
      BY <1>2, <1>3 DEF BudgetInv
    <2> QED BY <2>1, <2>2, <2>3, MaxSignalsAssumption
  <1>5. ASSUME NEW v \in Workers, NEW u \in Workers
        PROVE  sent'[v][u] + budget' <= MAX_SIGNALS
    <2>1. sent[v][u] + budget <= MAX_SIGNALS /\ budget' + number[u] <= budget
      BY <1>2 DEF BudgetInv
    <2>2. sent[v][u] \in Nat /\ number[u] \in 0 .. 1 /\ budget \in Nat /\ budget' \in Nat
          /\ budget' <= budget
      BY <1>2, <1>3 DEF BudgetInv
    <2>3. CASE v = w
      <3>1. sent'[v][u] = sent[v][u] + number[u]
        BY <1>2, <1>3, <2>3
      <3> QED BY <2>1, <2>2, <3>1, MaxSignalsAssumption
    <2>4. CASE v # w
      <3>1. sent'[v][u] = sent[v][u]
        BY <1>2, <1>3, <2>4
      <3> QED BY <2>1, <2>2, <3>1, MaxSignalsAssumption
    <2> QED BY <2>3, <2>4
  <1>6. budget' <= MAX_SIGNALS
    BY <1>2, MaxSignalsAssumption DEF BudgetInv
  <1> QED BY <1>2, <1>4, <1>5, <1>6 DEF BudgetInv

LEMMA ProgramCalls ==
  /\ DOMAIN Program = 1 .. Len(Program) /\ Len(Program) \in Nat
  /\ \A i \in DOMAIN Program : Program[i] \in Requests \cup {"addVertex", "awaitIdle"}
  <1>1. Program \in Seq(Requests \cup {"addVertex", "awaitIdle"})
    BY ProgramAssumption
  <1> QED BY <1>1, LenProperties, ElementOfSeq

LEMMA DriverTurn ==
  ASSUME WorkersTyped, DriverInv, NEW w \in Workers, Turn(w)
  PROVE  DriverInv'
  <1>1. UNCHANGED <<onIdle, position, waiting, callsSent, callsAnswered>>
    BY DEF Turn, coordinatorVars
  <1>2. calls[w] \in Seq(Requests \cup {"addVertex"}) /\ calls \in [Workers -> Seq(Requests \cup {"addVertex"})]
        /\ replies \in [Workers -> Nat]
    BY DEF WorkersTyped
  <1>3. Running' = Running /\ Call' = Call
    BY <1>1 DEF Running, Call
  <1>4. /\ position \in Nat /\ CallsOK(w) /\ replied \subseteq waiting
        /\ replies[w] <= position + (IF waiting = {} \/ w \in waiting \ replied THEN 0 ELSE 1)
    BY DEF DriverInv
  <1>5. ASSUME /\ replied' \subseteq waiting
               /\ \A u \in Workers : CallsOK(u)'
               /\ \A u \in Workers :
                    replies'[u] <= position
                      + (IF waiting = {} \/ u \in waiting \ replied' THEN 0 ELSE 1)
        PROVE  DriverInv'
    BY <1>1, <1>3, <1>5 DEF DriverInv
  <1>6. CASE UNCHANGED <<calls, replies, replied>>
    <2>1. \A u \in Workers : CallsOK(u)'
      BY <1>1, <1>6 DEF DriverInv, CallsOK
    <2> QED BY <1>1, <1>5, <1>6, <2>1 DEF DriverInv
  <1>7. CASE calls[w] # << >> /\ calls' = [calls EXCEPT ![w] = Tail(calls[w])]
    <2>1. /\ Head(calls[w]) = calls[w][1] /\ Len(calls[w]) \in Nat \ {0}
          /\ Len(Tail(calls[w])) = Len(calls[w]) - 1
          /\ \A i \in 1 .. Len(calls[w]) - 1 : Tail(calls[w])[i] = calls[w][i + 1]
      BY <1>2, <1>7, TakenElement
    <2>2. calls'[w] = Tail(calls[w]) /\ \A u \in Workers \ {w} : calls'[u] = calls[u]
      BY <1>2, <1>7
    <2>3. CASE UNCHANGED <<replies, replied>>
      <3>1. CallsOK(w)'
        <4> SUFFICES ASSUME NEW i \in 1 .. Len(calls'[w]), calls'[w][i] \in Requests
                     PROVE  i = Len(calls'[w]) /\ w \in waiting \ replied
          BY <1>1, <2>3 DEF CallsOK
        <4>1. i + 1 \in 1 .. Len(calls[w]) /\ calls[w][i + 1] \in Requests
          BY <2>1, <2>2
        <4>2. i + 1 = Len(calls[w]) /\ w \in waiting \ replied
          BY <1>4, <4>1 DEF CallsOK
        <4> QED BY <2>1, <2>2, <4>2
      <3>2. \A u \in Workers \ {w} : CallsOK(u)'
        BY <1>1, <2>2, <2>3 DEF DriverInv, CallsOK
      <3> QED BY <1>1, <1>5, <2>3, <3>1, <3>2 DEF DriverInv
    <2>4. CASE /\ Head(calls[w]) \in Requests
               /\ replies' = [replies EXCEPT ![w] = replies[w] + 1]
               /\ replied' = replied \cup {w}
      <3>1. 1 \in 1 .. Len(calls[w]) /\ calls[w][1] \in Requests
        BY <2>1, <2>4
      <3>2. 1 = Len(calls[w]) /\ w \in waiting \ replied
        BY <1>4, <3>1 DEF CallsOK
      <3>3. Len(calls'[w]) = 0
        BY <2>1, <2>2, <3>2
      <3>4. CallsOK(w)'
        BY <3>3 DEF CallsOK
      <3>5. \A u \in Workers \ {w} : CallsOK(u)'
        BY <1>1, <2>2, <2>4 DEF DriverInv, CallsOK
      <3>6. replies'[w] <= position + 1 /\ w \notin waiting \ replied' /\ waiting # {}
        BY <1>2, <1>4, <2>4, <3>2
      <3>7. \A u \in Workers \ {w} :
              replies'[u] <= position
                + (IF waiting = {} \/ u \in waiting \ replied' THEN 0 ELSE 1)
        BY <1>2, <2>4 DEF DriverInv
      <3>8. replied' \subseteq waiting
        BY <1>4, <2>4, <3>2
      <3> QED BY <1>5, <3>4, <3>5, <3>6, <3>7, <3>8
    <2> QED BY <1>7, <2>3, <2>4, <1>6 DEF Turn, Answered
  <1> QED BY <1>6, <1>7 DEF Turn, Answered

LEMMA DriveTypes ==
  ASSUME TypesInv, Drive
  PROVE  TypesInv'
  <1>1. /\ UNCHANGED <<isIdle, isPaused, operationsScheduled, allWorkDoneWhenContinueSent,
                       isIdleDetectionEnabled, toCollect, toSignal, flushed, sent, replies,
                       counted, signals, budget, statuses>>
        /\ UNCHANGED <<onNode, forwarded, nodeReported, selfMessages, mostRecent, unreported,
                       pending, superseded, treeReported, reports, workerStatus>>
    BY DEF Drive, workVars, countVars, stateVars, nodeVars
  <1>2. NodeTyped' /\ BudgetInv'
    BY <1>1 DEF TypesInv, NodeTyped, BudgetInv
  <1>3. calls' \in [Workers -> Seq(Requests \cup {"addVertex"})] => WorkersTyped'
    BY <1>1 DEF TypesInv, WorkersTyped
  <1>4. onIdle' \in {"none", "asked", "registered", "answered"} => CoordinatorTyped'
    BY <1>1 DEF TypesInv, CoordinatorTyped
  <1>5. /\ calls \in [Workers -> Seq(Requests \cup {"addVertex"})]
        /\ replies \in [Workers -> Nat]
        /\ onIdle \in {"none", "asked", "registered", "answered"}
    BY DEF TypesInv, WorkersTyped, CoordinatorTyped
  <1>6. /\ position \in 1 .. Len(Program) + 1
        /\ waiting \subseteq Workers /\ replied \subseteq waiting
        /\ callsSent \in [Workers -> Nat] /\ callsAnswered \in Nat
        /\ waiting # {} => Running /\ Call \in Requests
        /\ onIdle # "none" => Running /\ Call = "awaitIdle" /\ waiting = {}
        /\ \A w \in Workers :
             /\ CallsOK(w)
             /\ callsSent[w] <= position + 1 + (IF waiting = {} THEN 0 ELSE 1)
             /\ replies[w] <= position
                  + (IF waiting = {} \/ w \in waiting \ replied THEN 0 ELSE 1)
    BY DEF TypesInv, DriverInv
  <1>7. Running => position \in 1 .. Len(Program)
                   /\ Call \in Requests \cup {"addVertex", "awaitIdle"}
    BY ProgramCalls DEF Running, Call
  <1>8. Len(Program) \in Nat /\ "awaitIdle" \notin Requests
    BY ProgramCalls DEF Requests
  <1>9. CASE IssueCall /\ UNCHANGED onIdle
    <2>1. /\ Running /\ Call # "awaitIdle" /\ waiting = {} /\ onIdle = "none" /\ replied = {}
          /\ calls' = [w \in Workers |-> Append(calls[w], Call)]
          /\ callsSent' = [w \in Workers |-> callsSent[w] + 1]
          /\ UNCHANGED <<replied, callsAnswered, onIdle>>
      BY <1>6, <1>9 DEF IssueCall
    <2>2. Call \in Requests \cup {"addVertex"}
      BY <1>7, <2>1
    <2>3. ASSUME NEW w \in Workers
          PROVE  /\ Append(calls[w], Call) \in Seq(Requests \cup {"addVertex"})
                 /\ Len(calls'[w]) = Len(calls[w]) + 1 /\ Len(calls[w]) \in Nat
                 /\ calls'[w][Len(calls[w]) + 1] = Call
                 /\ \A i \in 1 .. Len(calls[w]) :
                      calls'[w][i] = calls[w][i] /\ calls[w][i] \notin Requests
      <3>1. calls[w] \in Seq(Requests \cup {"addVertex"}) /\ calls'[w] = Append(calls[w], Call)
        BY <1>5, <2>1
      <3>2. \A i \in 1 .. Len(calls[w]) : calls[w][i] \notin Requests
        BY <1>6, <2>1 DEF CallsOK
      <3> QED BY <2>2, <3>1, <3>2, AppendedElement
    <2>4. calls' \in [Workers -> Seq(Requests \cup {"addVertex"})]
      BY <2>1, <2>3
    <2>5. callsSent' \in [Workers -> Nat]
      BY <1>6, <2>1
    <2>6. CASE Call \in Requests /\ waiting' = Workers /\ UNCHANGED position
      <3>1. Running' /\ Call' = Call
        BY <2>1, <2>6 DEF Running, Call
      <3>2. ASSUME NEW w \in Workers
            PROVE  /\ CallsOK(w)'
                   /\ callsSent'[w] <= position' + 1 + (IF waiting' = {} THEN 0 ELSE 1)
                   /\ replies'[w] <= position'
                        + (IF waiting' = {} \/ w \in waiting' \ replied' THEN 0 ELSE 1)
        <4>1. w \in waiting' \ replied' /\ waiting' # {}
          BY <2>1, <2>6
        <4>2. CallsOK(w)'
          BY <2>3, <4>1 DEF CallsOK
        <4>3. callsSent'[w] = callsSent[w] + 1 /\ callsSent[w] <= position + 1
          BY <1>6, <2>1
        <4>4. replies'[w] <= position'
          BY <1>1, <1>6, <2>1, <2>6
        <4> QED BY <1>6, <2>6, <4>1, <4>2, <4>3, <4>4
      <3>3. DriverInv'
        BY <1>6, <2>1, <2>5, <2>6, <3>1, <3>2 DEF DriverInv
      <3> QED BY <1>2, <1>3, <1>4, <1>5, <2>1, <2>4, <3>3 DEF TypesInv
    <2>7. CASE Call \notin Requests /\ position' = position + 1 /\ UNCHANGED waiting
      <3>1. position' \in 1 .. Len(Program) + 1
        BY <1>7, <1>8, <2>1, <2>7
      <3>2. ASSUME NEW w \in Workers
            PROVE  /\ CallsOK(w)'
                   /\ callsSent'[w] <= position' + 1
                   /\ replies'[w] <= position'
        <4>1. CallsOK(w)'
          <5> SUFFICES ASSUME NEW i \in 1 .. Len(calls'[w])
                       PROVE  calls'[w][i] \notin Requests
            BY DEF CallsOK
          <5>1. CASE i = Len(calls[w]) + 1
            BY <2>3, <2>7, <5>1
          <5>2. CASE i \in 1 .. Len(calls[w])
            BY <2>3, <5>2
          <5> QED BY <2>3, <5>1, <5>2
        <4>2. callsSent'[w] = callsSent[w] + 1 /\ callsSent[w] <= position + 1
              /\ callsSent[w] \in Nat
          BY <1>6, <2>1
        <4>3. replies'[w] = replies[w] /\ replies[w] <= position /\ replies[w] \in Nat
          BY <1>1, <1>5, <1>6, <2>1
        <4> QED BY <1>6, <1>8, <2>7, <4>1, <4>2, <4>3
      <3>3. DriverInv'
        BY <1>6, <2>1, <2>5, <2>7, <3>1, <3>2 DEF DriverInv
      <3> QED BY <1>2, <1>3, <1>4, <1>5, <2>1, <2>4, <3>3 DEF TypesInv
    <2> QED BY <1>9, <2>6, <2>7 DEF IssueCall
  <1>10. ASSUME NEW w \in Workers, ReceiveReply(w), UNCHANGED onIdle PROVE TypesInv'
    <2>1. /\ w \in replied /\ w \in waiting
          /\ replied' = replied \ {w}
          /\ callsAnswered' = callsAnswered + 1
          /\ waiting' = waiting \ {w}
          /\ position' = IF waiting = {w} THEN position + 1 ELSE position
          /\ UNCHANGED <<calls, callsSent>>
      BY <1>6, <1>10 DEF ReceiveReply
    <2>2. waiting' = {} <=> waiting = {w}
      BY <2>1
    <2>3. Running /\ Call \in Requests /\ onIdle = "none" /\ position \in 1 .. Len(Program)
      BY <1>6, <1>7, <2>1
    <2>4. position' \in 1 .. Len(Program) + 1
      BY <1>8, <2>1, <2>3
    <2>5. waiting' # {} => Running' /\ Call' \in Requests
      <3> SUFFICES ASSUME waiting' # {} PROVE Running' /\ Call' \in Requests
        OBVIOUS
      <3>1. position' = position
        BY <2>1, <2>2
      <3> QED BY <2>3, <3>1 DEF Running, Call
    <2>6. ASSUME NEW u \in Workers
          PROVE  /\ CallsOK(u)'
                 /\ callsSent'[u] <= position' + 1 + (IF waiting' = {} THEN 0 ELSE 1)
                 /\ replies'[u] <= position'
                      + (IF waiting' = {} \/ u \in waiting' \ replied' THEN 0 ELSE 1)
      <3>1. u \in waiting' \ replied' <=> u \in waiting \ replied
        BY <2>1
      <3>2. CallsOK(u)'
        BY <1>6, <2>1, <3>1 DEF CallsOK
      <3>3. /\ callsSent[u] \in Nat /\ replies[u] \in Nat /\ position \in Nat
            /\ callsSent'[u] = callsSent[u] /\ replies'[u] = replies[u]
        BY <1>1, <1>5, <1>6, <2>1
      <3>4. callsSent[u] <= position + 2
        BY <1>6, <3>3
      <3>5. replies[u] <= position + (IF u \in waiting \ replied THEN 0 ELSE 1)
        BY <1>6, <2>1
      <3>6. CASE waiting' = {}
        BY <2>1, <2>2, <3>2, <3>3, <3>4, <3>5, <3>6
      <3>7. CASE waiting' # {}
        BY <2>1, <2>2, <3>1, <3>2, <3>3, <3>4, <3>5, <3>7
      <3> QED BY <3>6, <3>7
    <2>7. /\ waiting' \subseteq Workers /\ replied' \subseteq waiting'
          /\ callsSent' \in [Workers -> Nat] /\ callsAnswered' \in Nat
          /\ onIdle' = "none"
      BY <1>6, <1>10, <2>1, <2>3
    <2>8. DriverInv'
      BY <2>4, <2>5, <2>6, <2>7 DEF DriverInv
    <2> QED BY <1>2, <1>3, <1>4, <1>5, <1>10, <2>1, <2>8 DEF TypesInv
  <1>11. CASE AskForIdle
    <2>1. /\ Running /\ Call = "awaitIdle" /\ onIdle' = "asked"
          /\ UNCHANGED <<position, waiting, replied, callsSent, callsAnswered, calls>>
      BY <1>11 DEF AskForIdle, driverVars
    <2>2. waiting = {}
      BY <1>6, <1>8, <2>1
    <2>3. Running' /\ Call' = Call
      BY <2>1 DEF Running, Call
    <2>4. \A w \in Workers : CallsOK(w)'
      BY <1>6, <2>1 DEF CallsOK
    <2>5. \A w \in Workers : callsSent'[w] <= position' + 1 /\ replies'[w] <= position' + 0
      BY <1>1, <1>6, <2>1, <2>2
    <2>6. DriverInv'
      BY <1>6, <2>1, <2>2, <2>3, <2>4, <2>5 DEF DriverInv
    <2> QED BY <1>2, <1>3, <1>4, <1>5, <2>1, <2>6 DEF TypesInv
  <1>12. CASE AwaitIdleReturns
    <2>1. /\ onIdle = "answered" /\ onIdle' = "none" /\ position' = position + 1
          /\ UNCHANGED <<waiting, replied, callsSent, callsAnswered, calls>>
      BY <1>12 DEF AwaitIdleReturns
    <2>2. Running /\ waiting = {} /\ replied = {}
      BY <1>6, <2>1
    <2>3. position' \in 1 .. Len(Program) + 1
      BY <1>7, <1>8, <2>1, <2>2
    <2>4. \A w \in Workers : CallsOK(w)'
      BY <1>6, <2>1 DEF CallsOK
    <2>5. \A w \in Workers : callsSent[w] \in Nat /\ replies[w] \in Nat
      BY <1>5, <1>6
    <2>6. \A w \in Workers : callsSent'[w] <= position' + 1 /\ replies'[w] <= position'
      BY <1>1, <1>6, <2>1, <2>2, <2>5
    <2>7. DriverInv'
      BY <1>6, <2>1, <2>2, <2>3, <2>4, <2>6 DEF DriverInv
    <2> QED BY <1>2, <1>3, <1>4, <1>5, <2>1, <2>7 DEF TypesInv
  <1> QED BY <1>9, <1>10, <1>11, <1>12 DEF Drive

(* The detectors of the node. *)

OneRequest(q) ==
  \A i, j \in 1 .. Len(q) :
    q[i].type = "IdleReportRequested" /\ q[j].type = "IdleReportRequested" => i = j
SomeRequest(q) == \E i \in 1 .. Len(q) : q[i].type = "IdleReportRequested"
FullBulks(q) ==
  \A i \in 1 .. Len(q) : q[i].type = "BulkStatus" => StatusesOf(q[i].fromWorkers) # {}

\* There is one request at a time; it has something to report.
DetectorInv ==
  /\ OneRequest(selfMessages) /\ FullBulks(selfMessages)
  /\ pending <=> SomeRequest(selfMessages)
  /\ pending => StatusesOf(unreported) # {}

LEMMA MessageTaken ==
  ASSUME NEW q \in Seq(SelfMessages), q # << >>, OneRequest(q), FullBulks(q)
  PROVE  /\ Head(q) \in SelfMessages /\ Tail(q) \in Seq(SelfMessages)
         /\ OneRequest(Tail(q)) /\ FullBulks(Tail(q))
         /\ Head(q).type = "BulkStatus" =>
              /\ SomeRequest(Tail(q)) <=> SomeRequest(q)
              /\ StatusesOf(Head(q).fromWorkers) # {}
         /\ Head(q).type = "IdleReportRequested" => SomeRequest(q) /\ ~ SomeRequest(Tail(q))
  <1>1. /\ Head(q) \in SelfMessages /\ Head(q) = q[1]
        /\ Tail(q) \in Seq(SelfMessages)
        /\ Len(q) \in Nat \ {0} /\ Len(Tail(q)) = Len(q) - 1
        /\ \A i \in 1 .. Len(q) - 1 : Tail(q)[i] = q[i + 1]
    BY TakenElement
  <1>2. \A i \in 1 .. Len(Tail(q)) : i + 1 \in 1 .. Len(q) /\ Tail(q)[i] = q[i + 1] /\ i \in Int
    BY <1>1
  <1>3. 1 \in 1 .. Len(q) /\ \A i \in 1 .. Len(q) : i = 1 \/ i - 1 \in 1 .. Len(Tail(q))
    BY <1>1
  <1>4. OneRequest(Tail(q))
    <2> SUFFICES ASSUME NEW i \in 1 .. Len(Tail(q)), NEW j \in 1 .. Len(Tail(q)),
                        Tail(q)[i].type = "IdleReportRequested",
                        Tail(q)[j].type = "IdleReportRequested"
                 PROVE  i = j
      BY DEF OneRequest
    <2>1. i + 1 = j + 1
      BY <1>2 DEF OneRequest
    <2> QED BY <1>2, <2>1
  <1>5. FullBulks(Tail(q))
    BY <1>2 DEF FullBulks
  <1>6. ASSUME Head(q).type = "BulkStatus"
        PROVE  /\ SomeRequest(Tail(q)) <=> SomeRequest(q)
               /\ StatusesOf(Head(q).fromWorkers) # {}
    <2>1. SomeRequest(Tail(q)) => SomeRequest(q)
      BY <1>2 DEF SomeRequest
    <2>2. ASSUME NEW i \in 1 .. Len(q), q[i].type = "IdleReportRequested"
          PROVE  SomeRequest(Tail(q))
      <3>1. i # 1
        BY <1>1, <1>6, <2>2
      <3>2. i - 1 \in 1 .. Len(Tail(q)) /\ (i - 1) + 1 = i
        BY <1>3, <3>1
      <3>3. Tail(q)[i - 1] = q[i]
        BY <1>2, <3>2
      <3> QED BY <2>2, <3>2, <3>3 DEF SomeRequest
    <2>3. StatusesOf(Head(q).fromWorkers) # {}
      BY <1>1, <1>3, <1>6 DEF FullBulks
    <2> QED BY <2>1, <2>2, <2>3 DEF SomeRequest
  <1>7. ASSUME Head(q).type = "IdleReportRequested"
        PROVE  SomeRequest(q) /\ ~ SomeRequest(Tail(q))
    <2>1. SomeRequest(q)
      BY <1>1, <1>3, <1>7 DEF SomeRequest
    <2>2. ASSUME NEW i \in 1 .. Len(Tail(q)), Tail(q)[i].type = "IdleReportRequested"
          PROVE  FALSE
      <3>1. i + 1 = 1
        BY <1>1, <1>2, <1>3, <1>7, <2>2 DEF OneRequest
      <3> QED BY <1>1, <3>1
    <2> QED BY <2>1, <2>2 DEF SomeRequest
  <1> QED BY <1>1, <1>4, <1>5, <1>6, <1>7

LEMMA MessageAdded ==
  ASSUME NEW q \in Seq(SelfMessages), NEW m \in SelfMessages, OneRequest(q), FullBulks(q)
  PROVE  /\ Append(q, m) \in Seq(SelfMessages)
         /\ m.type = "BulkStatus" /\ StatusesOf(m.fromWorkers) # {} =>
              /\ OneRequest(Append(q, m)) /\ FullBulks(Append(q, m))
              /\ SomeRequest(Append(q, m)) <=> SomeRequest(q)
         /\ m.type = "IdleReportRequested" /\ ~ SomeRequest(q) =>
              OneRequest(Append(q, m)) /\ FullBulks(Append(q, m)) /\ SomeRequest(Append(q, m))
  <1> DEFINE r == Append(q, m)
  <1>1. /\ r \in Seq(SelfMessages) /\ Len(r) = Len(q) + 1 /\ Len(q) \in Nat
        /\ r[Len(q) + 1] = m /\ \A i \in 1 .. Len(q) : r[i] = q[i]
    BY AppendedElement
  <1> HIDE DEF r
  <1>2. \A i \in 1 .. Len(r) : (i \in 1 .. Len(q) /\ r[i] = q[i]) \/ (i = Len(r) /\ r[i] = m)
    BY <1>1
  <1>3. 1 .. Len(q) \subseteq 1 .. Len(r) /\ Len(r) \in 1 .. Len(r) /\ r[Len(r)] = m
    BY <1>1
  <1>4. ASSUME m.type = "BulkStatus", StatusesOf(m.fromWorkers) # {}
        PROVE  OneRequest(r) /\ FullBulks(r) /\ (SomeRequest(r) <=> SomeRequest(q))
    <2>1. "BulkStatus" # "IdleReportRequested"
      OBVIOUS
    <2>2. \A i \in 1 .. Len(r) : r[i].type = "IdleReportRequested" => i \in 1 .. Len(q) /\ r[i] = q[i]
      BY <1>2, <1>4, <2>1
    <2>3. OneRequest(r)
      BY <2>2 DEF OneRequest
    <2>4. FullBulks(r)
      BY <1>2, <1>4 DEF FullBulks
    <2>5. SomeRequest(r) <=> SomeRequest(q)
      BY <1>1, <1>3, <2>2 DEF SomeRequest
    <2> QED BY <2>3, <2>4, <2>5
  <1>5. ASSUME m.type = "IdleReportRequested", ~ SomeRequest(q)
        PROVE  OneRequest(r) /\ FullBulks(r) /\ SomeRequest(r)
    <2>1. \A i \in 1 .. Len(r) : r[i].type = "IdleReportRequested" => i = Len(r)
      BY <1>2, <1>5 DEF SomeRequest
    <2>2. OneRequest(r)
      BY <2>1 DEF OneRequest
    <2>3. FullBulks(r)
      BY <1>2, <1>5 DEF FullBulks
    <2>4. SomeRequest(r)
      BY <1>3, <1>5 DEF SomeRequest
    <2> QED BY <2>2, <2>3, <2>4
  <1> QED BY <1>1, <1>4, <1>5 DEF r

\* computeAllIdleAndRequestReportIfNecessary, when no request is out and there is
\* something to report.
LEMMA Requesting ==
  ASSUME NEW q \in Seq(SelfMessages), OneRequest(q), FullBulks(q), ~ SomeRequest(q),
         RequestReport(q), StatusesOf(unreported') # {}
  PROVE  /\ selfMessages' \in Seq(SelfMessages) /\ pending' \in BOOLEAN
         /\ DetectorInv'
         /\ \A m \in Elements(selfMessages') :
              m.type = "BulkStatus" => m \in Elements(q)
  <1>1. CASE pending' = FALSE /\ selfMessages' = q
    BY <1>1 DEF DetectorInv
  <1>2. CASE /\ pending' = TRUE
             /\ selfMessages' = Append(q,
                  [type |-> "IdleReportRequested",
                   allIdle |-> \A s \in StatusesOf(unreported') : s.idle])
    <2> DEFINE m == [type |-> "IdleReportRequested",
                     allIdle |-> \A s \in StatusesOf(unreported') : s.idle]
    <2>1. m \in SelfMessages /\ m.type = "IdleReportRequested"
      <3>1. (\A s \in StatusesOf(unreported') : s.idle) \in BOOLEAN
        OBVIOUS
      <3> QED BY <3>1 DEF SelfMessages
    <2>2. selfMessages' = Append(q, m)
      BY <1>2
    <2> HIDE DEF m
    <2>3. /\ selfMessages' \in Seq(SelfMessages)
          /\ OneRequest(selfMessages') /\ FullBulks(selfMessages') /\ SomeRequest(selfMessages')
      BY <2>1, <2>2, MessageAdded
    <2>4. DetectorInv'
      BY <1>2, <2>3 DEF DetectorInv
    <2>5. Elements(selfMessages') = Elements(q) \cup {m}
      BY <2>1, <2>2, AppendedElement
    <2> QED BY <1>2, <2>1, <2>3, <2>4, <2>5
  <1> QED BY <1>1, <1>2 DEF RequestReport

\* The statuses of worker w that are under way or kept somewhere.
Told(w) ==
  (Elements(statuses[w])
   \cup {onNode[w], mostRecent[w], unreported[w], workerStatus[w]}
   \cup {m.fromWorkers[w] : m \in {x \in Elements(selfMessages) : x.type = "BulkStatus"}}
   \cup {r[w] : r \in Elements(reports)}) \ {NoStatus}

\* The node takes a status, and may pass on those that it has held back.
LEMMA StatusReceived ==
  ASSUME WorkersTyped, NodeTyped, CoordinatorTyped, DetectorInv,
         NEW w \in Workers, ReceiveStatus(w)
  PROVE  /\ statuses' \in [Workers -> Seq(Status)] /\ NodeTyped' /\ DetectorInv'
         /\ \A u \in Workers : Told(u)' \subseteq Told(u)
  <1> DEFINE s == Head(statuses[w])
             m == [type |-> "BulkStatus",
                   fromWorkers |-> [u \in Workers |->
                     IF u \in forwarded \ {w} THEN NoStatus ELSE onNode'[u]]]
  <1>1. /\ statuses[w] # << >>
        /\ statuses' = [statuses EXCEPT ![w] = Tail(statuses[w])]
        /\ onNode' = [onNode EXCEPT ![w] = s]
        /\ UNCHANGED <<mostRecent, unreported, pending, superseded, treeReported>>
        /\ UNCHANGED <<reports, workerStatus>>
    BY DEF ReceiveStatus, WorkersTyped, coordinatorVars
  <1>2. /\ statuses \in [Workers -> Seq(Status)] /\ statuses[w] \in Seq(Status)
        /\ onNode \in Statuses /\ mostRecent \in Statuses /\ unreported \in Statuses
        /\ selfMessages \in Seq(SelfMessages) /\ forwarded \subseteq Workers
        /\ nodeReported \in BOOLEAN /\ pending \in BOOLEAN
        /\ superseded \in BOOLEAN /\ treeReported \in BOOLEAN
    BY DEF WorkersTyped, NodeTyped
  <1>3. /\ s \in Status /\ s \in Elements(statuses[w])
        /\ Tail(statuses[w]) \in Seq(Status)
        /\ Elements(Tail(statuses[w])) \subseteq Elements(statuses[w])
    BY <1>1, <1>2, TakenElement
  <1>4. \/ /\ selfMessages' = Append(selfMessages, m)
           /\ forwarded' = Workers
           /\ nodeReported' = NodeIsIdle
        \/ /\ forwarded' = forwarded \ {w}
           /\ UNCHANGED <<selfMessages, nodeReported>>
    BY DEF ReceiveStatus
  <1> HIDE DEF s
  <1>5. onNode' \in Statuses
    BY <1>1, <1>2, <1>3 DEF Statuses
  <1>6. m \in SelfMessages /\ m.type = "BulkStatus" /\ StatusesOf(m.fromWorkers) # {}
    <2>1. m.fromWorkers \in Statuses
      BY <1>5 DEF Statuses
    <2>2. m.fromWorkers[w] = s
      BY <1>1, <1>2 DEF Statuses
    <2>3. s # NoStatus
      BY <1>3, NoStatusAssumption
    <2>4. StatusesOf(m.fromWorkers) # {}
      BY <2>2, <2>3 DEF StatusesOf
    <2> QED BY <2>1, <2>4 DEF SelfMessages
  <1>7. \A u \in Workers : /\ m.fromWorkers[u] \in {NoStatus, onNode[u]} \/ u = w
                           /\ m.fromWorkers[w] = s
    BY <1>1, <1>2 DEF Statuses
  <1> HIDE DEF m
  <1>8. /\ selfMessages' \in Seq(SelfMessages) /\ DetectorInv'
        /\ Elements(selfMessages') \subseteq Elements(selfMessages) \cup {m}
    <2>1. CASE selfMessages' = Append(selfMessages, m)
      <3>1. Elements(selfMessages') = Elements(selfMessages) \cup {m}
        BY <1>2, <1>6, <2>1, AppendedElement
      <3>2. /\ selfMessages' \in Seq(SelfMessages)
            /\ OneRequest(selfMessages') /\ FullBulks(selfMessages')
            /\ SomeRequest(selfMessages') <=> SomeRequest(selfMessages)
        BY <1>2, <1>6, <2>1, MessageAdded DEF DetectorInv
      <3> QED BY <1>1, <3>1, <3>2 DEF DetectorInv
    <2>2. CASE UNCHANGED selfMessages
      <3>1. DetectorInv'
        BY <1>1, <2>2 DEF DetectorInv
      <3> QED BY <1>2, <2>2, <3>1
    <2> QED BY <1>4, <2>1, <2>2
  <1>9. NodeTyped'
    <2>1. NodeIsIdle \in BOOLEAN
      BY DEF NodeIsIdle
    <2>2. forwarded' \subseteq Workers /\ nodeReported' \in BOOLEAN
      BY <1>2, <1>4, <2>1
    <2> QED BY <1>1, <1>2, <1>5, <1>8, <2>2 DEF NodeTyped
  <1>10. statuses' \in [Workers -> Seq(Status)]
    BY <1>1, <1>2, <1>3
  <1>11. ASSUME NEW u \in Workers, NEW t \in Told(u)' PROVE t \in Told(u)
    <2>1. Elements(statuses'[u]) \subseteq Elements(statuses[u])
      BY <1>1, <1>2, <1>3
    <2>2. u = w => s \in Told(u)
      BY <1>3, NoStatusAssumption DEF Told
    <2>3. onNode'[u] \in {onNode[u], s} /\ (u # w => onNode'[u] = onNode[u])
      BY <1>1, <1>2 DEF Statuses
    <2>4. t # NoStatus
      BY DEF Told
    <2>5. CASE t \in Elements(statuses'[u])
      BY <2>1, <2>4, <2>5 DEF Told
    <2>6. CASE t \in {onNode'[u], mostRecent'[u], unreported'[u], workerStatus'[u]}
      BY <1>1, <2>2, <2>3, <2>4, <2>6 DEF Told
    <2>7. CASE \E x \in Elements(selfMessages') : x.type = "BulkStatus" /\ t = x.fromWorkers[u]
      <3>1. PICK x \in Elements(selfMessages') : x.type = "BulkStatus" /\ t = x.fromWorkers[u]
        BY <2>7
      <3>2. CASE x \in Elements(selfMessages)
        BY <3>1, <3>2, <2>4 DEF Told
      <3>3. CASE x = m
        <4>1. t = onNode[u] \/ (u = w /\ t = s)
          BY <1>7, <2>4, <3>1, <3>3
        <4> QED BY <4>1, <2>2, <2>4 DEF Told
      <3> QED BY <1>8, <3>1, <3>2, <3>3
    <2>8. CASE \E r \in Elements(reports') : t = r[u]
      BY <1>1, <2>4, <2>8 DEF Told
    <2> QED BY <2>5, <2>6, <2>7, <2>8 DEF Told
  <1> QED BY <1>8, <1>9, <1>10, <1>11

\* The second detector takes a bulk of statuses, or reports them.
LEMMA SelfMessageReceived ==
  ASSUME NodeTyped, CoordinatorTyped, DetectorInv, ReceiveSelfMessage
  PROVE  /\ reports' \in Seq(Statuses) /\ NodeTyped' /\ DetectorInv'
         /\ \A u \in Workers : Told(u)' \subseteq Told(u)
  <1> DEFINE m == Head(selfMessages)
             rest == Tail(selfMessages)
  <1>1. /\ selfMessages # << >>
        /\ \/ m.type = "BulkStatus" /\ ReceiveBulkStatus(m.fromWorkers)
           \/ m.type = "IdleReportRequested" /\ ReportToParent(m.allIdle)
        /\ UNCHANGED <<onNode, forwarded, nodeReported, statuses, workerStatus>>
    BY DEF ReceiveSelfMessage, coordinatorVars
  <1>2. /\ onNode \in Statuses /\ mostRecent \in Statuses /\ unreported \in Statuses
        /\ selfMessages \in Seq(SelfMessages) /\ forwarded \subseteq Workers
        /\ nodeReported \in BOOLEAN /\ pending \in BOOLEAN
        /\ superseded \in BOOLEAN /\ treeReported \in BOOLEAN
        /\ reports \in Seq(Statuses) /\ workerStatus \in Statuses
    BY DEF NodeTyped, CoordinatorTyped
  <1>3. /\ OneRequest(selfMessages) /\ FullBulks(selfMessages)
        /\ pending <=> SomeRequest(selfMessages)
        /\ pending => StatusesOf(unreported) # {}
    BY DEF DetectorInv
  <1>4. /\ m \in SelfMessages /\ rest \in Seq(SelfMessages)
        /\ OneRequest(rest) /\ FullBulks(rest)
        /\ m.type = "BulkStatus" =>
             /\ SomeRequest(rest) <=> SomeRequest(selfMessages)
             /\ StatusesOf(m.fromWorkers) # {}
        /\ m.type = "IdleReportRequested" => SomeRequest(selfMessages) /\ ~ SomeRequest(rest)
    BY <1>1, <1>2, <1>3, MessageTaken
  <1>5. m \in Elements(selfMessages) /\ Elements(rest) \subseteq Elements(selfMessages)
    BY <1>1, <1>2, TakenElement
  <1> HIDE DEF m
  <1>6. ASSUME mostRecent' \in Statuses, unreported' \in Statuses, reports' \in Seq(Statuses),
               treeReported' \in BOOLEAN, superseded' \in BOOLEAN,
               \A u \in Workers :
                 {mostRecent'[u], unreported'[u]} \cup {r[u] : r \in Elements(reports')}
                   \subseteq Told(u) \cup {NoStatus},
               selfMessages' \in Seq(SelfMessages), pending' \in BOOLEAN, DetectorInv',
               \A x \in Elements(selfMessages') :
                 x.type = "BulkStatus" => x \in Elements(rest)
        PROVE  /\ reports' \in Seq(Statuses) /\ NodeTyped' /\ DetectorInv'
               /\ \A u \in Workers : Told(u)' \subseteq Told(u)
    <2>1. NodeTyped'
      BY <1>1, <1>2, <1>6 DEF NodeTyped
    <2>2. ASSUME NEW u \in Workers, NEW t \in Told(u)' PROVE t \in Told(u)
      <3>1. t # NoStatus
        BY DEF Told
      <3>2. CASE t \in Elements(statuses'[u]) \cup {onNode'[u], workerStatus'[u]}
        BY <1>1, <3>1, <3>2 DEF Told
      <3>3. CASE t \in {mostRecent'[u], unreported'[u]} \cup {r[u] : r \in Elements(reports')}
        BY <1>6, <3>1, <3>3
      <3>4. CASE \E x \in Elements(selfMessages') : x.type = "BulkStatus" /\ t = x.fromWorkers[u]
        BY <1>5, <1>6, <3>1, <3>4 DEF Told
      <3> QED BY <3>2, <3>3, <3>4 DEF Told
    <2> QED BY <1>6, <2>1, <2>2
  <1>7. \A u \in Workers :
          {mostRecent[u], unreported[u]} \cup {r[u] : r \in Elements(reports)}
            \subseteq Told(u) \cup {NoStatus}
    BY DEF Told
  <1>8. CASE m.type = "BulkStatus" /\ ReceiveBulkStatus(m.fromWorkers)
    <2> DEFINE bulk == m.fromWorkers
    <2>1. bulk \in Statuses /\ \A u \in Workers : bulk[u] \in Told(u) \cup {NoStatus}
      <3>1. bulk \in Statuses
        BY <1>4, <1>8 DEF SelfMessages
      <3> QED BY <3>1, <1>5, <1>8 DEF Told
    <2>2. /\ mostRecent' = [w \in Workers |-> IF bulk[w] # NoStatus THEN bulk[w] ELSE mostRecent[w]]
          /\ unreported' = [w \in Workers |-> IF bulk[w] # NoStatus THEN bulk[w] ELSE unreported[w]]
          /\ UNCHANGED <<treeReported, reports>>
          /\ IF pending
             THEN superseded' = TRUE /\ selfMessages' = rest /\ UNCHANGED pending
             ELSE RequestReport(rest) /\ UNCHANGED superseded
      BY <1>8 DEF ReceiveBulkStatus
    <2> HIDE DEF bulk, rest
    <2>3. mostRecent' \in Statuses /\ unreported' \in Statuses
      BY <1>2, <2>1, <2>2 DEF Statuses
    <2>4. StatusesOf(unreported') # {}
      <3>1. PICK u \in Workers : bulk[u] # NoStatus
        BY <1>4, <1>8 DEF bulk, StatusesOf
      <3>2. unreported'[u] # NoStatus
        BY <2>2, <3>1
      <3> QED BY <3>2 DEF StatusesOf
    <2>5. \A u \in Workers :
            {mostRecent'[u], unreported'[u]} \cup {r[u] : r \in Elements(reports')}
              \subseteq Told(u) \cup {NoStatus}
      BY <1>7, <2>1, <2>2
    <2>6. CASE pending
      <3>1. DetectorInv'
        BY <1>3, <1>4, <1>8, <2>2, <2>4, <2>6 DEF DetectorInv
      <3> QED BY <1>2, <1>4, <1>6, <2>2, <2>3, <2>5, <2>6, <3>1
    <2>7. CASE ~ pending
      <3>1. /\ selfMessages' \in Seq(SelfMessages) /\ pending' \in BOOLEAN
            /\ DetectorInv'
            /\ \A x \in Elements(selfMessages') : x.type = "BulkStatus" => x \in Elements(rest)
        BY <1>3, <1>4, <1>8, <2>2, <2>4, <2>7, Requesting
      <3> QED BY <1>2, <1>6, <2>2, <2>3, <2>5, <2>7, <3>1
    <2> QED BY <2>6, <2>7
  <1>9. CASE m.type = "IdleReportRequested" /\ ReportToParent(m.allIdle)
    <2>1. /\ superseded' = FALSE /\ UNCHANGED mostRecent
          /\ pending /\ ~ SomeRequest(rest) /\ StatusesOf(unreported) # {}
      BY <1>3, <1>4, <1>9 DEF ReportToParent
    <2>2. CASE superseded /\ UNCHANGED <<unreported, treeReported, reports>> /\ RequestReport(rest)
      <3> HIDE DEF rest
      <3>1. /\ selfMessages' \in Seq(SelfMessages) /\ pending' \in BOOLEAN
            /\ DetectorInv'
            /\ \A x \in Elements(selfMessages') : x.type = "BulkStatus" => x \in Elements(rest)
        <4>1. StatusesOf(unreported') # {}
          BY <2>1, <2>2
        <4> QED BY <1>4, <2>1, <2>2, <4>1, Requesting
      <3>2. \A u \in Workers :
              {mostRecent'[u], unreported'[u]} \cup {r[u] : r \in Elements(reports')}
                \subseteq Told(u) \cup {NoStatus}
        BY <1>7, <2>1, <2>2
      <3> QED BY <1>2, <1>6, <2>1, <2>2, <3>1, <3>2
    <2>3. CASE /\ pending' = FALSE /\ selfMessages' = rest
               /\ \/ /\ reports' = Append(reports, unreported)
                     /\ unreported' = None /\ treeReported' = TRUE
                  \/ UNCHANGED <<reports, unreported, treeReported>>
      <3>1. DetectorInv'
        BY <1>4, <2>1, <2>3 DEF DetectorInv
      <3>2. /\ unreported' \in Statuses /\ reports' \in Seq(Statuses)
            /\ treeReported' \in BOOLEAN
            /\ \A u \in Workers : unreported'[u] \in {unreported[u], NoStatus}
            /\ Elements(reports') \subseteq Elements(reports) \cup {unreported}
        <4>1. None \in Statuses /\ \A u \in Workers : None[u] = NoStatus
          BY DEF None, Statuses
        <4>2. /\ Append(reports, unreported) \in Seq(Statuses)
              /\ Elements(Append(reports, unreported)) = Elements(reports) \cup {unreported}
          BY <1>2, AppendedElement
        <4> QED BY <1>2, <2>3, <4>1, <4>2
      <3>3. \A u \in Workers :
              {mostRecent'[u], unreported'[u]} \cup {r[u] : r \in Elements(reports')}
                \subseteq Told(u) \cup {NoStatus}
        BY <1>7, <2>1, <3>2
      <3> HIDE DEF rest
      <3> QED BY <1>2, <1>4, <1>6, <2>1, <2>3, <3>1, <3>2, <3>3
    <2> QED BY <1>9, <2>2, <2>3 DEF ReportToParent
  <1> QED BY <1>1, <1>8, <1>9

LEMMA ToldTyped ==
  ASSUME WorkersTyped, NodeTyped, CoordinatorTyped, NEW w \in Workers
  PROVE  Told(w) \subseteq Status
  <1> SUFFICES ASSUME NEW s \in Told(w) PROVE s \in Status
    OBVIOUS
  <1>1. s # NoStatus
    BY DEF Told
  <1>2. CASE s \in Elements(statuses[w])
    BY <1>2, ElementsTyped DEF WorkersTyped
  <1>3. CASE s \in {onNode[w], mostRecent[w], unreported[w], workerStatus[w]}
    BY <1>1, <1>3 DEF NodeTyped, CoordinatorTyped, Statuses
  <1>4. ASSUME NEW m \in Elements(selfMessages), m.type = "BulkStatus", s = m.fromWorkers[w]
        PROVE  s \in Status
    <2>1. m \in SelfMessages
      BY ElementsTyped DEF NodeTyped
    <2>2. m.fromWorkers \in Statuses
      BY <1>4, <2>1 DEF SelfMessages
    <2> QED BY <1>1, <1>4, <2>2 DEF Statuses
  <1>5. ASSUME NEW r \in Elements(reports), s = r[w]
        PROVE  s \in Status
    <2>1. r \in Statuses
      BY ElementsTyped DEF CoordinatorTyped
    <2> QED BY <1>1, <1>5, <2>1 DEF Statuses
  <1> QED BY <1>2, <1>3, <1>4, <1>5 DEF Told

\* A turn tells of one worker only, and honestly.
LEMMA ToldTurn ==
  ASSUME WorkersTyped, NEW w \in Workers, Turn(w)
  PROVE  /\ \A u \in Workers \ {w} : Told(u)' \subseteq Told(u)
         /\ \A s \in Told(w)' :
              \/ s \in Told(w)
              \/ /\ s.counted = counted'[w] /\ s.sent = sent'[w] /\ s.replies <= replies'[w]
                 /\ s.idle /\ s.replies = replies'[w]
                      => ~ operationsScheduled'[w] /\ Quiet(w)'
  <1>1. PICK a \in Seq(Status) :
          statuses' = [statuses EXCEPT ![w] = statuses[w] \o a] /\ Honest(a, w)
    BY DEF Turn, Announced
  <1>2. UNCHANGED <<onNode, mostRecent, unreported, selfMessages, reports, workerStatus>>
    BY DEF Turn, nodeVars, coordinatorVars
  <1>3. statuses \in [Workers -> Seq(Status)]
    BY DEF WorkersTyped
  <1>4. Elements(statuses'[w]) \subseteq Elements(statuses[w]) \cup Elements(a)
    BY <1>1, <1>3, JoinedElements
  <1>5. \A u \in Workers \ {w} : Told(u)' \subseteq Told(u)
    BY <1>1, <1>2, <1>3 DEF Told
  <1>6. Told(w)' \subseteq Told(w) \cup Elements(a)
    BY <1>2, <1>4 DEF Told
  <1> QED BY <1>1, <1>5, <1>6 DEF Honest

(* The counts. *)

\* What has been counted as received and what waits in a mailbox is what has been
\* counted as sent; all replies have arrived or are under way.
CountInv ==
  /\ \A w \in Workers :
       counted[w] + signals[w] + Len(calls[w])
         = callsSent[w] + SumFunction([u \in Workers |-> sent[u][w]])
  /\ SumFunction(replies) = callsAnswered + Cardinality(replied)

LEMMA SentTyped ==
  ASSUME WorkersTyped, NEW w \in Workers
  PROVE  /\ [u \in Workers |-> sent[u][w]] \in [Workers -> Int]
         /\ replies \in [Workers -> Int]
         /\ signals[w] \in Nat /\ counted[w] \in Nat /\ Len(calls[w]) \in Nat
  BY LenProperties DEF WorkersTyped

LEMMA CountTurn ==
  ASSUME TypesInv, CountInv, NEW w \in Workers, Turn(w)
  PROVE  CountInv'
  <1>1. WorkersTyped /\ WorkersTyped' /\ IsFiniteSet(Workers)
    BY WorkersAssumption DEF TypesInv, Turn
  <1>2. UNCHANGED <<callsSent, callsAnswered>> /\ callsSent \in [Workers -> Nat]
        /\ callsAnswered \in Nat
    BY DEF Turn, TypesInv, DriverInv
  <1>3. PICK number \in [Workers -> 0 .. 1] : Sent(w, number)
    BY DEF Turn
  <1>4. ASSUME NEW u \in Workers
        PROVE  counted'[u] + signals'[u] + Len(calls'[u])
                 = callsSent'[u] + SumFunction([x \in Workers |-> sent'[x][u]])
    <2> DEFINE f == [x \in Workers |-> sent[x][u]]
               g == [x \in Workers |-> sent'[x][u]]
    <2>1. f \in [Workers -> Int] /\ g \in [Workers -> Int]
      <3>1. sent \in [Workers -> [Workers -> Nat]] /\ sent' \in [Workers -> [Workers -> Nat]]
        BY <1>1 DEF WorkersTyped
      <3> QED BY <3>1
    <2>2. /\ g[w] = f[w] + number[u] /\ \A x \in Workers \ {w} : f[x] = g[x]
          /\ f[w] \in Int
      BY <1>1, <1>3, <2>1 DEF Sent, WorkersTyped
    <2>3. counted[u] + signals[u] + Len(calls[u]) = callsSent[u] + SumFunction(f)
      BY DEF CountInv
    <2>4. /\ signals[u] \in Nat /\ counted[u] \in Nat /\ Len(calls[u]) \in Nat
          /\ callsSent[u] \in Nat /\ number[u] \in Int
      BY <1>1, <1>2, SentTyped
    <2>5. counted'[u] + signals'[u] + Len(calls'[u])
            = (counted[u] + signals[u] + Len(calls[u])) + number[u]
      <3>1. CASE u = w
        BY <1>3, <3>1 DEF Sent
      <3>2. CASE u # w
        <4>1. signals'[u] = signals[u] + number[u]
          BY <1>3, <3>2 DEF Sent
        <4>2. counted'[u] = counted[u]
          BY <1>1, <3>2 DEF Turn, Received, WorkersTyped
        <4>3. calls'[u] = calls[u]
          BY <1>1, <3>2 DEF Turn, Answered, WorkersTyped
        <4> DEFINE l == Len(calls[u])
        <4>4. Len(calls'[u]) = l /\ l \in Nat
          BY <2>4, <4>3
        <4> HIDE DEF l
        <4>5. counted'[u] + signals'[u] + Len(calls'[u])
                = (counted[u] + signals[u] + l) + number[u]
          BY <2>4, <4>1, <4>2, <4>4
        <4> QED BY <4>5 DEF l
      <3> QED BY <3>1, <3>2
    <2> HIDE DEF f, g
    <2>6. SumFunction(g) = SumFunction(f) + (g[w] - f[w])
      BY <1>1, <2>1, <2>2, SumChange
    <2>7. SumFunction(f) \in Int
      BY <1>1, <2>1, SumInt
    <2>8. SumFunction(g) = SumFunction(f) + number[u]
      BY <2>2, <2>4, <2>6, <2>7
    <2>9. counted'[u] + signals'[u] + Len(calls'[u]) = (callsSent[u] + SumFunction(f)) + number[u]
      BY <2>3, <2>5
    <2>10. (callsSent[u] + SumFunction(f)) + number[u] = callsSent[u] + SumFunction(g)
      BY <2>4, <2>7, <2>8
    <2> QED BY <1>2, <2>9, <2>10 DEF g
  <1>5. SumFunction(replies') = callsAnswered' + Cardinality(replied')
    <2>1. SumFunction(replies) = callsAnswered + Cardinality(replied)
      BY DEF CountInv
    <2>2. CASE UNCHANGED <<replies, replied>>
      BY <1>2, <2>1, <2>2
    <2>3. CASE /\ calls[w] # << >> /\ Head(calls[w]) \in Requests
               /\ replies' = [replies EXCEPT ![w] = replies[w] + 1]
               /\ replied' = replied \cup {w}
      <3>1. calls[w] \in Seq(Requests \cup {"addVertex"}) /\ replies \in [Workers -> Int]
            /\ replies' \in [Workers -> Int] /\ replies[w] \in Int
        BY <1>1 DEF WorkersTyped
      <3>2. 1 \in 1 .. Len(calls[w]) /\ calls[w][1] \in Requests
        BY <2>3, <3>1, TakenElement
      <3>3. CallsOK(w) /\ replied \subseteq Workers
        BY DEF TypesInv, DriverInv
      <3>4. w \notin replied /\ IsFiniteSet(replied)
        BY <1>1, <3>2, <3>3, FS_Subset DEF CallsOK
      <3>5. Cardinality(replied') = Cardinality(replied) + 1 /\ Cardinality(replied) \in Nat
        BY <2>3, <3>4, FS_AddElement, FS_CardinalityType
      <3>6. replies'[w] = replies[w] + 1 /\ \A x \in Workers \ {w} : replies[x] = replies'[x]
        BY <2>3, <3>1
      <3>7. SumFunction(replies') = SumFunction(replies) + (replies'[w] - replies[w])
        <4>1. IsFiniteSet(Workers) /\ w \in Workers
          BY <1>1
        <4>2. \A x \in Workers \ {w} : replies[x] = replies'[x]
          BY <3>6
        <4> QED BY <3>1, <4>1, <4>2, SumChange
      <3> QED BY <1>2, <2>1, <3>1, <3>5, <3>6, <3>7
    <2> QED BY <2>2, <2>3 DEF Turn, Answered
  <1> QED BY <1>4, <1>5 DEF CountInv

\* The driver sends calls and receives replies.
LEMMA CountDrive ==
  ASSUME TypesInv, CountInv, Drive
  PROVE  CountInv'
  <1>1. WorkersTyped /\ IsFiniteSet(Workers)
    BY WorkersAssumption DEF TypesInv
  <1>2. UNCHANGED <<sent, replies, counted, signals>>
    BY DEF Drive, countVars
  <1>3. /\ callsSent \in [Workers -> Nat] /\ callsAnswered \in Nat /\ replied \subseteq Workers
        /\ calls \in [Workers -> Seq(Requests \cup {"addVertex"})]
        /\ \A w \in Workers : signals[w] \in Nat /\ counted[w] \in Nat
    BY DEF TypesInv, DriverInv, WorkersTyped
  <1>4. CASE IssueCall
    <2>1. /\ calls' = [w \in Workers |-> Append(calls[w], Call)]
          /\ callsSent' = [w \in Workers |-> callsSent[w] + 1]
          /\ UNCHANGED <<replied, callsAnswered>>
          /\ Call \in Requests \cup {"addVertex"}
      BY <1>4, ProgramCalls DEF IssueCall, Running, Call
    <2>2. ASSUME NEW w \in Workers
          PROVE  counted'[w] + signals'[w] + Len(calls'[w])
                   = callsSent'[w] + SumFunction([u \in Workers |-> sent'[u][w]])
      <3> DEFINE total == SumFunction([u \in Workers |-> sent[u][w]])
                 l == Len(calls[w])
      <3>1. Len(calls'[w]) = l + 1 /\ l \in Nat
        BY <1>3, <2>1, AppendedElement
      <3>2. total \in Int
        BY <1>1, SentTyped, SumInt
      <3>3. counted[w] + signals[w] + l = callsSent[w] + total
        BY DEF CountInv
      <3>4. callsSent'[w] = callsSent[w] + 1 /\ callsSent[w] \in Nat
        BY <1>3, <2>1
      <3>5. SumFunction([u \in Workers |-> sent'[u][w]]) = total
        BY <1>2
      <3> HIDE DEF total, l
      <3>6. counted'[w] + signals'[w] + Len(calls'[w]) = counted[w] + signals[w] + l + 1
        <4>1. counted'[w] = counted[w] /\ signals'[w] = signals[w]
          BY <1>2
        <4>2. counted[w] \in Nat /\ signals[w] \in Nat
          BY <1>3
        <4> QED BY <3>1, <4>1, <4>2
      <3> QED BY <1>3, <3>2, <3>3, <3>4, <3>5, <3>6
    <2> QED BY <1>2, <2>1, <2>2 DEF CountInv
  <1>5. ASSUME NEW w \in Workers, ReceiveReply(w)
        PROVE  CountInv'
    <2>1. /\ w \in replied /\ replied' = replied \ {w}
          /\ callsAnswered' = callsAnswered + 1
          /\ UNCHANGED <<calls, callsSent>>
      BY <1>5 DEF ReceiveReply
    <2>2. IsFiniteSet(replied)
      BY <1>1, <1>3, FS_Subset
    <2>3. Cardinality(replied') = Cardinality(replied) - 1 /\ Cardinality(replied) \in Nat
      BY <2>1, <2>2, FS_RemoveElement, FS_CardinalityType
    <2>4. SumFunction(replies') = callsAnswered' + Cardinality(replied')
      <3>1. SumFunction(replies) = callsAnswered + Cardinality(replied)
        BY DEF CountInv
      <3> DEFINE c == Cardinality(replied)
                 d == Cardinality(replied')
      <3>2. callsAnswered + c = (callsAnswered + 1) + d
        <4>1. d = c - 1 /\ c \in Nat
          BY <2>3
        <4> HIDE DEF c, d
        <4> QED BY <1>3, <4>1
      <3> HIDE DEF c, d
      <3> QED BY <1>2, <2>1, <3>1, <3>2 DEF c, d
    <2>5. \A u \in Workers :
            counted'[u] + signals'[u] + Len(calls'[u])
              = callsSent'[u] + SumFunction([x \in Workers |-> sent'[x][u]])
      BY <1>2, <2>1 DEF CountInv
    <2> QED BY <2>4, <2>5 DEF CountInv
  <1>6. CASE AskForIdle \/ AwaitIdleReturns
    <2>1. UNCHANGED <<calls, callsSent, callsAnswered, replied>>
      BY <1>6 DEF AskForIdle, AwaitIdleReturns, driverVars
    <2> QED BY <1>2, <2>1 DEF CountInv
  <1> QED BY <1>4, <1>5, <1>6 DEF Drive

(* The messages that the node and the coordinator handle. *)

Delivery ==
  (\E w \in Workers : ReceiveStatus(w)) \/ ReceiveSelfMessage \/ ReceiveReport \/ ReceiveOnIdle

LEMMA ReportReceived ==
  ASSUME CoordinatorTyped, ReceiveReport
  PROVE  CoordinatorTyped' /\ \A u \in Workers : Told(u)' \subseteq Told(u)
  <1> DEFINE head == Head(reports)
  <1>1. /\ reports # << >> /\ reports' = Tail(reports)
        /\ workerStatus' = [w \in Workers |-> IF head[w] # NoStatus THEN head[w]
                                              ELSE workerStatus[w]]
        /\ onIdle' \in {onIdle, "answered"}
        /\ UNCHANGED <<statuses, onNode, mostRecent, unreported, selfMessages>>
    BY DEF ReceiveReport, nodeVars
  <1>2. workerStatus \in Statuses /\ reports \in Seq(Statuses)
        /\ onIdle \in {"none", "asked", "registered", "answered"}
    BY DEF CoordinatorTyped
  <1>3. /\ head \in Statuses /\ head \in Elements(reports)
        /\ reports' \in Seq(Statuses) /\ Elements(reports') \subseteq Elements(reports)
    BY <1>1, <1>2, TakenElement
  <1> HIDE DEF head
  <1>4. CoordinatorTyped'
    <2>1. workerStatus' \in Statuses
      BY <1>1, <1>2, <1>3 DEF Statuses
    <2> QED BY <1>1, <1>2, <1>3, <2>1 DEF CoordinatorTyped
  <1>5. ASSUME NEW u \in Workers, NEW t \in Told(u)' PROVE t \in Told(u)
    <2>1. t # NoStatus
      BY DEF Told
    <2>2. CASE t \in Elements(statuses'[u]) \cup {onNode'[u], mostRecent'[u], unreported'[u]}
      BY <1>1, <2>1, <2>2 DEF Told
    <2>3. CASE t = workerStatus'[u]
      <3>1. t \in {head[u], workerStatus[u]}
        BY <1>1, <2>3
      <3> QED BY <1>3, <2>1, <3>1 DEF Told
    <2>4. CASE t \in {m.fromWorkers[u] :
                        m \in {x \in Elements(selfMessages') : x.type = "BulkStatus"}}
      BY <1>1, <2>1, <2>4 DEF Told
    <2>5. CASE \E r \in Elements(reports') : t = r[u]
      BY <1>3, <2>1, <2>5 DEF Told
    <2> QED BY <2>2, <2>3, <2>4, <2>5 DEF Told
  <1> QED BY <1>4, <1>5

\* They keep what the variables hold, and tell of nothing new.
LEMMA DeliveryTypes ==
  ASSUME TypesInv, DetectorInv, Delivery
  PROVE  /\ TypesInv' /\ DetectorInv'
         /\ \A u \in Workers : Told(u)' \subseteq Told(u)
         /\ UNCHANGED <<workerVars, driverVars>>
  <1>1. WorkersTyped /\ BudgetInv /\ NodeTyped /\ CoordinatorTyped /\ DriverInv
    BY DEF TypesInv
  <1>2. UNCHANGED <<workerVars, driverVars>>
    BY DEF Delivery, ReceiveStatus, ReceiveSelfMessage, ReceiveReport, ReceiveOnIdle
  <1>3. ASSUME statuses' \in [Workers -> Seq(Status)] PROVE WorkersTyped' /\ BudgetInv'
    BY <1>1, <1>2, <1>3
    DEF WorkersTyped, BudgetInv, workerVars, workVars, countVars, stateVars
  <1>4. ASSUME onIdle' = onIdle \/ (onIdle # "none" /\ onIdle' # "none") PROVE DriverInv'
    <2>1. UNCHANGED <<position, waiting, replied, callsSent, callsAnswered, calls, replies>>
      BY <1>2 DEF driverVars, workerVars, countVars
    <2> QED BY <1>1, <1>4, <2>1 DEF DriverInv, CallsOK, Running, Call
  <1>5. ASSUME NEW w \in Workers, ReceiveStatus(w)
        PROVE  /\ TypesInv' /\ DetectorInv'
               /\ \A u \in Workers : Told(u)' \subseteq Told(u)
    <2>1. /\ statuses' \in [Workers -> Seq(Status)] /\ NodeTyped' /\ DetectorInv'
          /\ \A u \in Workers : Told(u)' \subseteq Told(u)
      BY <1>1, <1>5, StatusReceived
    <2>2. UNCHANGED <<reports, workerStatus, onIdle>>
      BY <1>5 DEF ReceiveStatus, coordinatorVars
    <2>3. CoordinatorTyped'
      BY <1>1, <2>2 DEF CoordinatorTyped
    <2> QED BY <1>3, <1>4, <2>1, <2>2, <2>3 DEF TypesInv
  <1>6. CASE ReceiveSelfMessage
    <2>1. /\ reports' \in Seq(Statuses) /\ NodeTyped' /\ DetectorInv'
          /\ \A u \in Workers : Told(u)' \subseteq Told(u)
      BY <1>1, <1>6, SelfMessageReceived
    <2>2. UNCHANGED <<statuses, workerStatus, onIdle>>
      BY <1>6 DEF ReceiveSelfMessage, coordinatorVars
    <2>3. CoordinatorTyped'
      BY <1>1, <2>1, <2>2 DEF CoordinatorTyped
    <2>4. statuses' \in [Workers -> Seq(Status)]
      BY <1>1, <2>2 DEF WorkersTyped
    <2> QED BY <1>2, <1>3, <1>4, <2>1, <2>2, <2>3, <2>4 DEF TypesInv
  <1>7. ASSUME UNCHANGED <<statuses, nodeVars>>, CoordinatorTyped',
               onIdle' = onIdle \/ (onIdle # "none" /\ onIdle' # "none")
        PROVE  TypesInv' /\ DetectorInv'
    <2>1. NodeTyped' /\ DetectorInv'
      BY <1>1, <1>7 DEF NodeTyped, DetectorInv, nodeVars, SomeRequest, OneRequest, FullBulks
    <2>2. statuses' \in [Workers -> Seq(Status)]
      BY <1>1, <1>7 DEF WorkersTyped
    <2> QED BY <1>3, <1>4, <1>7, <2>1, <2>2 DEF TypesInv
  <1>8. CASE ReceiveReport
    <2>1. CoordinatorTyped' /\ \A u \in Workers : Told(u)' \subseteq Told(u)
      BY <1>1, <1>8, ReportReceived
    <2>2. /\ UNCHANGED <<statuses, nodeVars>>
          /\ onIdle' = onIdle \/ (onIdle # "none" /\ onIdle' # "none")
      BY <1>8 DEF ReceiveReport
    <2> QED BY <1>2, <1>7, <2>1, <2>2
  <1>9. CASE ReceiveOnIdle
    <2>1. /\ UNCHANGED <<statuses, nodeVars, reports, workerStatus>>
          /\ onIdle = "asked" /\ onIdle' \in {"answered", "registered"}
      BY <1>9 DEF ReceiveOnIdle
    <2>2. CoordinatorTyped'
      BY <1>1, <2>1 DEF CoordinatorTyped
    <2>3. \A u \in Workers : Told(u)' = Told(u)
      BY <2>1 DEF Told, nodeVars
    <2> QED BY <1>2, <1>7, <2>1, <2>2, <2>3
  <1> QED BY <1>2, <1>5, <1>6, <1>8, <1>9 DEF Delivery

LEMMA TurnTypes ==
  ASSUME TypesInv, DetectorInv, NEW w \in Workers, Turn(w)
  PROVE  TypesInv' /\ DetectorInv'
  <1>1. WorkersTyped /\ BudgetInv /\ NodeTyped /\ CoordinatorTyped /\ DriverInv
    BY DEF TypesInv
  <1>2. WorkersTyped' /\ UNCHANGED <<nodeVars, reports, coordinatorVars>>
    BY DEF Turn
  <1>3. NodeTyped' /\ CoordinatorTyped' /\ DetectorInv'
    BY <1>1, <1>2
    DEF NodeTyped, CoordinatorTyped, DetectorInv, nodeVars, coordinatorVars, SomeRequest,
        OneRequest, FullBulks
  <1> QED BY <1>1, <1>2, <1>3, BudgetTurn, DriverTurn DEF TypesInv

\* Counts only grow, those of the other workers stay.
LEMMA TurnGrows ==
  ASSUME WorkersTyped, NEW w \in Workers, Turn(w)
  PROVE  /\ \A u \in Workers \ {w} :
              /\ counted'[u] = counted[u] /\ replies'[u] = replies[u] /\ sent'[u] = sent[u]
              /\ operationsScheduled'[u] = operationsScheduled[u] /\ Quiet(u)' = Quiet(u)
         /\ counted[w] <= counted'[w] /\ replies[w] <= replies'[w]
         /\ \A u \in Workers : sent[w][u] <= sent'[w][u]
         /\ counted'[w] = counted[w] => operationsScheduled[w] /\ replies'[w] = replies[w]
  <1>1. /\ counted \in [Workers -> Nat] /\ replies \in [Workers -> Nat]
        /\ sent \in [Workers -> [Workers -> Nat]]
    BY DEF WorkersTyped
  <1>2. PICK number \in [Workers -> 0 .. 1] :
          sent' = [sent EXCEPT ![w] = [u \in Workers |-> sent[w][u] + number[u]]]
    BY DEF Turn, Sent
  <1>3. \A u \in Workers : number[u] \in Int /\ number[u] >= 0 /\ sent[w][u] \in Int
    BY <1>1, <1>2
  <1>4. \A u \in Workers : sent[w][u] <= sent'[w][u]
    <2> TAKE u \in Workers
    <2>1. sent'[w][u] = sent[w][u] + number[u]
      BY <1>1, <1>2
    <2> QED BY <1>3, <2>1
  <1>5. \/ counted' = [counted EXCEPT ![w] = counted[w] + 1]
        \/ counted' = counted /\ replies' = replies /\ operationsScheduled[w]
    BY DEF Turn, Received
  <1>6. replies' = replies \/ replies' = [replies EXCEPT ![w] = replies[w] + 1]
    BY DEF Turn, Answered
  <1>7. \A u \in Workers \ {w} :
          /\ counted'[u] = counted[u] /\ replies'[u] = replies[u] /\ sent'[u] = sent[u]
    BY <1>1, <1>2, <1>5, <1>6
  <1>8. \A u \in Workers \ {w} :
          operationsScheduled'[u] = operationsScheduled[u] /\ Quiet(u)' = Quiet(u)
    BY DEF Turn, Quiet
  <1>9. /\ counted[w] <= counted'[w] /\ replies[w] <= replies'[w]
        /\ counted'[w] = counted[w] => operationsScheduled[w] /\ replies'[w] = replies[w]
    BY <1>1, <1>5, <1>6
  <1> QED BY <1>4, <1>7, <1>8, <1>9

\* What is told of a worker is in its past; an idle status with the present
\* counts says what the worker is.
ToldInv ==
  \A w \in Workers : \A s \in Told(w) :
    /\ s.counted <= counted[w] /\ s.replies <= replies[w]
    /\ \A u \in Workers : s.sent[u] <= sent[w][u]
    /\ s.idle /\ s.counted = counted[w] /\ s.replies = replies[w]
         => ~ operationsScheduled[w] /\ s.sent = sent[w] /\ Quiet(w)

LEMMA ToldInvTurn ==
  ASSUME TypesInv, ToldInv, NEW w \in Workers, Turn(w)
  PROVE  ToldInv'
  <1>1. /\ WorkersTyped /\ WorkersTyped'
        /\ \A u \in Workers : Told(u) \subseteq Status
    BY ToldTyped DEF TypesInv, Turn
  <1>2. ASSUME NEW u \in Workers \ {w}, NEW s \in Told(u)'
        PROVE  /\ s.counted <= counted'[u] /\ s.replies <= replies'[u]
               /\ \A x \in Workers : s.sent[x] <= sent'[u][x]
               /\ s.idle /\ s.counted = counted'[u] /\ s.replies = replies'[u]
                    => ~ operationsScheduled'[u] /\ s.sent = sent'[u] /\ Quiet(u)'
    <2>1. s \in Told(u)
      BY <1>1, ToldTurn
    <2>2. /\ counted'[u] = counted[u] /\ replies'[u] = replies[u] /\ sent'[u] = sent[u]
          /\ operationsScheduled'[u] = operationsScheduled[u] /\ Quiet(u)' = Quiet(u)
      BY <1>1, TurnGrows
    <2> QED BY <2>1, <2>2 DEF ToldInv
  <1>3. ASSUME NEW s \in Told(w)'
        PROVE  /\ s.counted <= counted'[w] /\ s.replies <= replies'[w]
               /\ \A x \in Workers : s.sent[x] <= sent'[w][x]
               /\ s.idle /\ s.counted = counted'[w] /\ s.replies = replies'[w]
                    => ~ operationsScheduled'[w] /\ s.sent = sent'[w] /\ Quiet(w)'
    <2>1. /\ counted[w] \in Nat /\ counted'[w] \in Nat
          /\ replies[w] \in Nat /\ replies'[w] \in Nat
          /\ \A x \in Workers : sent[w][x] \in Nat /\ sent'[w][x] \in Nat
      BY <1>1 DEF WorkersTyped
    <2>2. CASE s \in Told(w)
      <3>1. /\ s.counted <= counted[w] /\ s.replies <= replies[w]
            /\ \A x \in Workers : s.sent[x] <= sent[w][x]
            /\ s.idle /\ s.counted = counted[w] /\ s.replies = replies[w]
                 => ~ operationsScheduled[w]
        BY <2>2 DEF ToldInv
      <3>2. s.counted \in Nat /\ s.replies \in Nat /\ \A x \in Workers : s.sent[x] \in Nat
        BY <1>1, <2>2 DEF Status
      <3>3. /\ counted[w] <= counted'[w] /\ replies[w] <= replies'[w]
            /\ \A x \in Workers : sent[w][x] <= sent'[w][x]
            /\ counted'[w] = counted[w] => operationsScheduled[w] /\ replies'[w] = replies[w]
        BY <1>1, TurnGrows
      <3>4. /\ s.counted <= counted'[w] /\ s.replies <= replies'[w]
            /\ s.counted = counted'[w] => counted'[w] = counted[w] /\ s.counted = counted[w]
        BY <2>1, <3>1, <3>2, <3>3
      <3>5. \A x \in Workers : s.sent[x] <= sent'[w][x]
        BY <2>1, <3>1, <3>2, <3>3
      <3>6. ~ (s.idle /\ s.counted = counted'[w] /\ s.replies = replies'[w])
        BY <3>1, <3>3, <3>4
      <3> QED BY <3>4, <3>5, <3>6
    <2>3. CASE /\ s.counted = counted'[w] /\ s.sent = sent'[w] /\ s.replies <= replies'[w]
               /\ s.idle /\ s.replies = replies'[w] => ~ operationsScheduled'[w] /\ Quiet(w)'
      <3>1. \A x \in Workers : sent'[w][x] <= sent'[w][x]
        BY <2>1
      <3> QED BY <2>1, <2>3, <3>1
    <2> QED BY <1>1, <2>2, <2>3, ToldTurn
  <1> QED BY <1>2, <1>3 DEF ToldInv

\* Whoever keeps the workers' counts and tells of nothing new keeps it.
LEMMA ToldInvKept ==
  ASSUME ToldInv, UNCHANGED <<countVars, operationsScheduled, workVars>>,
         \A u \in Workers : Told(u)' \subseteq Told(u)
  PROVE  ToldInv'
  BY DEF ToldInv, Quiet, countVars, workVars

LEMMA DriveTold ==
  ASSUME Drive
  PROVE  \A u \in Workers : Told(u)' = Told(u)
  BY DEF Drive, nodeVars, Told

LEMMA CountKept ==
  ASSUME CountInv, UNCHANGED <<workerVars, driverVars>>
  PROVE  CountInv'
  BY DEF CountInv, workerVars, countVars, driverVars

(* Statuses from different moments. *)

\* A status of each worker, with all its replies: the present one, or an idle one
\* that is told of it, however old.
Present(s, w) == s.counted = counted[w] /\ s.sent = sent[w]
Cut(S) ==
  \A w \in Workers :
    /\ S[w].replies = replies[w]
    /\ Present(S[w], w) \/ (S[w] \in Told(w) /\ S[w].idle)

\* What worker v has been sent, according to S; it has counted more since.
Inbox(S, v) == callsSent[v] + SumFunction([u \in Workers |-> S[u].sent[v]])
Moved(S, v) == S[v].counted # counted[v]

\* When some workers have counted more since, one of them was sent, by the very
\* statuses, a message that it has not counted in its own.
CutInv ==
  \A S \in [Workers -> Status] :
    Cut(S) /\ (\E u \in Workers : Moved(S, u)) =>
      \E v \in Workers : Moved(S, v) /\ S[v].counted < Inbox(S, v)

LEMMA InboxTyped ==
  ASSUME NEW S \in [Workers -> Status], NEW v \in Workers
  PROVE  /\ [u \in Workers |-> S[u].sent[v]] \in [Workers -> Int]
         /\ SumFunction([u \in Workers |-> S[u].sent[v]]) \in Int
  <1>1. \A u \in Workers : S[u].sent[v] \in Int
    BY DEF Status
  <1>2. [u \in Workers |-> S[u].sent[v]] \in [Workers -> Int]
    BY <1>1
  <1> HIDE DEF Status
  <1> QED BY <1>2, SumInt, WorkersAssumption

LEMMA CutKept ==
  ASSUME CutInv, UNCHANGED countVars, \A u \in Workers : Told(u)' \subseteq Told(u),
         \A v \in Workers : callsSent[v] \in Nat /\ callsSent'[v] \in Nat
                            /\ callsSent[v] <= callsSent'[v]
  PROVE  CutInv'
  <1> SUFFICES ASSUME NEW S \in [Workers -> Status], Cut(S)',
                      NEW u \in Workers, Moved(S, u)'
               PROVE  \E v \in Workers : Moved(S, v)' /\ S[v].counted < Inbox(S, v)'
    BY DEF CutInv
  <1>1. UNCHANGED <<sent, replies, counted>>
    BY DEF countVars
  <1>2. Cut(S)
    BY <1>1 DEF Cut, Present
  <1>3. PICK v \in Workers : Moved(S, v) /\ S[v].counted < Inbox(S, v)
    <2>1. Moved(S, u)
      BY <1>1 DEF Moved
    <2> QED BY <1>2, <2>1 DEF CutInv
  <1>4. Moved(S, v)'
    BY <1>1, <1>3 DEF Moved
  <1> DEFINE total == SumFunction([x \in Workers |-> S[x].sent[v]])
  <1>5. total \in Int
    BY InboxTyped
  <1>6. Inbox(S, v) = callsSent[v] + total /\ Inbox(S, v)' = callsSent'[v] + total
    BY DEF Inbox
  <1>7. S[v].counted \in Nat
    BY DEF Status
  <1> HIDE DEF total
  <1>8. S[v].counted < Inbox(S, v)'
    BY <1>3, <1>5, <1>6, <1>7
  <1> QED BY <1>4, <1>8

\* A present status before a turn is in the past of a present one after it.
LEMMA CutTurnPresent ==
  ASSUME TypesInv, CutInv, NEW w \in Workers, Turn(w),
         NEW S \in [Workers -> Status], Cut(S)', Present(S[w], w)',
         NEW u \in Workers, Moved(S, u)'
  PROVE  \E v \in Workers : Moved(S, v)' /\ S[v].counted < Inbox(S, v)'
  <1>1. WorkersTyped /\ WorkersTyped' /\ callsSent \in [Workers -> Nat] /\ callsSent' = callsSent
    BY DEF TypesInv, DriverInv, Turn
  <1>2. sent[w] \in [Workers -> Nat] /\ replies[w] \in Nat /\ counted[w] \in Nat
    BY <1>1 DEF WorkersTyped
  <1> DEFINE now == [idle |-> FALSE, sent |-> sent[w], replies |-> replies[w],
                     counted |-> counted[w]]
             P == [S EXCEPT ![w] = now]
  <1>3. now \in Status /\ now.sent = sent[w] /\ now.replies = replies[w]
        /\ now.counted = counted[w]
    BY <1>2 DEF Status
  <1> HIDE DEF now
  <1>4. /\ P \in [Workers -> Status] /\ P[w] = now
        /\ \A x \in Workers \ {w} : P[x] = S[x]
    BY <1>3
  <1> HIDE DEF P
  <1>5. \A x \in Workers \ {w} :
          /\ Told(x)' \subseteq Told(x)
          /\ counted'[x] = counted[x] /\ replies'[x] = replies[x] /\ sent'[x] = sent[x]
    BY <1>1, ToldTurn, TurnGrows
  <1>6. Cut(P)
    <2>1. ASSUME NEW x \in Workers \ {w}
          PROVE  /\ P[x].replies = replies[x]
                 /\ Present(P[x], x) \/ (P[x] \in Told(x) /\ P[x].idle)
      <3>1. /\ S[x].replies = replies'[x]
            /\ Present(S[x], x)' \/ (S[x] \in Told(x)' /\ S[x].idle)
        BY DEF Cut
      <3> QED BY <1>4, <1>5, <3>1 DEF Present
    <2>2. P[w].replies = replies[w] /\ Present(P[w], w)
      BY <1>3, <1>4 DEF Present
    <2> QED BY <2>1, <2>2 DEF Cut
  <1>7. PICK v \in Workers : Moved(P, v) /\ P[v].counted < Inbox(P, v)
    <2>1. u # w
      BY DEF Moved, Present
    <2>2. Moved(P, u)
      BY <1>4, <1>5, <2>1 DEF Moved
    <2> QED BY <1>4, <1>6, <2>2 DEF CutInv
  <1>8. v # w
    BY <1>3, <1>4, <1>7 DEF Moved
  <1>9. Moved(S, v)' /\ S[v].counted = P[v].counted
    BY <1>4, <1>5, <1>7, <1>8 DEF Moved
  <1> DEFINE f == [x \in Workers |-> P[x].sent[v]]
             g == [x \in Workers |-> S[x].sent[v]]
  <1>10. f \in [Workers -> Int] /\ g \in [Workers -> Int]
         /\ SumFunction(f) \in Int /\ SumFunction(g) \in Int
    BY <1>4, InboxTyped
  <1>11. \A x \in Workers : f[x] <= g[x]
    <2>1. f[w] <= g[w]
      <3>1. f[w] = sent[w][v]
        BY <1>3, <1>4
      <3>2. g[w] = sent'[w][v]
        BY DEF Present
      <3> QED BY <1>1, <3>1, <3>2, TurnGrows
    <2>2. \A x \in Workers \ {w} : f[x] = g[x] /\ f[x] \in Int
      BY <1>4, <1>10
    <2> HIDE DEF f, g
    <2>3. \A x \in Workers \ {w} : f[x] <= g[x]
      BY <2>2
    <2> QED BY <2>1, <2>3
  <1>12. SumFunction(f) <= SumFunction(g)
    <2> HIDE DEF f, g
    <2> QED BY <1>10, <1>11, SumOrder, WorkersAssumption
  <1>13. Inbox(P, v) = callsSent[v] + SumFunction(f) /\ Inbox(S, v)' = callsSent[v] + SumFunction(g)
    BY <1>1 DEF Inbox
  <1>14. P[v].counted \in Nat /\ callsSent[v] \in Nat
    BY <1>1, <1>4 DEF Status
  <1> HIDE DEF f, g
  <1>15. P[v].counted < Inbox(S, v)'
    BY <1>7, <1>10, <1>12, <1>13, <1>14
  <1> QED BY <1>9, <1>15

\* An idle status told of the worker that takes the turn was told before it.
LEMMA CutTurnTold ==
  ASSUME TypesInv, CountInv, ToldInv, CutInv, NEW w \in Workers, Turn(w),
         NEW S \in [Workers -> Status], Cut(S)', ~ Present(S[w], w)',
         NEW u \in Workers, Moved(S, u)'
  PROVE  \E v \in Workers : Moved(S, v)' /\ S[v].counted < Inbox(S, v)'
  <1>1. /\ WorkersTyped /\ WorkersTyped' /\ callsSent \in [Workers -> Nat]
        /\ callsSent' = callsSent /\ \A x \in Workers : S[x] \in Status
    BY DEF TypesInv, DriverInv, Turn
  <1>2. /\ \A x \in Workers : counted[x] \in Nat /\ replies[x] \in Nat
        /\ counted'[w] \in Nat /\ replies'[w] \in Nat
    BY <1>1 DEF WorkersTyped
  <1>3. S[w].counted \in Nat /\ S[w].replies \in Nat
    BY <1>1 DEF Status
  <1>4. S[w] \in Told(w)' /\ S[w].idle /\ S[w].replies = replies'[w]
    BY DEF Cut
  <1>5. S[w] \in Told(w)
    BY <1>1, <1>4, ToldTurn DEF Present
  <1>6. S[w].counted <= counted[w] /\ S[w].replies <= replies[w]
    BY <1>5 DEF ToldInv
  <1>7. counted[w] <= counted'[w] /\ replies[w] <= replies'[w]
        /\ (counted'[w] = counted[w] => operationsScheduled[w])
        /\ \A x \in Workers \ {w} :
             /\ Told(x)' \subseteq Told(x)
             /\ counted'[x] = counted[x] /\ replies'[x] = replies[x] /\ sent'[x] = sent[x]
    BY <1>1, ToldTurn, TurnGrows
  <1>8. S[w].replies = replies[w]
    BY <1>2, <1>3, <1>4, <1>6, <1>7
  <1>9. Cut(S)
    <2>1. ASSUME NEW x \in Workers \ {w}
          PROVE  /\ S[x].replies = replies[x]
                 /\ Present(S[x], x) \/ (S[x] \in Told(x) /\ S[x].idle)
      <3>1. /\ S[x].replies = replies'[x]
            /\ Present(S[x], x)' \/ (S[x] \in Told(x)' /\ S[x].idle)
        BY DEF Cut
      <3> QED BY <1>7, <3>1 DEF Present
    <2> QED BY <1>4, <1>5, <1>8, <2>1 DEF Cut
  <1>10. \A v \in Workers : Inbox(S, v)' = Inbox(S, v)
    BY <1>1 DEF Inbox
  <1>11. CASE \E x \in Workers : Moved(S, x)
    <2>1. PICK v \in Workers : Moved(S, v) /\ S[v].counted < Inbox(S, v)
      BY <1>9, <1>11 DEF CutInv
    <2>2. Moved(S, v)'
      <3>1. CASE v = w
        BY <1>2, <1>3, <1>6, <1>7, <2>1, <3>1 DEF Moved
      <3>2. CASE v # w
        BY <1>7, <2>1, <3>2 DEF Moved
      <3> QED BY <3>1, <3>2
    <2> QED BY <1>10, <2>1, <2>2
  <1>12. CASE \A x \in Workers : ~ Moved(S, x)
    <2>1. \A x \in Workers : S[x].counted = counted[x] /\ S[x].sent = sent[x]
      <3> TAKE x \in Workers
      <3>1. S[x].counted = counted[x] /\ S[x].replies = replies[x]
        BY <1>9, <1>12 DEF Moved, Cut
      <3>2. Present(S[x], x) \/ (S[x] \in Told(x) /\ S[x].idle)
        BY <1>9 DEF Cut
      <3> QED BY <3>1, <3>2 DEF Present, ToldInv
    <2>2. ~ operationsScheduled[w]
      BY <1>4, <1>5, <1>8, <2>1 DEF ToldInv
    <2>3. signals[w] + Len(calls[w]) > 0
      BY <2>2 DEF Turn, Received
    <2>4. Moved(S, w)'
      BY <1>7, <2>1, <2>2 DEF Moved
    <2> DEFINE total == SumFunction([x \in Workers |-> sent[x][w]])
               l == Len(calls[w])
    <2>5. Inbox(S, w) = callsSent[w] + total
      BY <2>1 DEF Inbox
    <2>6. counted[w] + signals[w] + l = callsSent[w] + total
      BY DEF CountInv
    <2>7. signals[w] \in Nat /\ l \in Nat /\ counted[w] \in Nat
      BY <1>1, SentTyped
    <2> HIDE DEF total
    <2>8. counted[w] < counted[w] + signals[w] + l
      <3> HIDE DEF l
      <3>1. signals[w] + l > 0
        BY <2>3 DEF l
      <3> QED BY <2>7, <3>1
    <2>9. S[w].counted < Inbox(S, w)'
      BY <1>10, <2>1, <2>5, <2>6, <2>8
    <2> QED BY <2>4, <2>9
  <1> QED BY <1>11, <1>12

LEMMA CutTurn ==
  ASSUME TypesInv, CountInv, ToldInv, CutInv, NEW w \in Workers, Turn(w)
  PROVE  CutInv'
  <1> SUFFICES ASSUME NEW S \in [Workers -> Status], Cut(S)',
                      NEW u \in Workers, Moved(S, u)'
               PROVE  \E v \in Workers : Moved(S, v)' /\ S[v].counted < Inbox(S, v)'
    BY DEF CutInv
  <1> QED BY CutTurnPresent, CutTurnTold

\* What the coordinator concludes from its statuses.
LEMMA IdleMeansQuiet ==
  ASSUME TypesInv, CountInv, ToldInv, CutInv, onIdle # "none", workerStatus' \in Statuses,
         \A w \in Workers : workerStatus'[w] \in Told(w) \cup {NoStatus},
         CoordinatorIsIdle
  PROVE  AllQuiet
  <1> DEFINE S == workerStatus'
  <1>1. /\ WorkersTyped /\ IsFiniteSet(Workers) /\ replied = {}
        /\ \A w \in Workers : callsSent[w] \in Nat
    BY WorkersAssumption DEF TypesInv, DriverInv
  <1>2. S \in [Workers -> Status] /\ \A w \in Workers : S[w] \in Told(w) /\ S[w].idle
    BY NoStatusAssumption DEF CoordinatorIsIdle, Known, Statuses
  <1>4. /\ \A w \in Workers : S[w].counted = Inbox(S, w)
        /\ callsAnswered = SumFunction([u \in Workers |-> S[u].replies])
    BY DEF CoordinatorIsIdle, AllSentMessagesReceived, Inbox
  <1> HIDE DEF S
  <1>5. \A w \in Workers :
          /\ S[w].counted \in Nat /\ S[w].replies \in Nat
          /\ S[w].counted <= counted[w] /\ S[w].replies <= replies[w]
    BY <1>2 DEF ToldInv, Status
  <1>6. \A w \in Workers : S[w].replies = replies[w]
    <2> DEFINE f == [u \in Workers |-> S[u].replies]
    <2>1. f \in [Workers -> Int] /\ replies \in [Workers -> Int]
          /\ \A w \in Workers : f[w] <= replies[w]
      BY <1>1, <1>5 DEF WorkersTyped
    <2>2. SumFunction(f) = SumFunction(replies)
      <3>1. SumFunction(replies) = callsAnswered + Cardinality({}) /\ Cardinality({}) = 0
        BY <1>1, FS_EmptySet DEF CountInv
      <3>2. callsAnswered \in Nat
        BY DEF TypesInv, DriverInv
      <3> QED BY <1>4, <3>1, <3>2
    <2>3. \A w \in Workers : f[w] = replies[w]
      <3> HIDE DEF f
      <3> QED BY <1>1, <2>1, <2>2, SumOrder
    <2> QED BY <2>3
  <1>7. \A w \in Workers : S[w].counted = counted[w]
    <2> SUFFICES ASSUME NEW u \in Workers, Moved(S, u) PROVE FALSE
      BY DEF Moved
    <2>1. Cut(S)
      BY <1>2, <1>6 DEF Cut
    <2>2. PICK v \in Workers : S[v].counted < Inbox(S, v)
      BY <1>2, <2>1 DEF CutInv
    <2> QED BY <1>4, <1>5, <2>2
  <1>8. \A w \in Workers : S[w].sent = sent[w] /\ Quiet(w)
    BY <1>2, <1>6, <1>7 DEF ToldInv
  <1>9. ASSUME NEW w \in Workers PROVE signals[w] = 0 /\ calls[w] = << >>
    <2> DEFINE total == SumFunction([u \in Workers |-> sent[u][w]])
               l == Len(calls[w])
    <2>1. counted[w] = callsSent[w] + total
      BY <1>4, <1>7, <1>8 DEF Inbox
    <2>2. counted[w] + signals[w] + l = callsSent[w] + total
      BY DEF CountInv
    <2>3. signals[w] \in Nat /\ counted[w] \in Nat /\ l \in Nat
      BY <1>1, SentTyped
    <2> HIDE DEF total
    <2>4. signals[w] = 0 /\ l = 0
      <3> HIDE DEF l
      <3> QED BY <2>1, <2>2, <2>3
    <2>5. calls[w] \in Seq(Requests \cup {"addVertex"})
      BY <1>1 DEF WorkersTyped
    <2> QED BY <2>4, <2>5, EmptySeq
  <1> QED BY <1>8, <1>9 DEF AllQuiet, Quiet

\* Once it has answered, nothing starts again until awaitIdle has returned.
LEMMA QuietWork ==
  ASSUME TypesInv, AllQuiet, NEW w \in Workers, Work(w)
  PROVE  AllQuiet'
  <1>1. signals[w] = 0 /\ calls[w] = << >> /\ (isPaused[w] \/ (~ toCollect[w] /\ ~ toSignal[w]))
    BY DEF AllQuiet
  <1>2. ~ ReceiveSignal(w) /\ ~ ReceiveCall(w)
    BY <1>1 DEF ReceiveSignal, ReceiveCall
  <1>3. UNCHANGED <<isPaused, toCollect, toSignal, signals, calls>>
    <2>1. CASE Operate(w) /\ BecomeIdle(w)
      BY <2>1 DEF Operate, BecomeIdle, workVars
    <2>2. CASE Operate(w) /\ ExecuteOperations(w)
      BY <1>1, <2>2 DEF Operate, ExecuteOperations
    <2>3. CASE PutOff(w)
      BY <2>3 DEF PutOff, workVars
    <2> QED BY <1>2, <2>1, <2>2, <2>3 DEF Work, Operate
  <1> QED BY <1>3 DEF AllQuiet

LEMMA DeliveryAnswer ==
  ASSUME TypesInv, DetectorInv, CountInv, ToldInv, CutInv, NoFalseIdle, Delivery
  PROVE  NoFalseIdle'
  <1>1. TypesInv' /\ UNCHANGED <<workerVars, driverVars>>
    BY DeliveryTypes
  <1>2. AllQuiet => AllQuiet'
    BY <1>1 DEF AllQuiet, workerVars, workVars
  <1>3. workerStatus' \in Statuses
    BY <1>1 DEF TypesInv, CoordinatorTyped
  <1>4. CASE onIdle' = onIdle
    BY <1>2, <1>4 DEF NoFalseIdle
  <1>5. CASE ReceiveReport /\ onIdle' # onIdle
    <2>1. onIdle = "registered" /\ CoordinatorIsIdle /\ reports # << >>
          /\ workerStatus' = [w \in Workers |->
               IF Head(reports)[w] # NoStatus THEN Head(reports)[w] ELSE workerStatus[w]]
      BY <1>5 DEF ReceiveReport
    <2>2. Head(reports) \in Elements(reports)
      BY <2>1, TakenElement DEF TypesInv, CoordinatorTyped
    <2>3. \A w \in Workers : {Head(reports)[w], workerStatus[w]} \subseteq Told(w) \cup {NoStatus}
      BY <2>2 DEF Told
    <2>4. \A w \in Workers : workerStatus'[w] \in Told(w) \cup {NoStatus}
      BY <2>1, <2>3
    <2>5. AllQuiet
      BY <1>3, <2>1, <2>4, IdleMeansQuiet
    <2> QED BY <1>2, <2>5 DEF NoFalseIdle
  <1>6. CASE ReceiveOnIdle
    <2>1. onIdle = "asked" /\ workerStatus' = workerStatus
          /\ (onIdle' = "answered" => CoordinatorIsIdle)
      BY <1>6 DEF ReceiveOnIdle
    <2>2. \A w \in Workers : workerStatus'[w] \in Told(w) \cup {NoStatus}
      BY <2>1 DEF Told
    <2>3. onIdle' = "answered" => AllQuiet
      BY <1>3, <2>1, <2>2, IdleMeansQuiet
    <2> QED BY <1>2, <2>3 DEF NoFalseIdle
  <1>7. ASSUME NEW w \in Workers, ReceiveStatus(w) PROVE onIdle' = onIdle
    BY <1>7 DEF ReceiveStatus, coordinatorVars
  <1>8. ReceiveSelfMessage => onIdle' = onIdle
    BY DEF ReceiveSelfMessage, coordinatorVars
  <1> QED BY <1>4, <1>5, <1>6, <1>7, <1>8 DEF Delivery

\* The driving thread waits for the answer.
LEMMA DriveAnswer ==
  ASSUME TypesInv, Drive
  PROVE  onIdle' # "answered"
  <1>1. /\ onIdle # "none" => Call = "awaitIdle" /\ waiting = {}
        /\ replied \subseteq waiting
        /\ onIdle \in {"none", "asked", "registered", "answered"}
    BY DEF TypesInv, DriverInv, CoordinatorTyped
  <1>2. CASE IssueCall /\ UNCHANGED onIdle
    BY <1>1, <1>2 DEF IssueCall
  <1>3. ASSUME NEW w \in Workers, ReceiveReply(w), UNCHANGED onIdle
        PROVE  onIdle' # "answered"
    BY <1>1, <1>3 DEF ReceiveReply
  <1>4. CASE AskForIdle \/ AwaitIdleReturns
    BY <1>4 DEF AskForIdle, AwaitIdleReturns
  <1> QED BY <1>2, <1>3, <1>4 DEF Drive

IdleInv ==
  TypesInv /\ DetectorInv /\ CountInv /\ ToldInv /\ CutInv /\ NoFalseIdle

LEMMA IdleStep ==
  ASSUME IdleInv, [Next]_vars
  PROVE  IdleInv'
  <1>1. /\ TypesInv /\ DetectorInv /\ CountInv /\ ToldInv /\ CutInv /\ NoFalseIdle
        /\ WorkersTyped /\ BudgetInv
    BY DEF IdleInv, TypesInv
  <1>2. ASSUME NEW w \in Workers, Work(w) PROVE IdleInv'
    <2>1. Turn(w)
      BY <1>1, <1>2, WorkIsATurn
    <2>2. TypesInv' /\ DetectorInv' /\ CountInv' /\ ToldInv' /\ CutInv'
      BY <1>1, <2>1, TurnTypes, CountTurn, ToldInvTurn, CutTurn
    <2>3. onIdle' = onIdle
      BY <2>1 DEF Turn, coordinatorVars
    <2>4. NoFalseIdle'
      BY <1>1, <1>2, <2>3, QuietWork DEF NoFalseIdle
    <2> QED BY <2>2, <2>4 DEF IdleInv
  <1>3. CASE Delivery
    <2>1. /\ TypesInv' /\ DetectorInv' /\ UNCHANGED <<workerVars, driverVars>>
          /\ \A u \in Workers : Told(u)' \subseteq Told(u)
      BY <1>1, <1>3, DeliveryTypes
    <2>2. CountInv' /\ NoFalseIdle'
      BY <1>1, <1>3, <2>1, CountKept, DeliveryAnswer
    <2>3. ToldInv'
      <3>1. UNCHANGED <<countVars, operationsScheduled, workVars>>
        BY <2>1 DEF workerVars, stateVars
      <3> QED BY <1>1, <2>1, <3>1, ToldInvKept
    <2>4. CutInv'
      <3>1. UNCHANGED countVars /\ \A v \in Workers :
              callsSent[v] \in Nat /\ callsSent'[v] \in Nat /\ callsSent[v] <= callsSent'[v]
        BY <1>1, <2>1 DEF workerVars, driverVars, TypesInv, DriverInv
      <3> QED BY <1>1, <2>1, <3>1, CutKept
    <2> QED BY <2>1, <2>2, <2>3, <2>4 DEF IdleInv
  <1>4. CASE Drive
    <2>1. TypesInv' /\ CountInv' /\ \A u \in Workers : Told(u)' = Told(u)
      BY <1>1, <1>4, DriveTypes, CountDrive, DriveTold
    <2>2. DetectorInv'
      <3>1. UNCHANGED <<selfMessages, pending, unreported>>
        BY <1>4 DEF Drive, nodeVars
      <3> QED BY <1>1, <3>1 DEF DetectorInv, OneRequest, SomeRequest, FullBulks
    <2>3. ToldInv'
      <3>1. UNCHANGED <<countVars, operationsScheduled, workVars>>
        BY <1>4 DEF Drive, stateVars
      <3> QED BY <1>1, <2>1, <3>1, ToldInvKept
    <2>4. CutInv'
      <3>1. callsSent \in [Workers -> Nat] /\ callsSent' \in [Workers -> Nat]
        BY <1>1, <2>1 DEF TypesInv, DriverInv
      <3>2. callsSent' = callsSent \/ callsSent' = [v \in Workers |-> callsSent[v] + 1]
        BY <1>4 DEF Drive, IssueCall, ReceiveReply, AskForIdle, AwaitIdleReturns, driverVars
      <3>3. \A v \in Workers :
              callsSent[v] \in Nat /\ callsSent'[v] \in Nat /\ callsSent[v] <= callsSent'[v]
        BY <3>1, <3>2
      <3>4. UNCHANGED countVars
        BY <1>4 DEF Drive
      <3> QED BY <1>1, <2>1, <3>3, <3>4, CutKept
    <2>5. NoFalseIdle'
      BY <1>1, <1>4, DriveAnswer DEF NoFalseIdle
    <2> QED BY <2>1, <2>2, <2>3, <2>4, <2>5 DEF IdleInv
  <1>5. CASE UNCHANGED vars
    <2>1. TypesInv' /\ DetectorInv'
      BY <1>1, <1>5
      DEF TypesInv, WorkersTyped, BudgetInv, NodeTyped, CoordinatorTyped, DriverInv, CallsOK,
          Running, Call, DetectorInv, OneRequest, SomeRequest, FullBulks,
          vars, workerVars, workVars, countVars, stateVars, nodeVars, coordinatorVars, driverVars
    <2>2. CountInv' /\ NoFalseIdle'
      BY <1>1, <1>5
      DEF CountInv, NoFalseIdle, AllQuiet,
          vars, workerVars, workVars, countVars, coordinatorVars, driverVars
    <2>3. \A u \in Workers : Told(u)' = Told(u)
      BY <1>5 DEF vars, nodeVars, coordinatorVars, Told
    <2>4. ToldInv'
      <3>1. UNCHANGED <<countVars, operationsScheduled, workVars>>
        BY <1>5 DEF vars, workerVars, stateVars
      <3> QED BY <1>1, <2>3, <3>1, ToldInvKept
    <2>5. CutInv'
      <3>1. UNCHANGED countVars /\ callsSent' = callsSent /\ callsSent \in [Workers -> Nat]
        BY <1>1, <1>5 DEF vars, workerVars, driverVars, TypesInv, DriverInv
      <3>2. \A v \in Workers :
              callsSent[v] \in Nat /\ callsSent'[v] \in Nat /\ callsSent[v] <= callsSent'[v]
        BY <3>1
      <3> QED BY <1>1, <2>3, <3>1, <3>2, CutKept
    <2> QED BY <2>1, <2>2, <2>4, <2>5 DEF IdleInv
  <1> QED BY <1>2, <1>3, <1>4, <1>5 DEF Next, Work, Delivery, Stopped

LEMMA IdleStart ==
  ASSUME Init \/ LoadedInit
  PROVE  IdleInv
  <1> DEFINE handled(loaded) == IF loaded THEN 2 ELSE 0
             answered(loaded) == IF loaded THEN 1 ELSE 0
             known(loaded) == [w \in Workers |-> IF loaded THEN LoadedStatus ELSE NoStatus]
  <1>1. PICK loaded \in BOOLEAN : Start(loaded) /\ position = 1
    BY DEF Init, LoadedInit
  <1>2. LoadedStatus \in Status /\ NoStatus \notin Status
    BY NoStatusAssumption DEF LoadedStatus, Status
  <1>3. /\ isIdle = [w \in Workers |-> TRUE] /\ isPaused = [w \in Workers |-> TRUE]
        /\ operationsScheduled = [w \in Workers |-> FALSE]
        /\ allWorkDoneWhenContinueSent = [w \in Workers |-> loaded]
        /\ isIdleDetectionEnabled = [w \in Workers |-> loaded]
        /\ toCollect = [w \in Workers |-> FALSE] /\ toSignal = [w \in Workers |-> loaded]
        /\ flushed = [w \in Workers |-> ~ loaded]
        /\ sent = [w \in Workers |-> [u \in Workers |-> 0]]
        /\ replies = [w \in Workers |-> answered(loaded)]
        /\ counted = [w \in Workers |-> handled(loaded)]
        /\ signals = [w \in Workers |-> 0] /\ calls = [w \in Workers |-> << >>]
        /\ budget = MAX_SIGNALS /\ statuses = [w \in Workers |-> << >>]
    BY <1>1 DEF Start
  <1>4. /\ onNode = known(loaded) /\ mostRecent = known(loaded) /\ workerStatus = known(loaded)
        /\ forwarded \subseteq Workers /\ nodeReported = loaded /\ selfMessages = << >>
        /\ unreported = None /\ pending = FALSE /\ superseded = FALSE /\ treeReported = loaded
        /\ reports = << >> /\ onIdle = "none" /\ waiting = {} /\ replied = {}
        /\ callsSent = [w \in Workers |-> handled(loaded)]
        /\ callsAnswered = answered(loaded) * Cardinality(Workers)
    BY <1>1 DEF Start
  <1>5. /\ handled(loaded) \in {0, 2} /\ answered(loaded) \in {0, 1}
        /\ known(loaded) \in Statuses
        /\ \A w \in Workers :
             known(loaded)[w] = NoStatus \/ (loaded /\ known(loaded)[w] = LoadedStatus)
    BY <1>2 DEF Statuses
  <1> HIDE DEF handled, answered, known
  <1>6. MAX_SIGNALS \in Nat /\ IsFiniteSet(Workers) /\ Cardinality(Workers) \in Nat
    BY MaxSignalsAssumption, WorkersAssumption, FS_CardinalityType
  <1>7. \A T : << >> \in Seq(T) /\ Len(<< >>) = 0 /\ Elements(<< >>) = {}
    BY NoElements
  <1>8. TypesInv
    <2>1. WorkersTyped
      BY <1>1, <1>3, <1>5, <1>7 DEF WorkersTyped, Flags
    <2>2. BudgetInv
      BY <1>3, <1>6 DEF BudgetInv
    <2>3. NodeTyped
      <3>1. None \in Statuses
        BY DEF None, Statuses
      <3> QED BY <1>1, <1>4, <1>5, <1>7, <3>1 DEF NodeTyped
    <2>4. CoordinatorTyped
      BY <1>4, <1>5, <1>7 DEF CoordinatorTyped
    <2>5. DriverInv
      <3>1. position \in 1 .. Len(Program) + 1
        BY <1>1, ProgramCalls
      <3>2. callsSent \in [Workers -> Nat] /\ \A w \in Workers : callsSent[w] <= 2
        BY <1>4, <1>5
      <3>3. answered(loaded) * Cardinality(Workers) \in Nat
        BY <1>5, <1>6
      <3>4. \A w \in Workers : replies[w] <= 1
        BY <1>3, <1>5
      <3>5. \A w \in Workers : CallsOK(w)
        BY <1>3, <1>7 DEF CallsOK
      <3>6. \A w \in Workers :
              /\ callsSent[w] <= position + 1 + (IF waiting = {} THEN 0 ELSE 1)
              /\ replies[w] <= position
                   + (IF waiting = {} \/ w \in waiting \ replied THEN 0 ELSE 1)
        BY <1>1, <1>4, <3>2, <3>4
      <3> QED BY <1>4, <3>1, <3>2, <3>3, <3>5, <3>6 DEF DriverInv
    <2> QED BY <2>1, <2>2, <2>3, <2>4, <2>5 DEF TypesInv
  <1>9. DetectorInv
    BY <1>4, <1>7 DEF DetectorInv, OneRequest, SomeRequest, FullBulks
  <1>10. CountInv
    <2>1. \A w \in Workers : [u \in Workers |-> sent[u][w]] = [u \in Workers |-> 0]
      BY <1>3
    <2>2. SumFunction([u \in Workers |-> 0]) = 0 * Cardinality(Workers)
      BY <1>6, SumConstant
    <2>3. \A w \in Workers : counted[w] + signals[w] + Len(calls[w]) = callsSent[w] + 0
      BY <1>3, <1>4, <1>5, <1>7
    <2>4. SumFunction(replies) = answered(loaded) * Cardinality(Workers)
      BY <1>3, <1>5, <1>6, SumConstant
    <2>5. callsAnswered + Cardinality(replied) = callsAnswered /\ callsAnswered \in Nat
      BY <1>4, <1>5, <1>6, FS_EmptySet
    <2>6. \A w \in Workers : SumFunction([u \in Workers |-> sent[u][w]]) = 0
      BY <1>6, <2>1, <2>2
    <2> QED BY <1>4, <2>3, <2>4, <2>5, <2>6 DEF CountInv
  <1>11. ASSUME NEW w \in Workers, NEW s \in Told(w)
         PROVE  loaded /\ s = LoadedStatus
    <2>1. Elements(statuses[w]) = {} /\ Elements(selfMessages) = {} /\ Elements(reports) = {}
      BY <1>3, <1>4, <1>7
    <2>2. s \in {onNode[w], mostRecent[w], unreported[w], workerStatus[w]} /\ s # NoStatus
      BY <2>1 DEF Told
    <2>3. unreported[w] = NoStatus
      BY <1>4 DEF None
    <2> QED BY <1>4, <1>5, <2>2, <2>3
  <1>12. loaded => \A w \in Workers :
           /\ LoadedStatus.counted = counted[w] /\ LoadedStatus.replies = replies[w]
           /\ LoadedStatus.sent = sent[w]
    BY <1>3 DEF LoadedStatus, handled, answered
  <1>13. ToldInv
    <2>1. \A w, u \in Workers : sent[w][u] \in Nat /\ counted[w] \in Nat /\ replies[w] \in Nat
      BY <1>3, <1>5
    <2>2. \A w \in Workers : ~ operationsScheduled[w] /\ Quiet(w)
      BY <1>3 DEF Quiet
    <2>3. ASSUME NEW w \in Workers, NEW s \in Told(w)
          PROVE  /\ s.counted <= counted[w] /\ s.replies <= replies[w]
                 /\ \A u \in Workers : s.sent[u] <= sent[w][u]
                 /\ s.sent = sent[w]
      <3>1. s.counted = counted[w] /\ s.replies = replies[w] /\ s.sent = sent[w]
        BY <1>11, <1>12
      <3> QED BY <2>1, <3>1
    <2> QED BY <2>2, <2>3 DEF ToldInv
  <1>14. CutInv
    <2> SUFFICES ASSUME NEW S \in [Workers -> Status], Cut(S), NEW u \in Workers
                 PROVE  ~ Moved(S, u)
      BY DEF CutInv
    <2> QED BY <1>11, <1>12 DEF Cut, Present, Moved
  <1>15. NoFalseIdle
    BY <1>4 DEF NoFalseIdle
  <1> QED BY <1>8, <1>9, <1>10, <1>13, <1>14, <1>15 DEF IdleInv

\* The inductive invariant: the workers count every message once, no idle status
\* is told of a worker that has work left, and statuses from different moments
\* never balance (AkkaWorker, the detectors of the node, DefaultCoordinator).
THEOREM IdleInvariant == (Spec => []IdleInv) /\ (LoadedSpec => []IdleInv)
  <1>1. Init => IdleInv
    BY IdleStart
  <1>2. LoadedInit => IdleInv
    BY IdleStart
  <1>3. IdleInv /\ [Next]_vars => IdleInv'
    BY IdleStep
  <1> QED BY <1>1, <1>2, <1>3, PTL DEF Spec, LoadedSpec

\* Every variable keeps its type, and the counters their bounds, for any number
\* of workers, any program of the driving thread and any number of signals.
THEOREM IdleTypes == (Spec => []TypeOK) /\ (LoadedSpec => []TypeOK)
  <1>1. IdleInv => TypeOK
    <2> SUFFICES ASSUME IdleInv PROVE TypeOK
      OBVIOUS
    <2>1. WorkersTyped /\ BudgetInv /\ NodeTyped /\ CoordinatorTyped /\ DriverInv
      BY DEF IdleInv, TypesInv
    <2>2. /\ Len(Program) \in Nat /\ position \in 1 .. Len(Program) + 1
          /\ waiting # {} => position \in 1 .. Len(Program)
      BY <2>1, ProgramCalls DEF DriverInv, Running
    <2>3. ASSUME NEW w \in Workers
          PROVE  /\ {isIdle[w], isPaused[w], operationsScheduled[w],
                     allWorkDoneWhenContinueSent[w], isIdleDetectionEnabled[w], toCollect[w],
                     toSignal[w], flushed[w]} \subseteq BOOLEAN
                 /\ sent[w] \in [Workers -> 0 .. MAX_SIGNALS]
                 /\ signals[w] \in 0 .. MAX_SIGNALS
                 /\ counted[w] \in Nat /\ replies[w] \in 0 .. Len(Program) + 1
                 /\ statuses[w] \in Seq(Status)
                 /\ calls[w] \in Seq(Requests \cup {"addVertex"})
                 /\ callsSent[w] \in 0 .. Len(Program) + 2
      <3>1. {isIdle[w], isPaused[w], operationsScheduled[w],
             allWorkDoneWhenContinueSent[w], isIdleDetectionEnabled[w], toCollect[w],
             toSignal[w], flushed[w]} \subseteq BOOLEAN
        BY <2>1 DEF WorkersTyped, Flags
      <3>2. sent[w] \in [Workers -> 0 .. MAX_SIGNALS] /\ signals[w] \in 0 .. MAX_SIGNALS
        <4>1. \A u \in Workers : sent[w][u] \in Nat /\ sent[w][u] + budget <= MAX_SIGNALS
          BY <2>1 DEF WorkersTyped, BudgetInv
        <4>2. signals[w] \in Nat /\ signals[w] + budget <= MAX_SIGNALS /\ budget \in Nat
          BY <2>1 DEF WorkersTyped, BudgetInv
        <4>3. sent[w] \in [Workers -> Nat]
          BY <2>1 DEF WorkersTyped
        <4>4. \A u \in Workers : sent[w][u] \in 0 .. MAX_SIGNALS
          BY <4>1, <4>2, MaxSignalsAssumption
        <4> QED BY <4>2, <4>3, <4>4, MaxSignalsAssumption
      <3>3. replies[w] \in 0 .. Len(Program) + 1 /\ callsSent[w] \in 0 .. Len(Program) + 2
        <4>1. /\ replies[w] \in Nat /\ callsSent[w] \in Nat
              /\ callsSent[w] <= position + 1 + (IF waiting = {} THEN 0 ELSE 1)
              /\ replies[w] <= position
                   + (IF waiting = {} \/ w \in waiting \ replied THEN 0 ELSE 1)
          BY <2>1 DEF WorkersTyped, DriverInv
        <4> QED BY <2>2, <4>1
      <3>4. /\ counted[w] \in Nat /\ statuses[w] \in Seq(Status)
            /\ calls[w] \in Seq(Requests \cup {"addVertex"})
        BY <2>1 DEF WorkersTyped
      <3> QED BY <3>1, <3>2, <3>3, <3>4
    <2>4. callsSent \in [Workers -> 0 .. Len(Program) + 2]
      BY <2>1, <2>3 DEF DriverInv
    <2>5. budget \in 0 .. MAX_SIGNALS
      BY <2>1, MaxSignalsAssumption DEF BudgetInv
    <2>6. /\ onNode \in Statuses /\ mostRecent \in Statuses /\ unreported \in Statuses
          /\ workerStatus \in Statuses /\ reports \in Seq(Statuses)
          /\ forwarded \subseteq Workers
          /\ {nodeReported, pending, superseded, treeReported} \subseteq BOOLEAN
          /\ onIdle \in {"none", "asked", "registered", "answered"}
          /\ waiting \subseteq Workers /\ replied \subseteq waiting /\ callsAnswered \in Nat
      BY <2>1 DEF NodeTyped, CoordinatorTyped, DriverInv
    <2> QED BY <2>2, <2>3, <2>4, <2>5, <2>6 DEF TypeOK
  <1> QED BY <1>1, IdleInvariant, PTL

\* awaitIdle never returns early (DefaultGraph.awaitIdle, allSentMessagesReceived):
\* when the coordinator answers, no message is in a mailbox and no worker has
\* work that it would do by itself, whatever the delays of statuses and signals.
THEOREM IdleNeverFalse == (Spec => []NoFalseIdle) /\ (LoadedSpec => []NoFalseIdle)
  <1>1. IdleInv => NoFalseIdle
    BY DEF IdleInv
  <1> QED BY <1>1, IdleInvariant, PTL

\* The assertions of BinaryTreeIdleDetector never fail.
THEOREM IdleDetectors ==
  (Spec => []DetectorAssertions) /\ (LoadedSpec => []DetectorAssertions)
  <1>1. IdleInv => DetectorAssertions
    BY DEF IdleInv, DetectorInv, DetectorAssertions, SomeRequest, FullBulks
  <1> QED BY <1>1, IdleInvariant, PTL

===============================================================================
