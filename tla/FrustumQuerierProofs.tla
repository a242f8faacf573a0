------------------------ MODULE FrustumQuerierProofs ------------------------
(***************************************************************************)
(* Proofs about FrustumQuerier: a response belongs to the query that       *)
(* receives it, and what the page draws has neither holes nor overlaps.    *)
(*                                                                         *)
(* Both rest on the queue having no cell twice.  That is true as long as   *)
(* processQueue is not entered from inside processCell.  When it is, the   *)
(* calls nest on one cell, whose first cached child starts them again and  *)
(* again, until there are too many cells and the query is interrupted.     *)
(* Nested calls request a cell once more each, but queue none that is on   *)
(* request, as a child on request is not cached; when they return into an  *)
(* interrupted query all that holds is that every request is counted.      *)
(***************************************************************************)
EXTENDS FrustumQuerier, SequenceTheorems, FiniteSetTheorems, WellFoundedInduction, TLAPS

Frames == [cell : Cells \cup {"roots", "none"}, child : Nat]

Requests == [cell : Cells, inside : {-1, 0, 1}, nr : Nat]

Queries ==
  [view : Views, queue : Seq(Cells), index : Nat, inFlight : Nat, count : Nat,
   level : Int, completed : BOOLEAN, processing : BOOLEAN, interrupted : BOOLEAN,
   calls : Nat, lastTrigger : Int]

FTypeOK ==
  /\ query \in Queries
  /\ camera \in Views /\ retries \in Seq(Int) /\ resumes \in Nat
  /\ requests \subseteq Requests /\ cache \in Seq(Cells)
  /\ inside \in [Cells -> {-1, 0, 1}] /\ showing \in [Cells -> SUBSET Cells]
  /\ stack \in Seq(Frames)

Depth == Len(stack)
InTrigger == Depth > 0 /\ stack[1].cell = "roots"
\* Frame j is a call of processQueue, of processCell.
OnQueue(j) == stack[j].cell = "none"
OnCell(j) == stack[j].cell \in Cells

\* triggerFrustum runs alone; calls of processQueue and processCell alternate,
\* and they are all about one cell.
StackShape ==
  /\ \A j \in 1 .. Depth : stack[j].cell = "roots" => Depth = 1
  /\ InTrigger => stack[1].child \in 1 .. Len(Roots) + 1
  /\ Depth > 0 /\ ~InTrigger => OnQueue(1)
  /\ \A j \in 1 .. Depth - 1 : OnQueue(j) <=> OnCell(j + 1)
  /\ \A j \in 1 .. Depth : OnCell(j) => stack[j].child \in 1 .. Len(Kids[stack[j].cell]) + 1
  /\ \A i, j \in 1 .. Depth : OnCell(i) /\ OnCell(j) => stack[i].cell = stack[j].cell

\* Every request is counted, so that triggerFrustum aborts all of them, and the
\* number of the next one is new.
Counted ==
  /\ IsFiniteSet(requests) /\ Cardinality(requests) <= query.inFlight
  /\ \A r \in requests : r.nr < Len(query.queue) + query.inFlight

\* Until the query is interrupted, no cell is both on request and in the queue;
\* none is on request twice while calls of processCell are not nested.
NotQueued ==
  ~query.interrupted =>
    /\ \A r \in requests : r.cell \notin ToSet(query.queue)
    /\ Depth <= 2 => \A r, s \in requests : r.cell = s.cell => r = s

\* In a call of processCell for p, the children in the queue are cached and the
\* ones on request are not.
CallFor(p, q, index, ca, asked) ==
  /\ \E k \in 1 .. Len(q) : q[k] = p /\ k <= index + 1
  /\ \A d \in ToSet(Kids[p]) : d \in ToSet(q) => d \in ToSet(ca)
  /\ \A r \in asked : r.cell \in ToSet(Kids[p]) => r.cell \notin ToSet(ca)

CellCalls ==
  \A j \in 1 .. Depth : OnCell(j) =>
    CallFor(stack[j].cell, query.queue, query.index, cache, requests)

\* The parent of a cell on request has been processed or is being processed.
Known ==
  \A r \in requests :
    \/ r.cell \in ToSet(Roots)
    \/ \E k \in 1 .. Len(query.queue) :
         k <= query.index /\ r.cell \in ToSet(Kids[query.queue[k]])
    \/ \E j \in 1 .. Depth : OnCell(j) /\ r.cell \in ToSet(Kids[stack[j].cell])

\* Cell c has been looked up in this query, when the queue q had n cells, of
\* which `index` are processed, and s was the stack.
LookedUp(c, n, q, index, s) ==
  \/ \E i \in 1 .. Len(Roots) :
       Roots[i] = c /\ (Len(s) > 0 /\ s[1].cell = "roots" => i < s[1].child)
  \/ \E k \in 1 .. n : k <= index /\ c \in ToSet(Kids[q[k]])
  \/ Len(s) = 2 /\ index + 1 <= n
     /\ \E i \in 1 .. Len(Kids[s[2].cell]) : Kids[s[2].cell][i] = c /\ i < s[2].child

\* The page's state of the cell at place k of the queue, when the first n are
\* processed: an octant is shown exactly while its cell is not processed, and
\* it may be hidden outside of the frustum.
Shown(k, n, q, view, shows) ==
  \A d \in ToSet(Kids[q[k]]) :
    /\ (\E i \in 1 .. n : q[i] = d) => d \notin shows[q[k]]
    /\ ~(\E i \in 1 .. n : q[i] = d) /\ InFrustum[view][d] # -1 => d \in shows[q[k]]

\* The cells processed, with the one being processed.
Reached == IF Depth = 2 THEN query.index + 1 ELSE query.index

\* Every cell is looked up once.
OnceEach ==
  /\ \A i, j \in 1 .. Len(query.queue) : query.queue[i] = query.queue[j] => i = j
  /\ \A k \in 1 .. Len(query.queue) :
       LookedUp(query.queue[k], k - 1, query.queue, query.index, stack)
  /\ \A r \in requests :
       LookedUp(r.cell, Len(query.queue), query.queue, query.index, stack)

\* processQueue has not been entered from inside processCell.
Regular ==
  /\ query.index <= Len(query.queue)
  /\ InTrigger => query.index = 0
  /\ OnceEach
  /\ Depth = 2 =>
       /\ query.index < Len(query.queue) /\ stack[2].cell = query.queue[query.index + 1]
       /\ ~SmallEnough(stack[2].cell)
  /\ \A k \in 1 .. Len(query.queue) :
       k <= Reached => Shown(k, Reached, query.queue, query.view, showing)

\* It has: the calls are about the next cell in the queue, and the innermost is
\* not beyond the child that starts the next one.
Nested ==
  /\ query.index < Len(query.queue) /\ ~SmallEnough(NextInQueue)
  /\ \A j \in 1 .. Depth : OnCell(j) => stack[j].cell = NextInQueue
  /\ \E k \in 1 .. Len(Kids[NextInQueue]) :
       /\ Wanted(NextInQueue, Kids[NextInQueue][k]) /\ Cached(Kids[NextInQueue][k])
       /\ OnCell(Depth) => stack[Depth].child <= k

QueueInv ==
  /\ InTrigger => ~query.interrupted
  /\ Depth > 2 => ~query.processing
  /\ ~query.interrupted /\ Depth <= 2 => Regular
  /\ ~query.interrupted /\ Depth > 2 => Nested

FInv ==
  /\ FTypeOK /\ StackShape /\ Counted /\ NotQueued /\ CellCalls /\ Known /\ QueueInv
  /\ NoHolesNoOverlap

-----------------------------------------------------------------------------
(* Sequences: the queue, the cell cache, the stack.                        *)

\* A set of natural numbers that is not empty has a minimum.
LEMMA NatMin ==
  ASSUME NEW T \in SUBSET Nat, T # {}
  PROVE  Min(T) \in T
<1> DEFINE R == OpToRel(<, Nat)
<1>1. PICK m \in T : \A n \in T : ~(<<n, m>> \in R)
  <2>1. IsWellFoundedOn(R, Nat)
    BY NatLessThanWellFounded
  <2> HIDE DEF R
  <2> QED BY <2>1, WFMin
<1>2. R = {ss \in Nat \X Nat : ss[1] < ss[2]}
  BY DEF OpToRel
<1> HIDE DEF R
<1>3. ASSUME NEW n \in T PROVE m <= n
  <2>1. m \in Nat /\ n \in Nat
    OBVIOUS
  <2>2. <<n, m>> \in R <=> n < m
    BY <1>2, <2>1
  <2> QED BY <1>1, <2>1, <2>2
<1> QED BY <1>3 DEF Min

LEMMA ToSetAppend ==
  ASSUME NEW S, NEW s \in Seq(S), NEW e \in S
  PROVE  /\ Append(s, e) \in Seq(S) /\ Len(Append(s, e)) = Len(s) + 1 /\ Len(s) \in Nat
         /\ Append(s, e)[Len(s) + 1] = e
         /\ \A i \in 1 .. Len(s) : Append(s, e)[i] = s[i]
         /\ ToSet(Append(s, e)) = ToSet(s) \cup {e}
<1>1. /\ Append(s, e) \in Seq(S) /\ Len(Append(s, e)) = Len(s) + 1 /\ Len(s) \in Nat
      /\ Append(s, e)[Len(s) + 1] = e
      /\ \A i \in 1 .. Len(s) : Append(s, e)[i] = s[i]
  BY AppendProperties
<1>2. DOMAIN s = 1 .. Len(s) /\ DOMAIN Append(s, e) = 1 .. Len(s) + 1
  BY <1>1
<1> HIDE DEF ToSet
<1> DEFINE u == Append(s, e)
<1> HIDE DEF u
<1>3. ToSet(u) = ToSet(s) \cup {e}
  BY <1>1, <1>2 DEF ToSet, u
<1> QED BY <1>1, <1>3 DEF u

LEMMA InToSet ==
  ASSUME NEW S, NEW s \in Seq(S), NEW e
  PROVE  e \in ToSet(s) <=> \E i \in 1 .. Len(s) : s[i] = e
  BY DEF ToSet

\* An id that is taken out of a list without duplicates or not.
LEMMA Removed ==
  ASSUME NEW S, NEW s \in Seq(S), NEW e
  PROVE  /\ RemoveFirst(s, e) \in Seq(S)
         /\ \A x \in S : x # e => (x \in ToSet(RemoveFirst(s, e)) <=> x \in ToSet(s))
         /\ ToSet(RemoveFirst(s, e)) \subseteq ToSet(s)
<1>1. CASE \E i \in 1 .. Len(s) : s[i] = e
  <2> DEFINE I == {i \in 1 .. Len(s) : s[i] = e}
  <2> DEFINE k == Min(I)
  <2>1. k \in I
    <3>1. I \in SUBSET Nat /\ I # {}
      BY <1>1
    <3> QED BY <3>1, NatMin
  <2>2. RemoveFirst(s, e) = SubSeq(s, 1, k - 1) \o SubSeq(s, k + 1, Len(s))
    <3>1. SelectInSeq(s, LAMBDA v : v = e) = k
      BY <1>1 DEF SelectInSeq
    <3> QED BY <1>1, <3>1 DEF RemoveFirst, RemoveAt
  <2> HIDE DEF k
  <2>3. k \in 1 .. Len(s) /\ s[k] = e /\ Len(s) \in Nat
    BY <2>1
  <2> DEFINE a == SubSeq(s, 1, k - 1)
  <2> DEFINE b == SubSeq(s, k + 1, Len(s))
  <2>4. a \in Seq(S) /\ Len(a) = k - 1 /\ \A i \in 1 .. k - 1 : a[i] = s[i]
    <3>1. \A i \in 1 .. k - 1 : s[i] \in S
      BY <2>3
    <3> QED BY <2>3, <3>1, SubSeqProperties
  <2>5. b \in Seq(S) /\ Len(b) = Len(s) - k /\ \A i \in 1 .. Len(s) - k : b[i] = s[k + i]
    <3>1. \A i \in k + 1 .. Len(s) : s[i] \in S
      BY <2>3
    <3> QED BY <2>3, <3>1, SubSeqProperties
  <2> HIDE DEF a, b
  <2>6. a \o b \in Seq(S) /\ Len(a \o b) = Len(s) - 1
        /\ \A i \in 1 .. Len(s) - 1 : (a \o b)[i] = IF i <= k - 1 THEN s[i] ELSE s[i + 1]
    <3>1. a \o b \in Seq(S) /\ Len(a \o b) = Len(a) + Len(b)
      BY <2>4, <2>5, ConcatProperties
    <3>2. \A i \in 1 .. Len(a) + Len(b) :
            (a \o b)[i] = IF i <= Len(a) THEN a[i] ELSE b[i - Len(a)]
      BY <2>4, <2>5, ConcatProperties
    <3>3. Len(a \o b) = Len(s) - 1
      BY <3>1, <2>3, <2>4, <2>5
    <3>4. ASSUME NEW i \in 1 .. Len(s) - 1
          PROVE  (a \o b)[i] = IF i <= k - 1 THEN s[i] ELSE s[i + 1]
      <4>1. (a \o b)[i] = IF i <= k - 1 THEN a[i] ELSE b[i - (k - 1)]
        BY <3>2, <2>3, <2>4, <2>5
      <4>2. CASE i <= k - 1
        BY <4>1, <4>2, <2>3, <2>4
      <4>3. CASE ~(i <= k - 1)
        <5>1. i - (k - 1) \in 1 .. Len(s) - k /\ k + (i - (k - 1)) = i + 1
          BY <4>3, <2>3
        <5> QED BY <4>1, <4>3, <5>1, <2>5
      <4> QED BY <4>2, <4>3
    <3> QED BY <3>1, <3>3, <3>4
  <2> DEFINE u == a \o b
  <2> HIDE DEF u
  <2>7. ASSUME NEW x, x \in ToSet(u) PROVE x \in ToSet(s)
    <3>1. PICK i \in 1 .. Len(s) - 1 : u[i] = x
      BY <2>6, <2>7, InToSet DEF u
    <3>2. x = s[i] \/ x = s[i + 1]
      BY <3>1, <2>6 DEF u
    <3>3. i \in 1 .. Len(s) /\ i + 1 \in 1 .. Len(s)
      BY <2>3
    <3> QED BY <3>2, <3>3, InToSet
  <2>8. ASSUME NEW x, x \in ToSet(s), x # e PROVE x \in ToSet(u)
    <3>1. PICK i \in 1 .. Len(s) : s[i] = x
      BY <2>8, InToSet
    <3>2. i # k
      BY <3>1, <2>8, <2>3
    <3>3. CASE i < k
      <4>1. i \in 1 .. Len(s) - 1 /\ u[i] = x
        BY <3>3, <3>1, <2>3, <2>6 DEF u
      <4> QED BY <4>1, <2>6, InToSet DEF u
    <3>4. CASE i > k
      <4>1. i - 1 \in 1 .. Len(s) - 1 /\ u[i - 1] = x
        <5>1. i - 1 \in 1 .. Len(s) - 1 /\ ~(i - 1 <= k - 1) /\ (i - 1) + 1 = i
          BY <3>4, <2>3
        <5> QED BY <5>1, <3>1, <2>6 DEF u
      <4> QED BY <4>1, <2>6, InToSet DEF u
    <3> QED BY <3>2, <3>3, <3>4, <2>3
  <2>9. u = RemoveFirst(s, e)
    BY <2>2 DEF u, a, b
  <2> QED BY <2>6, <2>7, <2>8, <2>9 DEF u
<1>2. CASE ~\E i \in 1 .. Len(s) : s[i] = e
  BY <1>2 DEF RemoveFirst
<1> QED BY <1>1, <1>2

\* cellCache.get changes the order of the cells alone; put adds one cell.
LEMMA TouchedCells ==
  ASSUME NEW ca \in Seq(Cells), NEW c \in Cells
  PROVE  Touched(ca, c) \in Seq(Cells) /\ ToSet(Touched(ca, c)) = ToSet(ca) \cup {c}
<1> DEFINE s == RemoveFirst(ca, c)
<1>1. s \in Seq(Cells) /\ (\A x \in Cells : x # c => (x \in ToSet(s) <=> x \in ToSet(ca)))
      /\ ToSet(s) \subseteq ToSet(ca)
  BY Removed
<1> HIDE DEF s
<1>2. <<c>> \in Seq(Cells) /\ Len(<<c>>) = 1 /\ <<c>>[1] = c
  OBVIOUS
<1> DEFINE u == <<c>> \o s
<1>3. u \in Seq(Cells) /\ Len(u) = 1 + Len(s) /\ u[1] = c /\ Len(s) \in Nat
      /\ \A i \in 1 .. Len(s) : u[i + 1] = s[i]
  BY <1>1, <1>2, ConcatProperties
<1> HIDE DEF u
<1>4. ToSet(u) = ToSet(s) \cup {c}
  <2>1. ASSUME NEW x, x \in ToSet(u) PROVE x \in ToSet(s) \cup {c}
    <3>1. PICK i \in 1 .. 1 + Len(s) : u[i] = x
      BY <2>1, <1>3, InToSet
    <3>2. CASE i = 1
      BY <3>1, <3>2, <1>3
    <3>3. CASE i # 1
      <4>1. i - 1 \in 1 .. Len(s) /\ u[(i - 1) + 1] = s[i - 1] /\ (i - 1) + 1 = i
        BY <3>3, <1>3
      <4> QED BY <4>1, <3>1, <1>1, InToSet
    <3> QED BY <3>2, <3>3
  <2>2. c \in ToSet(u)
    BY <1>3, InToSet
  <2>3. ASSUME NEW x, x \in ToSet(s) PROVE x \in ToSet(u)
    <3>1. PICK i \in 1 .. Len(s) : s[i] = x
      BY <2>3, <1>1, InToSet
    <3>2. i + 1 \in 1 .. Len(u) /\ u[i + 1] = x
      BY <3>1, <1>3
    <3> QED BY <3>2, <1>3, InToSet
  <2> QED BY <2>1, <2>2, <2>3
<1>5. ToSet(ca) \subseteq Cells
  BY DEF ToSet
<1>6. Touched(ca, c) = u
  BY DEF Touched, Cons, u, s
<1> QED BY <1>1, <1>3, <1>4, <1>5, <1>6

LEMMA PutCells ==
  ASSUME NEW ca \in Seq(Cells), NEW c \in Cells
  PROVE  Put(ca, c) \in Seq(Cells)
<1> DEFINE u == Touched(ca, c)
<1>1. u \in Seq(Cells)
  BY TouchedCells
<1> HIDE DEF u
<1>2. SubSeq(u, 1, Len(u) - 1) \in Seq(Cells)
  <2>1. \A i \in 1 .. Len(u) - 1 : u[i] \in Cells
    BY <1>1
  <2> QED BY <1>1, <2>1, SubSeqProperties
<1> QED BY <1>1, <1>2 DEF Put, Front, u

-----------------------------------------------------------------------------
(* The stack.                                                              *)

LEMMA RecordFacts ==
  /\ \A f \in Frames : f.cell \in Cells \cup {"roots", "none"} /\ f.child \in Nat
  /\ \A i \in Nat : RootFrame(i) \in Frames /\ RootFrame(i).cell = "roots"
                    /\ RootFrame(i).child = i
  /\ QueueFrame \in Frames /\ QueueFrame.cell = "none"
  /\ \A c \in Cells : CellFrame(c) \in Frames /\ CellFrame(c).cell = c
                      /\ CellFrame(c).child = 1
  /\ "roots" \notin Cells /\ "none" \notin Cells
  /\ \A c \in Cells : Kids[c] \in Seq(Cells) /\ Len(Kids[c]) \in Nat
  /\ Roots \in Seq(Cells) /\ Len(Roots) \in Nat
BY FrustumAssumption DEF Frames, RootFrame, QueueFrame, CellFrame

\* Where the innermost call stands.
LEMMA Innermost ==
  ASSUME FTypeOK, StackShape, ~Idle
  PROVE  /\ Depth \in Nat \ {0} /\ Last(stack) = stack[Depth] /\ stack[Depth] \in Frames
         /\ InRootLoop => InTrigger /\ Depth = 1
         /\ InQueueLoop => OnQueue(Depth) /\ ~OnCell(Depth) /\ ~InTrigger /\ Depth # 2
         /\ InChildLoop => OnCell(Depth) /\ ~InTrigger /\ Depth >= 2
<1>1. stack \in Seq(Frames) /\ stack # << >>
  BY DEF FTypeOK, Idle
<1>2. Depth \in Nat \ {0} /\ Last(stack) = stack[Depth] /\ stack[Depth] \in Frames
  BY <1>1 DEF Depth, Last
<1>3. InRootLoop => InTrigger /\ Depth = 1
  BY <1>2 DEF InRootLoop, InTrigger, StackShape
<1>4. ASSUME InQueueLoop
      PROVE  OnQueue(Depth) /\ ~OnCell(Depth) /\ ~InTrigger /\ Depth # 2
  <2>1. stack[Depth].cell = "none" /\ "none" \notin Cells
    BY <1>2, <1>4, RecordFacts DEF InQueueLoop
  <2>2. ~InTrigger
    BY <2>1, <1>2 DEF InTrigger, StackShape
  <2>3. Depth # 2
    <3>1. SUFFICES ASSUME Depth = 2 PROVE FALSE
      OBVIOUS
    <3>2. OnQueue(1)
      BY <2>2, <1>2 DEF StackShape
    <3>3. 1 \in 1 .. Depth - 1 /\ 1 + 1 = Depth
      BY <3>1
    <3>4. OnCell(Depth)
      BY <3>2, <3>3 DEF StackShape
    <3> QED BY <3>4, <2>1 DEF OnCell
  <2> QED BY <2>1, <2>2, <2>3 DEF OnQueue, OnCell
<1>5. ASSUME InChildLoop
      PROVE  OnCell(Depth) /\ ~InTrigger /\ Depth >= 2
  <2>1. stack[Depth].cell \in Cells
    BY <1>2, <1>5 DEF InChildLoop
  <2>2. ~InTrigger
    BY <2>1, <1>2, RecordFacts DEF InTrigger, StackShape
  <2>3. OnQueue(1)
    BY <2>2, <1>2 DEF StackShape
  <2>4. Depth # 1
    BY <2>1, <2>3, RecordFacts DEF OnQueue
  <2> QED BY <2>1, <2>2, <2>4, <1>2 DEF OnCell
<1> QED BY <1>2, <1>3, <1>4, <1>5

LEMMA Popped ==
  ASSUME NEW S, NEW s \in Seq(S), s # << >>
  PROVE  /\ Front(s) \in Seq(S) /\ Len(Front(s)) = Len(s) - 1 /\ Len(s) \in Nat \ {0}
         /\ \A j \in 1 .. Len(s) - 1 : Front(s)[j] = s[j]
<1>1. Len(s) \in Nat \ {0} /\ \A i \in 1 .. Len(s) - 1 : s[i] \in S
  OBVIOUS
<1> DEFINE n == Len(s) - 1
<1>2. n \in Nat /\ n = Len(s) - 1 /\ \A i \in 1 .. n : s[i] \in S
  BY <1>1
<1> HIDE DEF n
<1>3. SubSeq(s, 1, n) \in Seq(S)
  BY <1>2, SubSeqProperties
<1>4. \A i \in 1 .. n : SubSeq(s, 1, n)[i] = s[i]
  BY <1>2, SubSeqProperties
<1>5. Len(SubSeq(s, 1, n)) = n
  BY <1>2, SubSeqProperties
<1>6. Front(s) = SubSeq(s, 1, n)
  BY DEF Front, n
<1> QED BY <1>1, <1>2, <1>3, <1>4, <1>5, <1>6

\* Calls that return leave a well-shaped stack.
LEMMA Returned ==
  ASSUME StackShape, Depth \in Nat, Len(stack') \in Nat, Len(stack') <= Depth,
         \A j \in 1 .. Len(stack') : stack'[j] = stack[j],
         ~InTrigger
  PROVE  StackShape' /\ ~InTrigger'
<1>1. ~InTrigger'
  BY DEF InTrigger, Depth
<1>2. \A j \in 1 .. Depth' : OnCell(j)' <=> OnCell(j)
  BY DEF OnCell, Depth
<1>3. \A j \in 1 .. Depth' : OnQueue(j)' <=> OnQueue(j)
  BY DEF OnQueue, Depth
<1>4. \A j \in 1 .. Depth' : stack'[j].cell # "roots"
  <2>1. \A j \in 1 .. Depth : stack[j].cell # "roots"
    BY DEF StackShape, InTrigger
  <2> QED BY <2>1 DEF Depth
<1>5. Depth' > 0 => OnQueue(1)'
  BY <1>3 DEF StackShape, Depth
<1>6. \A j \in 1 .. Depth' - 1 : OnQueue(j)' <=> OnCell(j + 1)'
  BY <1>2, <1>3 DEF StackShape, Depth
<1>7. \A j \in 1 .. Depth' :
        OnCell(j)' => stack'[j].child \in 1 .. Len(Kids[stack'[j].cell]) + 1
  BY <1>2 DEF StackShape, Depth
<1>8. \A i, j \in 1 .. Depth' : OnCell(i)' /\ OnCell(j)' => stack'[i].cell = stack'[j].cell
  BY <1>2 DEF StackShape, Depth
<1> QED BY <1>1, <1>4, <1>5, <1>6, <1>7, <1>8 DEF StackShape

\* The innermost call goes on to its next child or root.
LEMMA NextFrame ==
  ASSUME NEW s \in Seq(Frames), s # << >>
  PROVE  LET t == [s EXCEPT ![Len(s)].child = @ + 1] IN
         /\ t \in Seq(Frames) /\ Len(t) = Len(s) /\ Len(s) \in Nat \ {0}
         /\ \A j \in 1 .. Len(s) :
              /\ t[j].cell = s[j].cell
              /\ t[j].child = IF j = Len(s) THEN s[j].child + 1 ELSE s[j].child
<1> DEFINE e == [s[Len(s)] EXCEPT !.child = @ + 1]
<1>1. Len(s) \in Nat \ {0} /\ s[Len(s)] \in Frames /\ Len(s) \in 1 .. Len(s)
  OBVIOUS
<1>2. e \in Frames /\ e.cell = s[Len(s)].cell /\ e.child = s[Len(s)].child + 1
  BY <1>1 DEF Frames
<1>3. [s EXCEPT ![Len(s)].child = @ + 1] = [s EXCEPT ![Len(s)] = e]
  OBVIOUS
<1> HIDE DEF e
<1> DEFINE t == [s EXCEPT ![Len(s)] = e]
<1>4. t \in Seq(Frames) /\ Len(t) = Len(s)
      /\ \A j \in 1 .. Len(s) : t[j] = IF j = Len(s) THEN e ELSE s[j]
  BY <1>1, <1>2, ExceptSeq
<1> HIDE DEF t
<1>5. \A j \in 1 .. Len(s) :
              /\ t[j].cell = s[j].cell
              /\ t[j].child = IF j = Len(s) THEN s[j].child + 1 ELSE s[j].child
  BY <1>2, <1>4
<1> QED BY <1>1, <1>3, <1>4, <1>5 DEF t

\* The same for the whole stack; processQueue may be called from there.
LEMMA Advanced ==
  ASSUME StackShape, Depth \in Nat \ {0}, Last(stack) = stack[Depth],
         stack \in Seq(Frames),
         \A j \in 1 .. Depth :
           /\ stack'[j].cell = stack[j].cell
           /\ stack'[j].child = IF j = Depth THEN stack[j].child + 1 ELSE stack[j].child,
         \/ Len(stack') = Depth
         \/ Len(stack') = Depth + 1 /\ stack'[Depth + 1] = QueueFrame,
         OnCell(Depth), MoreChildren, ~InTrigger
  PROVE  StackShape' /\ ~InTrigger'
<1>1. ~InTrigger'
  BY DEF InTrigger, Depth
<1>2. \A j \in 1 .. Depth : (OnCell(j)' <=> OnCell(j)) /\ (OnQueue(j)' <=> OnQueue(j))
  BY DEF OnCell, OnQueue
<1>3. \A j \in 1 .. Depth' : j \in 1 .. Depth \/ (j = Depth + 1 /\ stack'[j] = QueueFrame)
  BY DEF Depth
<1>4. \A j \in 1 .. Depth' : stack'[j].cell # "roots"
  <2>1. \A j \in 1 .. Depth : stack[j].cell # "roots"
    BY DEF StackShape, InTrigger
  <2> QED BY <2>1, <1>3, RecordFacts
<1>5. OnQueue(1)'
  BY <1>2 DEF StackShape
<1>6. ASSUME NEW j \in 1 .. Depth' - 1 PROVE OnQueue(j)' <=> OnCell(j + 1)'
  <2>1. CASE j = Depth
    <3>1. stack[Depth].cell \in Cells /\ stack[Depth].cell # "none"
      BY RecordFacts DEF OnCell
    <3>2. ~OnQueue(j)
      BY <3>1, <2>1 DEF OnQueue
    <3>3. stack'[j + 1] = QueueFrame
      BY <2>1 DEF Depth
    <3>4. ~OnCell(j + 1)'
      BY <3>3, RecordFacts DEF OnCell
    <3> QED BY <2>1, <3>2, <3>4, <1>2
  <2>2. CASE j # Depth
    <3>1. j \in 1 .. Depth - 1 /\ j + 1 \in 1 .. Depth /\ j \in 1 .. Depth
      BY <2>2 DEF Depth
    <3>2. OnQueue(j) <=> OnCell(j + 1)
      BY <3>1 DEF StackShape
    <3> QED BY <3>1, <3>2, <1>2
  <2> QED BY <2>1, <2>2
<1>7. ASSUME NEW j \in 1 .. Depth', OnCell(j)'
      PROVE  j \in 1 .. Depth /\ OnCell(j) /\ stack[j].cell \in Cells
  BY <1>2, <1>3, <1>7, RecordFacts DEF OnCell
<1>8. ASSUME NEW j \in 1 .. Depth', OnCell(j)'
      PROVE  stack'[j].child \in 1 .. Len(Kids[stack'[j].cell]) + 1
  <2>1. j \in 1 .. Depth /\ OnCell(j) /\ stack[j].cell \in Cells
    BY <1>7, <1>8
  <2>2. stack[j].child \in 1 .. Len(Kids[stack[j].cell]) + 1
    BY <2>1 DEF StackShape
  <2>3. Len(Kids[stack[j].cell]) \in Nat
    BY <2>1, RecordFacts
  <2>4. CASE j = Depth
    <3>1. stack[j].child <= Len(Kids[stack[j].cell])
      BY <2>4 DEF MoreChildren, Parent
    <3>2. stack[j].child + 1 \in 1 .. Len(Kids[stack[j].cell]) + 1
      BY <2>2, <2>3, <3>1
    <3>3. stack'[j].child = stack[j].child + 1 /\ stack'[j].cell = stack[j].cell
      BY <2>1, <2>4
    <3> QED BY <3>2, <3>3
  <2>5. CASE j # Depth
    BY <2>1, <2>2, <2>5
  <2> QED BY <2>4, <2>5
<1>9. ASSUME NEW i \in 1 .. Depth', NEW j \in 1 .. Depth', OnCell(i)', OnCell(j)'
      PROVE  stack'[i].cell = stack'[j].cell
  <2>1. i \in 1 .. Depth /\ j \in 1 .. Depth /\ OnCell(i) /\ OnCell(j)
    BY <1>7, <1>9
  <2>2. stack[i].cell = stack[j].cell
    BY <2>1 DEF StackShape
  <2> QED BY <2>1, <2>2
<1> QED BY <1>1, <1>4, <1>5, <1>6, <1>8, <1>9 DEF StackShape

\* processQueue calls processCell, which is for the cell of the calls before.
LEMMA Called ==
  ASSUME NEW s \in Seq(Frames), NEW f \in Frames, s # << >>, stack' = Append(s, f),
         stack = s, StackShape, ~InTrigger, OnQueue(Depth), f.cell \in Cells, f.child = 1,
         \A j \in 1 .. Depth : OnCell(j) => stack[j].cell = f.cell
  PROVE  StackShape' /\ ~InTrigger'
<1>1. Depth \in Nat \ {0} /\ Depth' = Depth + 1 /\ stack'[Depth + 1] = f
      /\ \A j \in 1 .. Depth : stack'[j] = stack[j]
  BY AppendProperties DEF Depth
<1>2. ~InTrigger'
  BY <1>1 DEF InTrigger
<1>3. \A j \in 1 .. Depth : OnCell(j)' <=> OnCell(j)
  BY <1>1 DEF OnCell
<1>4. \A j \in 1 .. Depth : OnQueue(j)' <=> OnQueue(j)
  BY <1>1 DEF OnQueue
<1>5. \A j \in 1 .. Depth' : stack'[j].cell # "roots"
  <2>1. \A j \in 1 .. Depth : stack[j].cell # "roots"
    BY <1>1 DEF StackShape, InTrigger
  <2>2. f.cell # "roots"
    BY RecordFacts
  <2>3. \A j \in 1 .. Depth' : j \in 1 .. Depth \/ j = Depth + 1
    BY <1>1
  <2> QED BY <2>1, <2>2, <2>3, <1>1
<1>6. OnQueue(1)'
  BY <1>1, <1>4 DEF StackShape
<1>7. OnQueue(Depth) <=> stack'[Depth + 1].cell \in Cells
  <2>1. f.cell \in Cells <=> OnQueue(Depth)
    BY RecordFacts DEF OnQueue, OnCell
  <2> QED BY <1>1, <2>1
<1>8. ASSUME NEW j \in 1 .. Depth' - 1 PROVE OnQueue(j)' <=> OnCell(j + 1)'
  <2>1. CASE j = Depth
    <3>1. OnQueue(j)' <=> OnQueue(Depth)
      BY <2>1, <1>1, <1>4
    <3> QED BY <2>1, <3>1, <1>7 DEF OnCell
  <2>2. CASE j # Depth
    <3>1. j \in 1 .. Depth - 1 /\ j + 1 \in 1 .. Depth /\ j \in 1 .. Depth
      BY <2>2, <1>1
    <3>2. OnQueue(j) <=> OnCell(j + 1)
      BY <3>1 DEF StackShape
    <3> QED BY <3>1, <3>2, <1>3, <1>4
  <2> QED BY <2>1, <2>2
<1>9. ASSUME NEW j \in 1 .. Depth', OnCell(j)'
      PROVE  stack'[j].child \in 1 .. Len(Kids[stack'[j].cell]) + 1
  <2>1. CASE j = Depth + 1
    BY <2>1, <1>1, <1>9, RecordFacts DEF OnCell
  <2>2. CASE j # Depth + 1
    <3>1. j \in 1 .. Depth
      BY <2>2, <1>1
    <3> QED BY <3>1, <1>1, <1>3, <1>9 DEF StackShape
  <2> QED BY <2>1, <2>2
<1>10. ASSUME NEW i \in 1 .. Depth', NEW j \in 1 .. Depth', OnCell(i)', OnCell(j)'
       PROVE  stack'[i].cell = stack'[j].cell
  <2>1. CASE i \in 1 .. Depth /\ j \in 1 .. Depth
    BY <2>1, <1>1, <1>3, <1>10 DEF StackShape
  <2>2. CASE i = Depth + 1 /\ j = Depth + 1
    BY <2>2
  <2>3. CASE i = Depth + 1 /\ j \in 1 .. Depth
    <3>1. f.cell \in Cells /\ stack'[i].cell = f.cell
      BY <2>3, <1>1, <1>10 DEF OnCell
    <3>2. OnCell(j)
      BY <2>3, <1>3, <1>10
    <3>3. stack[j].cell = f.cell
      BY <3>1, <3>2, <2>3, RecordFacts
    <3> QED BY <3>1, <3>3, <2>3, <1>1
  <2>4. CASE i \in 1 .. Depth /\ j = Depth + 1
    <3>1. f.cell \in Cells /\ stack'[j].cell = f.cell
      BY <2>4, <1>1, <1>10 DEF OnCell
    <3>2. OnCell(i)
      BY <2>4, <1>3, <1>10
    <3>3. stack[i].cell = f.cell
      BY <3>1, <3>2, <2>4, RecordFacts
    <3> QED BY <3>1, <3>3, <2>4, <1>1
  <2>5. \A l \in 1 .. Depth' : l \in 1 .. Depth \/ l = Depth + 1
    BY <1>1
  <2> QED BY <2>1, <2>2, <2>3, <2>4, <2>5
<1> QED BY <1>2, <1>5, <1>6, <1>8, <1>9, <1>10 DEF StackShape

-----------------------------------------------------------------------------
(* What was looked up stays looked up.                                     *)

LEMMA LookedUpKept ==
  ASSUME NEW c, NEW n \in Nat, NEW m \in Nat, n <= m,
         NEW q \in Seq(Cells), NEW q2 \in Seq(Cells), n <= Len(q),
         \A k \in 1 .. Len(q) : q2[k] = q[k],
         NEW a \in Nat, NEW a2 \in Nat, a <= a2,
         NEW s \in Seq(Frames), NEW s2 \in Seq(Frames),
         \* the root loop went on or is over
         Len(s2) > 0 /\ s2[1].cell = "roots" =>
           Len(s) > 0 /\ s[1].cell = "roots" /\ s[1].child <= s2[1].child,
         \* processCell went on or is over
         Len(s) = 2 =>
           \/ /\ Len(s2) = 2 /\ s2[2].cell = s[2].cell /\ s[2].child <= s2[2].child /\ a2 = a
           \/ a < a2 /\ (a + 1 <= Len(q) => s[2].cell = q[a + 1]),
         LookedUp(c, n, q, a, s)
  PROVE  LookedUp(c, m, q2, a2, s2)
<1> USE RecordFacts
<1>0. /\ \A f \in Frames : f.child \in Nat
      /\ Len(s) \in Nat /\ Len(s2) \in Nat /\ Len(q) \in Nat
      /\ \A j \in 1 .. Len(s) : s[j] \in Frames
      /\ \A j \in 1 .. Len(s2) : s2[j] \in Frames
  OBVIOUS
<1>1. CASE \E i \in 1 .. Len(Roots) :
             Roots[i] = c /\ (Len(s) > 0 /\ s[1].cell = "roots" => i < s[1].child)
  <2>1. PICK i \in 1 .. Len(Roots) :
             Roots[i] = c /\ (Len(s) > 0 /\ s[1].cell = "roots" => i < s[1].child)
    BY <1>1
  <2>2. Len(s2) > 0 /\ s2[1].cell = "roots" => i < s2[1].child
    <3>1. SUFFICES ASSUME Len(s2) > 0, s2[1].cell = "roots" PROVE i < s2[1].child
      OBVIOUS
    <3>2. Len(s) > 0 /\ i < s[1].child /\ s[1].child <= s2[1].child
      BY <2>1, <3>1
    <3>3. s[1].child \in Nat /\ s2[1].child \in Nat /\ i \in Nat
      BY <3>1, <3>2, <1>0
    <3> QED BY <3>2, <3>3
  <2> QED BY <2>1, <2>2 DEF LookedUp
<1>2. CASE \E k \in 1 .. n : k <= a /\ c \in ToSet(Kids[q[k]])
  <2>1. PICK k \in 1 .. n : k <= a /\ c \in ToSet(Kids[q[k]])
    BY <1>2
  <2>2. k \in 1 .. m /\ k \in 1 .. Len(q) /\ k <= a2
    BY <2>1, <1>0
  <2> QED BY <2>1, <2>2 DEF LookedUp
<1>3. CASE Len(s) = 2 /\ a + 1 <= n
           /\ \E i \in 1 .. Len(Kids[s[2].cell]) : Kids[s[2].cell][i] = c /\ i < s[2].child
  <2>1. PICK i \in 1 .. Len(Kids[s[2].cell]) : Kids[s[2].cell][i] = c /\ i < s[2].child
    BY <1>3
  <2>2. CASE Len(s2) = 2 /\ s2[2].cell = s[2].cell /\ s[2].child <= s2[2].child /\ a2 = a
    <3>1. s[2].child \in Nat /\ s2[2].child \in Nat /\ i \in Int
      BY <1>3, <2>2, <1>0
    <3>2. i < s2[2].child
      BY <2>1, <2>2, <3>1
    <3>3. a2 + 1 <= m
      BY <1>3, <2>2
    <3> QED BY <2>1, <2>2, <3>2, <3>3 DEF LookedUp
  <2>3. CASE a < a2 /\ (a + 1 <= Len(q) => s[2].cell = q[a + 1])
    <3>1. a + 1 \in 1 .. m /\ a + 1 \in 1 .. Len(q) /\ a + 1 <= a2 /\ s[2].cell = q[a + 1]
      <4>1. a + 1 <= n /\ a < a2
        BY <1>3, <2>3
      <4>2. a + 1 \in 1 .. m /\ a + 1 \in 1 .. Len(q) /\ a + 1 <= a2
        BY <4>1, <1>0
      <4> QED BY <4>2, <2>3, <1>0
    <3>2. c \in ToSet(Kids[q[a + 1]])
      <4>1. q[a + 1] \in Cells
        BY <3>1
      <4> QED BY <2>1, <3>1, <4>1, InToSet
    <3> QED BY <3>1, <3>2 DEF LookedUp
  <2> QED BY <1>3, <2>2, <2>3
<1> QED BY <1>1, <1>2, <1>3 DEF LookedUp

\* The same for the whole queue, when it stays or a cell is appended that has
\* been looked up and is in it for the first time.
LEMMA OnceEachKept ==
  ASSUME query \in Queries, query' \in Queries,
         \/ query'.queue = query.queue
         \/ \E e \in Cells :
              /\ query'.queue = Append(query.queue, e) /\ e \notin ToSet(query.queue)
              /\ LookedUp(e, Len(query.queue), query'.queue, query'.index, stack'),
         query.index <= query'.index,
         stack \in Seq(Frames), stack' \in Seq(Frames),
         InTrigger' => InTrigger /\ stack[1].child <= stack'[1].child,
         Depth = 2 =>
           \/ /\ Depth' = 2 /\ stack'[2].cell = stack[2].cell
              /\ stack[2].child <= stack'[2].child /\ query'.index = query.index
           \/ query.index < query'.index /\ stack[2].cell = query.queue[query.index + 1],
         \A r \in requests' : r \in requests
           \/ LookedUp(r.cell, Len(query'.queue), query'.queue, query'.index, stack'),
         OnceEach
  PROVE  OnceEach'
<1> DEFINE q == query.queue
<1> DEFINE q2 == query'.queue
<1>b. /\ q \in Seq(Cells) /\ q2 \in Seq(Cells) /\ query.index \in Nat /\ query'.index \in Nat
      /\ \/ q2 = q
         \/ \E e \in Cells : /\ q2 = Append(q, e) /\ e \notin ToSet(q)
                             /\ LookedUp(e, Len(q), q2, query'.index, stack')
      /\ Depth = 2 =>
           \/ /\ Depth' = 2 /\ stack'[2].cell = stack[2].cell
              /\ stack[2].child <= stack'[2].child /\ query'.index = query.index
           \/ query.index < query'.index /\ stack[2].cell = q[query.index + 1]
      /\ \A r \in requests' : r \in requests
           \/ LookedUp(r.cell, Len(q2), q2, query'.index, stack')
      /\ \A i, j \in 1 .. Len(q) : q[i] = q[j] => i = j
      /\ \A k \in 1 .. Len(q) : LookedUp(q[k], k - 1, q, query.index, stack)
      /\ \A r \in requests : LookedUp(r.cell, Len(q), q, query.index, stack)
  BY DEF Queries, OnceEach
<1>a. OnceEach' <=>
      /\ \A i, j \in 1 .. Len(q2) : q2[i] = q2[j] => i = j
      /\ \A k \in 1 .. Len(q2) : LookedUp(q2[k], k - 1, q2, query'.index, stack')
      /\ \A r \in requests' : LookedUp(r.cell, Len(q2), q2, query'.index, stack')
  BY DEF OnceEach
<1> HIDE DEF q, q2
<1>1. /\ \A k \in 1 .. Len(q) : q2[k] = q[k]
      /\ Len(q) \in Nat /\ Len(q2) \in Nat /\ Len(q) <= Len(q2)
      /\ q2 # q => Len(q2) = Len(q) + 1
  <2>1. CASE q2 = q
    BY <2>1, <1>b
  <2>2. CASE \E e \in Cells : q2 = Append(q, e)
    <3>1. PICK e \in Cells : q2 = Append(q, e)
      BY <2>2
    <3> QED BY <3>1, <1>b, ToSetAppend
  <2> QED BY <2>1, <2>2, <1>b
<1>2. ASSUME NEW c, NEW n \in Nat, NEW m \in Nat, n <= m, n <= Len(q),
             LookedUp(c, n, q, query.index, stack)
      PROVE  LookedUp(c, m, q2, query'.index, stack')
  BY <1>b, <1>1, <1>2, LookedUpKept DEF Depth, InTrigger
<1>3. ASSUME NEW k \in 1 .. Len(q)
      PROVE  LookedUp(q[k], k - 1, q2, query'.index, stack')
  <2>1. k - 1 \in Nat /\ k - 1 <= Len(q)
    BY <1>1
  <2>2. LookedUp(q[k], k - 1, q, query.index, stack)
    BY <1>b
  <2> QED BY <2>1, <2>2, <1>2
<1>4. \A r \in requests' : LookedUp(r.cell, Len(q2), q2, query'.index, stack')
  <2>1. SUFFICES ASSUME NEW r \in requests', r \in requests
                 PROVE  LookedUp(r.cell, Len(q2), q2, query'.index, stack')
    BY <1>b
  <2>2. LookedUp(r.cell, Len(q), q, query.index, stack)
    BY <2>1, <1>b
  <2> QED BY <2>2, <1>1, <1>2
<1>5. CASE q2 = q
  BY <1>b, <1>a, <1>3, <1>4, <1>5
<1>6. CASE q2 # q
  <2>1. PICK e \in Cells : /\ q2 = Append(q, e) /\ e \notin ToSet(q)
                           /\ LookedUp(e, Len(q), q2, query'.index, stack')
    BY <1>6, <1>b
  <2>2. Len(q2) = Len(q) + 1 /\ q2[Len(q) + 1] = e
    BY <2>1, <1>b, ToSetAppend
  <2>3. \A k \in 1 .. Len(q2) : k \in 1 .. Len(q) \/ k = Len(q) + 1
    BY <2>2, <1>1
  <2>4. \A k \in 1 .. Len(q2) : LookedUp(q2[k], k - 1, q2, query'.index, stack')
    <3>1. SUFFICES ASSUME NEW k \in 1 .. Len(q2)
                   PROVE  LookedUp(q2[k], k - 1, q2, query'.index, stack')
      OBVIOUS
    <3>2. CASE k \in 1 .. Len(q)
      BY <3>2, <1>1, <1>3
    <3>3. CASE k = Len(q) + 1
      <4>1. k - 1 = Len(q)
        BY <3>3, <1>1
      <4> QED BY <4>1, <3>3, <2>1, <2>2
    <3> QED BY <3>2, <3>3, <2>3
  <2>5. \A i, j \in 1 .. Len(q) : q[i] = q[j] => i = j
    BY <1>b
  <2>6. \A i \in 1 .. Len(q) : q[i] # e
    BY <2>1, <1>b, InToSet
  <2>7. \A i, j \in 1 .. Len(q2) : q2[i] = q2[j] => i = j
    <3>1. SUFFICES ASSUME NEW i \in 1 .. Len(q2), NEW j \in 1 .. Len(q2), q2[i] = q2[j]
                   PROVE  i = j
      OBVIOUS
    <3>2. CASE i \in 1 .. Len(q) /\ j \in 1 .. Len(q)
      BY <3>1, <3>2, <2>5, <1>1
    <3>3. CASE i \in 1 .. Len(q) /\ j = Len(q) + 1
      BY <3>1, <3>3, <2>2, <2>6, <1>1
    <3>4. CASE i = Len(q) + 1 /\ j \in 1 .. Len(q)
      BY <3>1, <3>4, <2>2, <2>6, <1>1
    <3> QED BY <3>2, <3>3, <3>4, <2>3
  <2> QED BY <2>4, <2>7, <1>4, <1>a
<1> QED BY <1>5, <1>6

\* Only a root, a child of a processed cell or a child of the cell in
\* processCell has been looked up: the cells are a forest.
LEMMA LookedUpChild ==
  ASSUME NEW p \in Cells, NEW d \in ToSet(Kids[p]), NEW n \in Nat,
         NEW q \in Seq(Cells), n <= Len(q), NEW a \in Nat,
         NEW s \in Seq(Frames), Len(s) = 2 => s[2].cell \in Cells,
         LookedUp(d, n, q, a, s)
  PROVE  \/ \E k \in 1 .. n : k <= a /\ q[k] = p
         \/ /\ Len(s) = 2 /\ s[2].cell = p
            /\ \E i \in 1 .. Len(Kids[p]) : Kids[p][i] = d /\ i < s[2].child
<1>1. \A x \in Cells : d \in ToSet(Kids[x]) => x = p
  BY ForestAssumption
<1>2. d \notin ToSet(Roots)
  BY ForestAssumption
<1>3. CASE \E i \in 1 .. Len(Roots) : Roots[i] = d
  <2>1. d \in ToSet(Roots)
    BY <1>3, InToSet, RecordFacts
  <2> QED BY <2>1, <1>2
<1>4. CASE \E k \in 1 .. n : k <= a /\ d \in ToSet(Kids[q[k]])
  <2>1. PICK k \in 1 .. n : k <= a /\ d \in ToSet(Kids[q[k]])
    BY <1>4
  <2>2. q[k] \in Cells
    BY <2>1
  <2> QED BY <2>1, <2>2, <1>1
<1>5. CASE Len(s) = 2 /\ \E i \in 1 .. Len(Kids[s[2].cell]) :
                            Kids[s[2].cell][i] = d /\ i < s[2].child
  <2>1. PICK i \in 1 .. Len(Kids[s[2].cell]) : Kids[s[2].cell][i] = d /\ i < s[2].child
    BY <1>5
  <2>2. s[2].cell \in Cells /\ Kids[s[2].cell] \in Seq(Cells)
    BY <1>5, RecordFacts
  <2>3. d \in ToSet(Kids[s[2].cell])
    BY <2>1, <2>2, InToSet
  <2> QED BY <2>1, <2>2, <2>3, <1>1, <1>5
<1> QED BY <1>3, <1>4, <1>5 DEF LookedUp

-----------------------------------------------------------------------------
(* What a step that asks for nothing keeps.                                *)

LEMMA CallsKept ==
  ASSUME FTypeOK, CellCalls, query' \in Queries,
         query'.queue = query.queue, query.index <= query'.index,
         requests' \subseteq requests, cache' = cache,
         \A j \in 1 .. Depth' : OnCell(j)' =>
           \E i \in 1 .. Depth : OnCell(i) /\ stack[i].cell = stack'[j].cell
  PROVE  CellCalls'
<1>1. ASSUME NEW j \in 1 .. Depth', OnCell(j)'
      PROVE  CallFor(stack'[j].cell, query'.queue, query'.index, cache', requests')
  <2>1. PICK i \in 1 .. Depth : OnCell(i) /\ stack[i].cell = stack'[j].cell
    BY <1>1
  <2> DEFINE p == stack'[j].cell
  <2>2. CallFor(p, query.queue, query.index, cache, requests)
    BY <2>1 DEF CellCalls
  <2> HIDE DEF p
  <2>3. query.index \in Nat /\ query'.index \in Nat /\ Len(query.queue) \in Nat
    BY DEF FTypeOK, Queries
  <2>4. \A k \in 1 .. Len(query.queue) : k <= query.index + 1 => k <= query'.index + 1
    BY <2>3
  <2>5. CallFor(p, query'.queue, query'.index, cache', requests')
    BY <2>2, <2>4 DEF CallFor
  <2> QED BY <2>5 DEF p
<1> QED BY <1>1 DEF CellCalls

LEMMA KnownKept ==
  ASSUME FTypeOK, Known, query' \in Queries,
         query'.queue = query.queue, query.index <= query'.index,
         requests' \subseteq requests,
         \A j \in 1 .. Depth : OnCell(j) =>
           \/ \E i \in 1 .. Depth' : OnCell(i)' /\ stack'[i].cell = stack[j].cell
           \/ \E k \in 1 .. Len(query.queue) :
                k <= query'.index /\ query.queue[k] = stack[j].cell
  PROVE  Known'
<1>1. SUFFICES ASSUME NEW r \in requests'
      PROVE  \/ r.cell \in ToSet(Roots)
             \/ \E k \in 1 .. Len(query'.queue) :
                  k <= query'.index /\ r.cell \in ToSet(Kids[query'.queue[k]])
             \/ \E j \in 1 .. Depth' : OnCell(j)' /\ r.cell \in ToSet(Kids[stack'[j].cell])
  BY DEF Known
<1>2. query.index \in Nat /\ query'.index \in Nat
  BY DEF FTypeOK, Queries
<1>3. CASE r.cell \in ToSet(Roots)
  BY <1>3
<1>4. CASE \E k \in 1 .. Len(query.queue) :
             k <= query.index /\ r.cell \in ToSet(Kids[query.queue[k]])
  BY <1>2, <1>4
<1>5. CASE \E j \in 1 .. Depth : OnCell(j) /\ r.cell \in ToSet(Kids[stack[j].cell])
  <2>1. PICK j \in 1 .. Depth : OnCell(j) /\ r.cell \in ToSet(Kids[stack[j].cell])
    BY <1>5
  <2>2. \/ \E i \in 1 .. Depth' : OnCell(i)' /\ stack'[i].cell = stack[j].cell
        \/ \E k \in 1 .. Len(query.queue) :
             k <= query'.index /\ query.queue[k] = stack[j].cell
    BY <2>1
  <2>3. CASE \E i \in 1 .. Depth' : OnCell(i)' /\ stack'[i].cell = stack[j].cell
    BY <2>1, <2>3
  <2>4. CASE \E k \in 1 .. Len(query.queue) :
               k <= query'.index /\ query.queue[k] = stack[j].cell
    BY <2>1, <2>4
  <2> QED BY <2>2, <2>3, <2>4
<1> QED BY <1>1, <1>3, <1>4, <1>5 DEF Known

\* The queue may grow, and inFlight stays.
LEMMA CountedKept ==
  ASSUME FTypeOK, Counted, requests' = requests, query' \in Queries,
         query'.inFlight = query.inFlight, Len(query.queue) <= Len(query'.queue)
  PROVE  Counted'
<1>1. Len(query.queue) \in Nat /\ Len(query'.queue) \in Nat /\ query.inFlight \in Nat
      /\ requests \subseteq Requests
  BY DEF FTypeOK, Queries
<1>2. \A r \in requests : r.nr \in Nat /\ r.nr < Len(query.queue) + query.inFlight
  BY <1>1 DEF Requests, Counted
<1>3. \A r \in requests : r.nr < Len(query'.queue) + query'.inFlight
  BY <1>1, <1>2
<1> QED BY <1>3 DEF Counted

\* Nothing is queued or requested, and no nested call has returned.
LEMMA NotQueuedKept ==
  ASSUME NotQueued, requests' \subseteq requests, query'.queue = query.queue,
         ~query'.interrupted => ~query.interrupted /\ (Depth' <= 2 => Depth <= 2)
  PROVE  NotQueued'
BY DEF NotQueued

\* With no call of processCell, CellCalls says nothing.
LEMMA NoCalls ==
  ASSUME \A j \in 1 .. Depth : ~OnCell(j)
  PROVE  CellCalls
BY DEF CellCalls

\* The queue, the requests and the page's state stay as they are.
LEMMA Unaffected ==
  ASSUME FInv, UNCHANGED <<query, requests, cache, showing, inside, stack, currentCells>>
  PROVE  /\ StackShape' /\ Counted' /\ NotQueued' /\ CellCalls' /\ Known' /\ QueueInv'
         /\ NoHolesNoOverlap'
<1>1. Depth' = Depth /\ (InTrigger' <=> InTrigger)
      /\ \A j : (OnCell(j)' <=> OnCell(j)) /\ (OnQueue(j)' <=> OnQueue(j))
  BY DEF Depth, InTrigger, OnCell, OnQueue
<1>2. StackShape'
  BY <1>1 DEF FInv, StackShape
<1>3. Counted' /\ NotQueued' /\ NoHolesNoOverlap'
  BY <1>1 DEF FInv, Counted, NotQueued, NoHolesNoOverlap
<1>4. CellCalls'
  <2>1. query \in Queries /\ query.index <= query'.index
    BY DEF FInv, FTypeOK, Queries
  <2> QED BY <1>1, <2>1, CallsKept DEF FInv
<1>5. Known'
  <2>1. query \in Queries /\ query.index <= query'.index
    BY DEF FInv, FTypeOK, Queries
  <2>2. \A j \in 1 .. Depth : OnCell(j) =>
           \E i \in 1 .. Depth' : OnCell(i)' /\ stack'[i].cell = stack[j].cell
    BY <1>1
  <2> QED BY <2>1, <2>2, KnownKept DEF FInv
<1>6. Regular' <=> Regular
  <2>1. Reached' = Reached /\ (OnceEach' <=> OnceEach)
    BY <1>1 DEF Reached, OnceEach
  <2>2. \A c : SmallEnough(c)' <=> SmallEnough(c)
    BY DEF SmallEnough
  <2> QED BY <1>1, <2>1, <2>2 DEF Regular
<1>7. Nested' <=> Nested
  BY <1>1 DEF Nested, NextInQueue, SmallEnough, Wanted, ChildInFrustum, Cached
<1>8. QueueInv'
  BY <1>1, <1>6, <1>7 DEF FInv, QueueInv
<1> QED BY <1>2, <1>3, <1>4, <1>5, <1>8

-----------------------------------------------------------------------------
(* The camera, the timers and triggerFrustum.                              *)

LEMMA InitInv == Init => FInv
<1> SUFFICES ASSUME Init PROVE FInv
  OBVIOUS
<1> USE DEF Init
<1>1. FTypeOK
  BY FrustumAssumption DEF FTypeOK, Queries, Frames, Requests
<1>2. Depth = 0 /\ ~InTrigger
  BY DEF Depth, InTrigger
<1>3. StackShape
  BY <1>2 DEF StackShape
<1>4. Counted /\ NotQueued /\ CellCalls /\ Known
  BY <1>2, FS_EmptySet DEF Counted, NotQueued, CellCalls, Known
<1>5. OnceEach
  BY DEF OnceEach
<1>6. Regular
  BY <1>2, <1>5 DEF Regular
<1>7. QueueInv
  BY <1>2, <1>6 DEF QueueInv
<1>8. NoHolesNoOverlap
  BY DEF NoHolesNoOverlap
<1> QED BY <1>1, <1>3, <1>4, <1>7, <1>8 DEF FInv

LEMMA AdaptedLevelType ==
  ASSUME query \in Queries
  PROVE  AdaptedLevel \in Int
BY FrustumAssumption DEF Queries, AdaptedLevel

LEMMA StartStep ==
  ASSUME FInv, NEW v \in Views, NEW id \in Int, Start(v, id),
         camera' \in Views, retries' \in Seq(Int), resumes' \in Nat,
         UNCHANGED <<cache, showing, inside, currentCells>>
  PROVE  FInv'
<1>1. query' \in Queries /\ query'.queue = << >> /\ query'.index = 0
      /\ query'.interrupted = FALSE /\ query'.processing = TRUE
      /\ query'.inFlight = IF query.inFlight > 0 THEN 0 ELSE query.inFlight
  <2>1. query \in Queries
    BY DEF FInv, FTypeOK
  <2>2. AdaptedLevel \in Int
    BY <2>1, AdaptedLevelType
  <2> DEFINE level == AdaptedLevel
  <2>3. query' = [query EXCEPT
                 !.view = v, !.lastTrigger = id,
                 !.level = level, !.completed = FALSE, !.count = 0,
                 !.queue = << >>, !.index = 0, !.interrupted = FALSE,
                 !.inFlight = IF @ > 0 THEN 0 ELSE @, !.processing = TRUE]
    BY DEF Start
  <2> HIDE DEF level
  <2>4. level \in Int
    BY <2>2 DEF level
  <2>5. << >> \in Seq(Cells) /\ v \in Views /\ id \in Int
        /\ query.inFlight \in Nat /\ query.calls \in Nat
    BY <2>1 DEF Queries
  <2>6. query' = [view |-> v, queue |-> << >>, index |-> 0,
                  inFlight |-> IF query.inFlight > 0 THEN 0 ELSE query.inFlight,
                  count |-> 0, level |-> level, completed |-> FALSE, processing |-> TRUE,
                  interrupted |-> FALSE, calls |-> query.calls, lastTrigger |-> id]
    BY <2>1, <2>3 DEF Queries
  <2> QED BY <2>4, <2>5, <2>6 DEF Queries
<1>2. requests' = {}
  <2>1. CASE query.inFlight > 0
    BY <2>1 DEF Start
  <2>2. CASE ~(query.inFlight > 0)
    <3>1. Cardinality(requests) = 0 /\ IsFiniteSet(requests)
      BY <2>2, FS_CardinalityType DEF FInv, FTypeOK, Queries, Counted
    <3>2. requests = {}
      BY <3>1, FS_EmptySet
    <3> QED BY <2>2, <3>2 DEF Start
  <2> QED BY <2>1, <2>2
<1>3. stack' = <<RootFrame(1)>> /\ stack' \in Seq(Frames) /\ Len(stack') = 1
      /\ stack'[1].cell = "roots" /\ stack'[1].child = 1
  <2>1. RootFrame(1) \in Frames /\ RootFrame(1).cell = "roots" /\ RootFrame(1).child = 1
    BY RecordFacts
  <2> QED BY <2>1 DEF Start
<1>4. FTypeOK'
  BY <1>1, <1>2, <1>3 DEF FInv, FTypeOK
<1>5. Depth' = 1 /\ InTrigger' /\ ~OnCell(1)' /\ ~OnQueue(1)'
  BY <1>3, RecordFacts DEF Depth, InTrigger, OnCell, OnQueue
<1>6. StackShape'
  BY <1>3, <1>5, RecordFacts DEF StackShape, OnCell
<1>7. Counted' /\ NotQueued' /\ Known'
  BY <1>1, <1>2, FS_EmptySet DEF Counted, NotQueued, Known, FInv, FTypeOK, Queries
<1>8. CellCalls'
  BY <1>5 DEF CellCalls, OnCell
<1>9. OnceEach'
  BY <1>1, <1>2 DEF OnceEach
<1>10. Regular'
  BY <1>1, <1>5, <1>9 DEF Regular
<1>11. QueueInv'
  BY <1>1, <1>5, <1>10 DEF QueueInv
<1>12. NoHolesNoOverlap'
  BY DEF FInv, NoHolesNoOverlap
<1> QED BY <1>4, <1>6, <1>7, <1>8, <1>11, <1>12 DEF FInv

LEMMA TimerStep ==
  ASSUME FInv
  PROVE  /\ (\E v \in Views : MoveCamera(v)) => FInv'
         /\ GetFrustum => FInv'
         /\ Retry => FInv'
         /\ BreakLoop => FInv'
         /\ UNCHANGED vars => FInv'
<1>1. FTypeOK
  BY DEF FInv
<1>2. ASSUME NEW v \in Views, MoveCamera(v) PROVE FInv'
  <2>1. FTypeOK'
    BY <1>1, <1>2 DEF FTypeOK, MoveCamera
  <2> QED BY <1>2, <2>1, Unaffected DEF MoveCamera, FInv
<1>3. ASSUME GetFrustum PROVE FInv'
  <2>1. camera \in Views /\ 0 \in Int /\ Start(camera, 0) /\ camera' = camera
        /\ retries' = retries /\ resumes' = resumes
        /\ UNCHANGED <<cache, showing, inside, currentCells>>
    BY <1>1, <1>3 DEF GetFrustum, FTypeOK
  <2> HIDE DEF Start
  <2> QED BY <1>1, <2>1, StartStep DEF FTypeOK
<1>4. ASSUME Retry PROVE FInv'
  <2>1. Start(query.view, Head(retries)) /\ camera' = camera /\ resumes' = resumes
        /\ retries # << >> /\ retries' = Tail(retries)
        /\ UNCHANGED <<cache, showing, inside, currentCells>>
    BY <1>4 DEF Retry
  <2>2. Head(retries) \in Int /\ Tail(retries) \in Seq(Int)
    BY <1>1, <2>1, HeadTailProperties DEF FTypeOK
  <2>3. query.view \in Views
    BY <1>1 DEF FTypeOK, Queries
  <2> QED BY <1>1, <2>1, <2>2, <2>3, StartStep DEF FTypeOK
<1>5. ASSUME BreakLoop PROVE FInv'
  <2>1. Tail(retries) \in Seq(Int)
    BY <1>1, <1>5, HeadTailProperties DEF FTypeOK, BreakLoop
  <2>2. FTypeOK'
    BY <1>1, <1>5, <2>1 DEF FTypeOK, BreakLoop
  <2> QED BY <1>5, <2>2, Unaffected DEF BreakLoop, FInv
<1>6. ASSUME UNCHANGED vars PROVE FInv'
  <2>1. FTypeOK'
    BY <1>1, <1>6 DEF FTypeOK, vars
  <2> QED BY <1>6, <2>1, Unaffected DEF vars, FInv
<1> QED BY <1>2, <1>3, <1>4, <1>5, <1>6

\* A root is looked up for the first time.
LEMMA NewRoot ==
  ASSUME FInv, InRootLoop, MoreRoots
  PROVE  /\ Depth = 1 /\ InTrigger /\ stack[1].child \in 1 .. Len(Roots)
         /\ NextRoot = Roots[stack[1].child] /\ NextRoot \in Cells
         /\ Regular /\ ~query.interrupted
         /\ NextRoot \notin ToSet(query.queue)
         /\ \A r \in requests : r.cell # NextRoot
<1>1. FTypeOK /\ StackShape /\ ~Idle /\ QueueInv
  BY DEF FInv, InRootLoop
<1>2. InTrigger /\ Depth = 1 /\ Last(stack) = stack[1]
  BY <1>1, Innermost
<1>3. stack[1].child \in 1 .. Len(Roots) /\ NextRoot = Roots[stack[1].child]
  <2>1. stack[1].child \in 1 .. Len(Roots) + 1 /\ stack[1].child <= Len(Roots)
    BY <1>1, <1>2 DEF StackShape, MoreRoots
  <2> QED BY <1>2, <2>1, RecordFacts DEF NextRoot
<1>4. NextRoot \in Cells
  BY <1>3, RecordFacts
<1>5. Regular /\ ~query.interrupted
  BY <1>1, <1>2 DEF QueueInv
<1>6. ASSUME NEW c, NEW n \in Nat, LookedUp(c, n, query.queue, query.index, stack)
      PROVE  c # NextRoot
  <2>1. query.index = 0 /\ Len(stack) = 1
    BY <1>2, <1>5 DEF Regular, Depth
  <2>2. PICK i \in 1 .. Len(Roots) : Roots[i] = c /\ i < stack[1].child
    BY <2>1, <1>2, <1>6 DEF LookedUp, InTrigger
  <2>3. Roots[i] # Roots[stack[1].child]
    <3>1. i # stack[1].child
      BY <2>2, <1>3
    <3>2. DOMAIN Roots = 1 .. Len(Roots)
      BY RecordFacts
    <3>3. \A x, y \in DOMAIN Roots : Roots[x] = Roots[y] => x = y
      BY ForestAssumption DEF IsInjective
    <3> QED BY <3>1, <3>2, <3>3, <1>3
  <2> QED BY <2>2, <2>3, <1>3
<1>7. NextRoot \notin ToSet(query.queue)
  <2>1. SUFFICES ASSUME NextRoot \in ToSet(query.queue) PROVE FALSE
    OBVIOUS
  <2>2. query.queue \in Seq(Cells)
    BY <1>1 DEF FTypeOK, Queries
  <2>3. PICK k \in 1 .. Len(query.queue) : query.queue[k] = NextRoot
    BY <2>1, <2>2, InToSet
  <2>4. LookedUp(query.queue[k], k - 1, query.queue, query.index, stack) /\ k - 1 \in Nat
    BY <1>5, <2>2 DEF Regular, OnceEach
  <2> QED BY <2>3, <2>4, <1>6
<1>8. \A r \in requests : r.cell # NextRoot
  <2>1. Len(query.queue) \in Nat
    BY <1>1 DEF FTypeOK, Queries
  <2>2. \A r \in requests :
          LookedUp(r.cell, Len(query.queue), query.queue, query.index, stack)
    BY <1>5 DEF Regular, OnceEach
  <2> QED BY <2>1, <2>2, <1>6
<1> QED BY <1>2, <1>3, <1>4, <1>5, <1>7, <1>8 DEF Depth

\* The root loop goes on: the stack is one frame, and its place is one further.
LEMMA RootFrameNext ==
  ASSUME FInv, InRootLoop, MoreRoots, stack' = AfterFrame
  PROVE  /\ stack' \in Seq(Frames) /\ Depth' = 1 /\ InTrigger' /\ StackShape'
         /\ stack'[1].child = stack[1].child + 1 /\ ~OnCell(1)'
<1>1. Depth = 1 /\ InTrigger /\ stack[1].child \in 1 .. Len(Roots)
  BY NewRoot
<1>2. stack \in Seq(Frames) /\ stack # << >>
  BY DEF FInv, FTypeOK, InRootLoop, Idle
<1>3. /\ stack' \in Seq(Frames) /\ Len(stack') = 1
      /\ stack'[1].cell = stack[1].cell /\ stack'[1].child = stack[1].child + 1
  <2>1. stack' = [stack EXCEPT ![Len(stack)].child = @ + 1] /\ Len(stack) = 1
    BY <1>1 DEF AfterFrame, Depth
  <2> QED BY <1>2, <2>1, NextFrame
<1>4. stack'[1].cell = "roots" /\ ~OnCell(1)' /\ ~OnQueue(1)'
  BY <1>1, <1>3, RecordFacts DEF InTrigger, OnCell, OnQueue
<1>5. Depth' = 1 /\ InTrigger'
  BY <1>3, <1>4 DEF Depth, InTrigger
<1>6. stack'[1].child \in 1 .. Len(Roots) + 1
  BY <1>1, <1>3, RecordFacts
<1>7. StackShape'
  BY <1>4, <1>5, <1>6 DEF StackShape
<1> QED BY <1>3, <1>4, <1>5, <1>7

LEMMA RootHitStep ==
  ASSUME FInv, RootHit
  PROVE  FInv'
<1> DEFINE c == NextRoot
<1> DEFINE q == query.queue
<1>1. FTypeOK /\ InRootLoop /\ MoreRoots /\ stack' = AfterFrame
  BY DEF FInv, RootHit
<1>2. /\ Depth = 1 /\ InTrigger /\ stack[1].child \in 1 .. Len(Roots)
      /\ c = Roots[stack[1].child] /\ c \in Cells /\ Regular /\ ~query.interrupted
      /\ c \notin ToSet(q) /\ \A r \in requests : r.cell # c
  BY <1>1, NewRoot
<1>3. /\ stack' \in Seq(Frames) /\ Depth' = 1 /\ InTrigger' /\ StackShape'
      /\ stack'[1].child = stack[1].child + 1 /\ ~OnCell(1)'
  BY <1>1, RootFrameNext
<1>4. query' = [query EXCEPT !.queue = Append(@, c)] /\ cache' = Touched(cache, c)
      /\ UNCHANGED <<camera, updatePending, moves, retries, resumes, requests,
                     showing, inside, currentCells>>
  BY DEF RootHit
<1> HIDE DEF c, q
<1>5. q \in Seq(Cells)
  BY <1>1 DEF FTypeOK, Queries, q
<1>6. /\ Append(q, c) \in Seq(Cells) /\ Len(Append(q, c)) = Len(q) + 1 /\ Len(q) \in Nat
      /\ \A i \in 1 .. Len(q) : Append(q, c)[i] = q[i]
      /\ ToSet(Append(q, c)) = ToSet(q) \cup {c}
  BY <1>2, <1>5, ToSetAppend
<1>7. query' \in Queries /\ query'.queue = Append(q, c) /\ query'.index = query.index
      /\ query'.interrupted = query.interrupted /\ query'.inFlight = query.inFlight
  BY <1>1, <1>4, <1>6 DEF FTypeOK, Queries, q
<1>8. FTypeOK'
  BY <1>1, <1>2, <1>3, <1>4, <1>7, TouchedCells DEF FTypeOK
<1>9. Counted' /\ NoHolesNoOverlap'
  BY <1>1, <1>4, <1>6, <1>7, CountedKept DEF FInv, NoHolesNoOverlap, q
<1>10. NotQueued'
  BY <1>2, <1>3, <1>4, <1>6, <1>7 DEF FInv, NotQueued, q
<1>11. CellCalls'
  BY <1>3 DEF CellCalls, OnCell
<1>12. Known'
  <2>1. \A j \in 1 .. Depth : ~OnCell(j)
    BY <1>2, RecordFacts DEF InTrigger, OnCell
  <2>2. \A k \in 1 .. Len(q) : k \in 1 .. Len(query'.queue) /\ query'.queue[k] = q[k]
    BY <1>6, <1>7
  <2> QED BY <1>4, <1>7, <2>1, <2>2 DEF FInv, Known, q
<1>13. query.index = 0
  BY <1>2 DEF Regular
<1>14. OnceEach'
  <2>1. LookedUp(c, Len(q), query'.queue, query'.index, stack')
    <3>1. stack[1].child \in Nat /\ stack[1].child < stack'[1].child
      BY <1>2, <1>3
    <3> QED BY <1>2, <3>1 DEF LookedUp
  <2>2. stack \in Seq(Frames) /\ requests \subseteq Requests /\ q = query.queue
        /\ query.index \in Nat
    BY <1>1 DEF FTypeOK, Queries, q
  <2>3. stack[1].child <= stack'[1].child
    BY <1>2, <1>3
  <2>4. OnceEach
    BY <1>2 DEF Regular
  <2>5. \E e \in Cells :
          /\ query'.queue = Append(query.queue, e) /\ e \notin ToSet(query.queue)
          /\ LookedUp(e, Len(query.queue), query'.queue, query'.index, stack')
    BY <1>2, <1>7, <2>1 DEF q
  <2>6. query \in Queries /\ query' \in Queries /\ query.index <= query'.index
    BY <1>1, <1>7, <1>13 DEF FTypeOK
  <2>7. InTrigger' => InTrigger /\ stack[1].child <= stack'[1].child
    BY <1>2, <2>3
  <2>8. Depth # 2 /\ \A r \in requests' : r \in requests
    BY <1>2, <1>4
  <2> HIDE DEF OnceEach
  <2> QED BY <2>2, <2>4, <2>5, <2>6, <2>7, <2>8, <1>3, OnceEachKept
<1>15. Regular'
  <2>1. Reached' = 0
    BY <1>3, <1>7, <1>13 DEF Reached
  <2> QED BY <1>3, <1>6, <1>7, <1>13, <1>14, <2>1 DEF Regular
<1>16. QueueInv'
  BY <1>2, <1>3, <1>7, <1>15 DEF QueueInv
<1> QED BY <1>3, <1>8, <1>9, <1>10, <1>11, <1>12, <1>16 DEF FInv

\* One more request is counted, and it is none of those under way.
LEMMA OneMore ==
  ASSUME Counted, FTypeOK, NEW c \in Cells, NEW i \in {-1, 0, 1},
         requests' = requests \cup {Xhr(c, i)},
         query'.inFlight = query.inFlight + 1, query'.queue = query.queue
  PROVE  /\ Counted' /\ Xhr(c, i) \in Requests /\ Xhr(c, i) \notin requests
         /\ Xhr(c, i).cell = c
<1> DEFINE r == Xhr(c, i)
<1> DEFINE n == Len(query.queue) + query.inFlight
<1>1. Len(query.queue) \in Nat /\ query.inFlight \in Nat /\ requests \subseteq Requests
  BY DEF FTypeOK, Queries
<1>2. n \in Nat /\ r \in Requests /\ r.cell = c /\ r.nr = n
  BY <1>1 DEF Xhr, Requests
<1>3. \A s \in requests : s.nr \in Nat /\ s.nr < n
  BY <1>1 DEF Counted, Requests
<1> HIDE DEF r
<1>4. r \notin requests
  BY <1>2, <1>3
<1>5. IsFiniteSet(requests') /\ Cardinality(requests') = Cardinality(requests) + 1
  BY <1>4, FS_AddElement DEF Counted, r
<1>6. Cardinality(requests) \in Nat
  BY FS_CardinalityType DEF Counted
<1>7. \A s \in requests' : s.nr < Len(query'.queue) + query'.inFlight
  <2>1. Len(query'.queue) + query'.inFlight = n + 1
    BY <1>1
  <2>2. \A s \in requests' : s \in requests \/ s = r
    BY DEF r
  <2> HIDE DEF n
  <2> QED BY <2>1, <2>2, <1>2, <1>3
<1> QED BY <1>1, <1>2, <1>4, <1>5, <1>6, <1>7 DEF Counted, r

LEMMA RootMissStep ==
  ASSUME FInv, RootMiss
  PROVE  FInv'
<1> DEFINE c == NextRoot
<1> DEFINE q == query.queue
<1> DEFINE new == Xhr(c, -1)
<1>1. FTypeOK /\ InRootLoop /\ MoreRoots /\ stack' = AfterFrame
  BY DEF FInv, RootMiss
<1>2. /\ Depth = 1 /\ InTrigger /\ stack[1].child \in 1 .. Len(Roots)
      /\ c = Roots[stack[1].child] /\ c \in Cells /\ Regular /\ ~query.interrupted
      /\ c \notin ToSet(q) /\ \A r \in requests : r.cell # c
  BY <1>1, NewRoot
<1>3. /\ stack' \in Seq(Frames) /\ Depth' = 1 /\ InTrigger' /\ StackShape'
      /\ stack'[1].child = stack[1].child + 1 /\ ~OnCell(1)'
  BY <1>1, RootFrameNext
<1>4. query' = [query EXCEPT !.inFlight = @ + 1]
      /\ requests' = requests \cup {new}
      /\ UNCHANGED <<camera, updatePending, moves, retries, resumes, cache,
                     showing, inside, currentCells>>
  BY DEF RootMiss
<1> HIDE DEF c, q
<1>6. q \in Seq(Cells) /\ q = query.queue
  BY <1>1 DEF FTypeOK, Queries, q
<1>7. query' \in Queries /\ query'.queue = q /\ query'.index = query.index
      /\ query'.interrupted = query.interrupted /\ query'.inFlight = query.inFlight + 1
  <2>1. query \in Queries /\ query.inFlight + 1 \in Nat
    BY <1>1 DEF FTypeOK, Queries
  <2> QED BY <2>1, <1>4, <1>6 DEF Queries
<1>5. Counted' /\ new.cell = c /\ new \in Requests
  BY <1>1, <1>2, <1>4, <1>6, <1>7, OneMore DEF FInv
<1> HIDE DEF new
<1>8. FTypeOK'
  BY <1>1, <1>3, <1>4, <1>5, <1>7 DEF FTypeOK
<1>10. NoHolesNoOverlap'
  BY <1>4 DEF FInv, NoHolesNoOverlap
<1>11. NotQueued'
  BY <1>2, <1>3, <1>4, <1>5, <1>6, <1>7 DEF FInv, NotQueued
<1>12. CellCalls'
  BY <1>3 DEF CellCalls, OnCell
<1>13. Known'
  <2>1. \A j \in 1 .. Depth : ~OnCell(j)
    BY <1>2, RecordFacts DEF InTrigger, OnCell
  <2>2. c \in ToSet(Roots)
    BY <1>2, InToSet, RecordFacts
  <2> QED BY <1>4, <1>5, <1>6, <1>7, <2>1, <2>2 DEF FInv, Known
<1>14. query.index = 0
  BY <1>2 DEF Regular
<1>15. OnceEach'
  <2>1. LookedUp(c, Len(q), q, query'.index, stack')
    <3>1. stack[1].child \in Nat /\ stack[1].child < stack'[1].child
      BY <1>2, <1>3
    <3> QED BY <1>2, <3>1 DEF LookedUp
  <2>2. stack \in Seq(Frames) /\ requests \subseteq Requests /\ query.index \in Nat
    BY <1>1 DEF FTypeOK, Queries
  <2>3. stack[1].child <= stack'[1].child
    BY <1>2, <1>3
  <2>4. OnceEach
    BY <1>2 DEF Regular
  <2>5. \A r \in requests' : r \in requests
                 \/ LookedUp(r.cell, Len(q), q, query'.index, stack')
    BY <1>4, <1>5, <2>1
  <2>6. query \in Queries /\ query' \in Queries /\ query.index <= query'.index
    BY <1>1, <1>7, <1>14 DEF FTypeOK
  <2>7. InTrigger' => InTrigger /\ stack[1].child <= stack'[1].child
    BY <1>2, <2>3
  <2>8. \A r \in requests' : r \in requests
           \/ LookedUp(r.cell, Len(query'.queue), query'.queue, query'.index, stack')
    BY <1>7, <2>5
  <2>9. query'.queue = query.queue /\ Depth # 2
    BY <1>2, <1>6, <1>7
  <2> QED BY <2>2, <2>4, <2>6, <2>7, <2>8, <2>9, <1>3, OnceEachKept
<1>16. Regular'
  <2>1. Reached' = 0
    BY <1>3, <1>7, <1>14 DEF Reached
  <2> QED BY <1>3, <1>6, <1>7, <1>14, <1>15, <2>1 DEF Regular
<1>17. QueueInv'
  BY <1>2, <1>3, <1>7, <1>16 DEF QueueInv
<1> QED BY <1>3, <1>5, <1>8, <1>10, <1>11, <1>12, <1>13, <1>17 DEF FInv

\* Processing starts or goes on with a stack of processQueue alone.
LEMMA OneQueueCall ==
  ASSUME stack' = << >> \/ stack' = <<QueueFrame>>
  PROVE  /\ stack' \in Seq(Frames) /\ Depth' \in {0, 1} /\ ~InTrigger' /\ StackShape'
         /\ \A j \in 1 .. Depth' : ~OnCell(j)'
<1>1. CASE stack' = << >>
  BY <1>1 DEF Depth, InTrigger, StackShape, OnCell
<1>2. CASE stack' = <<QueueFrame>>
  <2>1. QueueFrame \in Frames /\ QueueFrame.cell = "none"
    BY RecordFacts
  <2> DEFINE f == QueueFrame
  <2> HIDE DEF f
  <2>2. f \in Frames /\ f.cell = "none" /\ f.cell \notin Cells /\ stack' = <<f>>
    BY <2>1, <1>2, RecordFacts DEF f
  <2>3. stack' \in Seq(Frames) /\ Depth' = 1 /\ stack'[1].cell = "none"
    BY <2>2 DEF Depth
  <2>4. ~InTrigger' /\ \A j \in 1 .. Depth' : j = 1 /\ ~OnCell(j)' /\ stack'[j].cell # "roots"
    BY <2>2, <2>3 DEF InTrigger, OnCell
  <2>5. OnQueue(1)' /\ \A j \in 1 .. Depth' - 1 : FALSE
    BY <2>3 DEF OnQueue
  <2>6. StackShape'
    BY <2>4, <2>5 DEF StackShape
  <2> QED BY <2>3, <2>4, <2>6
<1> QED BY <1>1, <1>2

LEMMA RootsDoneStep ==
  ASSUME FInv, RootsDone
  PROVE  FInv'
<1>1. FTypeOK /\ StackShape /\ InRootLoop /\ ~Idle /\ QueueInv
  BY DEF FInv, RootsDone, InRootLoop
<1>2. Depth = 1 /\ InTrigger
  BY <1>1, Innermost
<1>3. Regular /\ ~query.interrupted /\ query.index = 0
  BY <1>1, <1>2 DEF QueueInv, Regular
<1>4. UNCHANGED <<camera, updatePending, moves, retries, resumes, requests, cache,
                  showing, inside, currentCells>>
      /\ \/ query' = [query EXCEPT !.calls = 0] /\ stack' = <<QueueFrame>>
         \/ query' = [query EXCEPT !.processing = FALSE] /\ stack' = << >>
  BY DEF RootsDone
<1>5. query' \in Queries /\ query'.queue = query.queue /\ query'.index = query.index
      /\ query'.interrupted = query.interrupted /\ query'.inFlight = query.inFlight
      /\ query'.view = query.view
  <2>1. query \in Queries
    BY <1>1 DEF FTypeOK
  <2>2. CASE query' = [query EXCEPT !.calls = 0]
    BY <2>1, <2>2 DEF Queries
  <2>3. CASE query' = [query EXCEPT !.processing = FALSE]
    BY <2>1, <2>3 DEF Queries
  <2> QED BY <1>4, <2>2, <2>3
<1>6. stack' \in Seq(Frames) /\ Depth' \in {0, 1} /\ StackShape'
  BY <1>4, OneQueueCall
<1>7. ~InTrigger' /\ \A j \in 1 .. Depth' : ~OnCell(j)'
  BY <1>4, OneQueueCall
<1>8. FTypeOK'
  BY <1>1, <1>4, <1>5, <1>6 DEF FTypeOK
<1>10. Counted' /\ NotQueued' /\ NoHolesNoOverlap'
  BY <1>2, <1>4, <1>5 DEF FInv, Counted, NotQueued, NoHolesNoOverlap
<1>11. CellCalls'
  BY <1>7 DEF CellCalls
<1>12. Known'
  <2>1. \A j \in 1 .. Depth : ~OnCell(j)
    BY <1>2, RecordFacts DEF InTrigger, OnCell
  <2>2. query.index <= query'.index
    BY <1>3, <1>5
  <2> QED BY <1>1, <1>4, <1>5, <2>1, <2>2, KnownKept DEF FInv
<1>13. OnceEach'
  <2>1. stack \in Seq(Frames) /\ requests \subseteq Requests /\ query \in Queries
    BY <1>1 DEF FTypeOK
  <2>2. query.index <= query'.index /\ Depth # 2 /\ \A r \in requests' : r \in requests
    BY <1>2, <1>3, <1>4, <1>5
  <2>3. OnceEach
    BY <1>3 DEF Regular
  <2> QED BY <1>5, <1>6, <1>7, <2>1, <2>2, <2>3, OnceEachKept
<1>14. Regular'
  <2>1. Reached' = 0
    BY <1>3, <1>5, <1>6 DEF Reached
  <2>2. Len(query'.queue) \in Nat
    BY <1>5 DEF Queries
  <2> QED BY <1>3, <1>5, <1>6, <1>7, <1>13, <2>1, <2>2 DEF Regular
<1>15. QueueInv'
  BY <1>6, <1>7, <1>14 DEF QueueInv
<1> QED BY <1>6, <1>8, <1>10, <1>11, <1>12, <1>15 DEF FInv

LEMMA ResumeStep ==
  ASSUME FInv, Resume
  PROVE  FInv'
<1>1. FTypeOK /\ QueueInv /\ Depth = 0 /\ ~InTrigger
  BY DEF FInv, Resume, Idle, Depth, InTrigger
<1>2. UNCHANGED <<camera, updatePending, moves, retries, requests, cache,
                  showing, inside, currentCells>>
      /\ query' = [query EXCEPT !.calls = 0] /\ stack' = <<QueueFrame>>
      /\ resumes > 0 /\ resumes' = resumes - 1
  BY DEF Resume
<1>3. query' \in Queries /\ query'.queue = query.queue /\ query'.index = query.index
      /\ query'.interrupted = query.interrupted /\ query'.inFlight = query.inFlight
      /\ query'.view = query.view
  BY <1>1, <1>2 DEF FTypeOK, Queries
<1>4. /\ stack' \in Seq(Frames) /\ Depth' \in {0, 1} /\ ~InTrigger' /\ StackShape'
      /\ \A j \in 1 .. Depth' : ~OnCell(j)'
  BY <1>2, OneQueueCall
<1>5. FTypeOK'
  <2>1. resumes' \in Nat
    BY <1>1, <1>2 DEF FTypeOK
  <2> QED BY <1>1, <1>2, <1>3, <1>4, <2>1 DEF FTypeOK
<1>6. Counted' /\ NotQueued' /\ NoHolesNoOverlap'
  BY <1>1, <1>2, <1>3 DEF FInv, Counted, NotQueued, NoHolesNoOverlap
<1>7. CellCalls'
  BY <1>4 DEF CellCalls
<1>8. query.index <= query'.index /\ query.index \in Nat /\ Len(query.queue) \in Nat
  BY <1>1, <1>3 DEF FTypeOK, Queries
<1>9. Known'
  BY <1>1, <1>2, <1>3, <1>8, KnownKept DEF FInv
<1>10. ASSUME ~query.interrupted PROVE Regular'
  <2>1. Regular
    BY <1>1, <1>10 DEF QueueInv
  <2>2. OnceEach'
    <3>1. stack \in Seq(Frames) /\ query \in Queries /\ OnceEach
      BY <1>1, <2>1 DEF FTypeOK, Regular
    <3>2. Depth # 2 /\ \A r \in requests' : r \in requests
      BY <1>1, <1>2
    <3> QED BY <1>3, <1>4, <1>8, <3>1, <3>2, OnceEachKept
  <2>3. Reached' = Reached
    BY <1>1, <1>3, <1>4 DEF Reached
  <2>4. \A k \in 1 .. Len(query.queue) :
          k <= Reached => Shown(k, Reached, query.queue, query.view, showing)
    BY <2>1 DEF Regular
  <2>5. \A k \in 1 .. Len(query'.queue) :
          k <= Reached' => Shown(k, Reached', query'.queue, query'.view, showing')
    BY <2>3, <2>4, <1>2, <1>3
  <2> QED BY <1>3, <1>4, <2>1, <2>2, <2>5 DEF Regular
<1>11. QueueInv'
  BY <1>3, <1>4, <1>10 DEF QueueInv
<1> QED BY <1>4, <1>5, <1>6, <1>7, <1>9, <1>11 DEF FInv

-----------------------------------------------------------------------------
(* Responses.                                                              *)

\* One request less.
LEMMA OneLess ==
  ASSUME Counted, query \in Queries, NEW r \in requests, requests' = requests \ {r}
  PROVE  /\ IsFiniteSet(requests') /\ query.inFlight - 1 \in Nat
         /\ Cardinality(requests') <= query.inFlight - 1
<1>1. IsFiniteSet(requests \ {r}) /\ Cardinality(requests \ {r}) = Cardinality(requests) - 1
  BY FS_RemoveElement DEF Counted
<1>2. Cardinality(requests) \in Nat /\ query.inFlight \in Nat /\ Cardinality(requests \ {r}) \in Nat
  BY <1>1, FS_CardinalityType DEF Counted, Queries
<1> QED BY <1>1, <1>2 DEF Counted

LEMMA OnFailureStep ==
  ASSUME FInv, NEW r \in requests, OnFailure(r)
  PROVE  FInv'
<1>1. FTypeOK /\ QueueInv /\ StackShape /\ Depth = 0 /\ ~InTrigger
  BY DEF FInv, OnFailure, Idle, Depth, InTrigger
<1>2. UNCHANGED <<camera, updatePending, moves, query, retries, resumes, cache,
                  showing, inside, stack, currentCells>>
      /\ requests' = requests \ {r}
  BY DEF OnFailure
<1>3. Depth' = Depth /\ ~InTrigger'
  BY <1>1, <1>2 DEF Depth, InTrigger
<1>4. FTypeOK'
  BY <1>1, <1>2 DEF FTypeOK
<1>5. Counted'
  <2>1. query.inFlight \in Nat /\ query.inFlight - 1 \in Nat
        /\ IsFiniteSet(requests') /\ Cardinality(requests') <= query.inFlight - 1
    BY <1>1, <1>2, OneLess DEF FInv, FTypeOK, Queries
  <2>2. Cardinality(requests') \in Nat
    BY <2>1, FS_CardinalityType
  <2> QED BY <1>2, <2>1, <2>2 DEF FInv, Counted
<1>6. NotQueued' /\ Known' /\ NoHolesNoOverlap' /\ CellCalls' /\ StackShape'
  BY <1>1, <1>2, <1>3 DEF FInv, NotQueued, Known, NoHolesNoOverlap, CellCalls, StackShape, OnCell
<1>7. Regular => Regular'
  <2>1. SUFFICES ASSUME Regular PROVE Regular'
    OBVIOUS
  <2>2. OnceEach'
    BY <1>2, <2>1 DEF Regular, OnceEach
  <2>3. Reached' = Reached
    BY <1>2 DEF Reached, Depth
  <2> QED BY <1>1, <1>2, <1>3, <2>1, <2>2, <2>3 DEF Regular
<1>8. QueueInv'
  BY <1>1, <1>2, <1>3, <1>7 DEF QueueInv
<1> QED BY <1>4, <1>5, <1>6, <1>8 DEF FInv

LEMMA OnLoadStep ==
  ASSUME FInv, NEW r \in requests, OnLoad(r)
  PROVE  FInv'
<1> DEFINE q == query.queue
<1> DEFINE c == r.cell
<1>1. FTypeOK /\ QueueInv /\ Depth = 0 /\ ~InTrigger /\ NotQueued
  BY DEF FInv, OnLoad, Idle, Depth, InTrigger
<1>2. UNCHANGED <<camera, updatePending, moves, retries, resumes, currentCells>>
      /\ requests' = requests \ {r} /\ cache' = Put(cache, c)
      /\ showing' = [showing EXCEPT ![c] = {}]
      /\ inside' = [inside EXCEPT ![c] = r.inside]
      /\ (stack' = << >> \/ stack' = <<QueueFrame>>)
  BY DEF OnLoad
<1>3. r \in Requests /\ c \in Cells /\ r.inside \in {-1, 0, 1}
  BY <1>1 DEF FTypeOK, Requests
<1>4. q \in Seq(Cells) /\ query \in Queries
  BY <1>1 DEF FTypeOK, Queries
<1>5. /\ IsFiniteSet(requests') /\ query.inFlight - 1 \in Nat
      /\ Cardinality(requests') <= query.inFlight - 1
  BY <1>2, <1>4, OneLess DEF FInv
<1>6. /\ Append(q, c) \in Seq(Cells) /\ Len(Append(q, c)) = Len(q) + 1 /\ Len(q) \in Nat
      /\ \A i \in 1 .. Len(q) : Append(q, c)[i] = q[i]
      /\ ToSet(Append(q, c)) = ToSet(q) \cup {c}
  BY <1>3, <1>4, ToSetAppend
<1>7. query' \in Queries /\ query'.queue = Append(q, c) /\ query'.index = query.index
      /\ query'.interrupted = query.interrupted /\ query'.inFlight = query.inFlight - 1
      /\ query'.view = query.view
  <2>1. PICK n \in Nat : query' = [query EXCEPT !.queue = Append(@, c),
                                                !.inFlight = @ - 1, !.calls = n]
    <3> DEFINE n == IF ~query.processing THEN 0
                    ELSE IF r.cell \in ToSet(Roots) THEN query.calls ELSE query.calls + 1
    <3>1. query.calls \in Nat
      BY <1>4 DEF Queries
    <3>2. n \in Nat
      BY <3>1
    <3>3. query' = [query EXCEPT !.queue = Append(@, c), !.inFlight = @ - 1, !.calls = n]
      BY DEF OnLoad
    <3> HIDE DEF n
    <3> QED BY <3>2, <3>3
  <2> HIDE DEF c
  <2> QED BY <2>1, <1>4, <1>5, <1>6 DEF Queries
<1>8. /\ stack' \in Seq(Frames) /\ Depth' \in {0, 1} /\ ~InTrigger' /\ StackShape'
      /\ \A j \in 1 .. Depth' : ~OnCell(j)'
  BY <1>2, OneQueueCall
<1>9. ~query.interrupted => c \notin ToSet(q) /\ \A x \in requests : x.cell = c => x = r
  BY <1>1 DEF NotQueued
<1> HIDE DEF q, c
<1>10. FTypeOK'
  BY <1>1, <1>2, <1>3, <1>7, <1>8, PutCells DEF FTypeOK
<1>11. Counted'
  <2>1. query.inFlight \in Nat /\ Len(query'.queue) = Len(query.queue) + 1
    BY <1>4, <1>6, <1>7 DEF Queries, q
  <2>2. Len(query'.queue) + query'.inFlight = Len(query.queue) + query.inFlight
    BY <2>1, <1>6, <1>7 DEF q
  <2> QED BY <2>2, <1>2, <1>5, <1>7 DEF FInv, Counted
<1>12. NotQueued'
  <2>1. SUFFICES ASSUME ~query.interrupted
                 PROVE  /\ \A x \in requests' : x.cell \notin ToSet(query'.queue)
                        /\ \A x, y \in requests' : x.cell = y.cell => x = y
    BY <1>7 DEF NotQueued
  <2>2. \A x \in requests' : x \in requests /\ x.cell # c
    BY <1>2, <1>9, <2>1
  <2> QED BY <1>1, <1>6, <1>7, <2>1, <2>2 DEF NotQueued, q
<1>13. NoHolesNoOverlap' /\ CellCalls'
  BY <1>2, <1>8 DEF FInv, NoHolesNoOverlap, CellCalls
<1>14. Known'
  <2>1. \A k \in 1 .. Len(q) : k \in 1 .. Len(query'.queue) /\ query'.queue[k] = q[k]
    BY <1>6, <1>7
  <2> QED BY <1>1, <1>2, <1>7, <2>1 DEF FInv, Known, q
<1>15. ASSUME ~query.interrupted PROVE Regular'
  <2>1. Regular
    BY <1>1, <1>15 DEF QueueInv
  <2>2. OnceEach'
    <3>1. stack \in Seq(Frames) /\ OnceEach
      BY <1>1, <2>1 DEF FTypeOK, Regular
    <3>2. Depth # 2 /\ \A x \in requests' : x \in requests
      BY <1>1, <1>2
    <3>3. LookedUp(c, Len(q), query'.queue, query'.index, stack')
      <4>1. LookedUp(c, Len(q), q, query.index, stack)
        BY <3>1 DEF OnceEach, q, c
      <4>2. Len(stack) = 0 /\ (Len(stack') > 0 => stack'[1].cell # "roots")
            /\ query.index \in Nat
        BY <1>1, <1>4, <1>8 DEF Depth, InTrigger, Queries
      <4>3. Len(query'.queue) \in Nat /\ query'.queue \in Seq(Cells)
        BY <1>6, <1>7
      <4>4. /\ Len(stack') > 0 /\ stack'[1].cell = "roots" =>
                 Len(stack) > 0 /\ stack[1].cell = "roots" /\ stack[1].child <= stack'[1].child
            /\ Len(stack) # 2 /\ query.index <= query'.index /\ query'.index \in Nat
            /\ Len(q) <= Len(q)
        BY <4>2, <1>6, <1>7
      <4>5. \A k \in 1 .. Len(q) : query'.queue[k] = q[k]
        BY <1>6, <1>7
      <4> QED BY <1>4, <1>6, <1>8, <3>1, <4>1, <4>2, <4>3, <4>4, <4>5, LookedUpKept
    <3>4. \E e \in Cells :
            /\ query'.queue = Append(query.queue, e) /\ e \notin ToSet(query.queue)
            /\ LookedUp(e, Len(query.queue), query'.queue, query'.index, stack')
      BY <1>3, <1>7, <1>9, <1>15, <3>3 DEF q
    <3>5. query.index <= query'.index
      BY <1>4, <1>7 DEF Queries
    <3> QED BY <1>4, <1>7, <1>8, <3>1, <3>2, <3>4, <3>5, OnceEachKept
  <2>3. Reached = query.index /\ Reached' = query.index /\ query.index \in Nat
        /\ query.index <= Len(q)
    BY <1>1, <1>4, <1>7, <1>8, <2>1 DEF Reached, Queries, Regular, q
  <2>4. \A k \in 1 .. Len(q) :
          k <= query.index => Shown(k, query.index, q, query.view, showing)
    BY <2>1, <2>3 DEF Regular, q
  <2>5. ASSUME NEW k \in 1 .. Len(query'.queue), k <= query.index
        PROVE  Shown(k, query.index, query'.queue, query'.view, showing')
    <3>1. k \in 1 .. Len(q) /\ query'.queue[k] = q[k]
      BY <2>3, <2>5, <1>6, <1>7
    <3>2. q[k] # c /\ q[k] \in Cells
      BY <3>1, <1>4, <1>9, <1>15, InToSet
    <3>3. showing'[q[k]] = showing[q[k]]
      BY <3>2, <1>1, <1>2 DEF FTypeOK
    <3>4. \A i \in 1 .. query.index : query'.queue[i] = q[i]
      BY <2>3, <1>6, <1>7
    <3>5. Shown(k, query.index, q, query.view, showing)
      BY <2>4, <2>5, <3>1
    <3> QED BY <3>1, <3>3, <3>4, <3>5, <1>7 DEF Shown
  <2>6. query'.index <= Len(query'.queue)
    BY <2>3, <1>6, <1>7
  <2> QED BY <1>7, <1>8, <2>2, <2>3, <2>5, <2>6 DEF Regular
<1>16. QueueInv'
  BY <1>7, <1>8, <1>15 DEF QueueInv
<1> QED BY <1>8, <1>10, <1>11, <1>12, <1>13, <1>14, <1>16 DEF FInv

-----------------------------------------------------------------------------
(* processQueue.                                                           *)

\* processQueue goes on, or yields and returns.
LEMMA QueueTop ==
  ASSUME FInv, InQueueLoop, stack' = stack \/ stack' = Front(stack)
  PROVE  /\ Depth \in Nat \ {0} /\ Depth # 2 /\ ~InTrigger
         /\ stack' \in Seq(Frames) /\ (Depth' = Depth \/ Depth' = Depth - 1)
         /\ \A j \in 1 .. Depth' : stack'[j] = stack[j]
         /\ StackShape' /\ ~InTrigger'
         /\ \A j \in 1 .. Depth' : OnCell(j)' =>
              \E i \in 1 .. Depth : OnCell(i) /\ stack[i].cell = stack'[j].cell
         /\ \A j \in 1 .. Depth : OnCell(j) =>
              \E i \in 1 .. Depth' : OnCell(i)' /\ stack'[i].cell = stack[j].cell
<1>1. FTypeOK /\ StackShape /\ ~Idle /\ stack \in Seq(Frames) /\ stack # << >>
  BY DEF FInv, FTypeOK, InQueueLoop, Idle
<1>2. Depth \in Nat \ {0} /\ Depth # 2 /\ ~InTrigger /\ ~OnCell(Depth)
  BY <1>1, Innermost
<1>3. /\ stack' \in Seq(Frames) /\ (Depth' = Depth \/ Depth' = Depth - 1)
      /\ \A j \in 1 .. Depth' : stack'[j] = stack[j]
  BY <1>1, Popped DEF Depth
<1>4. StackShape' /\ ~InTrigger'
  <2>1. Len(stack') \in Nat /\ Len(stack') <= Depth
        /\ \A j \in 1 .. Len(stack') : stack'[j] = stack[j]
    BY <1>2, <1>3 DEF Depth
  <2> QED BY <1>1, <1>2, <2>1, Returned
<1>5. \A j \in 1 .. Depth' : j \in 1 .. Depth
  BY <1>2, <1>3
<1>6. \A j \in 1 .. Depth' : OnCell(j)' => OnCell(j) /\ stack[j].cell = stack'[j].cell
  BY <1>3 DEF OnCell
<1>7. ASSUME NEW j \in 1 .. Depth, OnCell(j)
      PROVE  j \in 1 .. Depth' /\ OnCell(j)' /\ stack'[j].cell = stack[j].cell
  <2>1. j # Depth
    BY <1>2, <1>7
  <2>2. j \in 1 .. Depth'
    BY <2>1, <1>2, <1>3
  <2> QED BY <2>2, <1>3, <1>7 DEF OnCell
<1> QED BY <1>2, <1>3, <1>4, <1>5, <1>6, <1>7

\* The next cell of the queue is done.
LEMMA NextCellFacts ==
  ASSUME NEW q \in Queries, NEW s, NextCell(q, s), resumes \in Nat
  PROVE  /\ query' \in Queries /\ query'.index = q.index + 1
         /\ query'.queue = q.queue /\ query'.inFlight = q.inFlight /\ query'.view = q.view
         /\ query'.interrupted = q.interrupted /\ query'.processing = q.processing
         /\ query'.level = q.level
         /\ (stack' = s \/ stack' = Front(s)) /\ resumes' \in Nat
<1>1. query' = [q EXCEPT !.index = @ + 1]
      /\ (stack' = s \/ stack' = Front(s)) /\ resumes' \in Nat
  BY DEF NextCell
<1> QED BY <1>1 DEF Queries

LEMMA InterruptStep ==
  ASSUME FInv, Interrupt
  PROVE  FInv'
<1> DEFINE given == [query EXCEPT !.interrupted = TRUE, !.inFlight = 0,
                                  !.count = @ + query.inFlight]
<1>1. FTypeOK /\ InQueueLoop /\ NextCell(given, stack) /\ requests' = {}
      /\ retries' = Append(retries, Fewer)
      /\ UNCHANGED <<camera, updatePending, moves, cache, showing, inside,
                     currentCells>>
  BY DEF FInv, Interrupt
<1>2. query \in Queries /\ resumes \in Nat /\ query.index \in Nat
  BY <1>1 DEF FTypeOK, Queries
<1>3. given \in Queries /\ given.queue = query.queue /\ given.index = query.index
      /\ given.interrupted = TRUE /\ given.inFlight = 0 /\ given.view = query.view
      /\ given.processing = query.processing
  <2> DEFINE n == query.count + query.inFlight
  <2>1. n \in Nat
    BY <1>2 DEF Queries
  <2>2. given = [query EXCEPT !.interrupted = TRUE, !.inFlight = 0, !.count = n]
    BY <1>2 DEF Queries
  <2> HIDE DEF n
  <2> QED BY <1>2, <2>1, <2>2 DEF Queries
<1> HIDE DEF given
<1>4. /\ query' \in Queries /\ query'.index = query.index + 1 /\ query'.queue = query.queue
      /\ query'.inFlight = 0 /\ query'.interrupted = TRUE /\ query'.view = query.view
      /\ query'.processing = query.processing
      /\ (stack' = stack \/ stack' = Front(stack)) /\ resumes' \in Nat
  BY <1>1, <1>2, <1>3, NextCellFacts
<1>5. /\ Depth \in Nat \ {0} /\ stack' \in Seq(Frames)
      /\ (Depth' = Depth \/ Depth' = Depth - 1) /\ StackShape' /\ ~InTrigger'
      /\ \A j \in 1 .. Depth' : OnCell(j)' =>
           \E i \in 1 .. Depth : OnCell(i) /\ stack[i].cell = stack'[j].cell
  BY <1>1, <1>4, QueueTop
<1>6. FTypeOK'
  <2>1. retries' \in Seq(Int)
    BY <1>1, AppendProperties DEF FTypeOK, Fewer
  <2> QED BY <1>1, <1>4, <1>5, <2>1 DEF FTypeOK
<1>7. Counted' /\ NotQueued' /\ Known' /\ NoHolesNoOverlap'
  BY <1>1, <1>4, FS_EmptySet DEF FInv, Counted, NotQueued, Known, NoHolesNoOverlap
<1>8. CellCalls'
  <2>1. query.index <= query'.index /\ requests' \subseteq requests
        /\ CellCalls /\ cache' = cache
    BY <1>1, <1>2, <1>4 DEF FInv
  <2> QED BY <1>1, <1>4, <1>5, <2>1, CallsKept
<1>9. QueueInv'
  BY <1>4, <1>5 DEF FInv, QueueInv
<1> QED BY <1>5, <1>6, <1>7, <1>8, <1>9 DEF FInv

\* When processQueue takes a cell and has not been entered again, no child of
\* the cell is in the queue or on request.
LEMMA ChildrenNew ==
  ASSUME FTypeOK, Regular, ~InTrigger, Depth = 1, query.index < Len(query.queue),
         NEW d \in ToSet(Kids[NextInQueue])
  PROVE  d \notin ToSet(query.queue) /\ \A r \in requests : r.cell # d
<1> DEFINE q == query.queue
<1> DEFINE p == NextInQueue
<1>1. q \in Seq(Cells) /\ query.index \in Nat /\ stack \in Seq(Frames) /\ Len(stack) = 1
      /\ Len(q) \in Nat
  BY DEF FTypeOK, Queries, Depth
<1>2. p = q[query.index + 1] /\ query.index + 1 \in 1 .. Len(q)
  BY <1>1 DEF NextInQueue
<1>3. p \in Cells /\ d \in ToSet(Kids[p])
  BY <1>1, <1>2
<1>4. \A i, j \in 1 .. Len(q) : q[i] = q[j] => i = j
  BY DEF Regular, OnceEach
<1>5. /\ \A k \in 1 .. Len(q) : LookedUp(q[k], k - 1, q, query.index, stack)
      /\ \A r \in requests : LookedUp(r.cell, Len(q), q, query.index, stack)
  BY DEF Regular, OnceEach
<1> HIDE DEF p, q
<1>6. ASSUME NEW n \in Nat, n <= Len(q), LookedUp(d, n, q, query.index, stack)
      PROVE  FALSE
  <2>1. PICK k \in 1 .. n : k <= query.index /\ q[k] = p
    BY <1>1, <1>3, <1>6, LookedUpChild
  <2>2. k \in 1 .. Len(q) /\ k # query.index + 1
    BY <2>1, <1>1, <1>6
  <2> QED BY <2>1, <2>2, <1>2, <1>4
<1>7. d \notin ToSet(q)
  <2>1. SUFFICES ASSUME NEW k \in 1 .. Len(q), q[k] = d PROVE FALSE
    BY <1>1, InToSet
  <2>2. k - 1 \in Nat /\ k - 1 <= Len(q) /\ LookedUp(d, k - 1, q, query.index, stack)
    BY <2>1, <1>1, <1>5
  <2> QED BY <2>2, <1>6
<1>8. \A r \in requests : r.cell # d
  <2>1. Len(q) <= Len(q)
    BY <1>1
  <2> QED BY <2>1, <1>1, <1>5, <1>6
<1> QED BY <1>7, <1>8 DEF q

\* One more cell of the queue is shown as processed.
LEMMA ShownNext ==
  ASSUME FTypeOK, Regular, ~InTrigger, Depth = 1, query.index < Len(query.queue),
         showing' = ShownLoaded(NextInQueue), query'.queue = query.queue,
         query'.view = query.view
  PROVE  \A k \in 1 .. query.index + 1 :
           Shown(k, query.index + 1, query'.queue, query'.view, showing')
<1> DEFINE q == query.queue
<1> DEFINE c == NextInQueue
<1> DEFINE n == query.index + 1
<1>1. q \in Seq(Cells) /\ query.index \in Nat /\ Len(q) \in Nat /\ query.view \in Views
      /\ showing \in [Cells -> SUBSET Cells]
  BY DEF FTypeOK, Queries
<1>2. c = q[n] /\ n \in 1 .. Len(q) /\ c \in Cells
  <2>1. n \in 1 .. Len(q)
    BY <1>1
  <2> QED BY <2>1, <1>1 DEF NextInQueue
<1>3. \A i, j \in 1 .. Len(q) : q[i] = q[j] => i = j
  BY DEF Regular, OnceEach
<1>4. \A k \in 1 .. Len(q) : k <= query.index => Shown(k, query.index, q, query.view, showing)
  BY DEF Regular, Reached
<1>5. \A x \in Cells : showing'[x] = IF x = c THEN ToSet(Kids[c])
                                     ELSE IF c \in ToSet(Kids[x]) THEN showing[x] \ {c}
                                     ELSE showing[x]
  BY DEF ShownLoaded, ParentOf
<1>6. \A d \in ToSet(Kids[c]) : d \notin ToSet(q)
  BY ChildrenNew
<1>7. query.index \in Nat /\ n = query.index + 1
  BY <1>1
<1>8. query'.queue = q /\ query'.view = query.view
  OBVIOUS
<1> HIDE DEF q, c, n
<1>9. ASSUME NEW k \in 1 .. n, NEW d \in ToSet(Kids[q[k]])
      PROVE  /\ (\E i \in 1 .. n : q[i] = d) => d \notin showing'[q[k]]
             /\ ~(\E i \in 1 .. n : q[i] = d) /\ InFrustum[query.view][d] # -1
                  => d \in showing'[q[k]]
  <2>1. k \in 1 .. Len(q) /\ q[k] \in Cells
    BY <1>1, <1>2
  <2>2. CASE k = n
    <3>1. q[k] = c /\ showing'[c] = ToSet(Kids[c]) /\ d \in ToSet(Kids[c])
      BY <2>2, <1>2, <1>5, <1>9
    <3>2. \A i \in 1 .. n : q[i] # d
      <4>1. \A i \in 1 .. n : i \in 1 .. Len(q)
        BY <1>1, <1>2
      <4>2. d \notin ToSet(q)
        BY <3>1, <1>6
      <4> QED BY <4>1, <4>2, <1>1, InToSet
    <3> QED BY <3>1, <3>2
  <2>3. CASE k # n
    <3>1. k <= query.index
      BY <2>3, <1>7
    <3>2. /\ (\E i \in 1 .. query.index : q[i] = d) => d \notin showing[q[k]]
          /\ ~(\E i \in 1 .. query.index : q[i] = d) /\ InFrustum[query.view][d] # -1
               => d \in showing[q[k]]
      <4>1. Shown(k, query.index, q, query.view, showing)
        BY <1>4, <2>1, <3>1
      <4> QED BY <4>1, <1>9 DEF Shown
    <3>3. q[k] # c
      BY <1>2, <1>3, <2>1, <2>3
    <3>4. (\E i \in 1 .. n : q[i] = d) <=> (\E i \in 1 .. query.index : q[i] = d) \/ d = c
      <4>1. \A i \in 1 .. n : i \in 1 .. query.index \/ i = n
        BY <1>7
      <4>2. \A i \in 1 .. query.index : i \in 1 .. n
        BY <1>7
      <4>3. n \in 1 .. n
        BY <1>7
      <4> QED BY <4>1, <4>2, <4>3, <1>2
    <3>5. showing'[q[k]] = IF c \in ToSet(Kids[q[k]]) THEN showing[q[k]] \ {c}
                           ELSE showing[q[k]]
      BY <1>5, <2>1, <3>3
    <3>6. CASE d = c
      BY <3>4, <3>5, <3>6, <1>9
    <3>7. CASE d # c
      <4>1. d \in showing'[q[k]] <=> d \in showing[q[k]]
        BY <3>5, <3>7
      <4> QED BY <4>1, <3>2, <3>4, <3>7
    <3> QED BY <3>6, <3>7
  <2> QED BY <2>2, <2>3
<1>10. \A k \in 1 .. n : Shown(k, n, q, query.view, showing')
  BY <1>9 DEF Shown
<1> QED BY <1>10, <1>8 DEF n

\* ShownLoaded keeps the type of showing.
LEMMA ShownType ==
  ASSUME showing \in [Cells -> SUBSET Cells], NEW c \in Cells
  PROVE  ShownLoaded(c) \in [Cells -> SUBSET Cells]
<1>1. ToSet(Kids[c]) \subseteq Cells
  BY RecordFacts, InToSet
<1> QED BY <1>1 DEF ShownLoaded

LEMMA DrawCellStep ==
  ASSUME FInv, DrawCell
  PROVE  FInv'
<1> DEFINE given == [query EXCEPT !.count = @ + 1]
<1>1. FTypeOK /\ InQueueLoop /\ HasCell /\ NextCell(given, stack)
      /\ SmallEnough(NextInQueue) /\ showing' = ShownLoaded(NextInQueue)
      /\ UNCHANGED <<camera, updatePending, moves, retries, requests, cache, inside,
                     currentCells>>
  BY DEF FInv, DrawCell
<1>2. query \in Queries /\ resumes \in Nat /\ query.index \in Nat
      /\ query.queue \in Seq(Cells) /\ Len(query.queue) \in Nat
      /\ stack \in Seq(Frames)
  BY <1>1 DEF FTypeOK, Queries
<1>3. given \in Queries /\ given.queue = query.queue /\ given.index = query.index
      /\ given.interrupted = query.interrupted /\ given.inFlight = query.inFlight
      /\ given.view = query.view /\ given.processing = query.processing
  <2>1. query.count + 1 \in Nat
    BY <1>2 DEF Queries
  <2> QED BY <1>2, <2>1 DEF Queries
<1> HIDE DEF given
<1>4. /\ query' \in Queries /\ query'.index = query.index + 1 /\ query'.queue = query.queue
      /\ query'.inFlight = query.inFlight /\ query'.interrupted = query.interrupted
      /\ query'.view = query.view /\ query'.processing = query.processing
      /\ (stack' = stack \/ stack' = Front(stack)) /\ resumes' \in Nat
  BY <1>1, <1>2, <1>3, NextCellFacts
<1>5. /\ Depth \in Nat \ {0} /\ Depth # 2 /\ ~InTrigger /\ stack' \in Seq(Frames)
      /\ (Depth' = Depth \/ Depth' = Depth - 1) /\ StackShape' /\ ~InTrigger'
      /\ \A j \in 1 .. Depth' : OnCell(j)' =>
           \E i \in 1 .. Depth : OnCell(i) /\ stack[i].cell = stack'[j].cell
      /\ \A j \in 1 .. Depth : OnCell(j) =>
           \E i \in 1 .. Depth' : OnCell(i)' /\ stack'[i].cell = stack[j].cell
  BY <1>1, <1>4, QueueTop
<1>6. ~query.interrupted /\ query.index < Len(query.queue)
  BY <1>1 DEF HasCell
\* In nested calls the next cell is to be refined.
<1>7. Depth = 1 /\ Regular
  <2>1. Depth <= 2
    <3>1. SUFFICES ASSUME ~(Depth <= 2) PROVE FALSE
      OBVIOUS
    <3>2. Nested
      BY <3>1, <1>5, <1>6 DEF FInv, QueueInv
    <3> QED BY <3>2, <1>1 DEF Nested
  <2> QED BY <2>1, <1>5, <1>6 DEF FInv, QueueInv
<1>8. FTypeOK'
  <2>1. NextInQueue \in Cells
    BY <1>2, <1>6 DEF NextInQueue
  <2>2. showing' \in [Cells -> SUBSET Cells]
    BY <1>1, <2>1, ShownType DEF FTypeOK
  <2> QED BY <1>1, <1>4, <1>5, <2>2 DEF FTypeOK
<1>9. Counted' /\ NotQueued' /\ NoHolesNoOverlap'
  BY <1>1, <1>4, <1>7, NotQueuedKept DEF FInv, Counted, NoHolesNoOverlap
<1>10. query.index <= query'.index
  BY <1>2, <1>4
<1>11. CellCalls'
  BY <1>1, <1>4, <1>5, <1>10, CallsKept DEF FInv
<1>12. Known'
  BY <1>1, <1>4, <1>5, <1>10, KnownKept DEF FInv
<1>13. OnceEach'
  <2>1. OnceEach /\ \A r \in requests' : r \in requests
    BY <1>1, <1>7 DEF Regular
  <2> QED BY <1>2, <1>4, <1>5, <1>10, <2>1, OnceEachKept
<1>14. Regular'
  <2>1. Depth' # 2 /\ Reached' = query.index + 1
    BY <1>4, <1>5, <1>7 DEF Reached
  <2>2. \A k \in 1 .. query.index + 1 :
          Shown(k, query.index + 1, query'.queue, query'.view, showing')
    BY <1>1, <1>4, <1>5, <1>6, <1>7, ShownNext
  <2>3. \A k \in 1 .. Len(query'.queue) :
          k <= Reached' => Shown(k, Reached', query'.queue, query'.view, showing')
    BY <2>1, <2>2, <1>2, <1>4
  <2>4. query'.index <= Len(query'.queue)
    BY <1>2, <1>4, <1>6
  <2> QED BY <1>5, <1>13, <2>1, <2>3, <2>4 DEF Regular
<1>15. QueueInv'
  <2>1. Depth' <= 2 /\ ~(Depth' > 2)
    BY <1>5, <1>7
  <2> QED BY <1>5, <1>14, <2>1 DEF QueueInv
<1> QED BY <1>5, <1>8, <1>9, <1>11, <1>12, <1>15 DEF FInv

LEMMA EndOfQueueStep ==
  ASSUME FInv, EndOfQueue
  PROVE  FInv'
<1> DEFINE q == query.queue
<1>1. FTypeOK /\ InQueueLoop /\ ~HasCell /\ stack' = Front(stack)
      /\ UNCHANGED <<camera, updatePending, moves, resumes, requests, cache, showing,
                     inside>>
  BY DEF FInv, EndOfQueue
<1>2. query \in Queries /\ query.index \in Nat /\ q \in Seq(Cells) /\ Len(q) \in Nat
      /\ stack \in Seq(Frames)
  BY <1>1 DEF FTypeOK, Queries
<1>3. PICK done \in BOOLEAN :
        query' = [query EXCEPT !.processing = FALSE, !.completed = done]
  <2>1. ((query.inFlight <= 0) \/ query.completed) \in BOOLEAN
    BY <1>2 DEF Queries
  <2> QED BY <2>1 DEF EndOfQueue
<1>4. /\ query' \in Queries /\ query'.index = query.index /\ query'.queue = q
      /\ query'.inFlight = query.inFlight /\ query'.interrupted = query.interrupted
      /\ query'.view = query.view /\ query'.processing = FALSE /\ query'.level = query.level
  BY <1>2, <1>3 DEF Queries
<1>5. /\ Depth \in Nat \ {0} /\ Depth # 2 /\ ~InTrigger /\ stack' \in Seq(Frames)
      /\ (Depth' = Depth \/ Depth' = Depth - 1) /\ StackShape' /\ ~InTrigger'
      /\ \A j \in 1 .. Depth' : OnCell(j)' =>
           \E i \in 1 .. Depth : OnCell(i) /\ stack[i].cell = stack'[j].cell
      /\ \A j \in 1 .. Depth : OnCell(j) =>
           \E i \in 1 .. Depth' : OnCell(i)' /\ stack'[i].cell = stack[j].cell
  BY <1>1, QueueTop
<1>6. ASSUME ~query.interrupted
      PROVE  Depth = 1 /\ Regular /\ query.index = Len(q)
  <2>1. ~(query.index < Len(q))
    BY <1>1, <1>6 DEF HasCell
  <2>2. Depth <= 2
    <3>1. SUFFICES ASSUME ~(Depth <= 2) PROVE FALSE
      OBVIOUS
    <3>2. Nested
      BY <3>1, <1>5, <1>6 DEF FInv, QueueInv
    <3> QED BY <3>2, <2>1 DEF Nested
  <2>3. Depth = 1 /\ Regular
    BY <2>2, <1>5, <1>6 DEF FInv, QueueInv
  <2> QED BY <2>1, <2>3, <1>2 DEF Regular
<1>7. FTypeOK'
  <2>1. retries' \in Seq(Int)
    <3>1. retries \in Seq(Int) /\ More \in Int
      BY <1>1 DEF FTypeOK, More
    <3>2. retries' = Append(retries, More) \/ retries' = retries
      BY DEF EndOfQueue
    <3> QED BY <3>1, <3>2, AppendProperties
  <2> QED BY <1>1, <1>4, <1>5, <2>1 DEF FTypeOK
<1>8. Counted' /\ NotQueued'
  BY <1>1, <1>4, <1>6, NotQueuedKept DEF FInv, Counted
<1>9. query.index <= query'.index
  BY <1>2, <1>4
<1>10. CellCalls'
  BY <1>1, <1>4, <1>5, <1>9, CallsKept DEF FInv
<1>11. Known'
  BY <1>1, <1>4, <1>5, <1>9, KnownKept DEF FInv
<1>12. ASSUME ~query.interrupted PROVE Regular'
  <2>1. OnceEach'
    <3>1. OnceEach /\ \A r \in requests' : r \in requests
      BY <1>1, <1>6, <1>12 DEF Regular
    <3> QED BY <1>2, <1>4, <1>5, <1>9, <3>1, OnceEachKept
  <2>2. Depth' # 2 /\ Reached' = query.index /\ Reached = query.index
    BY <1>4, <1>5, <1>6, <1>12 DEF Reached
  <2>3. \A k \in 1 .. Len(q) : k <= Reached => Shown(k, Reached, q, query.view, showing)
    BY <1>6, <1>12 DEF Regular
  <2>4. query'.index <= Len(query'.queue)
    BY <1>4, <1>6, <1>12 DEF Regular
  <2> QED BY <1>1, <1>4, <1>5, <2>1, <2>2, <2>3, <2>4 DEF Regular
<1>13. QueueInv'
  <2>1. ~query.interrupted => Depth' <= 2 /\ ~(Depth' > 2)
    BY <1>5, <1>6
  <2> QED BY <1>4, <1>5, <1>12, <2>1 DEF QueueInv
<1>14. NoHolesNoOverlap'
  <2>1. /\ currentCells'.cells = ToSet(q) /\ currentCells'.view = query.view
        /\ currentCells'.showing = [c \in ToSet(q) |-> showing[c]]
        /\ currentCells'.interrupted = query.interrupted
    BY DEF EndOfQueue
  <2>2. ASSUME ~query.interrupted, NEW c \in ToSet(q), NEW d \in ToSet(Kids[c])
        PROVE  /\ d \in ToSet(q) => d \notin showing[c]
               /\ d \notin ToSet(q) /\ InFrustum[query.view][d] # -1 => d \in showing[c]
    <3>1. PICK k \in 1 .. Len(q) : q[k] = c
      BY <1>2, InToSet
    <3>2. Reached = Len(q)
      BY <1>6, <2>2 DEF Reached
    <3>3. Shown(k, Len(q), q, query.view, showing)
      <4>1. k <= Reached /\ Regular
        BY <1>6, <2>2, <3>2
      <4> QED BY <4>1, <3>2 DEF Regular
    <3>4. d \in ToSet(q) <=> \E i \in 1 .. Len(q) : q[i] = d
      BY <1>2, InToSet
    <3> QED BY <3>1, <3>3, <3>4 DEF Shown
  <2> QED BY <2>1, <2>2 DEF NoHolesNoOverlap
<1> QED BY <1>5, <1>7, <1>8, <1>10, <1>11, <1>13, <1>14 DEF FInv

LEMMA RefineCellStep ==
  ASSUME FInv, RefineCell
  PROVE  FInv'
<1> DEFINE q == query.queue
<1> DEFINE p == NextInQueue
<1>1. FTypeOK /\ StackShape /\ ~Idle /\ InQueueLoop /\ HasCell /\ ~SmallEnough(p)
      /\ showing' = ShownLoaded(p)
      /\ query' = [query EXCEPT !.count = @ + 1]
      /\ stack' = Append(stack, CellFrame(p))
      /\ UNCHANGED <<camera, updatePending, moves, retries, resumes, requests,
                     cache, inside, currentCells>>
  BY DEF FInv, RefineCell, InQueueLoop
<1>2. query \in Queries /\ query.index \in Nat /\ q \in Seq(Cells) /\ Len(q) \in Nat
      /\ stack \in Seq(Frames) /\ stack # << >>
  BY <1>1 DEF FTypeOK, Queries, Idle
<1>3. /\ query' \in Queries /\ query'.index = query.index /\ query'.queue = q
      /\ query'.inFlight = query.inFlight /\ query'.interrupted = query.interrupted
      /\ query'.view = query.view /\ query'.processing = query.processing
      /\ query'.level = query.level
  <2>1. query.count + 1 \in Nat
    BY <1>2 DEF Queries
  <2> QED BY <1>1, <1>2, <2>1 DEF Queries
<1>4. ~query.interrupted /\ query.index < Len(q) /\ p = q[query.index + 1] /\ p \in Cells
      /\ query.index + 1 \in 1 .. Len(q)
  <2>1. ~query.interrupted /\ query.index < Len(q)
    BY <1>1 DEF HasCell
  <2>2. query.index + 1 \in 1 .. Len(q)
    BY <2>1, <1>2
  <2> QED BY <2>1, <2>2, <1>2 DEF NextInQueue
<1> DEFINE f == CellFrame(p)
<1>5. f \in Frames /\ f.cell = p /\ f.child = 1
  BY <1>4, RecordFacts
<1>6. p' = p /\ SmallEnough(p)' = SmallEnough(p)
  BY <1>3 DEF NextInQueue, SmallEnough
<1>7. Depth \in Nat \ {0} /\ ~InTrigger /\ Depth # 2 /\ OnQueue(Depth)
  BY <1>1, Innermost
<1> HIDE DEF f
<1>8. stack' \in Seq(Frames) /\ Depth' = Depth + 1 /\ stack'[Depth + 1] = f
      /\ \A j \in 1 .. Depth : stack'[j] = stack[j]
  BY <1>1, <1>2, <1>5, AppendProperties DEF Depth, f
\* Either this is the first call of processCell, or they are all for one cell.
<1>9. /\ Depth = 1 => Regular
      /\ Depth # 1 => Nested
  BY <1>2, <1>4, <1>7 DEF FInv, QueueInv
<1>10. \A j \in 1 .. Depth : OnCell(j) => stack[j].cell = p
  <2>1. CASE Depth = 1
    BY <2>1, <1>7, RecordFacts DEF OnQueue, OnCell
  <2>2. CASE Depth # 1
    BY <2>2, <1>9 DEF Nested
  <2> QED BY <2>1, <2>2
<1>11. StackShape' /\ ~InTrigger'
  <2>1. \A j \in 1 .. Depth : OnCell(j) => stack[j].cell = f.cell
    BY <1>5, <1>10
  <2>2. stack' = Append(stack, f) /\ f.cell \in Cells
    BY <1>1, <1>4, <1>5 DEF f
  <2> QED BY <1>1, <1>2, <1>5, <1>7, <2>1, <2>2, Called
<1>12. FTypeOK'
  <2>1. showing' \in [Cells -> SUBSET Cells]
    BY <1>1, <1>4, ShownType DEF FTypeOK
  <2> QED BY <1>1, <1>3, <1>8, <2>1 DEF FTypeOK
<1>13. Counted' /\ NotQueued' /\ NoHolesNoOverlap'
  BY <1>1, <1>3, <1>7, <1>8, NotQueuedKept DEF FInv, Counted, NoHolesNoOverlap
<1>14. \A j \in 1 .. Depth' : j \in 1 .. Depth \/ j = Depth + 1
  BY <1>7, <1>8
<1>15. \A j \in 1 .. Depth' : OnCell(j)' => stack'[j].cell = p
  <2>1. \A j \in 1 .. Depth : OnCell(j)' => OnCell(j) /\ stack'[j] = stack[j]
    BY <1>8 DEF OnCell
  <2> QED BY <2>1, <1>5, <1>8, <1>10, <1>14
<1>16. CellCalls'
  <2>1. CallFor(p, q, query.index, cache, requests)
    <3>1. CASE Depth = 1
      <4>1. \A d \in ToSet(Kids[p]) : d \notin ToSet(q) /\ \A r \in requests : r.cell # d
        BY <1>1, <1>4, <1>7, <1>9, <3>1, ChildrenNew
      <4>2. q[query.index + 1] = p /\ query.index + 1 <= query.index + 1
        BY <1>2, <1>4
      <4> QED BY <4>1, <4>2, <1>4 DEF CallFor
    <3>2. CASE Depth # 1
      <4>1. 1 \in 1 .. Depth - 1 /\ 1 + 1 = 2 /\ 2 \in 1 .. Depth
        BY <3>2, <1>7
      <4>2. OnQueue(1)
        BY <1>1, <1>7 DEF StackShape
      <4>3. OnCell(2)
        BY <1>1, <4>1, <4>2 DEF StackShape
      <4> QED BY <4>1, <4>3, <1>10 DEF FInv, CellCalls
    <3> QED BY <3>1, <3>2
  <2>2. CallFor(p, query'.queue, query'.index, cache', requests')
    BY <2>1, <1>1, <1>3
  <2> QED BY <2>2, <1>15 DEF CellCalls
<1>17. Known'
  <2>1. \A j \in 1 .. Depth : OnCell(j) =>
           \E i \in 1 .. Depth' : OnCell(i)' /\ stack'[i].cell = stack[j].cell
    <3>1. \A j \in 1 .. Depth : j \in 1 .. Depth'
      BY <1>7, <1>8
    <3> QED BY <3>1, <1>8 DEF OnCell
  <2>2. query.index <= query'.index /\ Known
    BY <1>2, <1>3 DEF FInv
  <2> QED BY <1>1, <1>3, <2>1, <2>2, KnownKept
<1>18. CASE Depth = 1
  <2>1. Regular /\ Depth' = 2 /\ stack'[2].cell = p
    BY <1>5, <1>8, <1>9, <1>18
  <2>2. OnceEach'
    <3>1. OnceEach /\ \A r \in requests' : r \in requests
      BY <1>1, <2>1 DEF Regular
    <3>2. query.index <= query'.index
      BY <1>2, <1>3
    <3> QED BY <1>2, <1>3, <1>8, <1>11, <1>18, <3>1, <3>2, OnceEachKept
  <2>3. Reached' = query.index + 1
    BY <2>1, <1>3 DEF Reached
  <2>4. \A k \in 1 .. query.index + 1 :
          Shown(k, query.index + 1, query'.queue, query'.view, showing')
    BY <1>1, <1>3, <1>4, <1>7, <1>18, <2>1, ShownNext
  <2>5. \A k \in 1 .. Len(query'.queue) :
          k <= Reached' => Shown(k, Reached', query'.queue, query'.view, showing')
    BY <2>3, <2>4, <1>2, <1>3
  <2>6. query'.index < Len(query'.queue) /\ query'.index <= Len(query'.queue)
        /\ stack'[2].cell = query'.queue[query'.index + 1]
    BY <1>2, <1>3, <1>4, <2>1
  <2>7. ~SmallEnough(stack[2].cell)'
    BY <1>1, <1>3, <2>1 DEF SmallEnough
  <2>8. Regular'
    BY <1>11, <2>1, <2>2, <2>5, <2>6, <2>7 DEF Regular
  <2>9. QueueInv'
    BY <1>11, <2>1, <2>8 DEF QueueInv
  <2> QED BY <2>9, <1>11, <1>12, <1>13, <1>16, <1>17 DEF FInv
<1>19. CASE Depth # 1
  <2>1. Nested /\ Depth > 2 /\ Depth' > 2 /\ stack'[Depth'].child = 1
    BY <1>5, <1>7, <1>8, <1>9, <1>19
  <2>2. PICK k \in 1 .. Len(Kids[p]) : Wanted(p, Kids[p][k]) /\ Cached(Kids[p][k])
    BY <2>1 DEF Nested
  <2>3. Wanted(p, Kids[p][k])' /\ Cached(Kids[p][k])'
    BY <2>2, <1>1, <1>3, <1>6 DEF Wanted, ChildInFrustum, Cached
  <2>4. query'.index < Len(query'.queue) /\ ~SmallEnough(p)'
    BY <1>1, <1>3, <1>4, <1>6
  <2>5. \A j \in 1 .. Depth' : OnCell(j)' => stack'[j].cell = p'
    BY <1>6, <1>15
  <2>6. k \in 1 .. Len(Kids[p']) /\ stack'[Depth'].child <= k
    BY <2>1, <1>6, RecordFacts
  <2>7. Nested'
    BY <2>3, <2>4, <2>5, <2>6 DEF Nested
  <2>8. ~query.processing
    BY <2>1 DEF FInv, QueueInv
  <2>9. QueueInv'
    <3>1. ~(Depth' <= 2)
      BY <2>1, <1>7, <1>8
    <3> QED BY <3>1, <1>3, <1>11, <2>7, <2>8 DEF QueueInv
  <2> QED BY <2>9, <1>11, <1>12, <1>13, <1>16, <1>17 DEF FInv
<1> QED BY <1>18, <1>19

-----------------------------------------------------------------------------
(* processCell.                                                            *)

\* The innermost call of processCell is at its next child.
LEMMA ChildTop ==
  ASSUME FInv, InChildLoop
  PROVE  /\ Depth \in Nat /\ Depth >= 2 /\ ~InTrigger /\ OnCell(Depth)
         /\ Last(stack) = stack[Depth] /\ stack \in Seq(Frames) /\ stack # << >>
         /\ Parent = stack[Depth].cell /\ Parent \in Cells
         /\ \A j \in 1 .. Depth : OnCell(j) => stack[j].cell = Parent
         /\ CallFor(Parent, query.queue, query.index, cache, requests)
         /\ stack[Depth].child \in 1 .. Len(Kids[Parent]) + 1
         /\ ~query.interrupted /\ Depth = 2 => Regular /\ Parent = NextInQueue
         /\ ~query.interrupted /\ Depth # 2 => Nested /\ Parent = NextInQueue
<1>1. FTypeOK /\ StackShape /\ ~Idle /\ stack \in Seq(Frames) /\ stack # << >>
  BY DEF FInv, FTypeOK, InChildLoop, Idle
<1>2. Depth \in Nat /\ Depth >= 2 /\ ~InTrigger /\ OnCell(Depth) /\ Last(stack) = stack[Depth]
  BY <1>1, Innermost
<1>3. Parent = stack[Depth].cell /\ Parent \in Cells /\ Depth \in 1 .. Depth
  BY <1>2 DEF Parent, OnCell
<1>4. \A j \in 1 .. Depth : OnCell(j) => stack[j].cell = Parent
  BY <1>1, <1>2, <1>3 DEF StackShape
<1>5. CallFor(Parent, query.queue, query.index, cache, requests)
  BY <1>2, <1>3 DEF FInv, CellCalls
<1>6. stack[Depth].child \in 1 .. Len(Kids[Parent]) + 1
  BY <1>1, <1>2, <1>3 DEF StackShape
<1>7. ~query.interrupted /\ Depth = 2 => Regular /\ Parent = NextInQueue
  BY <1>2, <1>3 DEF FInv, QueueInv, Regular, NextInQueue
<1>8. ~query.interrupted /\ Depth # 2 => Nested /\ Parent = NextInQueue
  BY <1>2, <1>3 DEF FInv, QueueInv, Nested
<1> QED BY <1>1, <1>2, <1>3, <1>4, <1>5, <1>6, <1>7, <1>8

LEMMA ChildFacts ==
  ASSUME FInv, InChildLoop, MoreChildren
  PROVE  /\ stack[Depth].child \in 1 .. Len(Kids[Parent])
         /\ Child = Kids[Parent][stack[Depth].child] /\ Child \in Cells /\ Child # Parent
         /\ Child \in ToSet(Kids[Parent]) /\ Last(Kids[Parent]) \in Cells
         /\ ~query.interrupted /\ Depth = 2 =>
              Child \notin ToSet(query.queue) /\ \A r \in requests : r.cell # Child
<1> DEFINE p == Parent
<1> DEFINE i == stack[Depth].child
<1> DEFINE q == query.queue
<1>1. /\ Depth \in Nat /\ Depth >= 2 /\ Last(stack) = stack[Depth] /\ stack \in Seq(Frames)
      /\ p = stack[Depth].cell /\ p \in Cells /\ i \in 1 .. Len(Kids[p]) + 1
      /\ ~query.interrupted /\ Depth = 2 => Regular /\ p = NextInQueue
  BY ChildTop
<1>2. Kids[p] \in Seq(Cells) /\ Len(Kids[p]) \in Nat
  BY <1>1, RecordFacts
<1>3. i \in 1 .. Len(Kids[p]) /\ Child = Kids[p][i]
  <2>1. i <= Len(Kids[p])
    BY <1>1 DEF MoreChildren
  <2>2. i \in 1 .. Len(Kids[p])
    BY <2>1, <1>1, <1>2
  <2> QED BY <2>2, <1>1 DEF Child
<1>4. Child \in Cells /\ Child \in ToSet(Kids[p])
  BY <1>2, <1>3, InToSet
<1>5. Child # p
  BY <1>1, <1>4, ForestAssumption
<1>6. Last(Kids[p]) \in Cells
  <2>1. Len(Kids[p]) \in 1 .. Len(Kids[p])
    BY <1>2, <1>3
  <2> QED BY <2>1, <1>2 DEF Last
<1>7. ASSUME ~query.interrupted, Depth = 2
      PROVE  Child \notin ToSet(q) /\ \A r \in requests : r.cell # Child
  <2> DEFINE d == Child
  <2>1. Regular /\ p = NextInQueue /\ stack[2].cell = p /\ stack[2].child = i /\ Len(stack) = 2
    BY <1>1, <1>7 DEF Depth
  <2>2. q \in Seq(Cells) /\ query.index \in Nat /\ Len(q) \in Nat
    BY DEF FInv, FTypeOK, Queries
  <2>3. p = q[query.index + 1] /\ query.index + 1 \in 1 .. Len(q)
    <3>1. query.index < Len(q)
      BY <2>1, <1>7 DEF Regular
    <3> QED BY <2>1, <2>2, <3>1 DEF NextInQueue
  <2>4. /\ \A x, y \in 1 .. Len(q) : q[x] = q[y] => x = y
        /\ \A k \in 1 .. Len(q) : LookedUp(q[k], k - 1, q, query.index, stack)
        /\ \A r \in requests : LookedUp(r.cell, Len(q), q, query.index, stack)
    BY <2>1 DEF Regular, OnceEach
  <2>5. \A x, y \in 1 .. Len(Kids[p]) : Kids[p][x] = Kids[p][y] => x = y
    <3>1. IsInjective(Kids[p]) /\ DOMAIN Kids[p] = 1 .. Len(Kids[p])
      BY <1>1, <1>2, ForestAssumption
    <3> QED BY <3>1 DEF IsInjective
  <2>6. d \in ToSet(Kids[p]) /\ d = Kids[p][i]
    BY <1>3, <1>4
  <2>7. p \in Cells /\ stack \in Seq(Frames)
    BY <1>1
  <2>8. i \in 1 .. Len(Kids[p])
    BY <1>3
  <2> HIDE DEF d, p, i, q
  <2>9. ASSUME NEW n \in Nat, n <= Len(q), LookedUp(d, n, q, query.index, stack)
        PROVE  FALSE
    <3>1. CASE \E l \in 1 .. n : l <= query.index /\ q[l] = p
      <4>1. PICK l \in 1 .. n : l <= query.index /\ q[l] = p
        BY <3>1
      <4>2. l \in 1 .. Len(q) /\ l # query.index + 1
        BY <4>1, <2>2, <2>9
      <4> QED BY <4>1, <4>2, <2>3, <2>4
    <3>2. CASE \E l \in 1 .. Len(Kids[p]) : Kids[p][l] = d /\ l < stack[2].child
      BY <3>2, <2>1, <2>5, <2>6, <2>8
    <3> QED BY <2>1, <2>2, <2>6, <2>7, <2>9, <3>1, <3>2, LookedUpChild
  <2>10. d \notin ToSet(q)
    <3>1. SUFFICES ASSUME NEW k \in 1 .. Len(q), q[k] = d PROVE FALSE
      BY <2>2, InToSet
    <3>2. k - 1 \in Nat /\ k - 1 <= Len(q) /\ LookedUp(d, k - 1, q, query.index, stack)
      BY <2>2, <2>4, <3>1
    <3> QED BY <3>2, <2>9
  <2>11. \A r \in requests : r.cell # d
    <3>1. Len(q) <= Len(q)
      BY <2>2
    <3> QED BY <3>1, <2>2, <2>4, <2>9
  <2> QED BY <2>10, <2>11 DEF d
<1> QED BY <1>3, <1>4, <1>5, <1>6, <1>7

\* The innermost call goes on to its next child.
LEMMA NextChild ==
  ASSUME FInv, InChildLoop, MoreChildren, NEW s, s = AfterFrame
  PROVE  /\ s \in Seq(Frames) /\ Len(s) = Depth
         /\ \A j \in 1 .. Depth :
              /\ s[j].cell = stack[j].cell
              /\ s[j].child = IF j = Depth THEN stack[j].child + 1 ELSE stack[j].child
<1>1. stack \in Seq(Frames) /\ stack # << >>
  BY ChildTop
<1>2. s = [stack EXCEPT ![Len(stack)].child = @ + 1]
  BY DEF AfterFrame
<1> QED BY <1>1, <1>2, NextFrame DEF Depth

LEMMA ChildOutsideStep ==
  ASSUME FInv, ChildOutside
  PROVE  FInv'
<1> DEFINE p == Parent
<1> DEFINE d == Child
<1> DEFINE q == query.queue
<1>1. FTypeOK /\ StackShape /\ InChildLoop /\ MoreChildren /\ ~Wanted(p, d)
      /\ showing' = [showing EXCEPT ![p] = @ \ {d}]
      /\ stack' = AfterFrame
      /\ UNCHANGED <<camera, updatePending, moves, query, retries, resumes, requests,
                     cache, inside, currentCells>>
  BY DEF FInv, ChildOutside
<1>2. /\ Depth \in Nat /\ Depth >= 2 /\ ~InTrigger /\ OnCell(Depth)
      /\ Last(stack) = stack[Depth] /\ stack \in Seq(Frames) /\ p \in Cells
      /\ p = stack[Depth].cell
      /\ ~query.interrupted /\ Depth = 2 => Regular /\ p = NextInQueue
      /\ ~query.interrupted /\ Depth # 2 => Nested /\ p = NextInQueue
  BY <1>1, ChildTop
<1>3. /\ stack[Depth].child \in 1 .. Len(Kids[p]) /\ d = Kids[p][stack[Depth].child]
      /\ d \in ToSet(Kids[p])
  BY <1>1, ChildFacts
<1>4. /\ stack' \in Seq(Frames) /\ Len(stack') = Depth
      /\ \A j \in 1 .. Depth :
           /\ stack'[j].cell = stack[j].cell
           /\ stack'[j].child = IF j = Depth THEN stack[j].child + 1 ELSE stack[j].child
  BY <1>1, NextChild
<1>5. StackShape' /\ ~InTrigger' /\ Depth' = Depth
  <2>1. Depth \in Nat \ {0}
    BY <1>2
  <2> QED BY <1>1, <1>2, <1>4, <2>1, Advanced DEF Depth
<1>6. query \in Queries /\ q \in Seq(Cells) /\ Len(q) \in Nat /\ query.index \in Nat
      /\ showing \in [Cells -> SUBSET Cells] /\ inside \in [Cells -> {-1, 0, 1}]
      /\ query.view \in Views
  BY <1>1 DEF FTypeOK, Queries
<1>7. FTypeOK'
  <2>1. showing' \in [Cells -> SUBSET Cells]
    BY <1>1, <1>2, <1>6
  <2> QED BY <1>1, <1>4, <2>1 DEF FTypeOK
<1>8. Counted' /\ NotQueued' /\ NoHolesNoOverlap'
  BY <1>1, <1>5, NotQueuedKept DEF FInv, Counted, NoHolesNoOverlap
<1>9. \A j \in 1 .. Depth : OnCell(j)' <=> OnCell(j)
  BY <1>4 DEF OnCell
<1>10. CellCalls' /\ Known'
  <2>1. query' = query /\ query.index <= query'.index
    BY <1>1, <1>6
  <2>2. \A j \in 1 .. Depth' : OnCell(j)' =>
           \E i \in 1 .. Depth : OnCell(i) /\ stack[i].cell = stack'[j].cell
    BY <1>4, <1>5, <1>9
  <2>3. \A j \in 1 .. Depth : OnCell(j) =>
           \E i \in 1 .. Depth' : OnCell(i)' /\ stack'[i].cell = stack[j].cell
    BY <1>4, <1>5, <1>9
  <2> QED BY <1>1, <1>6, <2>1, <2>2, <2>3, CallsKept, KnownKept DEF FInv
<1>11. ASSUME ~query.interrupted, Depth = 2 PROVE Regular'
  <2>1. Regular /\ p = NextInQueue
    BY <1>2, <1>11
  <2>2. stack[2].child <= stack'[2].child /\ stack'[2].cell = stack[2].cell
    BY <1>3, <1>4, <1>11
  <2>3. OnceEach'
    <3>1. OnceEach /\ \A r \in requests' : r \in requests
      BY <1>1, <2>1 DEF Regular
    <3>2. query' = query /\ query.index <= query'.index /\ Depth' = 2
      BY <1>1, <1>5, <1>6, <1>11
    <3> QED BY <1>2, <1>4, <1>5, <1>6, <2>2, <3>1, <3>2, OnceEachKept
  <2>4. Reached = query.index + 1 /\ Reached' = Reached /\ query.index < Len(q)
    BY <1>1, <1>5, <1>11, <2>1 DEF Reached, Regular
  <2>5. ASSUME NEW k \in 1 .. Len(q), k <= Reached
        PROVE  Shown(k, Reached, q, query.view, showing')
    <3>1. Shown(k, Reached, q, query.view, showing)
      BY <2>1, <2>5 DEF Regular
    <3>2. q[k] \in Cells
      BY <1>6
    <3>3. CASE q[k] # p
      <4>1. showing'[q[k]] = showing[q[k]]
        BY <3>2, <3>3, <1>1, <1>6
      <4> QED BY <3>1, <4>1 DEF Shown
    <3>4. CASE q[k] = p
      <4>1. showing'[p] = showing[p] \ {d}
        BY <1>1, <1>2, <1>6
      <4>2. InFrustum[query.view][d] = -1
        <5>1. inside[p] \in {-1, 0, 1} /\ d \in Cells
          BY <1>1, <1>2, <1>6, ChildFacts
        <5>2. InFrustum[query.view][d] \in {-1, 0, 1}
          BY <5>1, <1>6, FrustumAssumption
        <5> QED BY <1>1, <5>1, <5>2 DEF Wanted, ChildInFrustum
      <4> QED BY <3>1, <3>4, <4>1, <4>2 DEF Shown
    <3> QED BY <3>3, <3>4
  <2>6. \A k \in 1 .. Len(query'.queue) :
          k <= Reached' => Shown(k, Reached', query'.queue, query'.view, showing')
    BY <2>4, <2>5, <1>1
  <2>7. query'.index < Len(query'.queue) /\ query'.index <= Len(query'.queue)
        /\ stack'[2].cell = query'.queue[query'.index + 1]
    BY <1>1, <1>6, <1>11, <2>1, <2>2, <2>4 DEF Regular
  <2>8. ~SmallEnough(stack[2].cell)'
    BY <1>1, <1>11, <2>1, <2>2 DEF Regular, SmallEnough
  <2> QED BY <1>5, <2>3, <2>6, <2>7, <2>8 DEF Regular
<1>12. ASSUME ~query.interrupted, Depth # 2 PROVE Nested'
  <2>1. Nested /\ p = NextInQueue
    BY <1>2, <1>12
  <2>2. p' = p /\ NextInQueue' = NextInQueue /\ SmallEnough(p)' = SmallEnough(p)
    BY <1>1, <1>2, <1>4, <1>5, <2>1 DEF NextInQueue, SmallEnough, Parent, Last, Depth
  <2>3. PICK k \in 1 .. Len(Kids[p]) :
          /\ Wanted(p, Kids[p][k]) /\ Cached(Kids[p][k]) /\ stack[Depth].child <= k
    BY <1>2, <2>1 DEF Nested
  <2>4. stack[Depth].child # k
    BY <1>1, <1>3, <2>3
  <2>5. stack'[Depth].child <= k
    BY <1>2, <1>3, <1>4, <2>3, <2>4, RecordFacts
  <2>6. Wanted(p, Kids[p][k])' /\ Cached(Kids[p][k])'
    BY <1>1, <2>2, <2>3 DEF Wanted, ChildInFrustum, Cached
  <2> QED BY <1>1, <1>4, <1>5, <1>9, <2>1, <2>2, <2>3, <2>5, <2>6 DEF Nested
<1>13. QueueInv'
  <2>1. Depth > 2 => ~query.processing
    BY DEF FInv, QueueInv
  <2>2. Depth <= 2 <=> Depth = 2
    BY <1>2
  <2>3. Depth > 2 => Depth # 2
    OBVIOUS
  <2> QED BY <1>1, <1>5, <1>11, <1>12, <2>1, <2>2, <2>3 DEF QueueInv
<1> QED BY <1>5, <1>7, <1>8, <1>10, <1>13 DEF FInv

LEMMA ChildMissStep ==
  ASSUME FInv, ChildMiss
  PROVE  FInv'
<1> DEFINE p == Parent
<1> DEFINE d == Child
<1> DEFINE q == query.queue
<1> DEFINE value == ChildInFrustum(p, Last(Kids[p]))
<1> DEFINE new == Xhr(d, value)
<1>1. FTypeOK /\ StackShape /\ InChildLoop /\ MoreChildren /\ ~Cached(d)
      /\ requests' = requests \cup {new} /\ query' = [query EXCEPT !.inFlight = @ + 1]
      /\ stack' = AfterFrame
      /\ UNCHANGED <<camera, updatePending, moves, retries, resumes, cache, showing,
                     inside, currentCells>>
  BY DEF FInv, ChildMiss
<1>2. /\ Depth \in Nat /\ Depth >= 2 /\ ~InTrigger /\ OnCell(Depth)
      /\ Last(stack) = stack[Depth] /\ stack \in Seq(Frames) /\ p \in Cells
      /\ p = stack[Depth].cell /\ \A j \in 1 .. Depth : OnCell(j) => stack[j].cell = p
      /\ CallFor(p, q, query.index, cache, requests)
      /\ ~query.interrupted /\ Depth = 2 => Regular /\ p = NextInQueue
      /\ ~query.interrupted /\ Depth # 2 => Nested /\ p = NextInQueue
  BY <1>1, ChildTop
<1>3. /\ stack[Depth].child \in 1 .. Len(Kids[p]) /\ d = Kids[p][stack[Depth].child]
      /\ d \in ToSet(Kids[p]) /\ d \in Cells /\ Last(Kids[p]) \in Cells
      /\ ~query.interrupted /\ Depth = 2 => \A r \in requests : r.cell # d
  BY <1>1, ChildFacts
<1>4. /\ stack' \in Seq(Frames) /\ Len(stack') = Depth
      /\ \A j \in 1 .. Depth :
           /\ stack'[j].cell = stack[j].cell
           /\ stack'[j].child = IF j = Depth THEN stack[j].child + 1 ELSE stack[j].child
  BY <1>1, NextChild
<1>5. StackShape' /\ ~InTrigger' /\ Depth' = Depth
  <2>1. Depth \in Nat \ {0}
    BY <1>2
  <2> QED BY <1>1, <1>2, <1>4, <2>1, Advanced DEF Depth
<1>6. query \in Queries /\ q \in Seq(Cells) /\ Len(q) \in Nat /\ query.index \in Nat
      /\ inside \in [Cells -> {-1, 0, 1}] /\ query.view \in Views
  BY <1>1 DEF FTypeOK, Queries
<1>7. value \in {-1, 0, 1}
  <2>1. InFrustum[query.view] \in [Cells -> {-1, 0, 1}]
    BY <1>6, FrustumAssumption
  <2> QED BY <1>2, <1>3, <1>6, <2>1 DEF ChildInFrustum
<1>8. query' \in Queries /\ query'.queue = q /\ query'.index = query.index
      /\ query'.interrupted = query.interrupted /\ query'.inFlight = query.inFlight + 1
      /\ query'.view = query.view /\ query'.processing = query.processing
      /\ query'.level = query.level
  <2>1. query.inFlight + 1 \in Nat
    BY <1>6 DEF Queries
  <2> QED BY <1>1, <1>6, <2>1 DEF Queries
<1> HIDE DEF value
<1>10. Counted' /\ new.cell = d /\ new \in Requests
  BY <1>1, <1>3, <1>7, <1>8, OneMore DEF FInv
<1> HIDE DEF new
<1>9. FTypeOK'
  BY <1>1, <1>4, <1>8, <1>10 DEF FTypeOK
<1>11. NoHolesNoOverlap'
  BY <1>1 DEF FInv, NoHolesNoOverlap
\* The child is not in the queue; a nested call may have requested it before.
<1>12. d \notin ToSet(q)
  BY <1>1, <1>2, <1>3 DEF CallFor, Cached
<1>14. NotQueued'
  <2>1. ~query.interrupted /\ Depth' <= 2 => \A r \in requests : r.cell # d
    BY <1>2, <1>3, <1>5
  <2> QED BY <1>1, <1>5, <1>8, <1>10, <1>12, <2>1 DEF FInv, NotQueued
<1>15. \A j \in 1 .. Depth : OnCell(j)' <=> OnCell(j)
  BY <1>4 DEF OnCell
<1>16. CellCalls'
  <2>1. CallFor(p, query'.queue, query'.index, cache', requests')
    BY <1>1, <1>2, <1>8, <1>10 DEF CallFor, Cached
  <2>2. \A j \in 1 .. Depth' : OnCell(j)' => stack'[j].cell = p
    BY <1>2, <1>4, <1>5, <1>15
  <2> QED BY <2>1, <2>2 DEF CellCalls
<1>17. Known'
  <2>1. ASSUME NEW r \in requests, NEW j \in 1 .. Depth,
               OnCell(j), r.cell \in ToSet(Kids[stack[j].cell])
        PROVE  \E i \in 1 .. Depth' : OnCell(i)' /\ r.cell \in ToSet(Kids[stack'[i].cell])
    BY <2>1, <1>4, <1>5, <1>15
  <2>2. \E i \in 1 .. Depth' : OnCell(i)' /\ d \in ToSet(Kids[stack'[i].cell])
    <3>1. Depth \in 1 .. Depth
      BY <1>2
    <3>2. OnCell(Depth) /\ stack'[Depth].cell = p
      BY <1>2, <1>4, <3>1
    <3> QED BY <3>1, <3>2, <1>3, <1>5, <1>15
  <2> QED BY <2>1, <2>2, <1>1, <1>8, <1>10 DEF FInv, Known
<1>18. ASSUME ~query.interrupted, Depth = 2 PROVE Regular'
  <2>1. Regular /\ p = NextInQueue /\ query.index < Len(q)
    BY <1>2, <1>18 DEF Regular
  <2>2. stack[2].child < stack'[2].child /\ stack[2].child <= stack'[2].child
        /\ stack'[2].cell = stack[2].cell /\ stack'[2].cell = p
    BY <1>2, <1>3, <1>4, <1>18
  <2>3. LookedUp(d, Len(q), q, query'.index, stack')
    <3>1. query'.index + 1 <= Len(q) /\ Len(stack') = 2
      BY <1>4, <1>6, <1>8, <1>18, <2>1
    <3> QED BY <1>3, <1>18, <2>2, <3>1 DEF LookedUp
  <2>4. OnceEach'
    <3>1. OnceEach /\ query.index <= query'.index /\ Depth' = 2
      BY <1>5, <1>6, <1>8, <1>18, <2>1 DEF Regular
    <3>2. \A r \in requests' : r \in requests
             \/ LookedUp(r.cell, Len(query'.queue), query'.queue, query'.index, stack')
      BY <1>1, <1>8, <1>10, <2>3
    <3> QED BY <1>2, <1>4, <1>5, <1>6, <1>8, <2>2, <3>1, <3>2, OnceEachKept
  <2>5. Reached' = Reached
    BY <1>5, <1>8 DEF Reached
  <2>6. \A k \in 1 .. Len(query'.queue) :
          k <= Reached' => Shown(k, Reached', query'.queue, query'.view, showing')
    BY <2>1, <2>5, <1>1, <1>8 DEF Regular
  <2>7. query'.index < Len(query'.queue) /\ query'.index <= Len(query'.queue)
        /\ stack'[2].cell = query'.queue[query'.index + 1]
    BY <1>8, <1>18, <2>1, <2>2 DEF Regular
  <2>8. ~SmallEnough(stack[2].cell)'
    BY <1>8, <1>18, <2>1, <2>2 DEF Regular, SmallEnough
  <2> QED BY <1>5, <2>4, <2>6, <2>7, <2>8 DEF Regular
<1>19. ASSUME ~query.interrupted, Depth # 2 PROVE Nested'
  <2>1. Nested /\ p = NextInQueue
    BY <1>2, <1>19
  <2>2. NextInQueue' = NextInQueue /\ SmallEnough(NextInQueue)' = SmallEnough(NextInQueue)
    BY <1>8 DEF NextInQueue, SmallEnough
  <2>3. PICK k \in 1 .. Len(Kids[p]) :
          /\ Wanted(p, Kids[p][k]) /\ Cached(Kids[p][k]) /\ stack[Depth].child <= k
    BY <1>2, <2>1 DEF Nested
  <2>4. stack[Depth].child # k
    BY <1>1, <1>3, <2>3
  <2>5. stack'[Depth].child <= k
    BY <1>2, <1>3, <1>4, <2>3, <2>4, RecordFacts
  <2>6. (inside[p] > 0 \/ (IF inside[p] < 1 THEN InFrustum[query.view][Kids[p][k]] ELSE inside[p]) > -1)
        /\ Kids[p][k] \in ToSet(cache)
    BY <2>3 DEF Wanted, ChildInFrustum, Cached
  <2> DEFINE x == NextInQueue'
  <2>7. x = p
    BY <2>1, <2>2
  <2>8. \A j \in 1 .. Depth' : OnCell(j)' => stack'[j].cell = x
    BY <1>2, <1>4, <1>5, <1>15, <2>7
  <2>9. \E l \in 1 .. Len(Kids[x]) :
          /\ Wanted(NextInQueue, Kids[NextInQueue][l])' /\ Cached(Kids[NextInQueue][l])'
          /\ OnCell(Depth)' => stack'[Depth'].child <= l
    BY <1>1, <1>5, <1>8, <2>3, <2>5, <2>6, <2>7 DEF Wanted, ChildInFrustum, Cached
  <2>10. query'.index < Len(query'.queue) /\ ~SmallEnough(NextInQueue)'
    BY <1>8, <2>1, <2>2 DEF Nested
  <2> QED BY <2>8, <2>9, <2>10 DEF Nested
<1>20. QueueInv'
  <2>1. Depth > 2 => ~query.processing
    BY DEF FInv, QueueInv
  <2>2. Depth <= 2 <=> Depth = 2
    BY <1>2
  <2>3. Depth > 2 => Depth # 2
    OBVIOUS
  <2> QED BY <1>8, <1>5, <1>18, <1>19, <2>1, <2>2, <2>3 DEF QueueInv
<1> QED BY <1>5, <1>9, <1>10, <1>11, <1>14, <1>16, <1>17, <1>20 DEF FInv

LEMMA ChildrenDoneStep ==
  ASSUME FInv, ChildrenDone
  PROVE  FInv'
<1> DEFINE p == Parent
<1> DEFINE q == query.queue
<1>1. FTypeOK /\ StackShape /\ InChildLoop /\ ~MoreChildren
      /\ NextCell(query, Front(stack))
      /\ UNCHANGED <<camera, updatePending, moves, retries, requests, cache, showing,
                     inside, currentCells>>
  BY DEF FInv, ChildrenDone
<1>2. /\ Depth \in Nat /\ Depth >= 2 /\ ~InTrigger /\ OnCell(Depth)
      /\ Last(stack) = stack[Depth] /\ stack \in Seq(Frames) /\ stack # << >> /\ p \in Cells
      /\ p = stack[Depth].cell /\ \A j \in 1 .. Depth : OnCell(j) => stack[j].cell = p
      /\ CallFor(p, q, query.index, cache, requests)
      /\ ~query.interrupted /\ Depth = 2 => Regular /\ p = NextInQueue
      /\ ~query.interrupted /\ Depth # 2 => Nested /\ p = NextInQueue
  BY <1>1, ChildTop
<1>3. query \in Queries /\ q \in Seq(Cells) /\ Len(q) \in Nat /\ query.index \in Nat
      /\ resumes \in Nat
  BY <1>1 DEF FTypeOK, Queries
<1>4. /\ query' \in Queries /\ query'.index = query.index + 1 /\ query'.queue = q
      /\ query'.inFlight = query.inFlight /\ query'.interrupted = query.interrupted
      /\ query'.view = query.view /\ query'.processing = query.processing
      /\ query'.level = query.level
      /\ (stack' = Front(stack) \/ stack' = Front(Front(stack))) /\ resumes' \in Nat
  BY <1>1, <1>3, NextCellFacts
<1>5. /\ stack' \in Seq(Frames) /\ (Depth' = Depth - 1 \/ Depth' = Depth - 2)
      /\ \A j \in 1 .. Depth' : stack'[j] = stack[j]
  <2>1. /\ Front(stack) \in Seq(Frames) /\ Len(Front(stack)) = Depth - 1
        /\ \A j \in 1 .. Depth - 1 : Front(stack)[j] = stack[j]
    BY <1>2, Popped DEF Depth
  <2>2. Front(stack) # << >>
    BY <1>2, <2>1
  <2>3. /\ Front(Front(stack)) \in Seq(Frames) /\ Len(Front(Front(stack))) = Depth - 2
        /\ \A j \in 1 .. Depth - 2 : Front(Front(stack))[j] = Front(stack)[j]
    BY <1>2, <2>1, <2>2, Popped
  <2>4. \A j \in 1 .. Depth - 2 : j \in 1 .. Depth - 1
    BY <1>2
  <2>5. CASE stack' = Front(stack)
    BY <2>1, <2>5 DEF Depth
  <2>6. CASE stack' = Front(Front(stack))
    <3>1. \A j \in 1 .. Depth - 2 : stack'[j] = stack[j]
      BY <2>1, <2>3, <2>4, <2>6
    <3> QED BY <2>3, <2>6, <3>1 DEF Depth
  <2> QED BY <1>4, <2>5, <2>6
<1>6. StackShape' /\ ~InTrigger'
  <2>1. Len(stack') \in Nat /\ Len(stack') <= Depth
        /\ \A j \in 1 .. Len(stack') : stack'[j] = stack[j]
    BY <1>2, <1>5 DEF Depth
  <2> QED BY <1>1, <1>2, <2>1, Returned
<1>7. FTypeOK'
  BY <1>1, <1>4, <1>5 DEF FTypeOK
<1>8. Counted' /\ NoHolesNoOverlap'
  BY <1>1, <1>4 DEF FInv, Counted, NoHolesNoOverlap
<1>9. query.index <= query'.index
  BY <1>3, <1>4
<1>10. CellCalls'
  <2>1. \A j \in 1 .. Depth' : OnCell(j)' =>
           \E i \in 1 .. Depth : OnCell(i) /\ stack[i].cell = stack'[j].cell
    <3>1. \A j \in 1 .. Depth' : j \in 1 .. Depth
      BY <1>2, <1>5
    <3> QED BY <3>1, <1>5 DEF OnCell
  <2> QED BY <1>1, <1>4, <1>9, <2>1, CallsKept DEF FInv
\* The parent has been processed.
<1>11. Known'
  <2>1. \E k \in 1 .. Len(q) : q[k] = p /\ k <= query'.index
    BY <1>2, <1>4 DEF CallFor
  <2>2. \A j \in 1 .. Depth : OnCell(j) =>
           \E k \in 1 .. Len(q) : k <= query'.index /\ q[k] = stack[j].cell
    BY <1>2, <2>1
  <2> QED BY <1>1, <1>4, <1>9, <2>2, KnownKept DEF FInv
<1>12. ~query.interrupted => Depth = 2
  <2>1. SUFFICES ASSUME ~query.interrupted, Depth # 2 PROVE FALSE
    OBVIOUS
  <2>2. Nested /\ p = NextInQueue
    BY <1>2, <2>1
  <2>3. PICK k \in 1 .. Len(Kids[p]) : stack[Depth].child <= k
    BY <1>2, <2>2 DEF Nested
  <2>4. ~(stack[Depth].child <= Len(Kids[p]))
    BY <1>1, <1>2 DEF MoreChildren
  <2>5. stack[Depth].child \in Nat /\ Len(Kids[p]) \in Nat
    BY <1>1, <1>2, ChildTop, RecordFacts
  <2> QED BY <2>3, <2>4, <2>5
<1>15. NotQueued'
  BY <1>1, <1>4, <1>12, NotQueuedKept DEF FInv
<1>13. ASSUME ~query.interrupted PROVE Regular'
  <2>1. Depth = 2 /\ Regular /\ p = NextInQueue /\ query.index < Len(q)
        /\ stack[2].cell = query.queue[query.index + 1]
    BY <1>2, <1>12, <1>13 DEF Regular
  <2>2. OnceEach'
    <3>1. OnceEach /\ \A r \in requests' : r \in requests
      BY <1>1, <2>1 DEF Regular
    <3>2. query.index < query'.index
      BY <1>3, <1>4
    <3> QED BY <1>2, <1>3, <1>4, <1>5, <1>6, <1>9, <2>1, <3>1, <3>2, OnceEachKept
  <2>3. Depth' # 2 /\ Reached' = query.index + 1 /\ Reached = query.index + 1
    BY <1>4, <1>5, <2>1 DEF Reached
  <2>4. \A k \in 1 .. Len(q) : k <= Reached => Shown(k, Reached, q, query.view, showing)
    BY <2>1 DEF Regular
  <2>5. query'.index <= Len(query'.queue)
    BY <1>3, <1>4, <2>1
  <2>6. \A k \in 1 .. Len(query'.queue) :
          k <= Reached' => Shown(k, Reached', query'.queue, query'.view, showing')
    BY <2>3, <2>4, <1>1, <1>4
  <2> QED BY <1>6, <2>2, <2>3, <2>5, <2>6 DEF Regular
<1>14. QueueInv'
  <2>1. Depth > 2 => ~query.processing
    BY DEF FInv, QueueInv
  <2>2. Depth' > 2 => Depth > 2
    BY <1>2, <1>5
  <2>3. ~query.interrupted => ~(Depth' > 2)
    BY <1>5, <1>12
  <2> QED BY <1>4, <1>6, <1>13, <2>1, <2>2, <2>3 DEF QueueInv
<1> QED BY <1>6, <1>7, <1>8, <1>10, <1>11, <1>14, <1>15 DEF FInv

\* A cached child: processQueue may be entered again for it.
LEMMA ChildHitStep ==
  ASSUME FInv, ChildHit
  PROVE  FInv'
<1> DEFINE p == Parent
<1> DEFINE d == Child
<1> DEFINE q == query.queue
<1>1. FTypeOK /\ StackShape /\ InChildLoop /\ MoreChildren /\ Wanted(p, d) /\ Cached(d)
      /\ cache' = Touched(cache, d)
      /\ inside' = [inside EXCEPT ![d] = ChildInFrustum(p, d)]
      /\ query' = [query EXCEPT !.queue = Append(@, d),
                                !.calls = IF query.processing THEN @ + 1 ELSE 0]
      /\ stack' = (IF query.processing THEN AfterFrame ELSE Append(AfterFrame, QueueFrame))
      /\ UNCHANGED <<camera, updatePending, moves, retries, resumes, requests,
                     showing, currentCells>>
  BY DEF FInv, ChildHit
<1>2. /\ Depth \in Nat /\ Depth >= 2 /\ ~InTrigger /\ OnCell(Depth)
      /\ Last(stack) = stack[Depth] /\ stack \in Seq(Frames) /\ p \in Cells
      /\ p = stack[Depth].cell /\ \A j \in 1 .. Depth : OnCell(j) => stack[j].cell = p
      /\ CallFor(p, q, query.index, cache, requests)
      /\ ~query.interrupted /\ Depth = 2 => Regular /\ p = NextInQueue
      /\ ~query.interrupted /\ Depth # 2 => Nested /\ p = NextInQueue
  BY <1>1, ChildTop
<1>3. /\ stack[Depth].child \in 1 .. Len(Kids[p]) /\ d = Kids[p][stack[Depth].child]
      /\ d \in ToSet(Kids[p]) /\ d \in Cells /\ d # p
      /\ ~query.interrupted /\ Depth = 2 => d \notin ToSet(q)
  BY <1>1, ChildFacts
<1>4. query \in Queries /\ q \in Seq(Cells) /\ Len(q) \in Nat /\ query.index \in Nat
      /\ inside \in [Cells -> {-1, 0, 1}] /\ query.view \in Views /\ cache \in Seq(Cells)
      /\ query.processing \in BOOLEAN /\ query.calls \in Nat
  BY <1>1 DEF FTypeOK, Queries
<1>5. /\ stack' \in Seq(Frames)
      /\ \/ query.processing /\ Len(stack') = Depth
         \/ ~query.processing /\ Len(stack') = Depth + 1 /\ stack'[Depth + 1] = QueueFrame
      /\ \A j \in 1 .. Depth :
           /\ stack'[j].cell = stack[j].cell
           /\ stack'[j].child = IF j = Depth THEN stack[j].child + 1 ELSE stack[j].child
  <2> DEFINE t == AfterFrame
  <2>1. /\ t \in Seq(Frames) /\ Len(t) = Depth
        /\ \A j \in 1 .. Depth :
             /\ t[j].cell = stack[j].cell
             /\ t[j].child = IF j = Depth THEN stack[j].child + 1 ELSE stack[j].child
    BY <1>1, NextChild
  <2>2. stack' = IF query.processing THEN t ELSE Append(t, QueueFrame)
    BY <1>1
  <2> HIDE DEF t
  <2>3. CASE query.processing
    BY <2>1, <2>2, <2>3
  <2>4. CASE ~query.processing
    <3>1. /\ Append(t, QueueFrame) \in Seq(Frames)
          /\ Len(Append(t, QueueFrame)) = Depth + 1
          /\ Append(t, QueueFrame)[Depth + 1] = QueueFrame
          /\ \A j \in 1 .. Depth : Append(t, QueueFrame)[j] = t[j]
      BY <2>1, RecordFacts, AppendProperties
    <3> QED BY <2>1, <2>2, <2>4, <3>1
  <2> QED BY <2>3, <2>4
<1>6. StackShape' /\ ~InTrigger'
  <2>1. Depth \in Nat \ {0}
    BY <1>2
  <2>2. \/ Len(stack') = Depth
        \/ Len(stack') = Depth + 1 /\ stack'[Depth + 1] = QueueFrame
    BY <1>5
  <2> QED BY <1>1, <1>2, <1>5, <2>1, <2>2, Advanced
<1>7. /\ Append(q, d) \in Seq(Cells) /\ Len(Append(q, d)) = Len(q) + 1
      /\ \A i \in 1 .. Len(q) : Append(q, d)[i] = q[i]
      /\ ToSet(Append(q, d)) = ToSet(q) \cup {d}
  BY <1>3, <1>4, ToSetAppend
<1>8. query' \in Queries /\ query'.queue = Append(q, d) /\ query'.index = query.index
      /\ query'.interrupted = query.interrupted /\ query'.inFlight = query.inFlight
      /\ query'.view = query.view /\ query'.processing = query.processing
      /\ query'.level = query.level
  <2> DEFINE n == IF query.processing THEN query.calls + 1 ELSE 0
  <2>1. n \in Nat
    BY <1>4
  <2>2. query' = [query EXCEPT !.queue = Append(@, d), !.calls = n]
    BY <1>1
  <2> HIDE DEF n, d
  <2> QED BY <1>4, <1>7, <2>1, <2>2 DEF Queries
<1>9. cache' \in Seq(Cells) /\ ToSet(cache') = ToSet(cache) \cup {d}
  BY <1>1, <1>3, <1>4, TouchedCells
<1>10. inside' \in [Cells -> {-1, 0, 1}] /\ inside'[p] = inside[p]
  <2>1. InFrustum[query.view] \in [Cells -> {-1, 0, 1}]
    BY <1>4, FrustumAssumption
  <2>2. ChildInFrustum(p, d) \in {-1, 0, 1}
    BY <1>2, <1>3, <1>4, <2>1 DEF ChildInFrustum
  <2> QED BY <1>1, <1>2, <1>3, <1>4, <2>2
<1> HIDE DEF d, p
<1>11. FTypeOK'
  BY <1>1, <1>5, <1>8, <1>9, <1>10 DEF FTypeOK
<1>12. Counted' /\ NoHolesNoOverlap'
  BY <1>1, <1>4, <1>7, <1>8, CountedKept DEF FInv, NoHolesNoOverlap
\* A child on request is not cached.
<1>13. \A r \in requests : r.cell # d
  BY <1>1, <1>2, <1>3 DEF CallFor, Cached
<1>14. NotQueued'
  <2>1. Depth' <= 2 => Depth <= 2
    BY <1>2, <1>5 DEF Depth
  <2> QED BY <1>1, <1>7, <1>8, <1>13, <2>1 DEF FInv, NotQueued
<1>15. \A j \in 1 .. Depth : OnCell(j)' <=> OnCell(j)
  BY <1>5 DEF OnCell
<1>16. \A j \in 1 .. Depth' : OnCell(j)' => j \in 1 .. Depth
  BY <1>2, <1>5, RecordFacts DEF OnCell, Depth
<1>17. \A k \in 1 .. Len(q) : k \in 1 .. Len(query'.queue) /\ query'.queue[k] = q[k]
  BY <1>4, <1>7, <1>8
<1>18. CellCalls'
  <2>1. CallFor(p, query'.queue, query'.index, cache', requests')
    <3>1. \E k \in 1 .. Len(query'.queue) : query'.queue[k] = p /\ k <= query'.index + 1
      BY <1>2, <1>8, <1>17 DEF CallFor
    <3>2. \A x \in ToSet(Kids[p]) : x \in ToSet(query'.queue) => x \in ToSet(cache')
      BY <1>2, <1>7, <1>8, <1>9 DEF CallFor
    <3>3. \A r \in requests' : r.cell \in ToSet(Kids[p]) => r.cell \notin ToSet(cache')
      BY <1>1, <1>2, <1>9, <1>13 DEF CallFor
    <3> QED BY <3>1, <3>2, <3>3 DEF CallFor
  <2>2. \A j \in 1 .. Depth' : OnCell(j)' => stack'[j].cell = p
    BY <1>2, <1>5, <1>15, <1>16
  <2> QED BY <2>1, <2>2 DEF CellCalls
<1>19. Known'
  <2>1. \A j \in 1 .. Depth : j \in 1 .. Depth'
    BY <1>2, <1>5 DEF Depth
  <2>2. ASSUME NEW r \in requests, NEW j \in 1 .. Depth,
               OnCell(j), r.cell \in ToSet(Kids[stack[j].cell])
        PROVE  \E i \in 1 .. Depth' : OnCell(i)' /\ r.cell \in ToSet(Kids[stack'[i].cell])
    BY <2>1, <2>2, <1>5, <1>15
  <2> QED BY <2>2, <1>1, <1>8, <1>17 DEF FInv, Known
<1>20. query'.index < Len(query'.queue) \/ ~(query.index < Len(q))
  BY <1>4, <1>7, <1>8
\* The first call of processCell goes on.
<1>21. ASSUME ~query.interrupted, Depth = 2, query.processing
       PROVE  Depth' = 2 /\ Regular'
  <2>1. Regular /\ p = NextInQueue /\ query.index < Len(q)
        /\ stack[2].cell = q[query.index + 1]
    BY <1>2, <1>21 DEF Regular
  <2>2. stack[2].child < stack'[2].child /\ stack[2].child <= stack'[2].child
        /\ stack'[2].cell = stack[2].cell /\ stack'[2].cell = p /\ Depth' = 2
    BY <1>2, <1>3, <1>5, <1>21 DEF Depth
  <2>3. LookedUp(d, Len(q), query'.queue, query'.index, stack')
    <3>1. query'.index + 1 <= Len(q) /\ Len(stack') = 2
      BY <1>4, <1>8, <2>1, <2>2 DEF Depth
    <3> QED BY <1>3, <1>21, <2>2, <3>1 DEF LookedUp
  <2>4. OnceEach'
    <3>1. OnceEach /\ query.index <= query'.index /\ \A r \in requests' : r \in requests
      BY <1>1, <1>4, <1>8, <2>1 DEF Regular
    <3>2. \E e \in Cells :
            /\ query'.queue = Append(query.queue, e) /\ e \notin ToSet(query.queue)
            /\ LookedUp(e, Len(query.queue), query'.queue, query'.index, stack')
      BY <1>3, <1>8, <1>21, <2>3
    <3> QED BY <1>2, <1>4, <1>5, <1>6, <1>8, <2>2, <3>1, <3>2, OnceEachKept
  <2>5. Reached' = query.index + 1 /\ Reached = query.index + 1
    BY <1>8, <1>21, <2>2 DEF Reached
  <2>6. ASSUME NEW k \in 1 .. Len(query'.queue), k <= query.index + 1
        PROVE  Shown(k, query.index + 1, query'.queue, query'.view, showing')
    <3>1. k \in 1 .. Len(q)
      BY <1>4, <2>1, <2>6
    <3>2. Shown(k, query.index + 1, q, query.view, showing)
      BY <2>1, <2>5, <2>6, <3>1 DEF Regular
    <3>3. \A i \in 1 .. query.index + 1 : query'.queue[i] = q[i]
      BY <1>4, <1>17, <2>1
    <3>4. query'.queue[k] = q[k] /\ showing' = showing /\ query'.view = query.view
      BY <1>1, <1>8, <1>17, <3>1
    <3> DEFINE n == query.index + 1
    <3> HIDE DEF q, n
    <3>5. \A e : (\E i \in 1 .. n : query'.queue[i] = e) <=> (\E i \in 1 .. n : q[i] = e)
      BY <3>3 DEF n
    <3>6. Shown(k, n, q, query.view, showing)
      BY <3>2 DEF n
    <3>7. Shown(k, n, query'.queue, query'.view, showing')
      BY <3>4, <3>5, <3>6 DEF Shown
    <3> QED BY <3>7 DEF n
  <2>7. query'.index < Len(query'.queue) /\ query'.index <= Len(query'.queue)
        /\ stack'[2].cell = query'.queue[query'.index + 1]
    <3>1. query.index + 1 \in 1 .. Len(q)
      BY <1>4, <2>1
    <3>2. query'.queue[query.index + 1] = q[query.index + 1]
      BY <1>17, <3>1
    <3>3. stack'[2].cell = query'.queue[query'.index + 1]
      BY <1>8, <2>1, <2>2, <3>2
    <3>4. query.index < Len(q) + 1 /\ query.index <= Len(q) + 1
      BY <1>4, <2>1
    <3> QED BY <3>3, <3>4, <1>7, <1>8
  <2>8. ~SmallEnough(stack[2].cell)'
    BY <1>8, <1>21, <2>1, <2>2 DEF Regular, SmallEnough
  <2> QED BY <1>6, <2>2, <2>4, <2>5, <2>6, <2>7, <2>8 DEF Regular
\* processQueue is entered from inside processCell, for this child.
<1>22. ASSUME ~query.interrupted, ~query.processing
       PROVE  Depth' > 2 /\ ~(Depth' <= 2) /\ Nested'
  <2>1. Depth' = Depth + 1 /\ Depth' > 2 /\ ~(Depth' <= 2) /\ stack'[Depth'] = QueueFrame
    BY <1>2, <1>5, <1>22 DEF Depth
  <2>2. ~OnCell(Depth)'
    BY <2>1, RecordFacts DEF OnCell
  <2>3. query.index < Len(q) /\ p = NextInQueue /\ ~SmallEnough(p)
    BY <1>2, <1>22 DEF Regular, Nested
  <2>4. p = q[query.index + 1] /\ query.index + 1 \in 1 .. Len(q)
    BY <1>4, <2>3 DEF NextInQueue
  <2> DEFINE x == NextInQueue'
  <2>5. x = p
    BY <1>8, <1>17, <2>4 DEF NextInQueue
  <2>6. query'.index < Len(query'.queue) /\ ~SmallEnough(NextInQueue)'
    BY <1>8, <1>20, <2>3, <2>5 DEF SmallEnough
  <2>7. \A j \in 1 .. Depth' : OnCell(j)' => stack'[j].cell = x
    BY <1>2, <1>5, <1>15, <1>16, <2>5
  <2>8. PICK k \in 1 .. Len(Kids[p]) : Wanted(p, Kids[p][k]) /\ Kids[p][k] \in ToSet(cache')
    <3>1. CASE Depth = 2
      BY <1>1, <1>3, <1>9
    <3>2. CASE Depth # 2
      BY <1>2, <1>9, <1>22, <2>3, <3>2 DEF Nested, Cached
    <3> QED BY <3>1, <3>2
  <2>9. inside[p] > 0 \/ (IF inside[p] < 1 THEN InFrustum[query.view][Kids[p][k]] ELSE inside[p]) > -1
    BY <2>8 DEF Wanted, ChildInFrustum
  <2>10. \E l \in 1 .. Len(Kids[x]) :
           Wanted(NextInQueue, Kids[NextInQueue][l])' /\ Cached(Kids[NextInQueue][l])'
    BY <1>8, <1>10, <2>5, <2>8, <2>9 DEF Wanted, ChildInFrustum, Cached
  <2>11. Nested'
    BY <2>2, <2>6, <2>7, <2>10 DEF Nested
  <2> QED BY <2>1, <2>11
<1>23. QueueInv'
  <2>1. Depth > 2 => ~query.processing
    BY DEF FInv, QueueInv
  <2>2. query.processing => Depth = 2 /\ Depth' = 2
    <3>1. SUFFICES ASSUME query.processing PROVE Depth = 2 /\ Depth' = 2
      OBVIOUS
    <3>2. Depth = 2
      BY <3>1, <1>2, <2>1
    <3>3. Len(stack') = Depth
      BY <3>1, <1>5
    <3> QED BY <3>2, <3>3 DEF Depth
  <2>3. Depth' > 2 => ~query'.processing
    BY <1>8, <2>2
  <2>4. CASE query.processing
    BY <1>6, <1>8, <1>21, <2>2, <2>3, <2>4 DEF QueueInv
  <2>5. CASE ~query.processing
    BY <1>6, <1>8, <1>22, <2>3, <2>5 DEF QueueInv
  <2> QED BY <2>4, <2>5
<1> QED BY <1>6, <1>11, <1>12, <1>14, <1>18, <1>19, <1>23 DEF FInv

-----------------------------------------------------------------------------
(* The theorems.                                                           *)

LEMMA InvStep ==
  ASSUME FInv, [Next]_vars
  PROVE  FInv'
<1>1. CASE \E v \in Views : MoveCamera(v)
  BY <1>1, TimerStep
<1>2. CASE GetFrustum \/ Retry \/ BreakLoop
  BY <1>2, TimerStep
<1>3. CASE Resume
  BY <1>3, ResumeStep
<1>4. CASE Handler
  BY <1>4, RootHitStep, RootMissStep, RootsDoneStep, InterruptStep, DrawCellStep,
     RefineCellStep, ChildHitStep, ChildMissStep, ChildOutsideStep, ChildrenDoneStep,
     EndOfQueueStep DEF Handler
<1>5. CASE \E r \in requests : OnLoad(r)
  BY <1>5, OnLoadStep
<1>6. CASE \E r \in requests : OnFailure(r)
  BY <1>6, OnFailureStep
<1>7. CASE UNCHANGED vars
  BY <1>7, TimerStep
<1> QED BY <1>1, <1>2, <1>3, <1>4, <1>5, <1>6, <1>7 DEF Next

\* The inductive invariant of the querier.
THEOREM QuerierInvariant == Spec => []FInv
<1>1. FInv /\ [Next]_vars => FInv'
  BY InvStep
<1> QED BY InitInv, <1>1, PTL DEF Spec

\* A response belongs to the query that receives it: triggerFrustum aborts the
\* requests of the query before, as all are counted in inFlight, and until it is
\* interrupted a query queues no cell that is on request.
THEOREM ResponsesAreCurrent == Spec => []RequestsCurrent
<1>1. ASSUME FInv, NEW r \in requests
      PROVE  \/ r.cell \in ToSet(Roots)
             \/ ParentOf(r.cell) \cap
                  (Processed \cup {stack[i].cell : i \in 1..Len(stack)}) # {}
  <2>3. query.queue \in Seq(Cells) /\ query.index \in Nat
    BY <1>1 DEF FInv, FTypeOK, Queries
  <2>4. CASE r.cell \in ToSet(Roots)
    BY <2>4
  <2>5. CASE \E k \in 1 .. Len(query.queue) :
               k <= query.index /\ r.cell \in ToSet(Kids[query.queue[k]])
    <3>1. PICK k \in 1 .. Len(query.queue) :
                 k <= query.index /\ r.cell \in ToSet(Kids[query.queue[k]])
      BY <2>5
    <3>2. query.queue[k] \in ParentOf(r.cell)
      BY <2>3, <3>1 DEF ParentOf
    <3> DEFINE all == {query.queue[i] : i \in 1 .. query.index}
    <3> DEFINE done == SubSeq(query.queue, 1, query.index)
    <3>3. \A i \in 1 .. query.index : query.queue[i] \in all
      OBVIOUS
    <3>4. /\ done \in Seq(all) /\ Len(done) = query.index
          /\ \A i \in 1 .. query.index : done[i] = query.queue[i]
      <4> HIDE DEF all
      <4> QED BY <2>3, <3>3, SubSeqProperties
    <3> HIDE DEF all, done
    <3>5. k \in 1 .. query.index
      BY <2>3, <3>1
    <3>6. query.queue[k] \in ToSet(done)
      BY <3>4, <3>5, InToSet
    <3>7. query.queue[k] \in Processed
      BY <3>6 DEF Processed, done
    <3> QED BY <3>2, <3>7
  <2>6. CASE \E j \in 1 .. Depth : OnCell(j) /\ r.cell \in ToSet(Kids[stack[j].cell])
    BY <2>6 DEF ParentOf, OnCell, Depth
  <2> QED BY <1>1, <2>4, <2>5, <2>6 DEF FInv, Known
<1>2. FInv => Cardinality(requests) <= query.inFlight
  BY DEF FInv, Counted
<1>3. ASSUME FInv, ~query.interrupted, NEW r \in requests
      PROVE  /\ r.cell \notin ToSet(query.queue)
             /\ Idle => \A s \in requests : s.cell = r.cell => s = r
  BY <1>3 DEF FInv, NotQueued, Idle, Depth
<1>4. FInv => RequestsCurrent
  BY <1>1, <1>2, <1>3 DEF RequestsCurrent
<1> QED BY <1>4, QuerierInvariant, PTL

\* What the page draws has neither holes nor overlaps (show_children), for every
\* forest of cells, every camera and every order of the responses.
THEOREM DrawnWithoutHoles == Spec => []NoHolesNoOverlap
<1>1. FInv => NoHolesNoOverlap
  BY DEF FInv
<1> QED BY <1>1, QuerierInvariant, PTL
=============================================================================
