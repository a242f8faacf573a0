------------------------ MODULE RangeQueryLoopProofs ------------------------
(***************************************************************************)
(* The asynchronous range query: for every tree, every layout of its nodes *)
(* in files and every order of reads and evictions, each open handle is in *)
(* exactly one place, a call reads only nodes in memory, and the points    *)
(* returned are those that queryRange returns, each once.                  *)
(*                                                                         *)
(* HandlesOwned alone is not inductive: ReturnCall gives back the handle   *)
(* of the outermost call, which is the one at the front of the queue, and  *)
(* it is Shape that says the two are the same node.                        *)
(*                                                                         *)
(* ResultsExact says nothing of the points that are still to come.  RInv   *)
(* counts, for each expected point, where it is or from where it will be   *)
(* reached: among the results, below a node that waits or is to be loaded, *)
(* below the child just taken, or below a child that a running call has    *)
(* still to take.  The count is one in every state.                        *)
(***************************************************************************)
EXTENDS RangeQueryLoop, TLAPS, FiniteSetTheorems, SequenceTheorems

Frames == [node : Nodes, child : Nat \ {0}, getAll : BOOLEAN]

Typed ==
  /\ file \in [Files -> {"absent", "loading", "loaded"}]
  /\ handles \in [Nodes -> Nat]
  /\ queue \in Seq(Nodes) /\ toLoad \in Seq(Nodes) /\ fresh \in Seq(Nodes)
  /\ stack \in Seq(Frames)

\* The outermost call is on the front of the queue, and a child handle is taken
\* inside of a call, one at a time.
Shape ==
  /\ Len(fresh) <= 1
  /\ fresh # << >> => stack # << >>
  /\ stack # << >> => queue # << >> /\ stack[1].node = queue[1]

IInv == Typed /\ Shape /\ HandlesOwned

-----------------------------------------------------------------------------
(* Counting the places of a node, or of a kind of frame, in a sequence.     *)

At(T, s) == {i \in DOMAIN s : s[i] \in T}
Count(T, s) == Cardinality(At(T, s))
Bit(T, m) == IF m \in T THEN 1 ELSE 0
Held(n, st) == {i \in 2 .. Len(st) : st[i].node = n}
One(n, m) == IF m = n THEN 1 ELSE 0

\* The places are finitely many.
LEMMA CountNat ==
  ASSUME NEW T, NEW S, NEW s \in Seq(S)
  PROVE  IsFiniteSet(At(T, s)) /\ Count(T, s) \in Nat
<1>1. DOMAIN s = 1 .. Len(s) /\ Len(s) \in Nat  OBVIOUS
<1>2. IsFiniteSet(1 .. Len(s))  BY <1>1, FS_Interval
<1>3. At(T, s) \subseteq 1 .. Len(s)  BY <1>1 DEF At
<1>4. IsFiniteSet(At(T, s))  BY <1>2, <1>3, FS_Subset
<1> QED  BY <1>4, FS_CardinalityType DEF Count

\* A sequence of one
LEMMA CountSingle ==
  ASSUME NEW T, NEW m
  PROVE  Count(T, <<m>>) = Bit(T, m)
<1>1. DOMAIN <<m>> = {1} /\ <<m>>[1] = m  OBVIOUS
<1>2. CASE m \in T
  <2>1. At(T, <<m>>) = {1}  BY <1>1, <1>2 DEF At
  <2> QED  BY <2>1, <1>2, FS_Singleton DEF Count, Bit
<1>3. CASE m \notin T
  <2>1. At(T, <<m>>) = {}  BY <1>1, <1>3 DEF At
  <2> QED  BY <2>1, <1>3, FS_EmptySet DEF Count, Bit
<1> QED  BY <1>2, <1>3

\* The empty sequence
LEMMA CountEmpty ==
  ASSUME NEW T
  PROVE  Count(T, << >>) = 0
<1>1. At(T, << >>) = {}  BY DEF At
<1> QED  BY <1>1, FS_EmptySet DEF Count

\* Two sequences one after the other: no place is lost and none is new.
LEMMA CountConcat ==
  ASSUME NEW T, NEW S, NEW s \in Seq(S), NEW t \in Seq(S)
  PROVE  Count(T, s \o t) = Count(T, s) + Count(T, t)
<1> DEFINE shifted == {i \in Len(s) + 1 .. Len(s) + Len(t) : t[i - Len(s)] \in T}
           f == [i \in At(T, t) |-> i + Len(s)]
<1>1. Len(s) \in Nat /\ Len(t) \in Nat /\ DOMAIN s = 1 .. Len(s) /\ DOMAIN t = 1 .. Len(t)
  OBVIOUS
<1>2. s \o t \in Seq(S) /\ DOMAIN (s \o t) = 1 .. Len(s) + Len(t)  OBVIOUS
<1>3. At(T, s \o t) = At(T, s) \cup shifted
  <2>1. ASSUME NEW i \in At(T, s \o t)  PROVE i \in At(T, s) \cup shifted
    BY <1>1, <1>2 DEF At
  <2>2. ASSUME NEW i \in At(T, s)  PROVE i \in At(T, s \o t)  BY <1>1, <1>2 DEF At
  <2>3. ASSUME NEW i \in shifted  PROVE i \in At(T, s \o t)  BY <1>1, <1>2 DEF At
  <2> QED  BY <2>1, <2>2, <2>3
<1>4. At(T, s) \cap shifted = {}  BY <1>1 DEF At
<1>5. IsFiniteSet(At(T, s)) /\ IsFiniteSet(At(T, t))  BY CountNat
<1>6. f \in Bijection(At(T, t), shifted)
  <2>1. ASSUME NEW i \in At(T, t)  PROVE f[i] \in shifted
    BY <1>1 DEF At
  <2>2. ASSUME NEW i \in At(T, t), NEW j \in At(T, t), f[i] = f[j]  PROVE i = j
    BY <1>1, <2>2 DEF At
  <2>3. ASSUME NEW k \in shifted  PROVE \E i \in At(T, t) : f[i] = k
    <3>1. k - Len(s) \in At(T, t)  BY <1>1 DEF At
    <3>2. f[k - Len(s)] = k  BY <3>1, <1>1
    <3> QED  BY <3>1, <3>2
  <2>4. f \in [At(T, t) -> shifted]  BY <2>1
  <2>5. f \in Injection(At(T, t), shifted)  BY <2>4, <2>2 DEF Injection, IsInjective
  <2>6. f \in Surjection(At(T, t), shifted)  BY <2>4, <2>3 DEF Surjection
  <2> QED  BY <2>5, <2>6 DEF Bijection
<1> HIDE DEF shifted, f
<1>7. IsFiniteSet(shifted) /\ Cardinality(shifted) = Cardinality(At(T, t))
  <2>1. ExistsBijection(At(T, t), shifted)  BY <1>6 DEF ExistsBijection
  <2> QED  BY <2>1, <1>5, FS_Bijection
<1>8. Cardinality(At(T, s) \cup shifted) = Cardinality(At(T, s)) + Cardinality(shifted)
  <2>1. Cardinality(At(T, s) \cup shifted)
          = Cardinality(At(T, s)) + Cardinality(shifted) - Cardinality(At(T, s) \cap shifted)
    BY <1>5, <1>7, FS_Union
  <2>2. Cardinality(At(T, s) \cap shifted) = 0  BY <1>4, FS_EmptySet
  <2>3. Cardinality(At(T, s)) \in Nat /\ Cardinality(shifted) \in Nat
    BY <1>5, <1>7, FS_CardinalityType
  <2> QED  BY <2>1, <2>2, <2>3
<1> QED  BY <1>3, <1>7, <1>8 DEF Count

\* The first of a sequence, and the others
LEMMA CountTail ==
  ASSUME NEW T, NEW S, NEW s \in Seq(S), s # << >>
  PROVE  /\ Tail(s) \in Seq(S) /\ s[1] \in S /\ Head(s) = s[1]
         /\ Count(T, s) = Bit(T, s[1]) + Count(T, Tail(s))
<1>1. Tail(s) \in Seq(S) /\ s[1] \in S /\ Head(s) = s[1]  OBVIOUS
<1>2. s = <<s[1]>> \o Tail(s)  OBVIOUS
<1>3. <<s[1]>> \in Seq(S)  BY <1>1
<1>4. Count(T, <<s[1]>> \o Tail(s)) = Count(T, <<s[1]>>) + Count(T, Tail(s))
  BY <1>1, <1>3, CountConcat
<1> QED  BY <1>1, <1>2, <1>4, CountSingle

\* One more at the end
LEMMA CountAppend ==
  ASSUME NEW T, NEW S, NEW s \in Seq(S), NEW m \in S
  PROVE  /\ Append(s, m) \in Seq(S)
         /\ Count(T, Append(s, m)) = Count(T, s) + Bit(T, m)
<1>1. Append(s, m) = s \o <<m>> /\ <<m>> \in Seq(S)  OBVIOUS
<1>2. Count(T, s \o <<m>>) = Count(T, s) + Count(T, <<m>>)  BY <1>1, CountConcat
<1> QED  BY <1>1, <1>2, CountSingle

\* InSeq counts one node.
LEMMA InSeqCount ==
  ASSUME NEW n, NEW s
  PROVE  InSeq(n, s) = Count({n}, s)
<1>1. At({n}, s) = {i \in DOMAIN s : s[i] = n}  BY DEF At
<1> QED  BY <1>1 DEF Count, InSeq

\* So does a bit.
LEMMA OneBit ==
  ASSUME NEW n, NEW m
  PROVE  One(n, m) = Bit({n}, m)
BY DEF One, Bit

\* The same facts about the places of one node
LEMMA InSeqNat ==
  ASSUME NEW n, NEW S, NEW s \in Seq(S)
  PROVE  InSeq(n, s) \in Nat
BY CountNat, InSeqCount

\* A sequence of one node
LEMMA InSeqSingle ==
  ASSUME NEW n, NEW m
  PROVE  InSeq(n, <<m>>) = One(n, m)
BY CountSingle, InSeqCount, OneBit

\* No node
LEMMA InSeqEmpty ==
  ASSUME NEW n
  PROVE  InSeq(n, << >>) = 0
BY CountEmpty, InSeqCount

\* The nodes of two sequences
LEMMA InSeqConcat ==
  ASSUME NEW n, NEW S, NEW s \in Seq(S), NEW t \in Seq(S)
  PROVE  InSeq(n, s \o t) = InSeq(n, s) + InSeq(n, t)
BY CountConcat, InSeqCount

\* The first node of a sequence, and the others
LEMMA InSeqTail ==
  ASSUME NEW n, NEW S, NEW s \in Seq(S), s # << >>
  PROVE  /\ Tail(s) \in Seq(S) /\ s[1] \in S /\ Head(s) = s[1]
         /\ InSeq(n, s) = One(n, s[1]) + InSeq(n, Tail(s))
BY CountTail, InSeqCount, OneBit

\* One more node at the end
LEMMA InSeqAppend ==
  ASSUME NEW n, NEW S, NEW s \in Seq(S), NEW m \in S
  PROVE  /\ Append(s, m) \in Seq(S)
         /\ InSeq(n, Append(s, m)) = InSeq(n, s) + One(n, m)
BY CountAppend, InSeqCount, OneBit

\* The calls inside of the outermost are finitely many.
LEMMA HeldNat ==
  ASSUME NEW n, NEW st \in Seq(Frames)
  PROVE  IsFiniteSet(Held(n, st)) /\ Cardinality(Held(n, st)) \in Nat
<1>1. Len(st) \in Nat  OBVIOUS
<1>2. IsFiniteSet(2 .. Len(st))  BY <1>1, FS_Interval
<1>3. Held(n, st) \subseteq 2 .. Len(st)  BY DEF Held
<1> QED  BY <1>2, <1>3, FS_Subset, FS_CardinalityType

\* A call more: it holds its node's handle, unless it is the outermost.
LEMMA HeldPush ==
  ASSUME NEW n, NEW st \in Seq(Frames), st # << >>, NEW fr \in Frames
  PROVE  Cardinality(Held(n, Append(st, fr))) = Cardinality(Held(n, st)) + One(n, fr.node)
<1>1. Len(st) \in Nat /\ Len(st) >= 1  OBVIOUS
<1>2. Len(Append(st, fr)) = Len(st) + 1  OBVIOUS
<1>3. \A i \in 1 .. Len(st) : Append(st, fr)[i] = st[i]  OBVIOUS
<1>4. Append(st, fr)[Len(st) + 1] = fr  OBVIOUS
<1>5. CASE fr.node = n
  <2>1. Held(n, Append(st, fr)) = Held(n, st) \cup {Len(st) + 1}
    BY <1>1, <1>2, <1>3, <1>4, <1>5 DEF Held
  <2>2. Len(st) + 1 \notin Held(n, st)  BY <1>1 DEF Held
  <2>3. Cardinality(Held(n, st) \cup {Len(st) + 1}) = Cardinality(Held(n, st)) + 1
    BY <2>2, HeldNat, FS_AddElement
  <2> QED  BY <2>1, <2>3, <1>5 DEF One
<1>6. CASE fr.node # n
  <2>1. Held(n, Append(st, fr)) = Held(n, st)
    BY <1>1, <1>2, <1>3, <1>4, <1>6 DEF Held
  <2> QED  BY <2>1, <1>6, HeldNat DEF One
<1> QED  BY <1>5, <1>6

\* The calls left when the innermost returns
LEMMA FrontFrames ==
  ASSUME NEW st \in Seq(Frames), Len(st) >= 1
  PROVE  /\ Front(st) \in Seq(Frames) /\ Len(Front(st)) = Len(st) - 1
         /\ \A i \in 1 .. Len(st) - 1 : Front(st)[i] = st[i]
<1>1. Len(st) \in Nat /\ Len(st) - 1 \in Nat  OBVIOUS
<1>2. Front(st) = SubSeq(st, 1, Len(st) - 1)  BY DEF Front
<1>3. SubSeq(st, 1, Len(st) - 1) = [i \in 1 .. Len(st) - 1 |-> st[i]]  BY <1>1
<1>4. \A i \in 1 .. Len(st) - 1 : st[i] \in Frames  BY <1>1
<1>5. [i \in 1 .. Len(st) - 1 |-> st[i]] \in Seq(Frames)  BY <1>1, <1>4
<1>6. Len([i \in 1 .. Len(st) - 1 |-> st[i]]) = Len(st) - 1  BY <1>1
<1>7. Front(st) \in Seq(Frames) /\ Len(Front(st)) = Len(st) - 1  BY <1>2, <1>3, <1>5, <1>6
<1>8. \A i \in 1 .. Len(st) - 1 : Front(st)[i] = st[i]  BY <1>2, <1>3
<1> QED  BY <1>7, <1>8

\* The innermost of several calls has returned.
LEMMA HeldFront ==
  ASSUME NEW n, NEW st \in Seq(Frames), Len(st) > 1
  PROVE  Cardinality(Held(n, st)) = Cardinality(Held(n, Front(st))) + One(n, Last(st).node)
<1>1. Len(st) \in Nat  OBVIOUS
<1>0. /\ Front(st) \in Seq(Frames) /\ Len(Front(st)) = Len(st) - 1
      /\ \A i \in 1 .. Len(st) - 1 : Front(st)[i] = st[i]
  BY FrontFrames
<1>2. Front(st) \in Seq(Frames) /\ Front(st) # << >> /\ Last(st) \in Frames
  <2>1. Front(st) # << >>  BY <1>0, <1>1
  <2>2. Last(st) \in Frames  BY <1>1 DEF Last
  <2> QED  BY <1>0, <2>1, <2>2
<1>3. st = Append(Front(st), Last(st))
  <2>1. Len(Front(st)) = Len(st) - 1 /\ \A i \in 1 .. Len(st) - 1 : Front(st)[i] = st[i]
    BY <1>0
  <2>2. Len(Append(Front(st), Last(st))) = Len(st)  BY <1>1, <1>2, <2>1
  <2>3. ASSUME NEW i \in 1 .. Len(st)  PROVE Append(Front(st), Last(st))[i] = st[i]
    <3>1. CASE i = Len(st)  BY <1>1, <1>2, <2>1, <3>1 DEF Last
    <3>2. CASE i < Len(st)  BY <1>1, <1>2, <2>1, <3>2
    <3>3. i = Len(st) \/ i < Len(st)  BY <1>1
    <3> QED  BY <3>1, <3>2, <3>3
  <2>4. Append(Front(st), Last(st)) \in Seq(Frames)  BY <1>2
  <2> QED  BY <2>2, <2>3, <2>4
<1>4. Cardinality(Held(n, Append(Front(st), Last(st))))
        = Cardinality(Held(n, Front(st))) + One(n, Last(st).node)
  BY <1>2, HeldPush
<1> QED  BY <1>3, <1>4

-----------------------------------------------------------------------------
(* The invariant.                                                          *)

\* The count of HandlesOwned in the terms of the lemmas above
LEMMA PlacesSum ==
  ASSUME NEW n
  PROVE  Places(n) = InSeq(n, queue) + InSeq(n, toLoad) + InSeq(n, fresh)
                       + Cardinality(Held(n, stack))
BY DEF Places, Held

\* The same of the next state
LEMMA PlacesSumNext ==
  ASSUME NEW n
  PROVE  Places(n)' = InSeq(n, queue') + InSeq(n, toLoad') + InSeq(n, fresh')
                        + Cardinality(Held(n, stack'))
BY DEF Places, Held, InSeq

\* Every part of the count is a number.
LEMMA PartsNat ==
  ASSUME Typed, NEW n
  PROVE  /\ InSeq(n, queue) \in Nat /\ InSeq(n, toLoad) \in Nat /\ InSeq(n, fresh) \in Nat
         /\ Cardinality(Held(n, stack)) \in Nat
<1>1. queue \in Seq(Nodes) /\ toLoad \in Seq(Nodes) /\ fresh \in Seq(Nodes)  BY DEF Typed
<1>2. stack \in Seq(Frames)  BY DEF Typed
<1> QED  BY <1>1, <1>2, InSeqNat, HeldNat

\* Every node of a running call is held by an open handle.
LEMMA StackHeld ==
  ASSUME IInv, NEW i \in DOMAIN stack
  PROVE  stack[i].node \in Nodes /\ handles[stack[i].node] > 0
<1> DEFINE n == stack[i].node
<1>1. stack \in Seq(Frames) /\ queue \in Seq(Nodes)  BY DEF IInv, Typed
<1>2. stack[i] \in Frames /\ i \in 1 .. Len(stack) /\ Len(stack) \in Nat  BY <1>1
<1>3. n \in Nodes  BY <1>2 DEF Frames
<1>4. handles[n] = InSeq(n, queue) + InSeq(n, toLoad) + InSeq(n, fresh)
                     + Cardinality(Held(n, stack))
  BY <1>3, PlacesSum DEF IInv, HandlesOwned
<1>5. /\ InSeq(n, queue) \in Nat /\ InSeq(n, toLoad) \in Nat /\ InSeq(n, fresh) \in Nat
      /\ Cardinality(Held(n, stack)) \in Nat
  BY PartsNat DEF IInv
<1>6. CASE i = 1
  <2>1. queue # << >> /\ queue[1] = n
    BY <1>1, <1>2, <1>6 DEF IInv, Shape
  <2>2. InSeq(n, queue) = One(n, queue[1]) + InSeq(n, Tail(queue)) /\ Tail(queue) \in Seq(Nodes)
    BY <1>1, <2>1, InSeqTail
  <2>3. InSeq(n, Tail(queue)) \in Nat  BY <2>2, InSeqNat
  <2>4. InSeq(n, queue) > 0  BY <2>1, <2>2, <2>3 DEF One
  <2> QED  BY <1>3, <1>4, <1>5, <2>4
<1>7. CASE i # 1
  <2>1. i \in Held(n, stack)  BY <1>2, <1>7 DEF Held
  <2>2. Cardinality(Held(n, stack)) > 0
    <3>1. Cardinality(Held(n, stack)) # 0  BY <2>1, <1>1, HeldNat, FS_EmptySet
    <3> QED  BY <3>1, <1>5
  <2> QED  BY <1>3, <1>4, <1>5, <2>2
<1> QED  BY <1>6, <1>7

\* Frames that keep their nodes hold the same handles.
LEMMA HeldSame ==
  ASSUME NEW n, NEW st, NEW st2, Len(st2) = Len(st), \A i \in 1 .. Len(st) : st2[i].node = st[i].node,
         Len(st) \in Nat
  PROVE  Held(n, st2) = Held(n, st)
BY DEF Held

\* The next child of the innermost call: only its number changes.
LEMMA SteppedFrames ==
  ASSUME Typed, stack # << >>
  PROVE  /\ Stepped \in Seq(Frames) /\ Len(Stepped) = Len(stack) /\ Stepped # << >>
         /\ \A i \in 1 .. Len(stack) : Stepped[i].node = stack[i].node
<1>1. stack \in Seq(Frames) /\ Len(stack) \in Nat /\ Len(stack) >= 1  BY DEF Typed
<1>2. stack[Len(stack)] \in Frames  BY <1>1
<1>3. DOMAIN Stepped = 1 .. Len(stack)  BY <1>1 DEF Stepped
<1>4. ASSUME NEW i \in 1 .. Len(stack)
      PROVE  Stepped[i] \in Frames /\ Stepped[i].node = stack[i].node
  <2>1. stack[i] \in Frames  BY <1>1
  <2>2. CASE i = Len(stack)
    <3>1. Stepped[i] = [stack[i] EXCEPT !.child = @ + 1]  BY <1>1, <2>2 DEF Stepped
    <3> QED  BY <2>1, <3>1 DEF Frames
  <2>3. CASE i # Len(stack)
    <3>1. Stepped[i] = stack[i]  BY <1>1, <2>3 DEF Stepped
    <3> QED  BY <2>1, <3>1
  <2> QED  BY <2>2, <2>3
<1>5. Stepped = [i \in 1 .. Len(stack) |-> Stepped[i]]  BY <1>1, <1>3 DEF Stepped
<1>6. [i \in 1 .. Len(stack) |-> Stepped[i]] \in Seq(Frames)
      /\ Len([i \in 1 .. Len(stack) |-> Stepped[i]]) = Len(stack)
  BY <1>1, <1>4
<1> HIDE DEF Stepped
<1>7. Stepped \in Seq(Frames) /\ Len(Stepped) = Len(stack)  BY <1>5, <1>6
<1> QED  BY <1>1, <1>4, <1>7

-----------------------------------------------------------------------------
(* Each step keeps the invariant.                                          *)

\* The first state
LEMMA InitInv == Init => IInv
<1> SUFFICES ASSUME Init  PROVE IInv  OBVIOUS
<1> USE TreeAssumption
<1>1. Typed  BY DEF Init, Typed
<1>2. Shape  BY DEF Init, Shape
<1>3. ASSUME NEW n \in Nodes  PROVE handles[n] = Places(n)
  <2>1. InSeq(n, queue) = One(n, Root)  BY InSeqSingle DEF Init
  <2>2. InSeq(n, toLoad) = 0 /\ InSeq(n, fresh) = 0  BY InSeqEmpty DEF Init
  <2>3. Held(n, stack) = {}  BY DEF Init, Held
  <2>4. Cardinality(Held(n, stack)) = 0  BY <2>3, FS_EmptySet
  <2>5. handles[n] = One(n, Root)  BY DEF Init, One
  <2>6. One(n, Root) \in Nat  BY DEF One
  <2> QED  BY <2>1, <2>2, <2>4, <2>5, <2>6, PlacesSum
<1>4. \A i \in DOMAIN stack : Loaded(stack[i].node)  BY DEF Init
<1> QED  BY <1>1, <1>2, <1>3, <1>4 DEF IInv, HandlesOwned

\* Nothing that the invariant is about changes.
LEMMA SameInv ==
  ASSUME IInv, UNCHANGED <<file, handles, queue, toLoad, stack, fresh>>
  PROVE  IInv'
BY DEF IInv, Typed, Shape, HandlesOwned, Places, InSeq, Loaded

\* The parts of the invariant in the next state
LEMMA Together ==
  ASSUME Typed', Shape', \A n \in Nodes : handles'[n] = Places(n)',
         \A i \in DOMAIN stack' : file'[FileOf[stack'[i].node]] = "loaded"
  PROVE  IInv'
<1>1. HandlesOwned'  BY DEF HandlesOwned, Loaded
<1> QED  BY <1>1 DEF IInv

\* The count of the places of a node in this state and in the next
LEMMA Counted ==
  ASSUME IInv, NEW n \in Nodes
  PROVE  /\ handles[n] = InSeq(n, queue) + InSeq(n, toLoad) + InSeq(n, fresh)
                           + Cardinality(Held(n, stack))
         /\ InSeq(n, queue) \in Nat /\ InSeq(n, toLoad) \in Nat /\ InSeq(n, fresh) \in Nat
         /\ Cardinality(Held(n, stack)) \in Nat
<1>1. handles[n] = Places(n)  BY DEF IInv, HandlesOwned
<1>2. Typed  BY DEF IInv
<1> QED  BY <1>1, <1>2, PlacesSum, PartsNat

\* The innermost call
LEMMA TopFrame ==
  ASSUME Typed, stack # << >>
  PROVE  Top \in Frames /\ Top = stack[Len(stack)] /\ Len(stack) \in Nat /\ Len(stack) >= 1
<1>1. stack \in Seq(Frames)  BY DEF Typed
<1>2. Len(stack) \in Nat /\ Len(stack) >= 1  BY <1>1
<1>3. Top = stack[Len(stack)]  BY DEF Top, Last
<1>4. stack[Len(stack)] \in Frames  BY <1>1, <1>2
<1> QED  BY <1>2, <1>3, <1>4

\* A turn begins: the handle stays on the queue.
LEMMA TakeFrontInv ==
  ASSUME IInv, TakeFront
  PROVE  IInv'
<1>1. /\ stack = << >> /\ queue # << >> /\ Loaded(queue[1]) /\ queue \in Seq(Nodes)
      /\ stack' = <<Frame(queue[1], FALSE)>> /\ queue[1] \in Nodes
      /\ UNCHANGED <<file, handles, queue, toLoad, fresh>>
  BY DEF IInv, Typed, TakeFront
<1>2. Frame(queue[1], FALSE) \in Frames /\ Frame(queue[1], FALSE).node = queue[1]
  BY <1>1 DEF Frame, Frames
<1>3. PICK fr \in Frames : fr.node = queue[1] /\ stack' = <<fr>>  BY <1>1, <1>2
<1>4. Typed'
  <2>1. stack' \in Seq(Frames)  BY <1>3
  <2> QED  BY <1>1, <2>1 DEF IInv, Typed
<1>5. Shape'
  <2>1. stack' # << >> /\ stack'[1].node = queue[1]  BY <1>3
  <2> QED  BY <1>1, <2>1 DEF IInv, Shape
<1>6. ASSUME NEW n \in Nodes  PROVE handles'[n] = Places(n)'
  <2>1. Held(n, stack) = {}  BY <1>1 DEF Held
  <2>2. Held(n, stack') = {}  BY <1>3 DEF Held
  <2>3. handles[n] = Places(n)  BY DEF IInv, HandlesOwned
  <2> QED  BY <1>1, <2>1, <2>2, <2>3, PlacesSum, PlacesSumNext
<1>7. ASSUME NEW i \in DOMAIN stack'  PROVE file'[FileOf[stack'[i].node]] = "loaded"
  <2>1. i = 1 /\ stack'[1] = fr  BY <1>3
  <2>2. file'[FileOf[queue[1]]] = "loaded"  BY <1>1 DEF Loaded
  <2> QED  BY <1>3, <2>1, <2>2
<1> QED  BY <1>4, <1>5, <1>6, <1>7, Together

\* A node that is still being read goes to the back, with its handle.
LEMMA MoveToBackInv ==
  ASSUME IInv, MoveToBack
  PROVE  IInv'
<1>1. /\ stack = << >> /\ queue # << >> /\ queue \in Seq(Nodes)
      /\ queue' = Append(Tail(queue), queue[1]) /\ queue[1] \in Nodes
      /\ Tail(queue) \in Seq(Nodes)
      /\ UNCHANGED <<file, handles, toLoad, stack, fresh>>
  BY DEF IInv, Typed, MoveToBack
<1>2. Typed'  BY <1>1 DEF IInv, Typed
<1>3. Shape'  BY <1>1 DEF IInv, Shape
<1>4. ASSUME NEW n \in Nodes  PROVE handles'[n] = Places(n)'
  <2>1. InSeq(n, queue) = One(n, queue[1]) + InSeq(n, Tail(queue))  BY <1>1, InSeqTail
  <2>2. InSeq(n, queue') = InSeq(n, Tail(queue)) + One(n, queue[1])  BY <1>1, InSeqAppend
  <2>3. InSeq(n, Tail(queue)) \in Nat /\ One(n, queue[1]) \in Nat
    BY <1>1, InSeqNat DEF One
  <2>4. InSeq(n, queue') = InSeq(n, queue)  BY <2>1, <2>2, <2>3
  <2>5. handles[n] = Places(n)  BY DEF IInv, HandlesOwned
  <2> QED  BY <1>1, <2>4, <2>5, PlacesSum, PlacesSumNext
<1>5. ASSUME NEW i \in DOMAIN stack'  PROVE file'[FileOf[stack'[i].node]] = "loaded"
  BY <1>1 DEF Loaded
<1> QED  BY <1>2, <1>3, <1>4, <1>5, Together

\* getChildNode opens a handle, and reads a file that is absent; no file of a
\* running call is.
LEMMA GetChildInv ==
  ASSUME IInv, GetChild
  PROVE  IInv'
<1> USE TreeAssumption
<1> DEFINE c == Kids[Top.node][Top.child]
<1>1. /\ stack # << >> /\ stack \in Seq(Frames) /\ fresh = << >>
      /\ fresh' = <<c>> /\ handles' = Opened(c)
      /\ file' = [file EXCEPT ![FileOf[c]] = IF @ = "absent" THEN "loading" ELSE @]
      /\ UNCHANGED <<queue, toLoad, stack>>
  BY DEF IInv, Typed, GetChild, Calling
<1>2. Top \in Frames  BY <1>1, TopFrame DEF IInv
<1>3. c \in Nodes
  <2>1. Top.node \in Nodes /\ Top.child \in Nat \ {0}  BY <1>2 DEF Frames
  <2>2. Kids[Top.node] \in Seq(Nodes)  BY <2>1
  <2>3. ~(Top.child > Len(Kids[Top.node]))  BY DEF GetChild, Ended
  <2>4. Top.child \in 1 .. Len(Kids[Top.node])  BY <2>1, <2>2, <2>3
  <2> QED  BY <2>2, <2>4
<1> HIDE DEF c
<1>4. /\ file \in [Files -> {"absent", "loading", "loaded"}] /\ handles \in [Nodes -> Nat]
      /\ FileOf[c] \in Files
  BY <1>3 DEF IInv, Typed
<1>5. Typed'
  <2>1. file' \in [Files -> {"absent", "loading", "loaded"}]  BY <1>1, <1>4
  <2>2. handles' \in [Nodes -> Nat]  BY <1>1, <1>3, <1>4 DEF Opened
  <2>3. fresh' \in Seq(Nodes)  BY <1>1, <1>3
  <2> QED  BY <1>1, <2>1, <2>2, <2>3 DEF IInv, Typed
<1>6. Shape'  BY <1>1 DEF IInv, Shape
<1>7. ASSUME NEW n \in Nodes  PROVE handles'[n] = Places(n)'
  <2>1. InSeq(n, fresh) = 0 /\ InSeq(n, fresh') = One(n, c)
    BY <1>1, InSeqEmpty, InSeqSingle
  <2>2. handles'[n] = handles[n] + One(n, c)  BY <1>1, <1>3, <1>4 DEF Opened, One
  <2>3. One(n, c) \in Nat  BY DEF One
  <2>4. Places(n)' = InSeq(n, queue) + InSeq(n, toLoad) + InSeq(n, fresh')
                       + Cardinality(Held(n, stack))
    BY <1>1, PlacesSumNext
  <2>5. /\ handles[n] = InSeq(n, queue) + InSeq(n, toLoad) + InSeq(n, fresh)
                            + Cardinality(Held(n, stack))
        /\ InSeq(n, queue) \in Nat /\ InSeq(n, toLoad) \in Nat
        /\ Cardinality(Held(n, stack)) \in Nat
    BY Counted
  <2> QED  BY <2>1, <2>2, <2>3, <2>4, <2>5
<1>8. ASSUME NEW i \in DOMAIN stack'  PROVE file'[FileOf[stack'[i].node]] = "loaded"
  <2>1. i \in DOMAIN stack /\ stack'[i] = stack[i] /\ stack[i].node \in Nodes
    BY <1>1, StackHeld
  <2>2. Loaded(stack[i].node)  BY <2>1 DEF IInv, HandlesOwned
  <2>3. FileOf[stack[i].node] \in Files  BY <2>1
  <2> QED  BY <1>1, <1>4, <2>1, <2>2, <2>3 DEF Loaded
<1> QED  BY <1>5, <1>6, <1>7, <1>8, Together

\* A child that is being read is kept for a later turn, with its handle.
LEMMA LoadLaterInv ==
  ASSUME IInv, LoadLater
  PROVE  IInv'
<1>1. /\ stack # << >> /\ toLoad \in Seq(Nodes) /\ fresh \in Seq(Nodes)
      /\ toLoad' = toLoad \o fresh /\ fresh' = << >> /\ stack' = Stepped
      /\ UNCHANGED <<file, handles, queue>>
  BY DEF IInv, Typed, Shape, LoadLater
<1>2. /\ stack' \in Seq(Frames) /\ Len(stack') = Len(stack) /\ stack' # << >>
      /\ \A i \in 1 .. Len(stack) : stack'[i].node = stack[i].node
      /\ stack \in Seq(Frames) /\ Len(stack) \in Nat /\ Len(stack) >= 1
  BY <1>1, SteppedFrames, TopFrame DEF IInv, Typed
<1>3. Typed'
  <2>1. toLoad' \in Seq(Nodes) /\ fresh' \in Seq(Nodes)  BY <1>1
  <2> QED  BY <1>1, <1>2, <2>1 DEF IInv, Typed
<1>4. Shape'
  <2>1. stack'[1].node = stack[1].node  BY <1>2
  <2> QED  BY <1>1, <1>2, <2>1 DEF IInv, Shape
<1>5. ASSUME NEW n \in Nodes  PROVE handles'[n] = Places(n)'
  <2>1. InSeq(n, toLoad') = InSeq(n, toLoad) + InSeq(n, fresh)  BY <1>1, InSeqConcat
  <2>2. InSeq(n, fresh') = 0  BY <1>1, InSeqEmpty
  <2>3. Held(n, stack') = Held(n, stack)  BY <1>2, HeldSame
  <2>4. Places(n)' = InSeq(n, queue) + InSeq(n, toLoad') + InSeq(n, fresh')
                       + Cardinality(Held(n, stack))
    BY <1>1, <2>3, PlacesSumNext
  <2>5. /\ handles[n] = InSeq(n, queue) + InSeq(n, toLoad) + InSeq(n, fresh)
                           + Cardinality(Held(n, stack))
        /\ InSeq(n, queue) \in Nat /\ InSeq(n, toLoad) \in Nat /\ InSeq(n, fresh) \in Nat
        /\ Cardinality(Held(n, stack)) \in Nat
    BY Counted
  <2> QED  BY <1>1, <2>1, <2>2, <2>4, <2>5
<1>6. ASSUME NEW i \in DOMAIN stack'  PROVE file'[FileOf[stack'[i].node]] = "loaded"
  <2>1. i \in DOMAIN stack /\ stack'[i].node = stack[i].node  BY <1>2
  <2>2. Loaded(stack[i].node)  BY <2>1 DEF IInv, HandlesOwned
  <2> QED  BY <1>1, <2>1, <2>2 DEF Loaded
<1> QED  BY <1>3, <1>4, <1>5, <1>6, Together

\* A call of a child whose file is loaded: the handle goes to the call.
LEMMA RecurseInv ==
  ASSUME IInv, Recurse
  PROVE  IInv'
<1>1. /\ fresh # << >> /\ stack # << >> /\ fresh \in Seq(Nodes) /\ Len(fresh) <= 1
      /\ stack' = Append(Stepped, Frame(fresh[1], GetAll)) /\ fresh' = << >>
      /\ UNCHANGED <<file, handles, queue, toLoad>>
  BY DEF IInv, Typed, Shape, Recurse
<1>2. /\ Stepped \in Seq(Frames) /\ Len(Stepped) = Len(stack) /\ Stepped # << >>
      /\ \A i \in 1 .. Len(stack) : Stepped[i].node = stack[i].node
      /\ stack \in Seq(Frames) /\ Len(stack) \in Nat /\ Len(stack) >= 1
  BY <1>1, SteppedFrames, TopFrame DEF IInv, Typed
<1>3. fresh[1] \in Nodes /\ fresh = <<fresh[1]>>
  <2>1. Len(fresh) = 1
    <3>1. Len(fresh) \in Nat /\ Len(fresh) # 0  BY <1>1
    <3>2. Len(fresh) <= 1  BY DEF IInv, Shape
    <3>3. \A k \in Nat : k # 0 /\ k <= 1 => k = 1  OBVIOUS
    <3> QED  BY <3>1, <3>2, <3>3, Zenon
  <2>2. fresh[1] \in Nodes  BY <1>1, <2>1
  <2>3. fresh = <<fresh[1]>>  BY <1>1, <2>1
  <2> QED  BY <2>2, <2>3
<1>4. PICK fr \in Frames : fr.node = fresh[1] /\ stack' = Append(Stepped, fr)
  <2>1. Top.getAll \in BOOLEAN  BY <1>1, TopFrame DEF IInv, Frames
  <2>2. GetAll \in BOOLEAN  BY <2>1 DEF GetAll
  <2>3. Frame(fresh[1], GetAll) \in Frames  BY <1>3, <2>2 DEF Frame, Frames
  <2>4. Frame(fresh[1], GetAll).node = fresh[1]  BY DEF Frame
  <2> QED  BY <1>1, <2>3, <2>4
<1>5. /\ stack' \in Seq(Frames) /\ stack' # << >> /\ Len(stack') = Len(stack) + 1
      /\ stack'[Len(stack) + 1] = fr
  BY <1>2, <1>4
<1>6. \A i \in 1 .. Len(stack) : stack'[i].node = stack[i].node
  <2>1. \A i \in 1 .. Len(stack) : stack'[i] = Stepped[i]  BY <1>2, <1>4
  <2> QED  BY <1>2, <2>1
<1>7. Typed'
  <2>1. fresh' \in Seq(Nodes)  BY <1>1
  <2> QED  BY <1>1, <1>5, <2>1 DEF IInv, Typed
<1>8. Shape'
  <2>1. stack'[1].node = stack[1].node  BY <1>2, <1>6
  <2> QED  BY <1>1, <1>5, <2>1 DEF IInv, Shape
<1>9. ASSUME NEW n \in Nodes  PROVE handles'[n] = Places(n)'
  <2>1. InSeq(n, fresh) = One(n, fr.node) /\ InSeq(n, fresh') = 0
    BY <1>1, <1>3, <1>4, InSeqEmpty, InSeqSingle
  <2>2. Held(n, Stepped) = Held(n, stack)  BY <1>2, HeldSame
  <2>3. Cardinality(Held(n, stack')) = Cardinality(Held(n, stack)) + One(n, fr.node)
    BY <1>2, <1>4, <2>2, HeldPush
  <2>4. Places(n)' = InSeq(n, queue) + InSeq(n, toLoad) + InSeq(n, fresh')
                       + Cardinality(Held(n, stack'))
    BY <1>1, PlacesSumNext
  <2>5. /\ handles[n] = InSeq(n, queue) + InSeq(n, toLoad) + InSeq(n, fresh)
                           + Cardinality(Held(n, stack))
        /\ InSeq(n, queue) \in Nat /\ InSeq(n, toLoad) \in Nat /\ InSeq(n, fresh) \in Nat
        /\ Cardinality(Held(n, stack)) \in Nat
    BY Counted
  <2> QED  BY <1>1, <2>1, <2>3, <2>4, <2>5
<1>10. ASSUME NEW i \in DOMAIN stack'  PROVE file'[FileOf[stack'[i].node]] = "loaded"
  <2>1. i \in 1 .. Len(stack) \/ i = Len(stack) + 1  BY <1>2, <1>5
  <2>2. CASE i \in 1 .. Len(stack)
    <3>1. Loaded(stack[i].node)  BY <1>2, <2>2 DEF IInv, HandlesOwned
    <3> QED  BY <1>1, <1>6, <2>2, <3>1 DEF Loaded
  <2>3. CASE i = Len(stack) + 1
    <3>1. Loaded(fr.node)  BY <1>4 DEF Recurse
    <3> QED  BY <1>1, <1>5, <2>3, <3>1 DEF Loaded
  <2> QED  BY <2>1, <2>2, <2>3
<1> QED  BY <1>7, <1>8, <1>9, <1>10, Together

\* A call returns and its handle is released; when it was the outermost, the
\* node leaves the queue and the nodes to load join it.
LEMMA ReturnCallInv ==
  ASSUME IInv, ReturnCall
  PROVE  IInv'
<1>1. /\ stack # << >> /\ stack \in Seq(Frames) /\ fresh = << >>
      /\ handles' = Released(Top.node) /\ stack' = Front(stack)
      /\ IF Len(stack) = 1 THEN queue' = AfterTurn /\ toLoad' = << >>
                           ELSE UNCHANGED <<queue, toLoad>>
      /\ UNCHANGED <<file, fresh>>
  BY DEF IInv, Typed, ReturnCall, Calling
<1>2. Top \in Frames /\ Top = stack[Len(stack)] /\ Len(stack) \in Nat /\ Len(stack) >= 1
  BY <1>1, TopFrame DEF IInv
<1>3. /\ stack' \in Seq(Frames) /\ Len(stack') = Len(stack) - 1
      /\ \A i \in 1 .. Len(stack) - 1 : stack'[i] = stack[i]
  BY <1>1, <1>2, FrontFrames
<1>4. Top.node \in Nodes /\ handles[Top.node] > 0
  <2>1. Len(stack) \in DOMAIN stack  BY <1>1, <1>2
  <2> QED  BY <1>2, <2>1, StackHeld
<1>5. handles \in [Nodes -> Nat] /\ queue \in Seq(Nodes) /\ toLoad \in Seq(Nodes)
  BY DEF IInv, Typed
<1>6. queue # << >> /\ stack[1].node = queue[1]  BY <1>1 DEF IInv, Shape
<1>7. Tail(queue) \in Seq(Nodes)  BY <1>5, <1>6
<1>8. queue' \in Seq(Nodes) /\ toLoad' \in Seq(Nodes)
  <2>1. CASE Len(stack) = 1
    <3>1. queue' = Tail(queue) \o toLoad /\ toLoad' = << >>  BY <1>1, <2>1 DEF AfterTurn
    <3>2. Tail(queue) \o toLoad \in Seq(Nodes)  BY <1>5, <1>7
    <3> QED  BY <3>1, <3>2
  <2>2. CASE Len(stack) # 1  BY <1>1, <1>5, <2>2
  <2> QED  BY <2>1, <2>2
<1>9. Typed'
  <2>1. handles' \in [Nodes -> Nat]  BY <1>1, <1>4, <1>5 DEF Released
  <2> QED  BY <1>1, <1>3, <1>8, <2>1 DEF IInv, Typed
<1>10. Shape'
  <2>1. CASE Len(stack) = 1
    <3>1. stack' = << >>  BY <1>3, <2>1
    <3> QED  BY <1>1, <3>1 DEF IInv, Shape
  <2>2. CASE Len(stack) # 1
    <3>1. stack'[1] = stack[1]  BY <1>2, <1>3, <2>2
    <3> QED  BY <1>1, <1>6, <2>2, <3>1 DEF IInv, Shape
  <2> QED  BY <2>1, <2>2
<1>11. ASSUME NEW n \in Nodes  PROVE handles'[n] = Places(n)'
  <2>1. handles'[n] = handles[n] - One(n, Top.node)
    BY <1>1, <1>4, <1>5 DEF Released, One
  <2>2. Places(n)' = InSeq(n, queue') + InSeq(n, toLoad') + InSeq(n, fresh)
                       + Cardinality(Held(n, stack'))
    BY <1>1, PlacesSumNext
  <2>3. /\ handles[n] = InSeq(n, queue) + InSeq(n, toLoad) + InSeq(n, fresh)
                           + Cardinality(Held(n, stack))
        /\ InSeq(n, queue) \in Nat /\ InSeq(n, toLoad) \in Nat /\ InSeq(n, fresh) \in Nat
        /\ Cardinality(Held(n, stack)) \in Nat
    BY Counted
  <2>4. One(n, Top.node) \in Nat  BY DEF One
  <2>5. CASE Len(stack) = 1
    <3>1. Top.node = queue[1]  BY <1>2, <1>6, <2>5
    <3>2. InSeq(n, queue) = One(n, Top.node) + InSeq(n, Tail(queue))
      BY <1>5, <1>6, <3>1, InSeqTail
    <3>3. InSeq(n, queue') = InSeq(n, Tail(queue)) + InSeq(n, toLoad)
      BY <1>1, <1>5, <1>7, <2>5, InSeqConcat DEF AfterTurn
    <3>4. InSeq(n, toLoad') = 0  BY <1>1, <2>5, InSeqEmpty
    <3>5. Held(n, stack) = {} /\ Held(n, stack') = {}  BY <1>3, <2>5 DEF Held
    <3>6. InSeq(n, Tail(queue)) \in Nat  BY <1>7, InSeqNat
    <3>7. Cardinality(Held(n, stack)) = 0 /\ Cardinality(Held(n, stack')) = 0
      BY <3>5, FS_EmptySet
    <3> QED  BY <2>1, <2>2, <2>3, <2>4, <3>2, <3>3, <3>4, <3>6, <3>7
  <2>6. CASE Len(stack) # 1
    <3>1. Cardinality(Held(n, stack)) = Cardinality(Held(n, stack')) + One(n, Top.node)
      <4>1. Len(stack) > 1  BY <1>2, <2>6
      <4> QED  BY <1>1, <4>1, HeldFront DEF Top
    <3>2. Cardinality(Held(n, stack')) \in Nat  BY <1>3, HeldNat
    <3>3. queue' = queue /\ toLoad' = toLoad  BY <1>1, <2>6
    <3> QED  BY <2>1, <2>2, <2>3, <2>4, <3>1, <3>2, <3>3
  <2> QED  BY <2>5, <2>6
<1>12. ASSUME NEW i \in DOMAIN stack'  PROVE file'[FileOf[stack'[i].node]] = "loaded"
  <2>1. i \in DOMAIN stack /\ stack'[i] = stack[i]  BY <1>1, <1>2, <1>3
  <2>2. Loaded(stack[i].node)  BY <2>1 DEF IInv, HandlesOwned
  <2> QED  BY <1>1, <2>1, <2>2 DEF Loaded
<1> QED  BY <1>9, <1>10, <1>11, <1>12, Together

\* A file changes, and no call reads a node of it that leaves memory.
LEMMA FileInv ==
  ASSUME IInv, UNCHANGED <<handles, queue, toLoad, stack, fresh>>,
         file' \in [Files -> {"absent", "loading", "loaded"}],
         \A i \in DOMAIN stack : file'[FileOf[stack[i].node]] = "loaded"
  PROVE  IInv'
<1>1. Typed'  BY DEF IInv, Typed
<1>2. Shape'  BY DEF IInv, Shape
<1>3. ASSUME NEW n \in Nodes  PROVE handles'[n] = Places(n)'
  BY DEF IInv, HandlesOwned, Places, InSeq
<1> QED  BY <1>1, <1>2, <1>3, Together

\* A read is answered.
LEMMA LoadInv ==
  ASSUME IInv, NEW f \in Files, Load(f)
  PROVE  IInv'
<1>1. /\ file' = [file EXCEPT ![f] = "loaded"]
      /\ file \in [Files -> {"absent", "loading", "loaded"}]
      /\ UNCHANGED <<handles, queue, toLoad, stack, fresh>>
  BY DEF IInv, Typed, Load
<1>2. file' \in [Files -> {"absent", "loading", "loaded"}]  BY <1>1
<1>3. ASSUME NEW i \in DOMAIN stack  PROVE file'[FileOf[stack[i].node]] = "loaded"
  <2>1. Loaded(stack[i].node) /\ stack[i].node \in Nodes
    BY StackHeld DEF IInv, HandlesOwned
  <2> QED  BY <1>1, <2>1, TreeAssumption DEF Loaded
<1> QED  BY <1>1, <1>2, <1>3, FileInv

\* A file is evicted: the open handles of its nodes are none, so that no call
\* is in one of them.
LEMMA EvictInv ==
  ASSUME IInv, NEW f \in Files, Evict(f)
  PROVE  IInv'
<1>1. /\ file' = [file EXCEPT ![f] = "absent"]
      /\ file \in [Files -> {"absent", "loading", "loaded"}]
      /\ \A n \in Nodes : FileOf[n] = f => handles[n] = 0
      /\ UNCHANGED <<handles, queue, toLoad, stack, fresh>>
  BY DEF IInv, Typed, Evict
<1>2. file' \in [Files -> {"absent", "loading", "loaded"}]  BY <1>1
<1>3. ASSUME NEW i \in DOMAIN stack  PROVE file'[FileOf[stack[i].node]] = "loaded"
  <2>1. Loaded(stack[i].node)  BY DEF IInv, HandlesOwned
  <2>2. stack[i].node \in Nodes /\ handles[stack[i].node] > 0  BY StackHeld
  <2>3. FileOf[stack[i].node] # f  BY <1>1, <2>2
  <2>4. FileOf[stack[i].node] \in Files  BY <2>2, TreeAssumption
  <2> QED  BY <1>1, <2>1, <2>3, <2>4 DEF Loaded
<1> QED  BY <1>1, <1>2, <1>3, FileInv

\* Every step keeps the invariant.
LEMMA NextInv == IInv /\ [Next]_vars => IInv'
<1> SUFFICES ASSUME IInv, [Next]_vars  PROVE IInv'  OBVIOUS
<1>1. CASE TakeFront  BY <1>1, TakeFrontInv
<1>2. CASE MoveToBack  BY <1>2, MoveToBackInv
<1>3. CASE Finish  BY <1>3, SameInv DEF Finish
<1>4. CASE ReturnCall  BY <1>4, ReturnCallInv
<1>5. CASE GetChild  BY <1>5, GetChildInv
<1>6. CASE LoadLater  BY <1>6, LoadLaterInv
<1>7. CASE Recurse  BY <1>7, RecurseInv
<1>8. CASE \E f \in Files : Load(f)  BY <1>8, LoadInv
<1>9. CASE \E f \in Files : Evict(f)  BY <1>9, EvictInv
<1>10. CASE UNCHANGED vars  BY <1>10, SameInv DEF vars
<1> QED
  BY <1>1, <1>2, <1>3, <1>4, <1>5, <1>6, <1>7, <1>8, <1>9, <1>10 DEF Next, Loop

\* The invariant holds throughout the query.
LEMMA Invariance == Spec => []IInv
<1>1. Init => IInv  BY InitInv
<1>2. IInv /\ [Next]_vars => IInv'  BY NextInv
<1> QED  BY <1>1, <1>2, PTL DEF Spec

\* For every tree, range, layout of nodes in files, and order of reads and
\* evictions: rangeQueryLoop leaks no handle, releases none twice, and reads no
\* node whose file is not in memory.
THEOREM QueryOwnsItsHandles == Spec => []HandlesOwned
<1>1. IInv => HandlesOwned  BY DEF IInv
<1> QED  BY <1>1, Invariance, PTL

-----------------------------------------------------------------------------
(* The nodes a descent visits.                                             *)

\* From(n) is the least closed set with n.
LEMMA FromLeast ==
  ASSUME NEW n, NEW S \in SUBSET Nodes, n \in S, Closed(S)
  PROVE  From(n) \subseteq S
BY DEF From

\* A descent visits the node it starts at, and stays inside of the tree.
LEMMA FromSelf ==
  ASSUME NEW n \in Nodes
  PROVE  n \in From(n) /\ From(n) \in SUBSET Nodes
BY DEF From

\* The children of a node are nodes.
LEMMA KidIsNode ==
  ASSUME NEW n \in Nodes, NEW i \in DOMAIN Kids[n]
  PROVE  Kids[n][i] \in Nodes
<1>1. Kids[n] \in Seq(Nodes)  BY TreeAssumption
<1> QED  BY <1>1

\* A descent that goes on below a node visits all its children.
LEMMA FromClosed ==
  ASSUME NEW n \in Nodes, NEW m \in From(n), Descends(m), NEW i \in DOMAIN Kids[m]
  PROVE  Kids[m][i] \in From(n)
<1>1. m \in Nodes /\ Kids[m][i] \in Nodes  BY KidIsNode DEF From
<1>2. ASSUME NEW S \in SUBSET Nodes, n \in S, Closed(S)  PROVE Kids[m][i] \in S
  <2>1. m \in S  BY <1>2 DEF From
  <2> QED  BY <1>2, <2>1 DEF Closed
<1> QED  BY <1>1, <1>2 DEF From

\* It visits what a descent from one of them visits.
LEMMA FromKid ==
  ASSUME NEW n \in Nodes, Descends(n), NEW i \in DOMAIN Kids[n]
  PROVE  From(Kids[n][i]) \subseteq From(n)
<1>1. n \in From(n) /\ From(n) \in SUBSET Nodes  BY FromSelf
<1>2. Kids[n][i] \in From(n)  BY <1>1, FromClosed
<1>3. Closed(From(n))  BY FromClosed DEF Closed
<1> QED  BY <1>1, <1>2, <1>3, FromLeast

\* A node that is visited, and not first, is the child of one that is.
LEMMA FromParent ==
  ASSUME NEW n \in Nodes, NEW m \in From(n), m # n
  PROVE  \E p \in From(n) : Descends(p) /\ \E i \in DOMAIN Kids[p] : m = Kids[p][i]
<1> SUFFICES ASSUME \A p \in From(n) : Descends(p) => \A i \in DOMAIN Kids[p] : m # Kids[p][i]
             PROVE  FALSE
  OBVIOUS
<1> DEFINE S == From(n) \ {m}
<1>1. S \in SUBSET Nodes /\ n \in S  BY FromSelf
<1>2. Closed(S)  BY FromClosed DEF Closed
<1>3. From(n) \subseteq S  BY <1>1, <1>2, FromLeast
<1> QED  BY <1>3

\* A descent visits its first node, and then what the descents from its
\* children visit.
LEMMA FromSplit ==
  ASSUME NEW n \in Nodes, NEW m \in From(n), m # n
  PROVE  Descends(n) /\ \E i \in DOMAIN Kids[n] : m \in From(Kids[n][i])
<1>1. Descends(n)
  <2> SUFFICES ASSUME ~Descends(n)  PROVE FALSE  OBVIOUS
  <2>1. Closed({n})  BY DEF Closed
  <2>2. From(n) \subseteq {n}  BY <2>1, FromLeast
  <2> QED  BY <2>2
<1>2. \E i \in DOMAIN Kids[n] : m \in From(Kids[n][i])
  <2> DEFINE S == {n} \cup UNION {From(Kids[n][i]) : i \in DOMAIN Kids[n]}
  <2>1. S \in SUBSET Nodes  BY DEF From
  <2>2. ASSUME NEW k \in S, Descends(k), NEW j \in DOMAIN Kids[k]  PROVE Kids[k][j] \in S
    <3>1. CASE k = n
      <4>1. Kids[n][j] \in From(Kids[n][j])  BY <2>2, <3>1, KidIsNode, FromSelf
      <4> QED  BY <2>2, <3>1, <4>1
    <3>2. CASE \E i \in DOMAIN Kids[n] : k \in From(Kids[n][i])
      <4>1. PICK i \in DOMAIN Kids[n] : k \in From(Kids[n][i])  BY <3>2
      <4>2. Kids[n][i] \in Nodes  BY KidIsNode
      <4>3. Kids[k][j] \in From(Kids[n][i])  BY <2>2, <4>1, <4>2, FromClosed
      <4> QED  BY <4>1, <4>3
    <3> QED  BY <2>2, <3>1, <3>2
  <2>3. Closed(S)  BY <2>2 DEF Closed
  <2>4. From(n) \subseteq S  BY <2>1, <2>3, FromLeast
  <2> QED  BY <2>4
<1> QED  BY <1>1, <1>2

\* No descent from the root comes back to a node.
LEMMA NoCycle ==
  ASSUME NEW m \in From(Root), Descends(m), NEW i \in DOMAIN Kids[m]
  PROVE  m \notin From(Kids[m][i])
<1> SUFFICES ASSUME m \in From(Kids[m][i])  PROVE FALSE  OBVIOUS
<1> DEFINE k == Kids[m][i]
<1>1. Root \in Nodes /\ m \in Nodes  BY TreeAssumption DEF From
<1>2. k \in Nodes  BY <1>1, KidIsNode
<1>3. From(k) \subseteq From(m)  BY <1>1, FromKid
<1>4. ASSUME NEW y \in From(m)
      PROVE  \E p \in From(m) : Descends(p) /\ \E j \in DOMAIN Kids[p] : y = Kids[p][j]
  <2>1. CASE y # m  BY <1>1, <2>1, FromParent
  <2>2. CASE y = m /\ m = k
    <3>1. m \in From(m)  BY <1>1, FromSelf
    <3> QED  BY <2>2, <3>1
  <2>3. CASE y = m /\ m # k
    <3>1. \E p \in From(k) : Descends(p) /\ \E j \in DOMAIN Kids[p] : m = Kids[p][j]
      BY <1>2, <2>3, FromParent
    <3> QED  BY <1>3, <2>3, <3>1
  <2> QED  BY <2>1, <2>2, <2>3
<1>5. From(m) \subseteq Nodes  BY DEF From
<1>6. Root \notin From(m)  BY <1>4, <1>5, ParentAssumption
<1> DEFINE S == From(Root) \ From(m)
<1>7. S \in SUBSET Nodes /\ Root \in S  BY <1>1, <1>6, FromSelf
<1>8. ASSUME NEW x \in S, Descends(x), NEW j \in DOMAIN Kids[x]  PROVE Kids[x][j] \in S
  <2>1. Kids[x][j] \in From(Root) /\ x \in Nodes  BY <1>1, <1>7, <1>8, FromClosed
  <2>2. Kids[x][j] \notin From(m)
    <3> SUFFICES ASSUME Kids[x][j] \in From(m)  PROVE FALSE  OBVIOUS
    <3>1. PICK p \in From(m) : \E l \in DOMAIN Kids[p] : Kids[x][j] = Kids[p][l]  BY <1>4
    <3>2. p = x  BY <1>5, <2>1, <3>1, ParentAssumption
    <3> QED  BY <3>1, <3>2
  <2> QED  BY <2>1, <2>2
<1>9. Closed(S)  BY <1>8 DEF Closed
<1>10. From(Root) \subseteq S  BY <1>7, <1>9, FromLeast
<1>11. m \in From(m)  BY <1>1, FromSelf
<1> QED  BY <1>10, <1>11

\* Descents from two children of a node meet nowhere.
LEMMA KidsApart ==
  ASSUME NEW m \in From(Root), Descends(m), NEW i \in DOMAIN Kids[m],
         NEW j \in DOMAIN Kids[m], i # j
  PROVE  From(Kids[m][i]) \cap From(Kids[m][j]) = {}
<1>1. Root \in Nodes /\ m \in Nodes  BY TreeAssumption DEF From
<1> DEFINE a == Kids[m][i]
           b == Kids[m][j]
           S == From(a) \ From(b)
<1>2. a \in Nodes /\ b \in Nodes /\ a # b  BY <1>1, KidIsNode, ParentAssumption
<1>3. a \notin From(b)
  <2> SUFFICES ASSUME a \in From(b)  PROVE FALSE  OBVIOUS
  <2>1. PICK p \in From(b) : \E l \in DOMAIN Kids[p] : a = Kids[p][l]
    BY <1>2, FromParent
  <2>2. p \in Nodes  BY DEF From
  <2>3. p = m  BY <1>1, <2>1, <2>2, ParentAssumption
  <2> QED  BY <2>1, <2>3, NoCycle
<1>4. b \notin From(a)
  <2> SUFFICES ASSUME b \in From(a)  PROVE FALSE  OBVIOUS
  <2>1. PICK p \in From(a) : \E l \in DOMAIN Kids[p] : b = Kids[p][l]
    BY <1>2, FromParent
  <2>2. p \in Nodes  BY DEF From
  <2>3. p = m  BY <1>1, <2>1, <2>2, ParentAssumption
  <2> QED  BY <2>1, <2>3, NoCycle
<1>5. S \in SUBSET Nodes /\ a \in S  BY <1>2, <1>3, FromSelf
<1>6. ASSUME NEW x \in S, Descends(x), NEW l \in DOMAIN Kids[x]  PROVE Kids[x][l] \in S
  <2>1. Kids[x][l] \in From(a) /\ x \in Nodes  BY <1>2, <1>5, <1>6, FromClosed
  <2>2. Kids[x][l] \notin From(b)
    <3> SUFFICES ASSUME Kids[x][l] \in From(b)  PROVE FALSE  OBVIOUS
    <3>1. Kids[x][l] # b  BY <1>4, <2>1
    <3>2. PICK p \in From(b) : \E k \in DOMAIN Kids[p] : Kids[x][l] = Kids[p][k]
      BY <1>2, <3>1, FromParent
    <3>3. p \in Nodes  BY DEF From
    <3>4. p = x  BY <2>1, <3>2, <3>3, ParentAssumption
    <3> QED  BY <3>2, <3>4
  <2> QED  BY <2>1, <2>2
<1>7. Closed(S)  BY <1>6 DEF Closed
<1>8. From(a) \subseteq S  BY <1>5, <1>7, FromLeast
<1> QED  BY <1>8

-----------------------------------------------------------------------------
(* What is still owed.                                                     *)

\* The nodes whose descent visits n
Above(n) == {m \in Nodes : n \in From(m)}

\* The call that returns n, or that is still to take the child above it
Covers(n, fr) ==
  \/ fr.node = n
  \/ /\ Descends(fr.node)
     /\ \E c \in DOMAIN Kids[fr.node] : c >= fr.child /\ Kids[fr.node][c] \in Above(n)
Covering(n) == {fr \in Frames : Covers(n, fr)}

\* The queue without the node of the outermost call
Waiting == IF stack = << >> THEN queue ELSE Tail(queue)

\* The calls, the innermost of them past the child just taken
Current == IF fresh = << >> THEN stack ELSE Stepped

\* The places where the point of n is, or from where it will be reached
Debts(n) ==
  Count({n}, results) + Count(Above(n), Waiting) + Count(Above(n), toLoad)
    + Count(Above(n), fresh) + Count(Covering(n), Current)

\* Every node in hand is one that queryRange visits.
Visited ==
  /\ queue \in Seq(From(Root)) /\ toLoad \in Seq(From(Root)) /\ fresh \in Seq(From(Root))
  /\ results \in Seq(Expected)
  /\ \A i \in DOMAIN stack :
       /\ stack[i].node \in From(Root)
       /\ stack[i].getAll => Side[stack[i].node] = "inside"

\* The child in hand is one of the innermost call; between two turns of the loop
\* nothing is left to load, and at the end nothing is left.
Settled ==
  /\ fresh # << >> =>
       /\ Descends(Top.node)
       /\ \E c \in DOMAIN Kids[Top.node] : fresh[1] = Kids[Top.node][c]
  /\ stack = << >> => toLoad = << >>
  /\ done => stack = << >> /\ queue = << >>

\* Each point queryRange returns is owed, or was returned, in one place.
OwedOnce == \A n \in Expected : Debts(n) = 1

RInv == Visited /\ Settled /\ OwedOnce

\* The nodes above n are those a descent from which covers it.
LEMMA CoversNew ==
  ASSUME NEW n \in Nodes, NEW m \in Nodes, NEW all \in BOOLEAN
  PROVE  /\ Frame(m, all) \in Frames
         /\ Bit(Covering(n), Frame(m, all)) = Bit(Above(n), m)
<1> DEFINE fr == Frame(m, all)
<1>1. fr \in Frames /\ fr.node = m /\ fr.child = 1  BY DEF Frame, Frames
<1> HIDE DEF fr
<1>2. ASSUME Covers(n, fr)  PROVE n \in From(m)
  <2>1. CASE m = n  BY <2>1, FromSelf
  <2>2. CASE m # n
    <3>1. PICK c \in DOMAIN Kids[m] : Descends(m) /\ Kids[m][c] \in Above(n)
      BY <1>1, <1>2, <2>2 DEF Covers
    <3> QED  BY <3>1, FromKid DEF Above
  <2> QED  BY <2>1, <2>2
<1>3. ASSUME n \in From(m)  PROVE Covers(n, fr)
  <2>1. CASE m = n  BY <1>1, <2>1 DEF Covers
  <2>2. CASE m # n
    <3>1. PICK c \in DOMAIN Kids[m] : Descends(m) /\ n \in From(Kids[m][c])
      BY <1>3, <2>2, FromSplit
    <3>2. Kids[m][c] \in Above(n)  BY <3>1, KidIsNode DEF Above
    <3>3. c >= 1
      <4>1. Kids[m] \in Seq(Nodes)  BY TreeAssumption
      <4> QED  BY <4>1
    <3> QED  BY <1>1, <3>1, <3>2, <3>3 DEF Covers
  <2> QED  BY <2>1, <2>2
<1>4. fr \in Covering(n) <=> m \in Above(n)  BY <1>1, <1>2, <1>3 DEF Covering, Above
<1> QED  BY <1>1, <1>4 DEF Bit, fr

\* A call that takes its next child hands over what is below that child.
LEMMA CoversStep ==
  ASSUME NEW n \in Expected, NEW fr \in Frames, NEW nx \in Frames, fr.node \in From(Root),
         Descends(fr.node), fr.child \in DOMAIN Kids[fr.node],
         nx.node = fr.node, nx.child = fr.child + 1
  PROVE  Bit(Covering(n), fr) = Bit(Covering(n), nx) + Bit(Above(n), Kids[fr.node][fr.child])
<1> DEFINE p == fr.node
           k == fr.child
<1>1. n \in Stop /\ n \in Nodes /\ p \in Nodes  BY DEF Expected, From
<1>2. p # n  BY <1>1 DEF Descends
<1>3. Kids[p] \in Seq(Nodes)  BY <1>1, TreeAssumption
<1>4. DOMAIN Kids[p] \subseteq Nat  BY <1>3
<1>5. fr \in Covering(n) <=> \E c \in DOMAIN Kids[p] : c >= k /\ Kids[p][c] \in Above(n)
  BY <1>2 DEF Covering, Covers
<1>6. nx \in Covering(n) <=> \E c \in DOMAIN Kids[p] : c >= k + 1 /\ Kids[p][c] \in Above(n)
  BY <1>2 DEF Covering, Covers
<1>7. ASSUME Kids[p][k] \in Above(n), NEW c \in DOMAIN Kids[p], c >= k + 1, Kids[p][c] \in Above(n)
      PROVE  FALSE
  <2>1. c # k  BY <1>4, <1>7
  <2>2. From(Kids[p][c]) \cap From(Kids[p][k]) = {}  BY <2>1, KidsApart
  <2> QED  BY <1>7, <2>2 DEF Above
<1>8. ASSUME NEW c \in DOMAIN Kids[p]  PROVE c >= k <=> c = k \/ c >= k + 1
  BY <1>4
<1> HIDE DEF p, k
<1>9. CASE Kids[p][k] \in Above(n)
  <2>1. nx \notin Covering(n)  BY <1>6, <1>7, <1>9
  <2>2. fr \in Covering(n)
    <3>1. k \in DOMAIN Kids[p]  BY DEF p, k
    <3> QED  BY <1>5, <1>8, <1>9, <3>1
  <2> QED  BY <2>1, <2>2, <1>9 DEF Bit, p, k
<1>10. CASE Kids[p][k] \notin Above(n)
  <2>1. fr \in Covering(n) <=> nx \in Covering(n)  BY <1>5, <1>6, <1>8, <1>10
  <2> QED  BY <2>1, <1>10 DEF Bit, p, k
<1> QED  BY <1>9, <1>10

\* A sequence of calls is the outer ones and the innermost.
LEMMA CountFront ==
  ASSUME NEW T, NEW st \in Seq(Frames), st # << >>
  PROVE  /\ Front(st) \in Seq(Frames) /\ Last(st) \in Frames
         /\ Count(T, st) = Count(T, Front(st)) + Bit(T, Last(st))
<1>1. Len(st) \in Nat /\ Len(st) >= 1  OBVIOUS
<1>2. /\ Front(st) \in Seq(Frames) /\ Len(Front(st)) = Len(st) - 1
      /\ \A i \in 1 .. Len(st) - 1 : Front(st)[i] = st[i]
  BY <1>1, FrontFrames
<1>3. Last(st) \in Frames  BY <1>1 DEF Last
<1>4. st = Append(Front(st), Last(st))
  <2>2. Len(Append(Front(st), Last(st))) = Len(st)  BY <1>1, <1>2, <1>3
  <2>3. ASSUME NEW i \in 1 .. Len(st)  PROVE Append(Front(st), Last(st))[i] = st[i]
    <3>1. CASE i = Len(st)  BY <1>1, <1>2, <1>3, <3>1 DEF Last
    <3>2. CASE i < Len(st)  BY <1>1, <1>2, <1>3, <3>2
    <3>3. i = Len(st) \/ i < Len(st)  BY <1>1
    <3> QED  BY <3>1, <3>2, <3>3
  <2>4. Append(Front(st), Last(st)) \in Seq(Frames)  BY <1>2, <1>3
  <2> QED  BY <2>2, <2>3, <2>4
<1>5. Count(T, Append(Front(st), Last(st))) = Count(T, Front(st)) + Bit(T, Last(st))
  BY <1>2, <1>3, CountAppend
<1> QED  BY <1>2, <1>3, <1>4, <1>5

\* Every part of the count is a number.
LEMMA DebtsNat ==
  ASSUME Typed, Shape, Visited, NEW n
  PROVE  /\ Count({n}, results) \in Nat /\ Count(Above(n), Waiting) \in Nat
         /\ Count(Above(n), toLoad) \in Nat /\ Count(Above(n), fresh) \in Nat
         /\ Count(Covering(n), Current) \in Nat /\ Current \in Seq(Frames)
         /\ Waiting \in Seq(From(Root))
<1>1. /\ results \in Seq(Expected) /\ toLoad \in Seq(From(Root)) /\ fresh \in Seq(From(Root))
      /\ queue \in Seq(From(Root)) /\ stack \in Seq(Frames)
  BY DEF Visited, Typed
<1>2. Waiting \in Seq(From(Root))
  <2>1. stack # << >> => Tail(queue) \in Seq(From(Root))  BY <1>1 DEF Shape
  <2> QED  BY <1>1, <2>1 DEF Waiting
<1>3. Current \in Seq(Frames)
  <2>1. fresh # << >> => Stepped \in Seq(Frames)  BY SteppedFrames DEF Shape
  <2> QED  BY <1>1, <2>1 DEF Current
<1> QED  BY <1>1, <1>2, <1>3, CountNat


-----------------------------------------------------------------------------
(* Each step keeps what is owed.                                           *)

\* The count in the next state
LEMMA DebtsNext ==
  ASSUME NEW n
  PROVE  Debts(n)' = Count({n}, results') + Count(Above(n), Waiting')
                       + Count(Above(n), toLoad') + Count(Above(n), fresh')
                       + Count(Covering(n), Current')
BY DEF Debts, Count, At, Above, Covering, Covers

\* The parts of the invariant in the next state
LEMMA OwedTogether ==
  ASSUME Visited', Settled', \A n \in Expected : Debts(n)' = 1
  PROVE  RInv'
<1>1. OwedOnce'  BY DEF OwedOnce
<1> QED  BY <1>1 DEF RInv

\* A point that queryRange returns is of a node where the descent stops.
LEMMA ExpectedNode ==
  ASSUME NEW n \in Expected
  PROVE  n \in Nodes /\ n \in Stop /\ n \in From(Root) /\ Side[n] # "outside"
BY DEF Expected, From

\* The nodes queryRange visits are nodes.
LEMMA VisitedNodes == From(Root) \in SUBSET Nodes /\ Root \in From(Root)
BY FromSelf, TreeAssumption

\* The first state: the root is above every point.
LEMMA InitOwed == Init => RInv
<1> SUFFICES ASSUME Init  PROVE RInv  OBVIOUS
<1>1. /\ queue = <<Root>> /\ toLoad = << >> /\ stack = << >> /\ fresh = << >>
      /\ results = << >> /\ done = FALSE
  BY DEF Init
<1>2. Root \in From(Root) /\ Root \in Nodes  BY VisitedNodes
<1>3. Visited  BY <1>1, <1>2 DEF Visited
<1>4. Settled  BY <1>1 DEF Settled
<1>5. ASSUME NEW n \in Expected  PROVE Debts(n) = 1
  <2>1. Root \in Above(n)  BY <1>2, ExpectedNode DEF Above
  <2>2. Count(Above(n), Waiting) = 1  BY <1>1, <2>1, CountSingle DEF Waiting, Bit
  <2>3. Count({n}, results) = 0 /\ Count(Above(n), toLoad) = 0 /\ Count(Above(n), fresh) = 0
    BY <1>1, CountEmpty
  <2>4. Count(Covering(n), Current) = 0  BY <1>1, CountEmpty DEF Current
  <2> QED  BY <2>2, <2>3, <2>4 DEF Debts
<1> QED  BY <1>3, <1>4, <1>5 DEF RInv, OwedOnce

\* Nothing that the invariant is about changes.
LEMMA SameOwed ==
  ASSUME RInv, UNCHANGED <<queue, toLoad, stack, fresh, results, done>>
  PROVE  RInv'
<1>1. Visited'  BY DEF RInv, Visited
<1>2. Settled'  BY DEF RInv, Settled, Top
<1>3. ASSUME NEW n \in Expected  PROVE Debts(n)' = 1
  <2>1. Waiting' = Waiting /\ Current' = Current  BY DEF Waiting, Current, Stepped
  <2>2. Debts(n)' = Debts(n)  BY <2>1, DebtsNext DEF Debts
  <2> QED  BY <2>2 DEF RInv, OwedOnce
<1> QED  BY <1>1, <1>2, <1>3, OwedTogether

\* The loop starts a call for the front of the queue: it owes what the node did.
LEMMA TakeFrontOwed ==
  ASSUME IInv, RInv, TakeFront
  PROVE  RInv'
<1>1. /\ stack = << >> /\ queue # << >> /\ stack' = <<Frame(Head(queue), FALSE)>>
      /\ UNCHANGED <<queue, toLoad, fresh, results, done>>
  BY DEF TakeFront
<1>2. fresh = << >> /\ queue \in Seq(From(Root))
  BY <1>1 DEF IInv, Shape, RInv, Visited
<1>3. Head(queue) \in From(Root) /\ Head(queue) \in Nodes /\ Head(queue) = queue[1]
      /\ Tail(queue) \in Seq(From(Root))
  BY <1>1, <1>2, VisitedNodes
<1> DEFINE fr == Frame(Head(queue), FALSE)
<1>4. fr.node = Head(queue) /\ fr.getAll = FALSE  BY DEF Frame
<1> HIDE DEF fr
<1>5. Visited'
  <2>1. ASSUME NEW i \in DOMAIN stack'
        PROVE  stack'[i].node \in From(Root) /\ ~stack'[i].getAll
    <3>1. stack' = <<fr>>  BY <1>1 DEF fr
    <3>2. DOMAIN <<fr>> = {1} /\ <<fr>>[1] = fr  OBVIOUS
    <3>3. stack'[i] = fr  BY <3>1, <3>2
    <3> QED  BY <1>3, <1>4, <3>3
  <2> QED  BY <1>1, <2>1 DEF RInv, Visited
<1>6. Settled'
  <2>1. ~done  BY <1>1 DEF RInv, Settled
  <2>2. stack' # << >>  BY <1>1
  <2> QED  BY <1>1, <1>2, <2>1, <2>2 DEF Settled
<1>7. ASSUME NEW n \in Expected  PROVE Debts(n)' = 1
  <2>1. Waiting = queue /\ Waiting' = Tail(queue) /\ Current = << >> /\ Current' = <<fr>>
    BY <1>1, <1>2 DEF Waiting, Current, fr
  <2>2. Count(Above(n), queue) = Bit(Above(n), Head(queue)) + Count(Above(n), Tail(queue))
    BY <1>1, <1>2, <1>3, CountTail
  <2>3. Count(Covering(n), <<fr>>) = Bit(Above(n), Head(queue))
    <3>1. Count(Covering(n), <<fr>>) = Bit(Covering(n), fr)  BY CountSingle
    <3>2. n \in Nodes  BY ExpectedNode
    <3>3. FALSE \in BOOLEAN  OBVIOUS
    <3>4. Bit(Covering(n), Frame(Head(queue), FALSE)) = Bit(Above(n), Head(queue))
      BY <1>3, <3>2, <3>3, CoversNew
    <3> QED  BY <3>1, <3>4 DEF fr
  <2>4. Count(Covering(n), << >>) = 0  BY CountEmpty
  <2>5. Debts(n) = 1  BY DEF RInv, OwedOnce
  <2>6. Count(Above(n), Tail(queue)) \in Nat /\ Bit(Above(n), Head(queue)) \in Nat
    BY <1>3, CountNat DEF Bit
  <2>7. /\ Count({n}, results) \in Nat /\ Count(Above(n), toLoad) \in Nat
        /\ Count(Above(n), fresh) \in Nat
    BY DebtsNat DEF IInv, RInv
  <2>8. Debts(n) = Count({n}, results) + Count(Above(n), queue) + Count(Above(n), toLoad)
                     + Count(Above(n), fresh) + Count(Covering(n), << >>)
    BY <2>1 DEF Debts
  <2>9. Debts(n)' = Count({n}, results) + Count(Above(n), Tail(queue)) + Count(Above(n), toLoad)
                     + Count(Above(n), fresh) + Count(Covering(n), <<fr>>)
    BY <1>1, <2>1, DebtsNext
  <2> QED  BY <2>2, <2>3, <2>4, <2>5, <2>6, <2>7, <2>8, <2>9
<1> QED  BY <1>5, <1>6, <1>7, OwedTogether

\* A node that is not loaded waits on, at the back.
LEMMA MoveToBackOwed ==
  ASSUME IInv, RInv, MoveToBack
  PROVE  RInv'
<1>1. /\ stack = << >> /\ queue # << >> /\ queue' = Append(Tail(queue), Head(queue))
      /\ UNCHANGED <<toLoad, stack, fresh, results, done>>
  BY DEF MoveToBack
<1>2. fresh = << >> /\ queue \in Seq(From(Root))
  BY <1>1 DEF IInv, Shape, RInv, Visited
<1>3. Head(queue) \in From(Root) /\ Head(queue) = queue[1] /\ Tail(queue) \in Seq(From(Root))
  BY <1>1, <1>2
<1>4. Visited'
  <2>1. queue' \in Seq(From(Root))  BY <1>1, <1>3
  <2> QED  BY <1>1, <2>1 DEF RInv, Visited
<1>5. Settled'
  <2>1. ~done  BY <1>1 DEF RInv, Settled
  <2> QED  BY <1>1, <1>2, <2>1 DEF RInv, Settled
<1>6. ASSUME NEW n \in Expected  PROVE Debts(n)' = 1
  <2>1. Waiting = queue /\ Waiting' = queue' /\ Current = << >> /\ Current' = << >>
    BY <1>1, <1>2 DEF Waiting, Current
  <2>2. Count(Above(n), queue) = Bit(Above(n), Head(queue)) + Count(Above(n), Tail(queue))
    BY <1>1, <1>2, <1>3, CountTail
  <2>3. Count(Above(n), queue') = Count(Above(n), Tail(queue)) + Bit(Above(n), Head(queue))
    BY <1>1, <1>3, CountAppend
  <2>4. Count(Above(n), Tail(queue)) \in Nat /\ Bit(Above(n), Head(queue)) \in Nat
    BY <1>3, CountNat DEF Bit
  <2>5. Count(Above(n), queue') = Count(Above(n), queue)  BY <2>2, <2>3, <2>4
  <2>6. Debts(n) = 1  BY DEF RInv, OwedOnce
  <2>7. Debts(n)' = Debts(n)  BY <1>1, <2>1, <2>5, DebtsNext DEF Debts
  <2> QED  BY <2>6, <2>7
<1> QED  BY <1>4, <1>5, <1>6, OwedTogether

\* The loop ends with an empty queue.
LEMMA FinishOwed ==
  ASSUME IInv, RInv, Finish
  PROVE  RInv'
<1>1. /\ stack = << >> /\ queue = << >>
      /\ UNCHANGED <<queue, toLoad, stack, fresh, results>>
  BY DEF Finish
<1>2. Visited'  BY <1>1 DEF RInv, Visited
<1>3. Settled'  BY <1>1 DEF RInv, Settled, Top
<1>4. ASSUME NEW n \in Expected  PROVE Debts(n)' = 1
  <2>1. Waiting' = Waiting /\ Current' = Current  BY <1>1 DEF Waiting, Current, Stepped
  <2>2. Debts(n)' = Debts(n)  BY <1>1, <2>1, DebtsNext DEF Debts
  <2> QED  BY <2>2 DEF RInv, OwedOnce
<1> QED  BY <1>2, <1>3, <1>4, OwedTogether

\* The innermost call, past the child it has taken
LEMMA SteppedTop ==
  ASSUME Typed, stack # << >>
  PROVE  /\ Stepped \in Seq(Frames) /\ Stepped # << >> /\ Front(Stepped) = Front(stack)
         /\ Last(Stepped) \in Frames /\ Last(Stepped).node = Top.node
         /\ Last(Stepped).child = Top.child + 1
         /\ \A i \in DOMAIN Stepped : /\ i \in DOMAIN stack /\ Stepped[i].node = stack[i].node
                                      /\ Stepped[i].getAll = stack[i].getAll
<1>1. stack \in Seq(Frames) /\ Len(stack) \in Nat /\ Len(stack) >= 1 /\ Top \in Frames
      /\ Top = stack[Len(stack)]
  BY TopFrame DEF Typed
<1>2. Stepped \in Seq(Frames) /\ Len(Stepped) = Len(stack) /\ Stepped # << >>
  BY SteppedFrames
<1>3. Stepped[Len(stack)] = [Top EXCEPT !.child = @ + 1]  BY <1>1 DEF Stepped
<1>4. \A i \in 1 .. Len(stack) - 1 : Stepped[i] = stack[i]  BY <1>1 DEF Stepped
<1>5. Last(Stepped) = Stepped[Len(stack)]  BY <1>2 DEF Last
<1>6. Last(Stepped) \in Frames /\ Last(Stepped).node = Top.node
      /\ Last(Stepped).child = Top.child + 1 /\ Last(Stepped).getAll = Top.getAll
  BY <1>1, <1>3, <1>5 DEF Frames
<1> HIDE DEF Stepped
<1>7. Front(Stepped) = Front(stack)
  <2>1. /\ Front(stack) \in Seq(Frames) /\ Len(Front(stack)) = Len(stack) - 1
        /\ \A i \in 1 .. Len(stack) - 1 : Front(stack)[i] = stack[i]
    BY <1>1, FrontFrames
  <2>2. /\ Front(Stepped) \in Seq(Frames) /\ Len(Front(Stepped)) = Len(stack) - 1
        /\ \A i \in 1 .. Len(stack) - 1 : Front(Stepped)[i] = Stepped[i]
    BY <1>1, <1>2, FrontFrames
  <2> QED  BY <1>4, <2>1, <2>2
<1>8. ASSUME NEW i \in DOMAIN Stepped
      PROVE  i \in DOMAIN stack /\ Stepped[i].node = stack[i].node
             /\ Stepped[i].getAll = stack[i].getAll
  <2>1. i \in 1 .. Len(stack) /\ DOMAIN stack = 1 .. Len(stack)  BY <1>1, <1>2
  <2>2. CASE i = Len(stack)  BY <1>1, <1>5, <1>6, <2>1, <2>2
  <2>3. CASE i # Len(stack)  BY <1>1, <1>4, <2>1, <2>3
  <2> QED  BY <2>2, <2>3
<1> QED  BY <1>2, <1>6, <1>7, <1>8

\* The innermost call takes a child: what is below it is owed through the child.
LEMMA GetChildOwed ==
  ASSUME IInv, RInv, GetChild
  PROVE  RInv'
<1> DEFINE k == Top.child
           c == Kids[Top.node][k]
<1>1. /\ stack # << >> /\ fresh = << >> /\ ~Ended /\ fresh' = <<c>>
      /\ UNCHANGED <<queue, toLoad, stack, results, done>>
  BY DEF GetChild, Calling
<1>2. /\ Top \in Frames /\ Top = stack[Len(stack)] /\ Len(stack) \in DOMAIN stack
      /\ stack \in Seq(Frames)
  <2>1. stack \in Seq(Frames)  BY DEF IInv, Typed
  <2> QED  BY <1>1, <2>1, TopFrame DEF IInv
<1>3. /\ Top.node \in From(Root) /\ Top.node \in Nodes /\ k \in Nat \ {0}
      /\ (Top.getAll => Side[Top.node] = "inside")
  BY <1>2, VisitedNodes DEF RInv, Visited, Frames
<1>4. k \in DOMAIN Kids[Top.node]
  <2>1. Kids[Top.node] \in Seq(Nodes)  BY <1>3, TreeAssumption
  <2>2. ~(k > Len(Kids[Top.node]))  BY <1>1 DEF Ended
  <2> QED  BY <1>3, <2>1, <2>2
<1>5. Descends(Top.node)  BY <1>1, <1>3 DEF Ended, Outside, Descends
<1>6. c \in From(Root) /\ c \in Nodes
  <2>1. Root \in Nodes  BY TreeAssumption
  <2> QED  BY <1>3, <1>4, <1>5, <2>1, FromClosed, VisitedNodes
<1>7. Visited'
  <2>1. fresh' \in Seq(From(Root))  BY <1>1, <1>6
  <2> QED  BY <1>1, <2>1 DEF RInv, Visited
<1>8. Settled'
  <2>1. fresh'[1] = c  BY <1>1
  <2>2. Top' = Top  BY <1>1 DEF Top
  <2>3. ~done  BY <1>1 DEF RInv, Settled
  <2> QED  BY <1>1, <1>4, <1>5, <2>1, <2>2, <2>3 DEF Settled
<1>9. ASSUME NEW n \in Expected  PROVE Debts(n)' = 1
  <2>1. Waiting' = Waiting /\ Current = stack /\ Current' = Stepped
    BY <1>1 DEF Waiting, Current, Stepped
  <2>2. /\ Stepped \in Seq(Frames) /\ Stepped # << >> /\ Front(Stepped) = Front(stack)
        /\ Last(Stepped) \in Frames /\ Last(Stepped).node = Top.node
        /\ Last(Stepped).child = k + 1
    BY <1>1, SteppedTop DEF IInv
  <2>3. Count(Covering(n), stack) = Count(Covering(n), Front(stack)) + Bit(Covering(n), Top)
        /\ Front(stack) \in Seq(Frames)
    BY <1>1, <1>2, CountFront DEF Top
  <2>4. Count(Covering(n), Stepped)
          = Count(Covering(n), Front(stack)) + Bit(Covering(n), Last(Stepped))
    BY <2>2, CountFront
  <2>5. Bit(Covering(n), Top) = Bit(Covering(n), Last(Stepped)) + Bit(Above(n), c)
    BY <1>2, <1>3, <1>4, <1>5, <2>2, CoversStep
  <2>6. Count(Above(n), fresh) = 0 /\ Count(Above(n), fresh') = Bit(Above(n), c)
    BY <1>1, CountEmpty, CountSingle
  <2>7. /\ Count({n}, results) \in Nat /\ Count(Above(n), toLoad) \in Nat
        /\ Count(Above(n), Waiting) \in Nat /\ Count(Covering(n), Front(stack)) \in Nat
        /\ Bit(Covering(n), Last(Stepped)) \in Nat /\ Bit(Above(n), c) \in Nat
    BY <2>3, DebtsNat, CountNat DEF IInv, RInv, Bit
  <2>8. Debts(n) = 1  BY DEF RInv, OwedOnce
  <2>9. Debts(n) = Count({n}, results) + Count(Above(n), Waiting) + Count(Above(n), toLoad)
                     + Count(Above(n), fresh) + Count(Covering(n), stack)
    BY <2>1 DEF Debts
  <2>10. Debts(n)' = Count({n}, results) + Count(Above(n), Waiting) + Count(Above(n), toLoad)
                     + Count(Above(n), fresh') + Count(Covering(n), Stepped)
    BY <1>1, <2>1, DebtsNext
  <2> HIDE DEF c, k
  <2> QED  BY <2>3, <2>4, <2>5, <2>6, <2>7, <2>8, <2>9, <2>10
<1> QED  BY <1>7, <1>8, <1>9, OwedTogether

\* A child kept for a later turn owes the same there.
LEMMA LoadLaterOwed ==
  ASSUME IInv, RInv, LoadLater
  PROVE  RInv'
<1>1. /\ fresh # << >> /\ stack # << >> /\ toLoad' = toLoad \o fresh /\ fresh' = << >>
      /\ stack' = Stepped /\ UNCHANGED <<queue, results, done>>
  BY DEF IInv, Shape, LoadLater
<1>2. /\ Stepped \in Seq(Frames) /\ Stepped # << >>
      /\ \A i \in DOMAIN Stepped : /\ i \in DOMAIN stack /\ Stepped[i].node = stack[i].node
                                   /\ Stepped[i].getAll = stack[i].getAll
  BY <1>1, SteppedTop DEF IInv
<1>3. toLoad \in Seq(From(Root)) /\ fresh \in Seq(From(Root))  BY DEF RInv, Visited
<1>4. Visited'
  <2>1. toLoad' \in Seq(From(Root)) /\ fresh' \in Seq(From(Root))  BY <1>1, <1>3
  <2>2. ASSUME NEW i \in DOMAIN stack'
        PROVE  stack'[i].node \in From(Root)
               /\ (stack'[i].getAll => Side[stack'[i].node] = "inside")
    BY <1>1, <1>2 DEF RInv, Visited
  <2> QED  BY <1>1, <2>1, <2>2 DEF RInv, Visited
<1>5. Settled'
  <2>1. ~done  BY <1>1 DEF RInv, Settled
  <2> QED  BY <1>1, <1>2, <2>1 DEF Settled
<1>6. ASSUME NEW n \in Expected  PROVE Debts(n)' = 1
  <2>1. Waiting' = Waiting /\ Current = Stepped /\ Current' = Stepped
    BY <1>1, <1>2 DEF Waiting, Current
  <2>2. Count(Above(n), toLoad') = Count(Above(n), toLoad) + Count(Above(n), fresh)
    BY <1>1, <1>3, CountConcat
  <2>3. Count(Above(n), fresh') = 0  BY <1>1, CountEmpty
  <2>4. /\ Count({n}, results) \in Nat /\ Count(Above(n), Waiting) \in Nat
        /\ Count(Above(n), toLoad) \in Nat /\ Count(Above(n), fresh) \in Nat
        /\ Count(Covering(n), Stepped) \in Nat
    BY <2>1, DebtsNat DEF IInv, RInv
  <2>5. Debts(n) = 1  BY DEF RInv, OwedOnce
  <2>6. Debts(n) = Count({n}, results) + Count(Above(n), Waiting) + Count(Above(n), toLoad)
                     + Count(Above(n), fresh) + Count(Covering(n), Stepped)
    BY <2>1 DEF Debts
  <2>7. Debts(n)' = Count({n}, results) + Count(Above(n), Waiting) + Count(Above(n), toLoad')
                     + Count(Above(n), fresh') + Count(Covering(n), Stepped)
    BY <1>1, <2>1, DebtsNext
  <2> QED  BY <2>2, <2>3, <2>4, <2>5, <2>6, <2>7
<1> QED  BY <1>4, <1>5, <1>6, OwedTogether

\* A call of the child owes what the child did.
LEMMA RecurseOwed ==
  ASSUME IInv, RInv, Recurse
  PROVE  RInv'
<1> DEFINE m == fresh[1]
           fr == Frame(m, GetAll)
<1>1. /\ fresh # << >> /\ stack # << >> /\ fresh' = << >> /\ Len(fresh) <= 1
      /\ stack' = Append(Stepped, fr) /\ UNCHANGED <<queue, toLoad, results, done>>
  BY DEF IInv, Shape, Recurse
<1>2. /\ Stepped \in Seq(Frames) /\ Stepped # << >>
      /\ \A i \in DOMAIN Stepped : /\ i \in DOMAIN stack /\ Stepped[i].node = stack[i].node
                                   /\ Stepped[i].getAll = stack[i].getAll
  BY <1>1, SteppedTop DEF IInv
<1>3. fresh \in Seq(From(Root)) /\ Top \in Frames /\ Top = stack[Len(stack)]
      /\ stack \in Seq(Frames) /\ Len(stack) \in Nat /\ Len(stack) >= 1
  BY <1>1, TopFrame DEF IInv, Typed, RInv, Visited
<1>4. m \in From(Root) /\ m \in Nodes /\ fresh = <<m>>
  <2>1. Len(fresh) = 1
    <3>1. Len(fresh) \in Nat /\ Len(fresh) # 0  BY <1>1, <1>3
    <3>2. \A j \in Nat : j # 0 /\ j <= 1 => j = 1  OBVIOUS
    <3> QED  BY <1>1, <3>1, <3>2, Zenon
  <2>2. m \in From(Root)
    <3>1. fresh # << >> => Head(fresh) = fresh[1] /\ Head(fresh) \in From(Root)  BY <1>3
    <3> QED  BY <1>1, <3>1
  <2>3. fresh = <<m>>  BY <1>3, <2>1
  <2> QED  BY <2>2, <2>3, VisitedNodes
<1>5. GetAll \in BOOLEAN /\ (GetAll => Side[m] = "inside")
  <2>1. Top.getAll \in BOOLEAN /\ Top.node \in Nodes  BY <1>3 DEF Frames
  <2>2. GetAll => Side[Top.node] = "inside"
    BY <1>3 DEF RInv, Visited, GetAll
  <2>3. PICK c \in DOMAIN Kids[Top.node] : m = Kids[Top.node][c]
    BY <1>1 DEF RInv, Settled
  <2>4. Side[Top.node] = "inside" => Side[m] = "inside"
    BY <2>1, <2>3, TreeAssumption
  <2> QED  BY <2>1, <2>2, <2>4 DEF GetAll
<1>6. fr \in Frames /\ fr.node = m /\ fr.getAll = GetAll
  BY <1>4, <1>5 DEF Frame, Frames
<1>7. stack' \in Seq(Frames) /\ stack' # << >>
  <2> HIDE DEF fr
  <2> QED  BY <1>1, <1>2, <1>6
<1>8. Visited'
  <2>1. ASSUME NEW i \in DOMAIN stack'
        PROVE  stack'[i].node \in From(Root)
               /\ (stack'[i].getAll => Side[stack'[i].node] = "inside")
    <3>1. (i \in DOMAIN Stepped /\ stack'[i] = Stepped[i]) \/ stack'[i] = fr
      <4> HIDE DEF fr
      <4> QED  BY <1>1, <1>2, <1>6
    <3>2. CASE i \in DOMAIN Stepped /\ stack'[i] = Stepped[i]
      BY <1>2, <3>2 DEF RInv, Visited
    <3>3. CASE stack'[i] = fr  BY <1>4, <1>5, <1>6, <3>3
    <3> QED  BY <3>1, <3>2, <3>3
  <2>2. fresh' \in Seq(From(Root))  BY <1>1
  <2> QED  BY <1>1, <2>1, <2>2 DEF RInv, Visited
<1>9. Settled'
  <2>1. ~done  BY <1>1 DEF RInv, Settled
  <2> QED  BY <1>1, <1>7, <2>1 DEF Settled
<1>10. ASSUME NEW n \in Expected  PROVE Debts(n)' = 1
  <2>1. Waiting' = Waiting /\ Current = Stepped /\ Current' = stack'
    BY <1>1, <1>7 DEF Waiting, Current
  <2>2. Count(Covering(n), stack') = Count(Covering(n), Stepped) + Bit(Covering(n), fr)
    BY <1>1, <1>2, <1>6, CountAppend
  <2>3. Bit(Covering(n), fr) = Bit(Above(n), m)
    <3>1. n \in Nodes  BY ExpectedNode
    <3> QED  BY <1>4, <1>5, <3>1, CoversNew
  <2>4. Count(Above(n), fresh) = Bit(Above(n), m) /\ Count(Above(n), fresh') = 0
    BY <1>1, <1>4, CountEmpty, CountSingle
  <2>5. /\ Count({n}, results) \in Nat /\ Count(Above(n), Waiting) \in Nat
        /\ Count(Above(n), toLoad) \in Nat /\ Count(Above(n), fresh) \in Nat
        /\ Count(Covering(n), Stepped) \in Nat
    BY <2>1, DebtsNat DEF IInv, RInv
  <2>6. Debts(n) = 1  BY DEF RInv, OwedOnce
  <2>7. Debts(n) = Count({n}, results) + Count(Above(n), Waiting) + Count(Above(n), toLoad)
                     + Count(Above(n), fresh) + Count(Covering(n), Stepped)
    BY <2>1 DEF Debts
  <2>8. Debts(n)' = Count({n}, results) + Count(Above(n), Waiting) + Count(Above(n), toLoad)
                     + Count(Above(n), fresh') + Count(Covering(n), stack')
    BY <1>1, <2>1, DebtsNext
  <2> HIDE DEF m, fr
  <2> QED  BY <2>2, <2>3, <2>4, <2>5, <2>6, <2>7, <2>8
<1> QED  BY <1>8, <1>9, <1>10, OwedTogether

\* A call that has nothing left to do owes its own point, if any, and returns it.
LEMMA EndedCall ==
  ASSUME IInv, RInv, stack # << >>, Ended, NEW n \in Expected
  PROVE  Count({n}, TopResult) = Bit(Covering(n), Top)
<1>1. /\ Top \in Frames /\ Top = stack[Len(stack)] /\ Len(stack) \in DOMAIN stack
  <2>1. stack \in Seq(Frames)  BY DEF IInv, Typed
  <2> QED  BY <2>1, TopFrame DEF IInv
<1>2. /\ Top.node \in From(Root) /\ Top.node \in Nodes /\ Top.child \in Nat
      /\ (Top.getAll => Side[Top.node] = "inside")
  BY <1>1, VisitedNodes DEF RInv, Visited, Frames
<1>3. Side[Top.node] \in {"outside", "inside", "across"}  BY <1>2, TreeAssumption
<1>4. CASE TopResult = << >>
  <2>1. Top.node # n  BY <1>4 DEF TopResult, Outside, GetAll, Expected
  <2>2. ~Covers(n, Top)
    <3> SUFFICES ASSUME Descends(Top.node), NEW c \in DOMAIN Kids[Top.node], c >= Top.child
                 PROVE  FALSE
      BY <2>1 DEF Covers
    <3>1. Top.child > Len(Kids[Top.node])  BY <1>2 DEF Descends, Ended, Outside
    <3>2. Kids[Top.node] \in Seq(Nodes)  BY <1>2, TreeAssumption
    <3>3. c \in Nat /\ c <= Len(Kids[Top.node]) /\ Len(Kids[Top.node]) \in Nat  BY <3>2
    <3> QED  BY <1>2, <3>1, <3>3
  <2>3. Bit(Covering(n), Top) = 0  BY <2>2 DEF Covering, Bit
  <2> QED  BY <1>4, <2>3, CountEmpty
<1>5. CASE TopResult # << >>
  <2>1. TopResult = <<Top.node>> /\ Top.node \in Stop /\ Top.node \in Expected
    BY <1>2, <1>3, <1>5 DEF TopResult, Outside, GetAll, Expected
  <2>2. Top \in Covering(n) <=> Top.node = n
    BY <1>1, <2>1 DEF Covering, Covers, Descends
  <2>3. Bit({n}, Top.node) = Bit(Covering(n), Top)  BY <2>2 DEF Bit
  <2> QED  BY <2>1, <2>3, CountSingle
<1> QED  BY <1>4, <1>5

\* The points of a call that has nothing left to do are expected ones.
LEMMA TopResultExpected ==
  ASSUME IInv, RInv, stack # << >>
  PROVE  TopResult \in Seq(Expected)
<1>1. /\ Top \in Frames /\ Top = stack[Len(stack)] /\ Len(stack) \in DOMAIN stack
  <2>1. stack \in Seq(Frames)  BY DEF IInv, Typed
  <2> QED  BY <2>1, TopFrame DEF IInv
<1>2. /\ Top.node \in From(Root) /\ Top.node \in Nodes
      /\ (Top.getAll => Side[Top.node] = "inside")
  BY <1>1, VisitedNodes DEF RInv, Visited, Frames
<1>3. Side[Top.node] \in {"outside", "inside", "across"}  BY <1>2, TreeAssumption
<1>4. TopResult = << >> \/ (TopResult = <<Top.node>> /\ Top.node \in Expected)
  BY <1>2, <1>3 DEF TopResult, Outside, GetAll, Expected
<1>5. << >> \in Seq(Expected) /\ \A x \in Expected : <<x>> \in Seq(Expected)  OBVIOUS
<1> QED  BY <1>4, <1>5

\* A call returns: its point joins the results, and what was to be loaded later
\* joins the queue when the turn ends.
LEMMA ReturnCallOwed ==
  ASSUME IInv, RInv, ReturnCall
  PROVE  RInv'
<1>1. /\ stack # << >> /\ fresh = << >> /\ Ended /\ stack \in Seq(Frames)
      /\ results' = results \o TopResult /\ stack' = Front(stack)
      /\ IF Len(stack) = 1 THEN queue' = AfterTurn /\ toLoad' = << >>
                           ELSE UNCHANGED <<queue, toLoad>>
      /\ UNCHANGED <<fresh, done>>
  BY DEF IInv, Typed, ReturnCall, Calling
<1>2. /\ Len(stack) \in Nat /\ Len(stack) >= 1 /\ stack' \in Seq(Frames)
      /\ Len(stack') = Len(stack) - 1
      /\ \A i \in 1 .. Len(stack) - 1 : stack'[i] = stack[i]
  BY <1>1, TopFrame, FrontFrames DEF IInv
<1>3. /\ queue \in Seq(From(Root)) /\ toLoad \in Seq(From(Root)) /\ results \in Seq(Expected)
      /\ queue # << >>
  BY <1>1 DEF IInv, Shape, RInv, Visited
<1>4. Tail(queue) \in Seq(From(Root))  BY <1>3
<1>5. TopResult \in Seq(Expected)  BY <1>1, TopResultExpected
<1>6. \/ Waiting' = Waiting \o toLoad /\ toLoad' = << >> /\ stack' = << >>
      \/ Waiting' = Waiting /\ toLoad' = toLoad /\ stack' # << >>
  <2>1. Waiting = Tail(queue)  BY <1>1 DEF Waiting
  <2>2. CASE Len(stack) = 1
    <3>1. stack' = << >>  BY <1>2, <2>2
    <3> QED  BY <1>1, <2>1, <2>2, <3>1 DEF Waiting, AfterTurn
  <2>3. CASE Len(stack) # 1
    <3>1. stack' # << >>  BY <1>2, <2>3
    <3> QED  BY <1>1, <2>1, <2>3, <3>1 DEF Waiting
  <2> QED  BY <2>2, <2>3
<1>7. Visited'
  <2>1. results' \in Seq(Expected)  BY <1>1, <1>3, <1>5
  <2>2. queue' \in Seq(From(Root)) /\ toLoad' \in Seq(From(Root))
    <3>1. CASE Len(stack) = 1
      <4>1. queue' = Tail(queue) \o toLoad /\ toLoad' = << >>  BY <1>1, <3>1 DEF AfterTurn
      <4>2. Tail(queue) \o toLoad \in Seq(From(Root))  BY <1>3, <1>4
      <4> QED  BY <4>1, <4>2
    <3>2. CASE Len(stack) # 1  BY <1>1, <1>3, <3>2
    <3> QED  BY <3>1, <3>2
  <2>3. ASSUME NEW i \in DOMAIN stack'
        PROVE  stack'[i].node \in From(Root)
               /\ (stack'[i].getAll => Side[stack'[i].node] = "inside")
    <3>1. i \in DOMAIN stack /\ stack'[i] = stack[i]  BY <1>1, <1>2
    <3> QED  BY <3>1 DEF RInv, Visited
  <2> QED  BY <1>1, <2>1, <2>2, <2>3 DEF RInv, Visited
<1>8. Settled'
  <2>1. ~done  BY <1>1 DEF RInv, Settled
  <2> QED  BY <1>1, <1>6, <2>1 DEF Settled
<1>9. ASSUME NEW n \in Expected  PROVE Debts(n)' = 1
  <2>1. Current = stack /\ Current' = Front(stack)  BY <1>1 DEF Current
  <2>2. Count(Covering(n), stack) = Count(Covering(n), Front(stack)) + Bit(Covering(n), Top)
        /\ Front(stack) \in Seq(Frames)
    BY <1>1, CountFront DEF Top
  <2>3. Count({n}, results') = Count({n}, results) + Bit(Covering(n), Top)
    <3>1. Count({n}, results') = Count({n}, results) + Count({n}, TopResult)
      BY <1>1, <1>3, <1>5, CountConcat
    <3> QED  BY <1>1, <3>1, EndedCall
  <2>4. /\ Count({n}, results) \in Nat /\ Count(Above(n), Waiting) \in Nat
        /\ Count(Above(n), toLoad) \in Nat /\ Count(Above(n), fresh) \in Nat
        /\ Count(Covering(n), Front(stack)) \in Nat /\ Waiting \in Seq(From(Root))
        /\ Bit(Covering(n), Top) \in Nat
    BY <2>2, DebtsNat, CountNat DEF IInv, RInv, Bit
  <2>5. Count(Above(n), Waiting') + Count(Above(n), toLoad')
          = Count(Above(n), Waiting) + Count(Above(n), toLoad)
    <3>1. CASE Waiting' = Waiting \o toLoad /\ toLoad' = << >>
      <4>1. Count(Above(n), Waiting \o toLoad) = Count(Above(n), Waiting) + Count(Above(n), toLoad)
        BY <1>3, <2>4, CountConcat
      <4>2. Count(Above(n), << >>) = 0  BY CountEmpty
      <4> QED  BY <2>4, <3>1, <4>1, <4>2
    <3>2. CASE Waiting' = Waiting /\ toLoad' = toLoad  BY <3>2
    <3> QED  BY <1>6, <3>1, <3>2
  <2>6. Debts(n) = 1  BY DEF RInv, OwedOnce
  <2>7. Debts(n) = Count({n}, results) + Count(Above(n), Waiting) + Count(Above(n), toLoad)
                     + Count(Above(n), fresh) + Count(Covering(n), stack)
    BY <2>1 DEF Debts
  <2>8. Debts(n)' = Count({n}, results') + Count(Above(n), Waiting') + Count(Above(n), toLoad')
                     + Count(Above(n), fresh) + Count(Covering(n), Front(stack))
    BY <1>1, <2>1, DebtsNext
  <2>9. Count(Above(n), Waiting') \in Nat /\ Count(Above(n), toLoad') \in Nat
    <3>1. Waiting' \in Seq(From(Root)) /\ toLoad' \in Seq(From(Root))
      <4>1. << >> \in Seq(From(Root)) /\ Waiting \o toLoad \in Seq(From(Root))
        BY <1>3, <2>4
      <4> QED  BY <1>3, <1>6, <2>4, <4>1
    <3> QED  BY <3>1, CountNat
  <2> DEFINE a == Count({n}, results)
             w == Count(Above(n), Waiting)
             t == Count(Above(n), toLoad)
             x == Count(Above(n), Waiting')
             y == Count(Above(n), toLoad')
             f == Count(Above(n), fresh)
             c == Count(Covering(n), Front(stack))
             d == Bit(Covering(n), Top)
  <2>10. Debts(n) = a + w + t + f + (c + d)  BY <2>2, <2>7
  <2>11. Debts(n)' = (a + d) + x + y + f + c  BY <2>3, <2>8
  <2>12. x + y = w + t  BY <2>5
  <2>13. a \in Nat /\ w \in Nat /\ t \in Nat /\ x \in Nat /\ y \in Nat
         /\ f \in Nat /\ c \in Nat /\ d \in Nat
    BY <2>4, <2>9
  <2> HIDE DEF a, w, t, x, y, f, c, d
  <2> QED  BY <2>6, <2>10, <2>11, <2>12, <2>13
<1> QED  BY <1>7, <1>8, <1>9, OwedTogether

\* Every step keeps what is owed.
LEMMA NextOwed == IInv /\ RInv /\ [Next]_vars => RInv'
<1> SUFFICES ASSUME IInv, RInv, [Next]_vars  PROVE RInv'  OBVIOUS
<1>1. CASE TakeFront  BY <1>1, TakeFrontOwed
<1>2. CASE MoveToBack  BY <1>2, MoveToBackOwed
<1>3. CASE Finish  BY <1>3, FinishOwed
<1>4. CASE ReturnCall  BY <1>4, ReturnCallOwed
<1>5. CASE GetChild  BY <1>5, GetChildOwed
<1>6. CASE LoadLater  BY <1>6, LoadLaterOwed
<1>7. CASE Recurse  BY <1>7, RecurseOwed
<1>8. CASE \E f \in Files : Load(f)  BY <1>8, SameOwed DEF Load
<1>9. CASE \E f \in Files : Evict(f)  BY <1>9, SameOwed DEF Evict
<1>10. CASE UNCHANGED vars  BY <1>10, SameOwed DEF vars
<1> QED
  BY <1>1, <1>2, <1>3, <1>4, <1>5, <1>6, <1>7, <1>8, <1>9, <1>10 DEF Next, Loop

\* What is owed once is returned once, and at the end it is returned.
LEMMA OwedExact ==
  ASSUME IInv, RInv
  PROVE  ResultsExact
<1>1. results \in Seq(Expected)  BY DEF RInv, Visited
<1>2. DOMAIN results = 1 .. Len(results) /\ Len(results) \in Nat  BY <1>1
<1>3. ToSet(results) = {results[i] : i \in DOMAIN results}  BY DEF ToSet
<1>4. ToSet(results) \subseteq Expected  BY <1>1, <1>2, <1>3
<1>5. ASSUME NEW i \in DOMAIN results, NEW j \in DOMAIN results, results[i] = results[j], i # j
      PROVE  FALSE
  <2> DEFINE n == results[i]
             A == At({n}, results)
  <2>1. n \in Expected  BY <1>3, <1>4
  <2>2. i \in A /\ j \in A  BY <1>5 DEF At
  <2> HIDE DEF A
  <2>3. Cardinality(A) <= 1
    <3>1. /\ Count({n}, results) \in Nat /\ Count(Above(n), Waiting) \in Nat
          /\ Count(Above(n), toLoad) \in Nat /\ Count(Above(n), fresh) \in Nat
          /\ Count(Covering(n), Current) \in Nat
      BY DebtsNat DEF IInv, RInv
    <3>2. Debts(n) = 1  BY <2>1 DEF RInv, OwedOnce
    <3>3. Count({n}, results) <= 1  BY <3>1, <3>2 DEF Debts
    <3> QED  BY <3>3 DEF Count, A
  <2>4. IsFiniteSet(A)  BY <1>1, CountNat DEF A
  <2>5. IsFiniteSet(A \ {i}) /\ Cardinality(A \ {i}) = Cardinality(A) - 1
    BY <2>2, <2>4, FS_RemoveElement
  <2>6. Cardinality(A) \in Nat /\ Cardinality(A \ {i}) \in Nat
    BY <2>4, <2>5, FS_CardinalityType
  <2>7. Cardinality(A \ {i}) = 0  BY <2>3, <2>5, <2>6
  <2>8. A \ {i} = {}  BY <2>5, <2>7, FS_EmptySet
  <2> QED  BY <1>5, <2>2, <2>8
<1>6. ASSUME done, NEW n \in Expected  PROVE n \in ToSet(results)
  <2>1. stack = << >> /\ queue = << >>  BY <1>6 DEF RInv, Settled
  <2>2. toLoad = << >> /\ fresh = << >>  BY <2>1 DEF RInv, Settled, IInv, Shape
  <2>3. Waiting = << >> /\ Current = << >>  BY <2>1, <2>2 DEF Waiting, Current
  <2>4. Count(Above(n), << >>) = 0 /\ Count(Covering(n), << >>) = 0  BY CountEmpty
  <2>5. Debts(n) = 1  BY DEF RInv, OwedOnce
  <2>6. Count({n}, results) \in Nat  BY <1>1, CountNat
  <2>7. Count({n}, results) = 1  BY <2>2, <2>3, <2>4, <2>5, <2>6 DEF Debts
  <2>8. At({n}, results) # {}  BY <2>7, FS_EmptySet DEF Count
  <2> QED  BY <1>3, <2>8 DEF At
<1>7. \A i, j \in DOMAIN results : results[i] = results[j] => i = j  BY <1>5
<1> QED  BY <1>4, <1>6, <1>7 DEF ResultsExact

\* For every tree, range, layout of nodes in files, and order of reads and
\* evictions: the points rangeQueryLoop has returned are points that queryRange
\* returns, none twice, and when the loop ends they are all of them.
THEOREM QueryReturnsAll == Spec => []ResultsExact
<1>1. Init => RInv  BY InitOwed
<1>2. IInv /\ RInv /\ [Next]_vars => RInv'  BY NextOwed
<1>3. IInv /\ RInv => ResultsExact  BY OwedExact
<1> QED  BY <1>1, <1>2, <1>3, Invariance, PTL DEF Spec
=============================================================================
