----------------------------- MODULE LinkedList -----------------------------
(***************************************************************************)
(* megatree::List (megatree_core/include/megatree/list.h): doubly linked   *)
(* lists of nodes on one heap, the container under Cache and under the     *)
(* queue of rangeQueryLoop.  The objects in the nodes are left out.        *)
(***************************************************************************)
EXTENDS Integers, Sequences, FiniteSets, SequencesExt

CONSTANTS
  Lists,
  Nodes,     \* addresses of nodes
  Null       \* NULL

ASSUME ListAssumption == Null \notin Nodes

VARIABLES
  front, back,      \* list_front and list_back of each list
  previous, next,   \* the pointers of each node
  allocated,        \* the nodes that are not deleted
  spliced,          \* the lists that another list was spliced to
  call              \* the last call: its name, its list, its node or other list

vars == <<front, back, previous, next, allocated, spliced, call>>

Init ==
  /\ front = [l \in Lists |-> Null] /\ back = [l \in Lists |-> Null]
  /\ previous = [n \in Nodes |-> Null] /\ next = [n \in Nodes |-> Null]
  /\ allocated = {} /\ spliced = {} /\ call = <<"none", Null, Null>>

\* f with x at p, for an assignment behind a test that p is not NULL.
Set(f, p, x) == IF p = Null THEN f ELSE [f EXCEPT ![p] = x]

\* At most one node more than there are, from p along a pointer.
Walk(p, link) ==
  LET steps == 1..(Cardinality(Nodes) + 1)
      at[j \in steps] ==
        IF j = 1 THEN p ELSE IF at[j - 1] = Null THEN Null ELSE link[at[j - 1]]
  IN SelectSeq([j \in steps |-> at[j]], LAMBDA n : n # Null)

\* What the iterators from either end see.
Forward(l) == Walk(front[l], next)
Backward(l) == Walk(back[l], previous)

\* The nodes that a caller may name.  spliceToBack does not set the previous
\* pointer at the seam; a list that another was spliced to is used as a queue,
\* as rangeQueryLoop does: pushed to at its back and taken from at its front.
MayUse(l, n) == n \in ToSet(Forward(l)) /\ (l \in spliced => n = front[l])

-----------------------------------------------------------------------------
\* A deleted node keeps no pointer: what is in its memory means nothing.
Wiped(f, n) == [f EXCEPT ![n] = Null]

New(n) == n \notin allocated /\ allocated' = allocated \cup {n}

PushFront(l, n) ==
  /\ New(n)
  /\ next' = [next EXCEPT ![n] = front[l]]
  /\ previous' = Set([previous EXCEPT ![n] = Null], front[l], n)
  /\ front' = [front EXCEPT ![l] = n]
  /\ back' = [back EXCEPT ![l] = IF @ = Null THEN n ELSE @]
  /\ call' = <<"push_front", l, n>>
  /\ UNCHANGED spliced

PushBack(l, n) ==
  /\ New(n)
  /\ previous' = [previous EXCEPT ![n] = back[l]]
  /\ next' = Set([next EXCEPT ![n] = Null], back[l], n)
  /\ back' = [back EXCEPT ![l] = n]
  /\ front' = [front EXCEPT ![l] = IF @ = Null THEN n ELSE @]
  /\ call' = <<"push_back", l, n>>
  /\ UNCHANGED spliced

\* Fault: the back pointer keeps the deleted node when the list gets empty.
PopFrontKeepsBack(l) ==
  /\ front[l] # Null
  /\ previous' = Wiped(Set(previous, next[front[l]], Null), front[l])
  /\ next' = Wiped(next, front[l])
  /\ allocated' = allocated \ {front[l]}
  /\ front' = [front EXCEPT ![l] = next[@]]
  /\ call' = <<"pop_front", l, Null>>
  /\ UNCHANGED <<back, spliced>>

PopFront(l) ==
  /\ front[l] # Null
  /\ previous' = Wiped(Set(previous, next[front[l]], Null), front[l])
  /\ next' = Wiped(next, front[l])
  /\ back' = [back EXCEPT ![l] = IF @ = front[l] THEN Null ELSE @]
  /\ allocated' = allocated \ {front[l]}
  /\ front' = [front EXCEPT ![l] = next[@]]
  /\ call' = <<"pop_front", l, Null>>
  /\ UNCHANGED spliced

PopBack(l) ==
  /\ back[l] # Null /\ MayUse(l, back[l])
  /\ front' = [front EXCEPT ![l] = IF @ = back[l] THEN Null ELSE @]
  /\ next' = Set(next, previous[back[l]], Null)
  /\ previous' = Wiped(previous, back[l])
  /\ allocated' = allocated \ {back[l]}
  /\ back' = [back EXCEPT ![l] = previous[@]]
  /\ call' = <<"pop_back", l, Null>>
  /\ UNCHANGED spliced

\* erase(n): the only node, the front, the back, or a node between others.
Erase(l, n) ==
  /\ MayUse(l, n)
  /\ \/ /\ n = front[l] /\ n = back[l]
        /\ front' = [front EXCEPT ![l] = Null] /\ back' = [back EXCEPT ![l] = Null]
        /\ UNCHANGED <<previous, next>>
     \/ /\ n = front[l] /\ n # back[l]
        /\ front' = [front EXCEPT ![l] = next[n]]
        /\ previous' = Wiped(previous, next[n]) /\ next' = Wiped(next, n)
        /\ UNCHANGED back
     \/ /\ n # front[l] /\ n = back[l]
        /\ back' = [back EXCEPT ![l] = previous[n]]
        /\ next' = Wiped(next, previous[n]) /\ previous' = Wiped(previous, n)
        /\ UNCHANGED front
     \/ /\ n # front[l] /\ n # back[l]
        /\ next' = Wiped([next EXCEPT ![previous[n]] = next[n]], n)
        /\ previous' = Wiped([previous EXCEPT ![next[n]] = previous[n]], n)
        /\ UNCHANGED <<front, back>>
  /\ allocated' = allocated \ {n}
  /\ call' = <<"erase", l, n>>
  /\ UNCHANGED spliced

\* moveToFront(n): the node is unlinked and put before the front.
MoveToFront(l, n) ==
  /\ MayUse(l, n)
  /\ IF n = front[l] THEN UNCHANGED <<front, back, previous, next>>
     ELSE /\ next' = [next EXCEPT ![previous[n]] = next[n], ![n] = front[l]]
          /\ back' = [back EXCEPT ![l] = IF @ = n THEN previous[n] ELSE @]
          /\ LET joined == IF n = back[l] THEN previous
                           ELSE [previous EXCEPT ![next[n]] = previous[n]]
             IN previous' = [joined EXCEPT ![n] = Null, ![front[l]] = n]
          /\ front' = [front EXCEPT ![l] = n]
  /\ call' = <<"moveToFront", l, n>>
  /\ UNCHANGED <<allocated, spliced>>

\* Fault: the front pointer keeps the node that is moved away from it.
MoveToBackKeepsFront(l, n) ==
  /\ MayUse(l, n)
  /\ IF n = back[l] THEN UNCHANGED <<front, back, previous, next>>
     ELSE /\ next' = [Set(next, previous[n], next[n]) EXCEPT ![n] = Null, ![back[l]] = n]
          /\ previous' = [Set(previous, next[n], previous[n]) EXCEPT ![n] = back[l]]
          /\ back' = [back EXCEPT ![l] = n]
          /\ UNCHANGED front
  /\ call' = <<"moveToBack", l, n>>
  /\ UNCHANGED <<allocated, spliced>>

\* moveToBack(n): the node is unlinked and put after the back.
MoveToBack(l, n) ==
  /\ MayUse(l, n)
  /\ IF n = back[l] THEN UNCHANGED <<front, back, previous, next>>
     ELSE /\ front' = [front EXCEPT ![l] = IF @ = n THEN next[n] ELSE @]
          /\ next' = [Set(next, previous[n], next[n]) EXCEPT ![n] = Null, ![back[l]] = n]
          /\ previous' = [Set(previous, next[n], previous[n]) EXCEPT ![n] = back[l]]
          /\ back' = [back EXCEPT ![l] = n]
  /\ call' = <<"moveToBack", l, n>>
  /\ UNCHANGED <<allocated, spliced>>

\* l.spliceToBack(k): the nodes of k go to the end of l.
SpliceToBack(l, k) ==
  /\ l # k
  /\ next' = IF front[k] = Null THEN next ELSE Set(next, back[l], front[k])
  /\ back' = [back EXCEPT ![l] = IF back[k] = Null THEN @ ELSE back[k], ![k] = Null]
  /\ front' = [front EXCEPT ![l] = IF @ = Null THEN front[k] ELSE @, ![k] = Null]
  /\ spliced' = (spliced \cup {l}) \ {k}
  /\ call' = <<"spliceToBack", l, k>>
  /\ UNCHANGED <<previous, allocated>>

Next ==
  \/ \E l \in Lists : PopFront(l) \/ PopBack(l)
  \/ \E l \in Lists, n \in Nodes :
       PushFront(l, n) \/ PushBack(l, n) \/ Erase(l, n) \/ MoveToFront(l, n)
       \/ MoveToBack(l, n)
  \/ \E l, k \in Lists : SpliceToBack(l, k)

Spec == Init /\ [][Next]_vars

-----------------------------------------------------------------------------
(* Properties *)

\* Every list is a chain of live nodes that ends at its back pointer and is
\* seen from both ends if nothing was spliced to it; no node is on two lists,
\* and a node on no list is deleted: nothing leaks and nothing dangles.
Linked ==
  /\ \A l \in Lists :
       /\ IsInjective(Forward(l)) /\ ToSet(Forward(l)) \subseteq allocated
       /\ (front[l] = Null) = (back[l] = Null)
       /\ front[l] # Null => Last(Forward(l)) = back[l]
       /\ l \notin spliced => Backward(l) = Reverse(Forward(l))
       /\ \A k \in Lists \ {l} : ToSet(Forward(l)) \cap ToSet(Forward(k)) = {}
  /\ allocated = UNION {ToSet(Forward(l)) : l \in Lists}

Abstract == INSTANCE ListSpec WITH order <- [l \in Lists |-> Forward(l)]

\* Seen from its front, a list changes as the name of the call says.
ImplementsList == Abstract!Spec
=============================================================================
