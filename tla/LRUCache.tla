------------------------------ MODULE LRUCache ------------------------------
(***************************************************************************)
(* The cache of cells of the web client (megatree_web/js/lru_cache.js): a  *)
(* doubly linked list whose nodes an object maps ids to.  JavaScript runs  *)
(* one call at a time, so a call is one step; what it does to the pointers *)
(* is spelled out.                                                         *)
(***************************************************************************)
EXTENDS Integers, Sequences, FiniteSets, SequencesExt

CONSTANTS
  Ids,      \* keys
  Items,    \* values
  Nothing,  \* the null that get returns
  Nodes,    \* addresses of list nodes
  Null,     \* the null pointer
  MaxSize   \* max_size

ASSUME CacheAssumption ==
  /\ Null \notin Nodes /\ Nothing \notin Items
  /\ IsFiniteSet(Nodes) /\ MaxSize \in Nat /\ MaxSize < Cardinality(Nodes)

VARIABLES
  list,    \* the list: front, back, and the nodes' prev, next, id and item
  lookup,  \* lookup: the node of each id, or Null
  size,    \* size
  result   \* what the last call returned

vars == <<list, lookup, size, result>>

\* List(): front, back and, for every node, its prev, next, id and item.
EmptyList == [front |-> Null, back |-> Null,
              prev |-> [n \in Nodes |-> Null], next |-> [n \in Nodes |-> Null],
              id |-> [n \in Nodes |-> Nothing], item |-> [n \in Nodes |-> Nothing]]

-----------------------------------------------------------------------------
(* Operations of List *)

\* push_front({id, item}) in the new node n.
PushFront(l, n, i, x) ==
  [l EXCEPT !.id[n] = i, !.item[n] = x, !.next[n] = l.front,
            !.prev = IF l.front = Null THEN [@ EXCEPT ![n] = Null]
                     ELSE [@ EXCEPT ![n] = Null, ![l.front] = n],
            !.front = n,
            !.back = IF @ = Null THEN n ELSE @]

\* The node n is garbage: nothing refers to it any more.
Dropped(l, n) == [l EXCEPT !.prev[n] = Null, !.next[n] = Null,
                           !.id[n] = Nothing, !.item[n] = Nothing]

\* pop_back() of a list that is not empty.
PopBack(l) ==
  LET new_back == l.prev[l.back] IN
  Dropped([l EXCEPT !.front = IF l.front = l.back THEN Null ELSE @,
                    !.next = IF new_back = Null THEN @
                             ELSE [@ EXCEPT ![new_back] = Null],
                    !.back = new_back], l.back)

\* move_to_front(n): unlink the node, then put it before the front.
MoveToFront(l, n) ==
  IF n = l.front THEN l
  ELSE LET unlinked == [l.next EXCEPT ![l.prev[n]] = l.next[n]]
           joined == IF n = l.back THEN l.prev
                     ELSE [l.prev EXCEPT ![l.next[n]] = l.prev[n]]
       IN [l EXCEPT !.back = IF n = @ THEN l.prev[n] ELSE @,
                    !.next = [unlinked EXCEPT ![n] = l.front],
                    !.prev = [joined EXCEPT ![n] = Null, ![l.front] = n],
                    !.front = n]

-----------------------------------------------------------------------------
(* Operations of LRUCache *)

Init ==
  /\ list = EmptyList
  /\ lookup = [i \in Ids |-> Null] /\ size = 0 /\ result = Nothing

\* Nodes that a new Object() may stand for: no pointer leads to them.
Unreachable(n) ==
  n \notin {list.front, list.back} /\ \A i \in Ids : lookup[i] # n

\* put(id, item), for an id in the cache.
PutExisting(i, x) ==
  /\ lookup[i] # Null
  /\ list' = MoveToFront([list EXCEPT !.item[lookup[i]] = x], lookup[i])
  /\ result' = Nothing
  /\ UNCHANGED <<lookup, size>>

\* Fault: the cache may grow one above its limit.
OverflowsLate(s) == s > MaxSize + 1

\* The test of _enforceOverflow; one node is enough to remove.
Overflows(s) == s > MaxSize

\* put(id, item), for a new id: push_front and _enforceOverflow.
PutNew(i, x, n) ==
  /\ lookup[i] = Null /\ Unreachable(n)
  /\ LET pushed == PushFront(list, n, i, x)
         entered == [lookup EXCEPT ![i] = n]
     IN IF Overflows(size + 1)
        THEN /\ list' = PopBack(pushed)
             /\ lookup' = [entered EXCEPT ![pushed.id[pushed.back]] = Null]
             /\ UNCHANGED size
        ELSE list' = pushed /\ lookup' = entered /\ size' = size + 1
  /\ result' = Nothing

\* get(id).
Get(i) ==
  \/ /\ lookup[i] = Null
     /\ result' = Nothing
     /\ UNCHANGED <<list, lookup, size>>
  \/ /\ lookup[i] # Null
     /\ list' = MoveToFront(list, lookup[i])
     /\ result' = list'.item[lookup[i]]
     /\ UNCHANGED <<lookup, size>>

Clear ==
  /\ size' = 0 /\ lookup' = [i \in Ids |-> Null]
  /\ list' = EmptyList
  /\ result' = Nothing

Next ==
  \/ \E i \in Ids : Get(i)
  \/ \E i \in Ids, x \in Items :
       PutExisting(i, x) \/ \E n \in Nodes : PutNew(i, x, n)
  \/ Clear

Spec == Init /\ [][Next]_vars

-----------------------------------------------------------------------------
(* Properties *)

\* The first k nodes met from p along a pointer of the list.
Walk(p, link, k) ==
  LET at[j \in 1..k] == IF j = 1 THEN p
                        ELSE IF at[j - 1] = Null THEN Null ELSE link[at[j - 1]]
  IN [j \in 1..k |-> at[j]]

Abstract ==
  INSTANCE LRUSpec WITH
    order  <- LET chain == Walk(list.front, list.next, size)
              IN [j \in 1..size |-> list.id[chain[j]]],
    stored <- [i \in Ids |-> IF lookup[i] = Null THEN Nothing
                             ELSE list.item[lookup[i]]],
    answer <- result

\* The linked list with its lookup object behaves as an LRU cache: get returns
\* the last item put unless it has been replaced, and put replaces the least
\* recently used id.
ImplementsLRU == Abstract!Spec
=============================================================================
