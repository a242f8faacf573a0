------------------------------ MODULE LRUSpec ------------------------------
(***************************************************************************)
(* A cache of bounded size with least-recently-used replacement: what the  *)
(* cell cache of the web client promises.                                  *)
(***************************************************************************)
EXTENDS Naturals, Sequences, SequencesExt

CONSTANTS Ids, Items, Nothing, MaxSize

VARIABLES
  order,   \* the ids in the cache, most recently used first
  stored,  \* the item of each id, or Nothing
  answer   \* what the last call returned

lruVars == <<order, stored, answer>>

Init ==
  order = << >> /\ stored = [i \in Ids |-> Nothing] /\ answer = Nothing

\* An id that is put or found becomes the most recently used one; when there
\* are too many, the least recently used one goes.
Put(i, x) ==
  LET used == Cons(i, Remove(order, i))
      kept == IF Len(used) > MaxSize THEN Front(used) ELSE used
  IN /\ order' = kept
     /\ stored' = [j \in Ids |-> IF j \notin ToSet(kept) THEN Nothing
                                 ELSE IF j = i THEN x ELSE stored[j]]
     /\ answer' = Nothing

Get(i) ==
  /\ order' = IF stored[i] = Nothing THEN order ELSE Cons(i, Remove(order, i))
  /\ answer' = stored[i]
  /\ UNCHANGED stored

Clear ==
  order' = << >> /\ stored' = [i \in Ids |-> Nothing] /\ answer' = Nothing

Next == (\E i \in Ids : Get(i) \/ \E x \in Items : Put(i, x)) \/ Clear

Spec == Init /\ [][Next]_lruVars
=============================================================================
