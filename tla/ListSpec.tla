------------------------------ MODULE ListSpec ------------------------------
(***************************************************************************)
(* What the operations of megatree::List promise: each list is a sequence  *)
(* of nodes, and a call changes it as its name says.                       *)
(***************************************************************************)
EXTENDS Naturals, Sequences, SequencesExt

CONSTANTS Lists, Nodes, Null

VARIABLES
  order,   \* the nodes of each list, front first
  call     \* the last call: its name, its list, its node or other list

specVars == <<order, call>>

Used == UNION {ToSet(order[l]) : l \in Lists}

Init ==
  order = [l \in Lists |-> << >>] /\ call = <<"none", Null, Null>>

\* The list l becomes s by the call op with argument x.
Becomes(op, l, x, s) ==
  call' = <<op, l, x>> /\ order' = [order EXCEPT ![l] = s]

Push(l, n) ==
  /\ n \notin Used
  /\ \/ Becomes("push_front", l, n, Cons(n, order[l]))
     \/ Becomes("push_back", l, n, Append(order[l], n))

Pop(l) ==
  /\ order[l] # << >>
  /\ \/ Becomes("pop_front", l, Null, Tail(order[l]))
     \/ Becomes("pop_back", l, Null, Front(order[l]))

Change(l, n) ==
  /\ n \in ToSet(order[l])
  /\ LET others == Remove(order[l], n)
     IN \/ Becomes("erase", l, n, others)
        \/ Becomes("moveToFront", l, n, Cons(n, others))
        \/ Becomes("moveToBack", l, n, Append(others, n))

Splice(l, k) ==
  /\ l # k
  /\ call' = <<"spliceToBack", l, k>>
  /\ order' = [order EXCEPT ![l] = @ \o order[k], ![k] = << >>]

Next ==
  \/ \E l \in Lists : Pop(l)
  \/ \E l \in Lists, n \in Nodes : Push(l, n) \/ Change(l, n)
  \/ \E l, k \in Lists : Splice(l, k)

Spec == Init /\ [][Next]_specVars
=============================================================================
