------------------------------- MODULE Octree -------------------------------
(***************************************************************************)
(* How a point enters the tree and how a range is read back:               *)
(* megatree_cpp/src/tree_functions.cpp and tree_functions.h, on the nodes  *)
(* of node.h with the cells of node_geometry.h.                            *)
(*                                                                         *)
(* The code treats the three axes alike, so the model keeps one: a node    *)
(* has two children, and a point is its coordinate.  Coordinates are whole *)
(* numbers of a unit that divides the smallest cell; a coordinate stored   *)
(* in a node is a number below Bits (65536), relative to its cell.         *)
(*                                                                         *)
(* A program adds its points by one of two ways.  addPoint recomputes the  *)
(* whole path after every point.  TreeFastCache keeps the handles of one   *)
(* path open between points and merges a child into its parent only when   *)
(* it leaves the path.                                                     *)
(*                                                                         *)
(* A file that no handle uses may be evicted at any time: it is written    *)
(* when it is flagged modified and dropped otherwise.                      *)
(***************************************************************************)
EXTENDS Integers, Sequences, FiniteSets, FiniteSetsExt

CONSTANTS
  Levels,      \* levels of the smallest possible cells below the root
  Unit,        \* edge of the smallest possible cell
  Bits,        \* values of a stored coordinate (65536)
  Wide,        \* values of a 64 bit number
  MinCell,     \* min_cell_size
  Width,       \* subtree_width
  Points,      \* coordinates that may be added
  MaxPoints,   \* bound: points added
  Ways,        \* the ways points may be added
  Evicting     \* the ways for which the cache is too small for the tree

ASSUME OctreeAssumption ==
  /\ Levels \in Nat /\ Unit \in Nat \ {0} /\ Bits \in Nat \ {0} /\ Wide \in Nat \ {0}
  /\ MinCell \in Nat \ {0} /\ Unit < MinCell /\ Width \in Nat \ {0}
  /\ IsFiniteSet(Points) /\ Points \subseteq Nat /\ MaxPoints \in Nat
  /\ Ways \subseteq {"addPoint", "TreeFastCache"} /\ Evicting \subseteq Ways

VARIABLES
  way,     \* the way this program adds its points
  nodes,   \* the nodes of the tree, as the cache or else the storage holds them
  saved,   \* the nodes in storage
  dirty,   \* files flagged is_modified
  path,    \* the handles in use, the root's first
  pc,      \* where addPoint is
  pt,      \* the point being added
  added    \* number of times each point was added

vars == <<way, nodes, saved, dirty, path, pc, pt, added>>

-----------------------------------------------------------------------------
(* Cells: node_geometry.h and long_id.h.                                   *)

Id == UNION {{<<l, i>> : i \in 0 .. 2 ^ l - 1} : l \in 0 .. Levels}
Root == <<0, 0>>
Child(n, k) == <<n[1] + 1, 2 * n[2] + k>>

Size(n) == Unit * 2 ^ (Levels - n[1])
Lo(n) == n[2] * Size(n)
Hi(n) == Lo(n) + Size(n)
Contains(n, p) == Lo(n) <= p /\ p < Hi(n)

WhichChild(n, p) == IF 2 * p >= Lo(n) + Hi(n) THEN 1 ELSE 0

\* getFileId: the ancestor subtree_width generations up, or the root file.
FileOf(n) == IF n[1] < Width THEN <<>> ELSE <<n[1] - Width, n[2] \div 2 ^ Width>>

-----------------------------------------------------------------------------
(* Nodes: node.h.                                                          *)

EmptyNode == [count |-> 0, point |-> 0, kids |-> {}]
IsEmpty(n) == nodes[n].count = 0
IsLeaf(n) == nodes[n].kids = {}

\* float_to_fixed
ToFixed(n, p) == (Bits * (p - Lo(n))) \div Size(n)
\* fixed_to_float, times 2 * Bits
Position(n) == 2 * Bits * Lo(n) + (2 * nodes[n].point + 1) * Size(n)

ChildForNodePoint(n) == IF 2 * nodes[n].point >= Bits THEN 1 ELSE 0
ChildBitOffset(k) == k * Bits

\* Node::setPoint
WithPoint(n, p) == [nodes[n] EXCEPT !.count = 1, !.point = ToFixed(n, p)]

\* Node::addPoint: the moving average, truncated.  It is computed in doubles,
\* and a whole result may come out just below itself.
Averaged(n, p) ==
  LET count == nodes[n].count + 1
      sum   == (count - 1) * nodes[n].point + ToFixed(n, p)
      below == IF sum % count = 0 /\ sum > 0 THEN {sum \div count - 1} ELSE {}
  IN {[nodes[n] EXCEPT !.count = count, !.point = v] : v \in {sum \div count} \cup below}

\* copyToChildNode: a new leaf with the point of the node, one bit shifted out
CopiedToChild(n) ==
  [count |-> nodes[n].count, point |-> (2 * nodes[n].point) % Bits, kids |-> {}]

\* Fault: the average is not shifted back down.
CopiedUnhalved(n) ==
  LET kid(k) == nodes[Child(n, k)]
      count  == MapThenSumSet(LAMBDA k : kid(k).count, nodes[n].kids)
      sum    == MapThenSumSet(LAMBDA k : kid(k).count * (kid(k).point + ChildBitOffset(k)),
                              nodes[n].kids)
  IN [nodes[n] EXCEPT !.count = count, !.point = (sum \div count) % Bits]

\* copyFromChildNodes: the children's average in half units of the node, halved
CopiedFromChildren(n) ==
  LET kid(k) == nodes[Child(n, k)]
      count  == MapThenSumSet(LAMBDA k : kid(k).count, nodes[n].kids)
      sum    == MapThenSumSet(LAMBDA k : kid(k).count * (kid(k).point + ChildBitOffset(k)),
                              nodes[n].kids)
  IN [nodes[n] EXCEPT !.count = count, !.point = (sum \div count) \div 2]

\* The nodes t with those of S as in s
Over(s, S, t) == [n \in S \cup DOMAIN t |-> IF n \in S THEN s[n] ELSE t[n]]
\* createNode: the nodes t and a new one
With(t, n, node) == Over([m \in {n} |-> node], {n}, t)

-----------------------------------------------------------------------------
(* Handles.                                                                *)

\* A handle of node n of tree t; NodeCache also keeps the count and the point
\* the node had.
Handle(t, n) == [node |-> n, modified |-> FALSE, count |-> t[n].count, point |-> t[n].point]

Last == Len(path)
Top == path[Last].node

Flagged == [path EXCEPT ![Last].modified = TRUE]
Popped == SubSeq(path, 1, Last - 1)
InUse(f) == \E i \in 1 .. Last : FileOf(path[i].node) = f

\* releaseNode of the last handle
ReleasedDirty == dirty \cup (IF path[Last].modified THEN {FileOf(Top)} ELSE {})

\* point_accuracy is min_cell_size
Accurate(n) == MinCell * Bits >= Size(n)

Fast == way = "TreeFastCache"
Total(t) == MapThenSumSet(LAMBDA p : t[p], Points)

Init ==
  /\ way \in Ways
  /\ nodes = [n \in {Root} |-> EmptyNode] /\ saved = [n \in {} |-> EmptyNode]
  /\ dirty = {FileOf(Root)}
  /\ path = << >> /\ pc = "idle" /\ pt = 0
  /\ added = [p \in Points |-> 0]

-----------------------------------------------------------------------------
(* Adding a point.                                                         *)

\* addPoint: a point out of bounds is reported and left out.
AddPoint(p) ==
  /\ ~Fast /\ pc = "idle" /\ Total(added) < MaxPoints
  /\ Contains(Root, p)
  /\ path' = <<Handle(nodes, Root)>> /\ pt' = p /\ pc' = "down"
  /\ UNCHANGED <<way, nodes, saved, dirty, added>>

\* TreeFastCache::TreeFastCache
OpenFastCache ==
  /\ Fast /\ pc = "idle" /\ path = << >> /\ Total(added) < MaxPoints
  /\ path' = <<Handle(nodes, Root)>>
  /\ UNCHANGED <<way, nodes, saved, dirty, pc, pt, added>>

\* TreeFastCache::addPoint
FastAddPoint(p) ==
  /\ Fast /\ pc = "idle" /\ path # << >> /\ Total(added) < MaxPoints
  /\ Contains(Root, p)
  /\ pt' = p /\ pc' = "seek"
  /\ UNCHANGED <<way, nodes, saved, dirty, path, added>>

FoundNode ==
  /\ pc = "seek" /\ Contains(Top, pt)
  /\ pc' = "down"
  /\ UNCHANGED <<way, nodes, saved, dirty, path, pt, added>>

\* TreeFastCache::~TreeFastCache
CloseFastCache ==
  /\ Fast /\ pc = "idle" /\ path # << >>
  /\ pc' = "close"
  /\ UNCHANGED <<way, nodes, saved, dirty, path, pt, added>>

\* Fault: the whole child is added, not what it has gained.
MergedWhole ==
  LET child  == nodes[Top]
      parent == nodes[path[Last - 1].node]
      count  == (parent.count + child.count) % Wide
  IN [parent EXCEPT !.count = count,
        !.point = (((parent.point * parent.count + child.point * child.count) % Wide)
                     \div count) % Bits]

\* NodeCache::mergeChild of the last handle into the one before: what the child
\* has gained is added to the parent, in 64 bits, and stored in 16.
Merged ==
  LET child  == nodes[Top]
      orig   == path[Last]
      parent == nodes[path[Last - 1].node]
      gained == (child.count - orig.count) % Wide
      diff   == (child.point * child.count - orig.point * orig.count
                   + ChildBitOffset(Top[2] % 2) * gained) % Wide
      count  == (parent.count + gained) % Wide
  IN [parent EXCEPT !.count = count,
                    !.point = (((parent.point * parent.count + diff) % Wide) \div count) % Bits]

\* TreeFastCache::pop, while the top does not contain the point, or at the end
Pop ==
  /\ pc = "close" \/ (pc = "seek" /\ ~Contains(Top, pt))
  /\ nodes' = IF Last > 1 THEN [nodes EXCEPT ![path[Last - 1].node] = Merged] ELSE nodes
  /\ dirty' = ReleasedDirty
  /\ path' = Popped
  /\ pc' = IF Last = 1 THEN "idle" ELSE pc
  /\ UNCHANGED <<way, saved, pt, added>>

\* The point is in its node: addPointRecursive returns, and so does addPoint of
\* TreeFastCache.
Placed(node) ==
  /\ nodes' = [nodes EXCEPT ![Top] = node]
  /\ path' = Flagged
  /\ pc' = IF Fast THEN "idle" ELSE "up"
  /\ added' = [added EXCEPT ![pt] = @ + 1]
  /\ UNCHANGED <<way, saved, dirty, pt>>

SetPoint ==
  /\ pc = "down" /\ IsEmpty(Top) /\ Accurate(Top)
  /\ Placed(WithPoint(Top, pt))

AddToNode ==
  /\ pc = "down" /\ ~(IsEmpty(Top) /\ Accurate(Top)) /\ Size(Top) < MinCell
  /\ \E node \in Averaged(Top, pt) : Placed(node)

\* The nodes after a leaf with a point has passed it on to a new child
AfterSplit ==
  LET k == ChildForNodePoint(Top)
  IN IF IsLeaf(Top) /\ ~IsEmpty(Top)
     THEN With([nodes EXCEPT ![Top].kids = {k}], Child(Top, k), CopiedToChild(Top))
     ELSE nodes

Descend ==
  /\ pc = "down" /\ ~(IsEmpty(Top) /\ Accurate(Top)) /\ Size(Top) >= MinCell
  /\ LET k     == WhichChild(Top, pt)
         child == Child(Top, k)
     IN /\ nodes' = IF k \in AfterSplit[Top].kids THEN AfterSplit
                    ELSE With([AfterSplit EXCEPT ![Top].kids = @ \cup {k}], child, EmptyNode)
        /\ path' = Append(IF nodes' = nodes THEN path ELSE Flagged, Handle(nodes', child))
        /\ dirty' = dirty \cup {FileOf(n) : n \in DOMAIN nodes' \ DOMAIN nodes}
  /\ UNCHANGED <<way, saved, pc, pt, added>>

\* Fault: copyFromChildNodes does not set modified.
ReturnUnflagged ==
  /\ pc = "up"
  /\ dirty' = ReleasedDirty
  /\ IF Last = 1
     THEN path' = << >> /\ pc' = "idle" /\ UNCHANGED nodes
     ELSE LET parent == path[Last - 1].node
          IN /\ nodes' = [nodes EXCEPT ![parent] = CopiedFromChildren(parent)]
             /\ path' = Popped
             /\ UNCHANGED pc
  /\ UNCHANGED <<way, saved, pt, added>>

\* addPointRecursive has returned: the child is released and the parent is
\* computed from its children; the root is released by addPoint.
Return ==
  /\ pc = "up"
  /\ dirty' = ReleasedDirty
  /\ IF Last = 1
     THEN path' = << >> /\ pc' = "idle" /\ UNCHANGED nodes
     ELSE LET parent == path[Last - 1].node
          IN /\ nodes' = [nodes EXCEPT ![parent] = CopiedFromChildren(parent)]
             /\ path' = [Popped EXCEPT ![Last - 1].modified = TRUE]
             /\ UNCHANGED pc
  /\ UNCHANGED <<way, saved, pt, added>>

\* cacheMaintenance takes a file nobody uses out of the cache.
Evict(f) ==
  LET held(t) == {n \in DOMAIN t : FileOf(n) = f}
  IN /\ way \in Evicting /\ ~InUse(f) /\ held(nodes) # {}
     /\ IF f \in dirty
        THEN /\ saved' = Over(nodes, held(nodes), saved)
             /\ dirty' = dirty \ {f}
             /\ UNCHANGED nodes
        ELSE /\ nodes' = Over(saved, held(saved), nodes)
             /\ UNCHANGED <<saved, dirty>>
     /\ UNCHANGED <<way, path, pc, pt, added>>

Next ==
  \/ \E p \in Points : AddPoint(p) \/ FastAddPoint(p)
  \/ OpenFastCache \/ FoundNode \/ CloseFastCache \/ Pop
  \/ SetPoint \/ AddToNode \/ Descend \/ Return
  \/ \E n \in Id : Evict(FileOf(n))

Spec == Init /\ [][Next]_vars

-----------------------------------------------------------------------------
(* Reading a range: queryRange and the functions it calls.                 *)

NodeOutsideRange(n, lo, hi) == Hi(n) <= lo \/ Lo(n) >= hi

\* Fault: the upper end of the range is not compared.
NodeInsideLo(n, lo, hi) == lo <= Lo(n)
NodeInsideRange(n, lo, hi) == lo <= Lo(n) /\ Hi(n) <= hi
PointInRange(n, lo, hi) == 2 * Bits * lo <= Position(n) /\ Position(n) < 2 * Bits * hi
Stops(n, resolution) == IsLeaf(n) \/ Size(n) <= resolution
Children(n) == {Child(n, k) : k \in nodes[n].kids}

\* The nodes whose points are returned, below each node
GetAllPoints(resolution) ==
  LET all[n \in DOMAIN nodes] ==
        IF Stops(n, resolution) THEN {n} ELSE UNION {all[c] : c \in Children(n)}
  IN all

QueryRange(lo, hi, resolution) ==
  LET query[n \in DOMAIN nodes] ==
        IF NodeOutsideRange(n, lo, hi) THEN {}
        ELSE IF NodeInsideRange(n, lo, hi) THEN GetAllPoints(resolution)[n]
        ELSE IF Stops(n, resolution) THEN {m \in {n} : PointInRange(m, lo, hi)}
        ELSE UNION {query[c] : c \in Children(n)}
  IN query[Root]

-----------------------------------------------------------------------------
(* Properties.                                                             *)

AddedIn(lo, hi) == MapThenSumSet(LAMBDA p : added[p], {p \in Points : lo <= p /\ p < hi})

\* What the handles below n on the path have gained and n does not know yet
Pending(n) ==
  MapThenSumSet(LAMBDA i : nodes[path[i].node].count - path[i].count,
                {i \in 2 .. Last : \E j \in 1 .. i - 1 : path[j].node = n})

\* At every moment the count of a node, with what the open handles below it
\* still have to bring up, is the number of points added in its cell, and a
\* point is only counted in a node that has it in a child: no point is lost or
\* counted twice by a split, by the descent, by copyFromChildNodes or by
\* mergeChild.  (Below min_cell_size a point that was moved down from the
\* coarsest accurate level has no bit left that tells its half.)
CountExact ==
  \A n \in DOMAIN nodes :
    Size(n) >= MinCell =>
      /\ nodes[n].count + Pending(n) = AddedIn(Lo(n), Hi(n))
      /\ IsLeaf(n) \/ \A k \in {0, 1} \ nodes[n].kids :
           LET c == Child(n, k) IN Size(c) >= MinCell => AddedIn(Lo(c), Hi(c)) = 0

\* The point of every node is the mean of the points added in its cell, up to
\* min_cell_size for where a leaf keeps its points and two steps of the node's
\* own resolution for the truncations on the way up.
MeansNear ==
  \A n \in DOMAIN nodes :
    LET count == nodes[n].count
        sum   == MapThenSumSet(LAMBDA p : p * added[p], {p \in Points : Contains(n, p)})
        error == Position(n) * count - 2 * Bits * sum
        limit == (2 * Bits * MinCell + 4 * Size(n)) * count
    IN Size(n) >= MinCell => -limit <= error /\ error <= limit

\* Between two calls of addPoint every node is near the mean of its points
\* (copyFromChildNodes; test_basics.cpp checks it for the root).
SummaryNear == path = << >> /\ ~Fast => MeansNear

\* A node that differs from its copy in storage is in a file that is in use or
\* flagged modified, so that an eviction writes it (the modified flags of
\* NodeHandle, releaseNode and createNode).
ChangesFlagged ==
  \A n \in DOMAIN nodes :
    \/ InUse(FileOf(n)) \/ FileOf(n) \in dirty
    \/ n \in DOMAIN saved /\ saved[n] = nodes[n]

Ancestor(a, n) == a[1] < n[1] /\ n[2] \div 2 ^ (n[1] - a[1]) = a[2]
Ends == 0 .. Size(Root)
Resolutions == {0} \cup {Size(n) : n \in Id}

\* Between points, a query returns exactly the nodes at its resolution whose
\* points are in the range: cutting off the cells outside and taking the cells
\* inside as a whole changes nothing, and no node it reaches is empty, as
\* getAllPointsRecursive and queryRangeIntersecting assert.  At full resolution
\* it finds every added point that lies in the range by min_cell_size, and none
\* that lies outside by as much.
QueryExact ==
  path = << >> /\ ~IsEmpty(Root) =>
    \A lo \in Ends : \A hi \in lo + 1 .. Size(Root) :
      LET found == MapThenSumSet(LAMBDA n : nodes[n].count, QueryRange(lo, hi, 0))
      IN /\ found >= AddedIn(lo + MinCell, hi - MinCell)
         /\ found <= AddedIn(lo - MinCell, hi + MinCell)
         /\ \A resolution \in Resolutions :
              LET level == {n \in DOMAIN nodes :
                              /\ Stops(n, resolution)
                              /\ ~\E a \in DOMAIN nodes :
                                    Ancestor(a, n) /\ Stops(a, resolution)}
              IN /\ \A n \in level : ~IsEmpty(n)
                 /\ QueryRange(lo, hi, resolution) = {n \in level : PointInRange(n, lo, hi)}
=============================================================================
