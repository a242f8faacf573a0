---------------------------- MODULE OctreeProofs ----------------------------
(***************************************************************************)
(* Proofs about Octree: the modified flags of the files.                   *)
(*                                                                         *)
(* The cache writes a file that it evicts only if the file is flagged, so  *)
(* every change of a node has to reach the flag before the last handle of  *)
(* the file is gone.  A change is first known to a handle on the path      *)
(* alone (getNode(true) sets its modified flag), and releaseNode hands it  *)
(* on.  For addPoint this is enough.  mergeChild of TreeFastCache sets no  *)
(* flag, so with it the property needs a cache that evicts nothing.        *)
(***************************************************************************)
EXTENDS Octree, SequenceTheorems, TLAPS

Cell == Nat \X Nat
Half == {0, 1}

\* The nodes form a tree: a node is there exactly if its parent is and has the
\* bit of the child set, so that a split never overwrites a node.
TreeShape(t) ==
  /\ t = [n \in DOMAIN t |-> t[n]]
  /\ Root \in DOMAIN t /\ DOMAIN t \subseteq Cell
  /\ \A n \in DOMAIN t : "kids" \in DOMAIN t[n] /\ t[n].kids \subseteq Half
  /\ \A n \in Cell : \A k \in Half :
       Child(n, k) \in DOMAIN t <=> n \in DOMAIN t /\ k \in t[n].kids

\* A sequence of handles of any kind
IsPath(s) == s \in Seq({s[i] : i \in DOMAIN s})

HandleShape(h) ==
  /\ {"node", "modified"} \subseteq DOMAIN h
  /\ h.node \in DOMAIN nodes

PathShape ==
  /\ IsPath(path)
  /\ \A i \in 1 .. Last : HandleShape(path[i])
  /\ pc # "idle" => path # << >>
  /\ ~Fast => pc \in {"idle", "down", "up"} /\ (pc = "idle" => path = << >>)

\* A handle in use knows of a change in file f.
Noted(f) == \E i \in 1 .. Last : path[i].modified /\ FileOf(path[i].node) = f

FlagInv ==
  /\ DOMAIN saved \subseteq DOMAIN nodes
  /\ way \notin Evicting => \A n \in DOMAIN nodes : FileOf(n) \in dirty
  /\ way \in Evicting =>
       /\ ~Fast
       /\ \A n \in DOMAIN nodes :
            \/ FileOf(n) \in dirty \/ Noted(FileOf(n))
            \/ n \in DOMAIN saved /\ saved[n] = nodes[n]

OInv == TreeShape(nodes) /\ PathShape /\ FlagInv

-----------------------------------------------------------------------------
(* The tree.                                                               *)

\* Two children in one place have the same parent.
LEMMA ChildOnce ==
  ASSUME NEW m \in Cell, NEW n \in Cell, NEW j \in Half, NEW k \in Half
  PROVE  /\ Child(n, k) \in Cell /\ Child(n, k) # n /\ Child(n, k) # Root
         /\ Child(m, j) = Child(n, k) => m = n /\ j = k
  BY DEF Cell, Half, Child, Root

Grown(t, n, k, node) == With([t EXCEPT ![n].kids = @ \cup {k}], Child(n, k), node)

\* createNode and the bit of the child keep the tree a tree.
LEMMA GrowsTree ==
  ASSUME NEW t, TreeShape(t), NEW n \in DOMAIN t, NEW k \in Half, k \notin t[n].kids,
         NEW node, "kids" \in DOMAIN node, node.kids = {}
  PROVE  /\ TreeShape(Grown(t, n, k, node))
         /\ DOMAIN Grown(t, n, k, node) = DOMAIN t \cup {Child(n, k)}
         /\ \A m \in DOMAIN t : m # n => Grown(t, n, k, node)[m] = t[m]
<1> DEFINE u == Grown(t, n, k, node)
<1> DEFINE c == Child(n, k)
<1> DEFINE s == [t EXCEPT ![n].kids = @ \cup {k}]
<1>1. n \in Cell /\ c \in Cell /\ c # n /\ c \notin DOMAIN t
  BY ChildOnce DEF TreeShape
<1>2. /\ DOMAIN s = DOMAIN t
      /\ s[n].kids = t[n].kids \cup {k} /\ "kids" \in DOMAIN s[n]
      /\ \A m \in DOMAIN t : m # n => s[m] = t[m]
  BY DEF TreeShape
<1>3. u = [m \in {c} \cup DOMAIN s |-> IF m \in {c} THEN [l \in {c} |-> node][m] ELSE s[m]]
  BY DEF Grown, With, Over
<1> HIDE DEF s, u
<1>4. /\ DOMAIN u = DOMAIN t \cup {c} /\ u[c] = node /\ u[n] = s[n]
      /\ \A m \in DOMAIN t : m # n => u[m] = t[m]
      /\ u = [m \in DOMAIN u |-> u[m]]
  BY <1>1, <1>2, <1>3
<1>5. ASSUME NEW m \in DOMAIN u PROVE "kids" \in DOMAIN u[m] /\ u[m].kids \subseteq Half
  <2>1. CASE m = c
    BY <2>1, <1>4
  <2>2. CASE m = n
    <3>1. t[n].kids \subseteq Half
      BY DEF TreeShape
    <3> QED BY <3>1, <2>2, <1>2, <1>4
  <2>3. CASE m \in DOMAIN t /\ m # n
    BY <2>3, <1>4 DEF TreeShape
  <2> QED BY <2>1, <2>2, <2>3, <1>4
<1>6. ASSUME NEW m \in Cell, NEW j \in Half
      PROVE  Child(m, j) \in DOMAIN u <=> m \in DOMAIN u /\ j \in u[m].kids
  <2>1. CASE m = c
    <3>1. Child(c, j) \notin DOMAIN t
      BY <1>1 DEF TreeShape
    <3> QED BY <3>1, <2>1, <1>1, <1>4, ChildOnce
  <2>2. CASE m = n
    <3>1. Child(n, j) = c <=> j = k
      BY <1>1, ChildOnce
    <3>2. Child(n, j) \in DOMAIN t <=> j \in t[n].kids
      BY <1>1 DEF TreeShape
    <3> QED BY <3>1, <3>2, <2>2, <1>2, <1>4
  <2>3. CASE m # c /\ m # n
    <3>1. Child(m, j) # c
      BY <2>3, <1>1, ChildOnce
    <3>2. Child(m, j) \in DOMAIN t <=> m \in DOMAIN t /\ j \in t[m].kids
      BY DEF TreeShape
    <3> QED BY <3>1, <3>2, <2>3, <1>4
  <2> QED BY <2>1, <2>2, <2>3
<1>7. Root \in DOMAIN u /\ DOMAIN u \subseteq Cell
  BY <1>1, <1>4 DEF TreeShape
<1> QED BY <1>1, <1>2, <1>4, <1>5, <1>6, <1>7 DEF TreeShape, u

\* A change of the point and the count of a node keeps the tree.
LEMMA NodeChanged ==
  ASSUME NEW t, TreeShape(t), NEW n \in DOMAIN t, NEW node,
         "kids" \in DOMAIN node, node.kids = t[n].kids,
         NEW u, u = [t EXCEPT ![n] = node]
  PROVE  /\ TreeShape(u) /\ DOMAIN u = DOMAIN t
         /\ \A m \in DOMAIN t : m # n => u[m] = t[m]
  BY DEF TreeShape

-----------------------------------------------------------------------------
(* The path.                                                               *)

LEMMA SomePath ==
  ASSUME NEW T, NEW u \in Seq(T)
  PROVE  IsPath(u)
<1>1. DOMAIN u = 1 .. Len(u) /\ Len(u) \in Nat /\ u = [i \in 1 .. Len(u) |-> u[i]]
  OBVIOUS
<1> QED BY <1>1, IsASeq DEF IsPath

LEMMA EmptyIsPath == IsPath(<< >>)
<1>1. << >> \in Seq({})
  OBVIOUS
<1> QED BY <1>1, SomePath

LEMMA PathLength ==
  ASSUME NEW s, IsPath(s)
  PROVE  Len(s) \in Nat /\ (s = << >> <=> Len(s) = 0)
<1> DEFINE R == {s[i] : i \in DOMAIN s}
<1>1. s \in Seq(R)
  BY DEF IsPath
<1> HIDE DEF R
<1> QED BY <1>1, EmptySeq

LEMMA PathBegins ==
  ASSUME NEW h
  PROVE  IsPath(<<h>>) /\ Len(<<h>>) = 1 /\ <<h>>[1] = h
<1>1. <<h>> \in Seq({h}) /\ Len(<<h>>) = 1 /\ <<h>>[1] = h
  OBVIOUS
<1> QED BY <1>1, SomePath

LEMMA PathPushed ==
  ASSUME NEW s, IsPath(s), NEW h
  PROVE  /\ IsPath(Append(s, h)) /\ Len(Append(s, h)) = Len(s) + 1
         /\ Append(s, h)[Len(s) + 1] = h
         /\ \A i \in 1 .. Len(s) : Append(s, h)[i] = s[i]
<1> DEFINE u == Append(s, h)
<1> DEFINE R == {s[i] : i \in DOMAIN s}
<1>1. s \in Seq(R)
  BY DEF IsPath
<1> HIDE DEF R
<1>2. s \in Seq(R \cup {h})
  BY <1>1
<1>3. /\ u \in Seq(R \cup {h}) /\ Len(u) = Len(s) + 1
      /\ u[Len(s) + 1] = h /\ \A i \in 1 .. Len(s) : u[i] = s[i]
  BY <1>2, AppendProperties
<1> QED BY <1>3, SomePath

LEMMA PathPopped ==
  ASSUME NEW s, IsPath(s), s # << >>, NEW u, u = SubSeq(s, 1, Len(s) - 1)
  PROVE  /\ IsPath(u) /\ Len(u) = Len(s) - 1
         /\ \A i \in 1 .. Len(s) - 1 : u[i] = s[i]
<1> DEFINE R == {s[i] : i \in DOMAIN s}
<1>1. s \in Seq(R)
  BY DEF IsPath
<1> HIDE DEF R
<1>2. Len(s) >= 1
  BY <1>1
<1>3. u \in Seq(R) /\ Len(u) = Len(s) - 1 /\ \A i \in 1 .. Len(s) - 1 : u[i] = s[i]
  <2> DEFINE n == Len(s) - 1
  <2>1. n \in Int /\ n >= 0 /\ \A i \in 1 .. n : s[i] \in R
    BY <1>1, <1>2
  <2> HIDE DEF n
  <2>2. /\ SubSeq(s, 1, n) \in Seq(R)
        /\ Len(SubSeq(s, 1, n)) = IF 1 <= n THEN n - 1 + 1 ELSE 0
        /\ \A i \in 1 .. n - 1 + 1 : SubSeq(s, 1, n)[i] = s[1 + i - 1]
    BY <2>1, SubSeqProperties, SMTT(20)
  <2>3. u = SubSeq(s, 1, n) /\ n = Len(s) - 1
    BY DEF n
  <2> QED BY <2>1, <2>2, <2>3
<1> QED BY <1>3, SomePath

Changed(s, j, h) == [s EXCEPT ![j] = h]

LEMMA PathSet ==
  ASSUME NEW s, IsPath(s), NEW j \in 1 .. Len(s), NEW h, NEW u, u = Changed(s, j, h)
  PROVE  /\ IsPath(u) /\ Len(u) = Len(s) /\ u[j] = h
         /\ \A i \in 1 .. Len(s) : i # j => u[i] = s[i]
<1> DEFINE R == {s[i] : i \in DOMAIN s}
<1>1. s \in Seq(R)
  BY DEF IsPath
<1> HIDE DEF R
<1>2. s \in Seq(R \cup {h})
  BY <1>1
<1>3. /\ u \in Seq(R \cup {h}) /\ Len(u) = Len(s) /\ u[j] = h
      /\ \A i \in 1 .. Len(s) : i # j => u[i] = s[i]
  BY <1>2, ExceptSeq DEF Changed
<1> QED BY <1>3, SomePath

-----------------------------------------------------------------------------
(* Steps that leave the nodes as they are.                                 *)

\* What a step keeps that changes neither nodes nor storage and only releases
\* handles that the flags know of.
LEMMA SameNodes ==
  ASSUME OInv, UNCHANGED <<way, nodes, saved>>, dirty \subseteq dirty',
         \A f : Noted(f) => Noted(f)' \/ f \in dirty'
  PROVE  TreeShape(nodes)' /\ FlagInv'
<1>1. TreeShape(nodes)'
  BY DEF OInv
<1>2. ASSUME way \in Evicting, NEW n \in DOMAIN nodes
      PROVE  FileOf(n) \in dirty' \/ Noted(FileOf(n))' \/ (n \in DOMAIN saved /\ saved[n] = nodes[n])
  BY <1>2 DEF OInv, FlagInv
<1> QED BY <1>1, <1>2 DEF OInv, FlagInv, Fast

\* A call begins with a handle of the root.
LEMMA BeginInv ==
  ASSUME OInv, UNCHANGED <<way, nodes, saved, dirty>>, path = << >>,
         path' = <<Handle(nodes, Root)>>, pc' \in {"idle", "down"}, pc' = "idle" => Fast
  PROVE  OInv'
<1>1. /\ IsPath(path') /\ Len(path') = 1
      /\ path'[1] = Handle(nodes, Root)
  BY PathBegins
<1>2. HandleShape(path[1])'
  BY <1>1 DEF HandleShape, Handle, OInv, TreeShape
<1>3. \A f : ~Noted(f)
  BY DEF Noted, Last
<1>4. TreeShape(nodes)' /\ FlagInv'
  BY <1>3, SameNodes
<1>5. PathShape'
  BY <1>1, <1>2 DEF PathShape, Last, Fast
<1> QED BY <1>4, <1>5 DEF OInv

LEMMA AddPointInv ==
  ASSUME OInv, NEW p \in Points, AddPoint(p)
  PROVE  OInv'
<1>1. path = << >>
  BY DEF OInv, PathShape, AddPoint
<1> QED BY <1>1, BeginInv DEF AddPoint

LEMMA OpenFastCacheInv ==
  ASSUME OInv, OpenFastCache
  PROVE  OInv'
  BY BeginInv DEF OpenFastCache

\* Steps of TreeFastCache that only move on.
LEMMA MovesOn ==
  ASSUME OInv, UNCHANGED <<way, nodes, saved, dirty, path>>, path # << >>, Fast
  PROVE  OInv'
<1>1. TreeShape(nodes)' /\ FlagInv'
  BY SameNodes DEF Noted, Last
<1>2. PathShape'
  BY DEF OInv, PathShape, HandleShape, Last, Fast
<1> QED BY <1>1, <1>2 DEF OInv

LEMMA FastAddPointInv ==
  ASSUME OInv, NEW p \in Points, FastAddPoint(p)
  PROVE  OInv'
  BY MovesOn DEF FastAddPoint

LEMMA FoundNodeInv ==
  ASSUME OInv, FoundNode
  PROVE  OInv'
<1>1. Fast /\ path # << >>
  BY DEF FoundNode, OInv, PathShape
<1> QED BY <1>1, MovesOn DEF FoundNode

LEMMA CloseFastCacheInv ==
  ASSUME OInv, CloseFastCache
  PROVE  OInv'
  BY MovesOn DEF CloseFastCache

-----------------------------------------------------------------------------
(* Steps that release a handle.                                            *)

\* releaseNode of the last handle flags its file if the handle was modified.
LEMMA Releases ==
  ASSUME OInv, path # << >>
  PROVE  /\ Last \in Nat \ {0} /\ Top \in DOMAIN nodes
         /\ IsPath(Popped) /\ Len(Popped) = Last - 1
         /\ \A i \in 1 .. Last - 1 : Popped[i] = path[i]
         /\ dirty \subseteq ReleasedDirty
         /\ path[Last].modified => FileOf(Top) \in ReleasedDirty
<1>1. IsPath(path)
  BY DEF OInv, PathShape
<1>2. Last \in Nat \ {0}
  BY <1>1, PathLength DEF Last
<1>3. /\ IsPath(Popped) /\ Len(Popped) = Last - 1
      /\ \A i \in 1 .. Last - 1 : Popped[i] = path[i]
  BY <1>1, PathPopped DEF Last, Popped
<1>4. HandleShape(path[Last])
  BY <1>2 DEF OInv, PathShape
<1> QED BY <1>2, <1>3, <1>4 DEF HandleShape, Top, ReleasedDirty

\* mergeChild changes a parent without a flag: the files must not be evicted.
LEMMA PopInv ==
  ASSUME OInv, Pop
  PROVE  OInv'
<1>1. Fast /\ path # << >> /\ way \notin Evicting
  BY DEF Pop, OInv, PathShape, FlagInv
<1>2. TreeShape(nodes)' /\ DOMAIN nodes' = DOMAIN nodes
  <2>1. CASE Last > 1
    <3> DEFINE parent == path[Last - 1].node
    <3>1. parent \in DOMAIN nodes
      BY <2>1, <1>1, Releases DEF OInv, PathShape, HandleShape
    <3>2. "kids" \in DOMAIN Merged /\ Merged.kids = nodes[parent].kids
      BY <3>1 DEF Merged, OInv, TreeShape
    <3>3. nodes' = [nodes EXCEPT ![parent] = Merged]
      BY <2>1 DEF Pop
    <3> QED BY <3>1, <3>2, <3>3, NodeChanged DEF OInv
  <2>2. CASE ~(Last > 1)
    BY <2>2 DEF Pop, OInv
  <2> QED BY <2>1, <2>2
<1>3. FlagInv'
  BY <1>1, <1>2, Releases DEF Pop, OInv, FlagInv
<1>4. PathShape'
  <2>1. path' = Popped /\ Len(path') = Last - 1
    BY <1>1, Releases DEF Pop
  <2>2. \A i \in 1 .. Last - 1 : HandleShape(path[i])'
    BY <2>1, <1>1, <1>2, Releases DEF OInv, PathShape, HandleShape
  <2>3. pc' # "idle" => path' # << >>
    BY <2>1, <1>1, Releases DEF Pop
  <2> QED BY <2>1, <2>2, <2>3, <1>1, Releases DEF PathShape, Last, Fast, Pop
<1> QED BY <1>2, <1>3, <1>4 DEF OInv

\* copyFromChildNodes flags the parent's handle while the child's is released.
LEMMA ReturnInv ==
  ASSUME OInv, Return
  PROVE  OInv'
<1>1. path # << >> /\ UNCHANGED <<way, saved>> /\ dirty' = ReleasedDirty
  BY DEF Return, OInv, PathShape
<1>2. CASE Last = 1
  <2>1. path' = << >> /\ pc' = "idle" /\ nodes' = nodes /\ Len(path') = 0
    BY <1>2 DEF Return
  <2>2. \A f : Noted(f) => f \in dirty'
    BY <1>1, <1>2, Releases DEF Noted, Top
  <2>3. TreeShape(nodes)' /\ FlagInv'
    BY <1>1, <2>1, <2>2, Releases, SameNodes
  <2>4. PathShape'
    BY <2>1, EmptyIsPath DEF PathShape, Last
  <2> QED BY <2>3, <2>4 DEF OInv
<1>3. CASE Last # 1
  <2> DEFINE l == Last - 1
  <2> DEFINE parent == path[l].node
  <2>1. l \in Nat \ {0} /\ Last \in Nat /\ l \in 1 .. Last /\ l = Last - 1 /\ parent \in DOMAIN nodes
    BY <1>1, <1>3, Releases DEF OInv, PathShape, HandleShape
  <2>2. /\ nodes' = [nodes EXCEPT ![parent] = CopiedFromChildren(parent)]
        /\ path' = [Popped EXCEPT ![l].modified = TRUE] /\ UNCHANGED pc
    BY <1>3 DEF Return
  <2>3. "kids" \in DOMAIN CopiedFromChildren(parent)
        /\ CopiedFromChildren(parent).kids = nodes[parent].kids
    BY <2>1 DEF CopiedFromChildren, OInv, TreeShape
  <2>4. /\ TreeShape(nodes)' /\ DOMAIN nodes' = DOMAIN nodes
        /\ \A m \in DOMAIN nodes : m # parent => nodes'[m] = nodes[m]
    BY <2>1, <2>2, <2>3, NodeChanged DEF OInv
  <2> DEFINE h == [path[l] EXCEPT !.modified = TRUE]
  <2>5. h.node = parent /\ h.modified /\ {"node", "modified"} \subseteq DOMAIN h
    BY <2>1 DEF OInv, PathShape, HandleShape
  <2>6. /\ IsPath(path') /\ Len(path') = l
        /\ path'[l] = h /\ \A i \in 1 .. l : i # l => path'[i] = path[i]
    <3>1. Popped[l] = path[l]
      BY <2>1, <1>1, Releases
    <3>2. path' = Changed(Popped, l, h)
      BY <3>1, <2>2 DEF Changed
    <3> HIDE DEF h
    <3>3. l \in 1 .. Len(Popped) /\ Len(Popped) = l /\ IsPath(Popped)
      BY <2>1, <1>1, Releases
    <3>4. \A i \in 1 .. l : Popped[i] = path[i]
      BY <1>1, Releases
    <3>5. /\ IsPath(path') /\ Len(path') = Len(Popped) /\ path'[l] = h
          /\ \A i \in 1 .. Len(Popped) : i # l => path'[i] = Popped[i]
      <4> HIDE DEF l
      <4> QED BY <3>2, <3>3, PathSet
    <3> QED BY <3>3, <3>4, <3>5
  <2> HIDE DEF h
  <2>7. PathShape'
    <3>1. \A i \in 1 .. l : HandleShape(path[i])'
      BY <2>1, <2>4, <2>5, <2>6 DEF OInv, PathShape, HandleShape
    <3> QED BY <3>1, <2>1, <2>2, <2>6, <1>1 DEF PathShape, Last, Fast, OInv, Return
  <2>8. \A f : Noted(f) => Noted(f)' \/ f \in dirty'
    <3> SUFFICES ASSUME NEW f, NEW i \in 1 .. Last, path[i].modified, FileOf(path[i].node) = f
                 PROVE  Noted(f)' \/ f \in dirty'
      BY DEF Noted
    <3>1. CASE i = Last
      BY <3>1, <1>1, Releases DEF Top
    <3>2. CASE i # Last
      <4>1. i \in 1 .. l /\ path'[i].modified /\ path'[i].node = path[i].node
        BY <3>2, <2>5, <2>6, <2>1
      <4> QED BY <4>1, <2>6 DEF Noted, Last
    <3> QED BY <3>1, <3>2
  <2>9. ASSUME NEW f, f = FileOf(parent) PROVE Noted(f)'
    BY <2>9, <2>5, <2>6, <2>1 DEF Noted, Last
  <2>10. FlagInv'
    <3>1. ASSUME way \in Evicting, NEW n \in DOMAIN nodes
          PROVE  FileOf(n) \in dirty' \/ Noted(FileOf(n))'
                 \/ (n \in DOMAIN saved /\ saved[n] = nodes'[n])
      <4>1. CASE n = parent
        BY <4>1, <2>9
      <4>2. CASE n # parent
        BY <4>2, <3>1, <2>4, <2>8, <1>1, Releases DEF OInv, FlagInv
      <4> QED BY <4>1, <4>2
    <3> QED BY <3>1, <2>4, <1>1, Releases DEF OInv, FlagInv, Fast
  <2> QED BY <2>4, <2>7, <2>10 DEF OInv
<1> QED BY <1>2, <1>3

-----------------------------------------------------------------------------
(* Steps that change a node.                                               *)

\* getNode(true): the node may change once its handle is flagged.
LEMMA FlagsTop ==
  ASSUME OInv, path # << >>
  PROVE  /\ IsPath(Flagged) /\ Len(Flagged) = Last /\ Last \in Nat \ {0}
         /\ Flagged[Last].modified /\ Flagged[Last].node = Top
         /\ \A i \in 1 .. Last : /\ {"node", "modified"} \subseteq DOMAIN Flagged[i]
                                 /\ Flagged[i].node = path[i].node
                                 /\ path[i].modified => Flagged[i].modified
<1>1. IsPath(path) /\ Len(path) = Last /\ Last \in Nat \ {0}
  BY Releases DEF OInv, PathShape, Last
<1>2. ASSUME NEW i \in 1 .. Last PROVE {"node", "modified"} \subseteq DOMAIN path[i]
  BY <1>2 DEF OInv, PathShape, HandleShape
<1> DEFINE h == [path[Last] EXCEPT !.modified = TRUE]
<1>3. /\ h.modified /\ h.node = Top /\ {"node", "modified"} \subseteq DOMAIN h
  BY <1>1, <1>2 DEF Top
<1>4. Flagged = Changed(path, Last, h)
  BY <1>1 DEF Flagged, Changed
<1> HIDE DEF h
<1>5. /\ IsPath(Flagged) /\ Len(Flagged) = Last /\ Flagged[Last] = h
      /\ \A i \in 1 .. Last : i # Last => Flagged[i] = path[i]
  BY <1>1, <1>4, PathSet
<1> QED BY <1>1, <1>2, <1>3, <1>5 DEF Top

\* A point is put into the node on top, which is flagged.
LEMMA PlacedInv ==
  ASSUME OInv, path # << >>, pc = "down", NEW node, Placed(node),
         "kids" \in DOMAIN node, node.kids = nodes[Top].kids
  PROVE  OInv'
<1>1. /\ TreeShape(nodes)' /\ DOMAIN nodes' = DOMAIN nodes
      /\ \A m \in DOMAIN nodes : m # Top => nodes'[m] = nodes[m]
  BY Releases, NodeChanged DEF Placed, OInv
<1>2. path' = Flagged /\ Len(path') = Last /\ UNCHANGED <<way, saved, dirty>>
  BY FlagsTop DEF Placed
<1>3. PathShape'
  <2>1. \A i \in 1 .. Last : HandleShape(path[i])'
    BY <1>1, <1>2, FlagsTop DEF OInv, PathShape, HandleShape
  <2>2. IsPath(path') /\ path' # << >>
    BY <1>2, FlagsTop, PathLength
  <2>3. pc' = IF Fast THEN "idle" ELSE "up"
    BY DEF Placed
  <2> QED BY <2>1, <2>2, <2>3, <1>2 DEF PathShape, Last, Fast
<1>4. ASSUME NEW f, Noted(f) \/ f = FileOf(Top) PROVE Noted(f)'
  <2>1. PICK i \in 1 .. Last : Flagged[i].modified /\ FileOf(Flagged[i].node) = f
    BY <1>4, FlagsTop DEF Noted
  <2> QED BY <2>1, <1>2 DEF Noted, Last
<1>5. FlagInv'
  <2>1. ASSUME way \in Evicting, NEW n \in DOMAIN nodes
        PROVE  FileOf(n) \in dirty' \/ Noted(FileOf(n))'
               \/ (n \in DOMAIN saved /\ saved[n] = nodes'[n])
    BY <2>1, <1>1, <1>2, <1>4 DEF OInv, FlagInv
  <2> QED BY <2>1, <1>1, <1>2 DEF OInv, FlagInv, Fast
<1> QED BY <1>1, <1>3, <1>5 DEF OInv

LEMMA SetPointInv ==
  ASSUME OInv, SetPoint
  PROVE  OInv'
<1>1. pc = "down" /\ path # << >> /\ Placed(WithPoint(Top, pt))
  BY DEF SetPoint, OInv, PathShape
<1>2. "kids" \in DOMAIN WithPoint(Top, pt) /\ WithPoint(Top, pt).kids = nodes[Top].kids
  BY <1>1, Releases DEF WithPoint, OInv, TreeShape
<1> QED BY <1>1, <1>2, PlacedInv

LEMMA AddToNodeInv ==
  ASSUME OInv, AddToNode
  PROVE  OInv'
<1>1. pc = "down" /\ path # << >>
  BY DEF AddToNode, OInv, PathShape
<1>2. PICK node \in Averaged(Top, pt) : Placed(node)
  BY DEF AddToNode
<1>3. "kids" \in DOMAIN node /\ node.kids = nodes[Top].kids
  BY <1>1, <1>2, Releases DEF Averaged, OInv, TreeShape
<1> QED BY <1>1, <1>2, <1>3, PlacedInv

\* copyToChildNode makes a new node: the leaf had no child.
LEMMA SplitShape ==
  ASSUME OInv, path # << >>
  PROVE  /\ TreeShape(AfterSplit) /\ DOMAIN nodes \subseteq DOMAIN AfterSplit
         /\ \A m \in DOMAIN nodes : m # Top => AfterSplit[m] = nodes[m]
<1>1. Top \in DOMAIN nodes /\ TreeShape(nodes)
  BY Releases DEF OInv
<1> DEFINE k == ChildForNodePoint(Top)
<1>2. CASE IsLeaf(Top) /\ ~IsEmpty(Top)
  <2>1. nodes[Top].kids = {} /\ k \in Half
    BY <1>2 DEF IsLeaf, ChildForNodePoint, Half
  <2> HIDE DEF k
  <2>2. AfterSplit = Grown(nodes, Top, k, CopiedToChild(Top))
    <3>1. AfterSplit = With([nodes EXCEPT ![Top].kids = {k}], Child(Top, k), CopiedToChild(Top))
      BY <1>2 DEF AfterSplit, k
    <3>2. [nodes EXCEPT ![Top].kids = {k}] = [nodes EXCEPT ![Top].kids = @ \cup {k}]
      BY <2>1
    <3> QED BY <3>1, <3>2 DEF Grown
  <2>3. "kids" \in DOMAIN CopiedToChild(Top) /\ CopiedToChild(Top).kids = {}
    BY DEF CopiedToChild
  <2> DEFINE node == CopiedToChild(Top)
  <2> HIDE DEF node
  <2>4. /\ TreeShape(Grown(nodes, Top, k, node))
        /\ DOMAIN Grown(nodes, Top, k, node) = DOMAIN nodes \cup {Child(Top, k)}
        /\ \A m \in DOMAIN nodes : m # Top => Grown(nodes, Top, k, node)[m] = nodes[m]
    <3>1. k \notin nodes[Top].kids /\ "kids" \in DOMAIN node /\ node.kids = {}
      BY <2>1, <2>3 DEF node
    <3> QED BY <1>1, <2>1, <3>1, GrowsTree
  <2> QED BY <2>2, <2>4 DEF node
<1>3. CASE ~(IsLeaf(Top) /\ ~IsEmpty(Top))
  BY <1>1, <1>3 DEF AfterSplit
<1> QED BY <1>2, <1>3

\* The new nodes of a descent are in files that createNode flags.
LEMMA DescendInv ==
  ASSUME OInv, Descend
  PROVE  OInv'
<1> DEFINE k == WhichChild(Top, pt)
<1> DEFINE child == Child(Top, k)
<1> DEFINE kept == IF nodes' = nodes THEN path ELSE Flagged
<1>1. /\ pc = "down" /\ path # << >> /\ k \in Half /\ UNCHANGED <<way, saved, pc>>
      /\ dirty' = dirty \cup {FileOf(n) : n \in DOMAIN nodes' \ DOMAIN nodes}
      /\ path' = Append(kept, Handle(nodes', child))
      /\ nodes' = IF k \in AfterSplit[Top].kids THEN AfterSplit
                  ELSE With([AfterSplit EXCEPT ![Top].kids = @ \cup {k}], child, EmptyNode)
  BY DEF Descend, OInv, PathShape, WhichChild, Half
<1> HIDE DEF k
<1>2. Top \in DOMAIN nodes /\ TreeShape(nodes) /\ Top \in Cell
  BY <1>1, Releases DEF OInv, TreeShape
<1>3. /\ TreeShape(nodes)' /\ DOMAIN nodes \subseteq DOMAIN nodes' /\ child \in DOMAIN nodes'
      /\ \A m \in DOMAIN nodes : m # Top => nodes'[m] = nodes[m]
  <2>1. CASE k \in AfterSplit[Top].kids
    BY <2>1, <1>1, <1>2, SplitShape DEF TreeShape
  <2>2. CASE k \notin AfterSplit[Top].kids
    <3>1. Top \in DOMAIN AfterSplit /\ TreeShape(AfterSplit)
      BY <1>1, <1>2, SplitShape
    <3>2. "kids" \in DOMAIN EmptyNode /\ EmptyNode.kids = {}
      BY DEF EmptyNode
    <3>3. nodes' = Grown(AfterSplit, Top, k, EmptyNode)
      BY <2>2, <1>1 DEF Grown
    <3>4. /\ TreeShape(nodes') /\ DOMAIN nodes' = DOMAIN AfterSplit \cup {child}
          /\ \A m \in DOMAIN AfterSplit : m # Top => nodes'[m] = AfterSplit[m]
      <4> DEFINE node == EmptyNode
      <4>1. "kids" \in DOMAIN node /\ node.kids = {} /\ nodes' = Grown(AfterSplit, Top, k, node)
        BY <3>2, <3>3
      <4> DEFINE t == AfterSplit
      <4>2. Top \in DOMAIN t /\ TreeShape(t) /\ k \in Half /\ k \notin t[Top].kids
        BY <3>1, <2>2, <1>1
      <4> HIDE DEF node, t
      <4>3. /\ TreeShape(Grown(t, Top, k, node))
            /\ DOMAIN Grown(t, Top, k, node) = DOMAIN t \cup {Child(Top, k)}
            /\ \A m \in DOMAIN t : m # Top => Grown(t, Top, k, node)[m] = t[m]
        BY <4>1, <4>2, GrowsTree
      <4> QED BY <4>1, <4>3 DEF t
    <3> QED BY <3>4, <1>1, SplitShape
  <2> QED BY <2>1, <2>2
<1>4. /\ IsPath(kept) /\ Len(kept) = Last /\ Last \in Nat
      /\ \A i \in 1 .. Last : /\ {"node", "modified"} \subseteq DOMAIN kept[i]
                              /\ kept[i].node = path[i].node
                              /\ path[i].modified => kept[i].modified
      /\ nodes' # nodes => kept[Last].modified /\ kept[Last].node = Top /\ Last \in 1 .. Last
  <2>1. IsPath(path) /\ Len(path) = Last
        /\ \A i \in 1 .. Last : {"node", "modified"} \subseteq DOMAIN path[i]
    BY DEF OInv, PathShape, HandleShape, Last
  <2> QED BY <2>1, <1>1, FlagsTop
<1> HIDE DEF kept
<1>5. /\ IsPath(path') /\ Len(path') = Last + 1 /\ path'[Last + 1] = Handle(nodes', child)
      /\ \A i \in 1 .. Last : path'[i] = kept[i]
  <2> DEFINE h == Handle(nodes', child)
  <2>1. path' = Append(kept, h)
    BY <1>1
  <2> HIDE DEF h, child
  <2>2. IsPath(path') /\ Len(path') = Len(kept) + 1 /\ path'[Len(kept) + 1] = h
        /\ \A i \in 1 .. Len(kept) : path'[i] = kept[i]
    BY <2>1, <1>4, PathPushed
  <2> QED BY <2>2, <1>4 DEF h
<1>6. PathShape'
  <2>1. ASSUME NEW i \in 1 .. Last + 1 PROVE HandleShape(path[i])'
    <3>1. CASE i = Last + 1
      BY <3>1, <1>3, <1>5 DEF HandleShape, Handle
    <3>2. CASE i # Last + 1
      <4>1. i \in 1 .. Last
        BY <3>2, <1>4
      <4> QED BY <4>1, <1>3, <1>4, <1>5 DEF HandleShape, OInv, PathShape
    <3> QED BY <3>1, <3>2
  <2>2. path' # << >>
    BY <1>4, <1>5, PathLength
  <2> QED BY <2>1, <2>2, <1>1, <1>5 DEF PathShape, Last, Fast, OInv
<1>7. ASSUME NEW f, Noted(f) \/ (f = FileOf(Top) /\ nodes' # nodes) PROVE Noted(f)'
  <2>1. PICK i \in 1 .. Last : kept[i].modified /\ FileOf(kept[i].node) = f
    BY <1>7, <1>4 DEF Noted
  <2> QED BY <2>1, <1>4, <1>5 DEF Noted, Last
<1>8. FlagInv'
  <2>1. ASSUME way \in Evicting, NEW n \in DOMAIN nodes
        PROVE  FileOf(n) \in dirty' \/ Noted(FileOf(n))'
               \/ (n \in DOMAIN saved /\ saved[n] = nodes'[n])
    BY <2>1, <1>1, <1>3, <1>7 DEF OInv, FlagInv
  <2>2. ASSUME NEW n \in DOMAIN nodes' \ DOMAIN nodes PROVE FileOf(n) \in dirty'
    BY <1>1
  <2> QED BY <2>1, <2>2, <1>1, <1>3 DEF OInv, FlagInv, Fast
<1> QED BY <1>3, <1>6, <1>8 DEF OInv

-----------------------------------------------------------------------------
(* Evictions, and the theorem.                                             *)

\* A file that is not flagged and not in use has only nodes that are in
\* storage: dropping it changes nothing.
LEMMA EvictInv ==
  ASSUME OInv, NEW f, Evict(f)
  PROVE  OInv'
<1> DEFINE held(t) == {n \in DOMAIN t : FileOf(n) = f}
<1>1. way \in Evicting /\ ~InUse(f) /\ UNCHANGED <<way, path, pc>>
  BY DEF Evict
<1>2. ~Noted(f)
  BY <1>1 DEF Noted, InUse
<1>3. CASE f \in dirty
  <2>1. /\ dirty' = dirty \ {f} /\ UNCHANGED nodes
        /\ saved' = [n \in held(nodes) \cup DOMAIN saved |->
                      IF n \in held(nodes) THEN nodes[n] ELSE saved[n]]
    BY <1>3 DEF Evict, Over
  <2>2. ASSUME NEW n \in DOMAIN nodes
        PROVE  FileOf(n) \in dirty' \/ Noted(FileOf(n))
               \/ (n \in DOMAIN saved' /\ saved'[n] = nodes[n])
    BY <2>1, <1>1 DEF OInv, FlagInv
  <2>3. FlagInv'
    <3>1. \A g : Noted(g)' <=> Noted(g)
      BY <1>1 DEF Noted, Last
    <3> QED BY <3>1, <2>1, <2>2, <1>1 DEF OInv, FlagInv, Fast
  <2> QED BY <2>1, <2>3, <1>1 DEF OInv, PathShape, HandleShape, Last, Fast
<1>4. CASE f \notin dirty
  <2>1. /\ UNCHANGED <<saved, dirty>>
        /\ nodes' = [n \in held(saved) \cup DOMAIN nodes |->
                      IF n \in held(saved) THEN saved[n] ELSE nodes[n]]
    BY <1>4 DEF Evict, Over
  <2>2. held(saved) \cup DOMAIN nodes = DOMAIN nodes
    BY DEF OInv, FlagInv
  <2>3. ASSUME NEW n \in held(saved) PROVE saved[n] = nodes[n]
    BY <1>1, <1>2, <1>4, <2>2 DEF OInv, FlagInv
  <2>4. nodes' = [n \in DOMAIN nodes |-> nodes[n]]
    BY <2>1, <2>2, <2>3
  <2>5. UNCHANGED nodes
    BY <2>4 DEF OInv, TreeShape
  <2> QED BY <2>1, <2>5, <1>1
           DEF OInv, PathShape, HandleShape, FlagInv, Noted, Last, Fast
<1> QED BY <1>3, <1>4

LEMMA OInit ==
  ASSUME Evicting \subseteq {"addPoint"}, Init
  PROVE  OInv
<1>1. TreeShape(nodes)
  <2>1. DOMAIN nodes = {Root} /\ nodes[Root] = EmptyNode /\ nodes = [n \in {Root} |-> nodes[n]]
    BY DEF Init
  <2>2. ASSUME NEW n \in Cell, NEW k \in Half PROVE Child(n, k) # Root
    BY ChildOnce
  <2> QED BY <2>1, <2>2 DEF TreeShape, EmptyNode, Root, Cell
<1>2. PathShape
  BY EmptyIsPath DEF Init, PathShape, Last
<1>3. FlagInv
  BY DEF Init, FlagInv, Fast
<1> QED BY <1>1, <1>2, <1>3 DEF OInv

LEMMA ONext ==
  ASSUME OInv, [Next]_vars
  PROVE  OInv'
<1>1. ASSUME NEW p \in Points, AddPoint(p) PROVE OInv'
  BY <1>1, AddPointInv
<1>2. ASSUME NEW p \in Points, FastAddPoint(p) PROVE OInv'
  BY <1>2, FastAddPointInv
<1>3. ASSUME NEW n \in Id, Evict(FileOf(n)) PROVE OInv'
  BY <1>3, EvictInv
<1>4. CASE UNCHANGED vars
  BY <1>4 DEF vars, OInv, PathShape, HandleShape, FlagInv, Noted, Last, Fast
<1> QED BY <1>1, <1>2, <1>3, <1>4, OpenFastCacheInv, FoundNodeInv, CloseFastCacheInv,
           PopInv, SetPointInv, AddToNodeInv, DescendInv, ReturnInv DEF Next

\* Whatever the tree, the points and the files evicted between the steps of
\* addPoint: a node that differs from its stored copy is in a file that is in
\* use or flagged, so that no change of a node is dropped.  A program that adds
\* its points by a TreeFastCache needs a cache that holds the tree.
THEOREM ChangesReachStorage ==
  ASSUME Evicting \subseteq {"addPoint"}
  PROVE  Spec => []ChangesFlagged
<1>1. Init => OInv
  BY OInit
<1>2. OInv /\ [Next]_vars => OInv'
  BY ONext
<1>3. OInv => ChangesFlagged
  <2> SUFFICES ASSUME OInv, NEW n \in DOMAIN nodes, ~InUse(FileOf(n)), FileOf(n) \notin dirty
               PROVE  n \in DOMAIN saved /\ saved[n] = nodes[n]
    BY DEF ChangesFlagged
  <2>1. ~Noted(FileOf(n))
    BY DEF Noted, InUse
  <2> QED BY <2>1 DEF OInv, FlagInv
<1> QED BY <1>1, <1>2, <1>3, PTL DEF Spec
=============================================================================
