--------------------------- MODULE CompileProofs ---------------------------
(***************************************************************************)
(* Proofs about Compile.  First about copy_subgraph: a copy is faithful,   *)
(* whatever the size and shape of the part of the graph that is copied,    *)
(* when a search can number its nodes as below.  Then about rx_init, where *)
(* a counted quantifier copies its atom, on the assumption that the part   *)
(* of the graph that the atom became can be numbered.  Last about the      *)
(* finished graph: from every node of it MATCH_END can be reached.         *)
(***************************************************************************)
EXTENDS Compile, NatFacts, SequenceTheorems, FiniteSetTheorems, TLAPS

(* A call of copy_subgraph is a record g: the nodes g.ns at the time, the  *)
(* arguments g.from, g.to and g.new, and the subgraph g.R between the two  *)
(* ends with a numbering of its nodes in the order of a depth first search *)
(* that takes the second edge of a BRANCH first, as the one with the stack *)
(* does: g.pre is the number of a node, g.last the greatest number given   *)
(* before the search goes back from it.                                    *)

(* The edge from n to m, where p is the next number: m has a number that   *)
(* is not greater than n's, or it gets p, and what is found from m gets    *)
(* the numbers up to q.                                                    *)
Edge(g, n, m, p, q) ==
  \/ g.pre[m] <= g.pre[n] /\ q = p
  \/ g.pre[m] = p /\ q = g.last[m] + 1

(* Where the subgraph ends the search goes no further, and no path leaves  *)
(* it elsewhere.                                                           *)
Numbered(g) ==
  /\ g.ns \in Seq(Node)
  /\ g.R \subseteq DOMAIN g.ns /\ g.from \in g.R /\ g.to \in g.R
  /\ g.new \in DOMAIN g.ns /\ g.new \notin g.R \ {g.to}
  /\ g.pre \in [g.R -> Nat] /\ g.last \in [g.R -> Nat]
  /\ g.pre[g.from] = 0 /\ g.last[g.to] = g.pre[g.to]
  /\ \A n \in g.R : g.pre[n] <= g.last[n] /\ g.pre[n] <= g.last[g.from]
  /\ \A m, n \in g.R : g.pre[m] = g.pre[n] => m = n
  /\ \A n \in g.R \ {g.to} :
       /\ g.ns[n].type \notin {"MATCH_END", "VISITED"}
       /\ Successors(g.ns[n]) \subseteq g.R
       /\ IF g.ns[n].type = "BRANCH"
          THEN \E p \in 0..(g.last[g.from] + 1) :
                 /\ Edge(g, n, g.ns[n].u, g.pre[n] + 1, p)
                 /\ Edge(g, n, g.ns[n].next, p, g.last[n] + 1)
          ELSE Edge(g, n, g.ns[n].next, g.pre[n] + 1, g.last[n] + 1)

(* The state that CopyBegin leaves for the call g. *)
Started(g) ==
  /\ nodes = g.ns /\ visited = {} /\ dfs_stack = <<g.from>>
  /\ dfs_map = Insert(EmptyMap, g.from, g.new)
  /\ copy = [active |-> TRUE, sg_start |-> g.from, sg_end |-> g.to,
             new_start |-> g.new, new_end |-> NULL]

-----------------------------------------------------------------------------
(* The inductive invariant of a copy.  The nodes marked so far are those   *)
(* numbered below p, the number of the top of the stack; what waits on the *)
(* stack is numbered in turn from p on, each where the one above it ends.  *)

Found(g, p) == {n \in g.R : g.pre[n] < p}

InTurn(g, s, p) ==
  /\ s \in Seq(g.R)
  /\ IF s = <<>> THEN p = g.last[g.from] + 1 ELSE p = g.pre[s[Len(s)]]
  /\ \A i \in 1..Len(s) :
       /\ p <= g.pre[s[i]]
       /\ g.last[s[i]] = IF i = 1 THEN g.last[g.from] ELSE g.pre[s[i - 1]] - 1
       /\ \A j \in 1..(i - 1) : g.last[s[i]] < g.pre[s[j]]

(* The map is one-to-one, every copy but the first is a new node, and      *)
(* every new node is a copy; the other nodes stay what they were.          *)
Apart(g, ns, map) ==
  /\ ns \in Seq(Node) /\ Len(g.ns) <= Len(ns)
  /\ \A n \in DOMAIN g.ns \ {g.new} : ns[n] = g.ns[n]
  /\ DOMAIN map \subseteq g.R
  /\ g.from \in DOMAIN map /\ map[g.from] = g.new
  /\ \A n \in DOMAIN map :
       map[n] \in 1..Len(ns) /\ (n # g.from => map[n] > Len(g.ns))
  /\ \A m, n \in DOMAIN map : map[m] = map[n] => m = n
  /\ \A k \in 1..Len(ns) : k > Len(g.ns) => \E m \in DOMAIN map : map[m] = k

(* A node with its edges taken along the map. *)
Image(map, nd) ==
  [nd EXCEPT !.next = map[nd.next],
             !.u = IF nd.type = "BRANCH" THEN map[nd.u] ELSE nd.u]

Copied(g, ns, map, S) ==
  /\ S \subseteq g.R \ {g.to}
  /\ \A n \in S : /\ n \in DOMAIN map
                  /\ Successors(g.ns[n]) \subseteq DOMAIN map
                  /\ ns[map[n]] = Image(map, g.ns[n])

(* The nodes with a copy are the marked ones and those that wait. *)
OnStack(s) == {s[i] : i \in 1..Len(s)}

Mapped(map, s, seen) == DOMAIN map = seen \cup OnStack(s)

CopyInv(g) ==
  /\ copy = [active |-> TRUE, sg_start |-> g.from, sg_end |-> g.to,
             new_start |-> g.new, new_end |-> copy.new_end]
  /\ g.to \in visited => copy.new_end = dfs_map[g.to]
  /\ Apart(g, nodes, dfs_map)
  /\ Mapped(dfs_map, dfs_stack, visited)
  /\ Copied(g, nodes, dfs_map, visited \ {g.to})
  /\ \E p \in Nat : visited = Found(g, p) /\ InTurn(g, dfs_stack, p)

-----------------------------------------------------------------------------
(* The stack. *)

(* Named, so that the provers take a new stack or table as a value. *)
Longer(t, s, x) == t = Append(s, x)
Entered(map2, map, n, v) == map2 = Insert(map, n, v)
Shorter(t, s) == t = SubSeq(s, 1, Len(s) - 1)

LEMMA Push ==
  ASSUME NEW g, Numbered(g), NEW s, NEW t, NEW m \in g.R, NEW p \in Nat, NEW q \in Nat,
         g.pre[m] = p, q = g.last[m] + 1, InTurn(g, s, q), Longer(t, s, m)
  PROVE  /\ InTurn(g, t, p)
         /\ OnStack(t) = OnStack(s) \cup {m}
         /\ m \notin OnStack(s)
<1>1. s \in Seq(g.R) /\ Len(s) \in Nat /\ \A i \in 1..Len(s) : s[i] \in g.R
  BY DEF InTurn
<1>2. /\ t \in Seq(g.R) /\ t # <<>> /\ Len(t) = Len(s) + 1
      /\ \A i \in 1..Len(s) : t[i] = s[i]
      /\ t[Len(s) + 1] = m
  BY <1>1, AppendProperties DEF Longer
<1>3. \A n \in g.R : g.pre[n] \in Nat /\ g.last[n] \in Nat /\ g.pre[n] <= g.last[n]
  BY DEF Numbered
<1>4. g.from \in g.R
  BY DEF Numbered
<1>5. ASSUME NEW i \in 1..Len(t)
      PROVE  /\ p <= g.pre[t[i]]
             /\ g.last[t[i]] = IF i = 1 THEN g.last[g.from] ELSE g.pre[t[i - 1]] - 1
             /\ \A j \in 1..(i - 1) : g.last[t[i]] < g.pre[t[j]]
  <2>1. CASE i = Len(s) + 1
    <3>1. \A j \in 1..Len(s) : g.last[m] < g.pre[s[j]]
      BY <1>1, <1>3 DEF InTurn
    <3>2. g.last[m] = IF i = 1 THEN g.last[g.from] ELSE g.pre[s[i - 1]] - 1
      <4>1. CASE s = <<>>
        BY <4>1, <1>3, <1>4, <2>1 DEF InTurn
      <4>2. CASE s # <<>>
        <5>1. Len(s) \in 1..Len(s)
          BY <4>2, <1>1, EmptySeq
        <5>2. g.last[m] + 1 = g.pre[s[Len(s)]]
          BY <4>2 DEF InTurn
        <5> QED
          BY <5>1, <5>2, <2>1, <1>1, <1>3
      <4> QED
        BY <4>1, <4>2
    <3> QED
      BY <3>1, <3>2, <1>1, <1>2, <1>3, <2>1
  <2>2. CASE i \in 1..Len(s)
    <3>1. /\ g.last[m] + 1 <= g.pre[s[i]]
          /\ g.last[s[i]] = IF i = 1 THEN g.last[g.from] ELSE g.pre[s[i - 1]] - 1
          /\ \A j \in 1..(i - 1) : g.last[s[i]] < g.pre[s[j]]
      BY <2>2 DEF InTurn
    <3>2. p <= g.pre[s[i]]
      <4>1. g.pre[s[i]] \in Nat /\ g.last[m] \in Nat /\ p <= g.last[m]
        BY <1>1, <1>3, <2>2
      <4> QED
        BY <3>1, <4>1
    <3>3. t[i] = s[i] /\ \A j \in 1..(i - 1) : t[j] = s[j]
      BY <1>1, <1>2, <2>2
    <3>4. i # 1 => i - 1 \in 1..(i - 1)
      BY <2>2, <1>1
    <3> QED
      BY <3>1, <3>2, <3>3, <3>4
  <2> QED
    BY <2>1, <2>2, <1>1, <1>2
<1>6. InTurn(g, t, p)
  BY <1>1, <1>2, <1>5 DEF InTurn
<1>7. OnStack(t) = OnStack(s) \cup {m}
  BY <1>1, <1>2 DEF OnStack
<1>8. \A i \in 1..Len(s) : s[i] # m
  BY <1>1, <1>3 DEF InTurn
<1> QED
  BY <1>6, <1>7, <1>8 DEF OnStack

LEMMA WithoutLast ==
  ASSUME NEW S, NEW s \in Seq(S), NEW k \in 1..Len(s)
  PROVE  /\ SubSeq(s, 1, k - 1) \in Seq(S)
         /\ Len(SubSeq(s, 1, k - 1)) = k - 1
         /\ \A i \in 1..(k - 1) : SubSeq(s, 1, k - 1)[i] = s[i]
<1>1. k \in 1..Len(s) /\ Len(s) \in Nat
  OBVIOUS
<1> QED
  BY <1>1, SubSeqProperties

LEMMA Pop ==
  ASSUME NEW g, Numbered(g), NEW s, s # <<>>, NEW p \in Nat, InTurn(g, s, p),
         NEW n, n = s[Len(s)], NEW t, Shorter(t, s)
  PROVE  /\ n \in g.R /\ g.pre[n] = p
         /\ InTurn(g, t, g.last[n] + 1)
         /\ OnStack(s) = OnStack(t) \cup {n}
<1>1. s \in Seq(g.R) /\ Len(s) \in Nat \ {0} /\ \A i \in 1..Len(s) : s[i] \in g.R
  BY EmptySeq DEF InTurn
<1>2. t \in Seq(g.R) /\ Len(t) = Len(s) - 1 /\ \A i \in 1..Len(t) : t[i] = s[i]
  <2>1. Len(s) \in 1..Len(s)
    BY <1>1
  <2>2. t \in Seq(g.R) /\ Len(t) = Len(s) - 1 /\ \A i \in 1..(Len(s) - 1) : t[i] = s[i]
    BY <2>1, <1>1, WithoutLast DEF Shorter
  <2> QED
    BY <2>2
<1>3. \A m \in g.R : g.pre[m] \in Nat /\ g.last[m] \in Nat /\ g.pre[m] <= g.last[m]
  BY DEF Numbered
<1>4. g.from \in g.R
  BY DEF Numbered
<1>5. n \in g.R /\ g.pre[n] = p
  BY <1>1 DEF InTurn
<1>6. t = <<>> <=> Len(s) = 1
  <2>1. t = <<>> <=> Len(t) = 0
    BY <1>2, EmptySeq
  <2> QED
    BY <2>1, <1>1, <1>2
<1>7. IF t = <<>> THEN g.last[n] + 1 = g.last[g.from] + 1
      ELSE g.last[n] + 1 = g.pre[t[Len(t)]]
  <2>1. g.last[n] = IF Len(s) = 1 THEN g.last[g.from] ELSE g.pre[s[Len(s) - 1]] - 1
    <3>1. Len(s) \in 1..Len(s)
      BY <1>1
    <3> QED
      BY <3>1 DEF InTurn
  <2>2. CASE t = <<>>
    BY <2>1, <2>2, <1>6
  <2>3. CASE t # <<>>
    <3>1. Len(t) \in 1..Len(t) /\ Len(t) \in 1..Len(s) /\ t[Len(t)] = s[Len(s) - 1]
      BY <2>3, <1>1, <1>2, <1>6
    <3>2. g.pre[s[Len(s) - 1]] \in Nat /\ g.last[n] \in Nat
      BY <3>1, <1>1, <1>2, <1>3, <1>5
    <3> QED
      BY <2>1, <2>3, <3>1, <3>2, <1>6
  <2> QED
    BY <2>2, <2>3
<1>8. ASSUME NEW i \in 1..Len(t)
      PROVE  /\ g.last[n] + 1 <= g.pre[t[i]]
             /\ g.last[t[i]] = IF i = 1 THEN g.last[g.from] ELSE g.pre[t[i - 1]] - 1
             /\ \A j \in 1..(i - 1) : g.last[t[i]] < g.pre[t[j]]
  <2>1. i \in 1..Len(s) /\ i \in 1..(Len(s) - 1) /\ Len(s) \in 1..Len(s)
    BY <1>1, <1>2
  <2>2. g.last[n] < g.pre[s[i]]
    BY <2>1 DEF InTurn
  <2>3. /\ g.last[s[i]] = IF i = 1 THEN g.last[g.from] ELSE g.pre[s[i - 1]] - 1
        /\ \A j \in 1..(i - 1) : g.last[s[i]] < g.pre[s[j]]
    BY <2>1 DEF InTurn
  <2>4. t[i] = s[i] /\ \A j \in 1..(i - 1) : t[j] = s[j]
    BY <1>1, <1>2
  <2>5. i # 1 => i - 1 \in 1..(i - 1)
    BY <2>1, <1>1
  <2>6. g.pre[s[i]] \in Nat /\ g.last[n] \in Nat
    BY <2>1, <1>1, <1>3, <1>5
  <2>7. g.last[n] + 1 <= g.pre[t[i]]
    BY <2>2, <2>4, <2>6
  <2>8. g.last[t[i]] = IF i = 1 THEN g.last[g.from] ELSE g.pre[t[i - 1]] - 1
    BY <2>3, <2>4, <2>5
  <2>9. \A j \in 1..(i - 1) : g.last[t[i]] < g.pre[t[j]]
    BY <2>3, <2>4
  <2> QED
    BY <2>7, <2>8, <2>9
<1>9. InTurn(g, t, g.last[n] + 1)
  BY <1>2, <1>7, <1>8 DEF InTurn
<1>10. OnStack(s) = OnStack(t) \cup {n}
  <2>1. 1..Len(s) = 1..Len(t) \cup {Len(s)}
    BY <1>1, <1>2
  <2> QED
    BY <2>1, <1>2 DEF OnStack
<1> QED
  BY <1>5, <1>9, <1>10

-----------------------------------------------------------------------------
(* The map and the nodes. *)

Extends(map2, map) == /\ DOMAIN map \subseteq DOMAIN map2
                      /\ \A n \in DOMAIN map : map2[n] = map[n]

(* What is copied stays copied when more nodes get a copy. *)
LEMMA StayCopied ==
  ASSUME NEW g, Numbered(g), NEW ns, NEW ns2, NEW map, NEW map2, NEW S,
         Copied(g, ns, map, S), Extends(map2, map),
         \A n \in S : ns2[map[n]] = ns[map[n]]
  PROVE  Copied(g, ns2, map2, S)
<1> SUFFICES ASSUME NEW n \in S
             PROVE  /\ n \in DOMAIN map2
                    /\ Successors(g.ns[n]) \subseteq DOMAIN map2
                    /\ ns2[map2[n]] = Image(map2, g.ns[n])
  BY DEF Copied
<1>1. /\ n \in DOMAIN map /\ Successors(g.ns[n]) \subseteq DOMAIN map
      /\ ns[map[n]] = Image(map, g.ns[n])
  BY DEF Copied
<1>2. n \in g.R \ {g.to}
  BY DEF Copied
<1>3. g.ns[n].type \notin {"MATCH_END", "VISITED"}
  BY <1>2 DEF Numbered
<1>4. g.ns[n].next \in DOMAIN map /\ (g.ns[n].type = "BRANCH" => g.ns[n].u \in DOMAIN map)
  BY <1>1, <1>3 DEF Successors
<1>5. Image(map2, g.ns[n]) = Image(map, g.ns[n])
  BY <1>4 DEF Image, Extends
<1> QED
  BY <1>1, <1>5 DEF Extends

LEMMA NewCopy ==
  ASSUME NEW g, Numbered(g), NEW ns, NEW map, NEW m \in g.R, m \notin DOMAIN map,
         NEW S, Apart(g, ns, map), Copied(g, ns, map, S),
         NEW ns2, Longer(ns2, ns, FreshNode),
         NEW v \in Nat, v = Len(ns) + 1, NEW map2, Entered(map2, map, m, v)
  PROVE  /\ Apart(g, ns2, map2) /\ Copied(g, ns2, map2, S)
         /\ Extends(map2, map) /\ map2[m] = v
<1>1. ns \in Seq(Node) /\ Len(ns) \in Nat /\ Len(g.ns) \in Nat /\ Len(g.ns) <= Len(ns)
      /\ DOMAIN g.ns = 1..Len(g.ns)
  BY DEF Apart, Numbered
<1>2. FreshNode \in Node
  BY DEF FreshNode, Node, NodeType, NULL
<1>3. ns2 \in Seq(Node) /\ Len(ns2) = Len(ns) + 1 /\ \A i \in 1..Len(ns) : ns2[i] = ns[i]
  BY <1>1, <1>2, AppendProperties DEF Longer
<1>4. DOMAIN map2 = DOMAIN map \cup {m} /\ map2[m] = Len(ns) + 1
      /\ \A n \in DOMAIN map : map2[n] = map[n]
  BY DEF Insert, Entered
<1>5. \A n \in DOMAIN map : map[n] \in 1..Len(ns) /\ (n # g.from => map[n] > Len(g.ns))
  BY DEF Apart
<1>6. m # g.from
  BY DEF Apart
<1>7. \A n \in DOMAIN g.ns \ {g.new} : ns2[n] = g.ns[n]
  BY <1>1, <1>3 DEF Apart
<1>8. \A n \in DOMAIN map2 :
        map2[n] \in 1..Len(ns2) /\ (n # g.from => map2[n] > Len(g.ns))
  BY <1>1, <1>3, <1>4, <1>5
<1>9. \A a, b \in DOMAIN map2 : map2[a] = map2[b] => a = b
  <2>1. \A a, b \in DOMAIN map : map[a] = map[b] => a = b
    BY DEF Apart
  <2>2. \A a \in DOMAIN map : map2[a] # map2[m]
    BY <1>1, <1>4, <1>5
  <2> QED
    BY <2>1, <2>2, <1>4
<1>10. Apart(g, ns2, map2)
  <2>1. ASSUME NEW k \in 1..Len(ns2), k > Len(g.ns)
        PROVE  \E a \in DOMAIN map2 : map2[a] = k
    <3>1. CASE k = Len(ns) + 1
      BY <3>1, <1>4
    <3>2. CASE k # Len(ns) + 1
      <4>1. k \in 1..Len(ns)
        BY <3>2, <1>1, <1>3
      <4>2. PICK a \in DOMAIN map : map[a] = k
        BY <4>1, <2>1 DEF Apart
      <4> QED
        BY <4>2, <1>4
    <3> QED
      BY <3>1, <3>2
  <2>2. DOMAIN map2 \subseteq g.R /\ g.from \in DOMAIN map2 /\ map2[g.from] = g.new
    BY <1>4 DEF Apart
  <2>3. Len(g.ns) <= Len(ns2)
    BY <1>1, <1>3
  <2> QED
    BY <2>1, <2>2, <2>3, <1>3, <1>7, <1>8, <1>9 DEF Apart
<1>11. Extends(map2, map)
  BY <1>4 DEF Extends
<1>12. \A n \in S : ns2[map[n]] = ns[map[n]]
  BY <1>3, <1>5 DEF Copied
<1>13. Copied(g, ns2, map2, S)
  BY <1>11, <1>12, StayCopied
<1> QED
  BY <1>4, <1>10, <1>11, <1>13

(* The work in progress on one node: seen is marked, S is copied, p is the *)
(* number of what is next on the stack.                                    *)
Work(g, w, seen, S, p) ==
  /\ w = [ns |-> w.ns, map |-> w.map, stack |-> w.stack, edge |-> w.edge]
  /\ Apart(g, w.ns, w.map)
  /\ Mapped(w.map, w.stack, seen)
  /\ Copied(g, w.ns, w.map, S)
  /\ InTurn(g, w.stack, p)

UpTo(g, seen, n) == seen = Found(g, g.pre[n] + 1)
Follows(f, w, seen, m) == f = Follow(w, seen, m)

(* Following the edge from n to m: the search is told p, the number of     *)
(* what was to be next, and the map knows m from here on.                  *)
LEMMA Followed ==
  ASSUME NEW g, Numbered(g), NEW n \in g.R, NEW m \in g.R, NEW p \in Nat, NEW q \in Nat,
         NEW S, NEW w,
         g.pre[n] < p, Edge(g, n, m, p, q),
         NEW seen, UpTo(g, seen, n), Work(g, w, seen, S, q),
         NEW f, Follows(f, w, seen, m)
  PROVE  /\ Work(g, f, seen, S, p)
         /\ Extends(f.map, w.map)
         /\ m \in DOMAIN f.map /\ f.edge = f.map[m]
<1>1. g.pre[n] \in Nat /\ g.pre[m] \in Nat /\ g.last[m] \in Nat /\ g.pre[m] <= g.last[m]
  BY DEF Numbered
<1>2. m \in seen <=> g.pre[m] <= g.pre[n]
  BY <1>1 DEF Found, UpTo
<1>3. w = [ns |-> w.ns, map |-> w.map, stack |-> w.stack, edge |-> w.edge]
      /\ Apart(g, w.ns, w.map) /\ Mapped(w.map, w.stack, seen)
      /\ Copied(g, w.ns, w.map, S) /\ InTurn(g, w.stack, q)
  BY DEF Work
<1>4. CASE m \in seen
  <2>1. q = p
    BY <1>1, <1>2, <1>4 DEF Edge
  <2>2. m \in DOMAIN w.map
    BY <1>3, <1>4 DEF Mapped
  <2>3. f = [ns |-> w.ns, map |-> w.map, stack |-> w.stack, edge |-> w.map[m]]
    BY <1>3, <1>4, <2>2 DEF Follow, Lookup, Follows
  <2>4. f.ns = w.ns /\ f.map = w.map /\ f.stack = w.stack /\ f.edge = w.map[m]
    BY <2>3
  <2>5. f = [ns |-> f.ns, map |-> f.map, stack |-> f.stack, edge |-> f.edge]
    BY <2>3, <2>4
  <2>6. Work(g, f, seen, S, p)
    BY <1>3, <2>1, <2>4, <2>5 DEF Work
  <2> QED
    BY <2>2, <2>4, <2>6 DEF Extends
<1>5. CASE m \notin seen
  <2>1. g.pre[m] = p /\ q = g.last[m] + 1
    BY <1>1, <1>2, <1>5 DEF Edge
  <2>v. PICK v \in Nat : v = Len(w.ns) + 1
    <3>1. w.ns \in Seq(Node)
      BY <1>3 DEF Apart
    <3> QED
      BY <3>1
  <2>2. PICK ns2, map2, stack2 : /\ Longer(ns2, w.ns, FreshNode)
                                 /\ Entered(map2, w.map, m, v)
                                 /\ Longer(stack2, w.stack, m)
    BY DEF Longer, Entered
  <2>3. /\ InTurn(g, stack2, p)
        /\ OnStack(stack2) = OnStack(w.stack) \cup {m}
        /\ m \notin OnStack(w.stack)
    BY <1>3, <2>1, <2>2, Push
  <2>4. m \notin DOMAIN w.map
    BY <1>3, <1>5, <2>3 DEF Mapped
  <2>5. /\ Apart(g, ns2, map2) /\ Copied(g, ns2, map2, S)
        /\ Extends(map2, w.map) /\ map2[m] = v
    BY <1>3, <2>v, <2>2, <2>4, NewCopy
  <2>d. DOMAIN map2 = DOMAIN w.map \cup {m}
    BY <2>2 DEF Entered, Insert
  <2>f. f = [ns |-> ns2, map |-> map2, stack |-> stack2, edge |-> v]
    BY <1>5, <2>2, <2>v DEF Follow, Longer, Entered, Follows
  <2>6. f.ns = ns2 /\ f.map = map2 /\ f.stack = stack2 /\ f.edge = v
    BY <2>f
  <2>7. f = [ns |-> f.ns, map |-> f.map, stack |-> f.stack, edge |-> f.edge]
    BY <2>f, <2>6
  <2>8. Mapped(map2, stack2, seen)
    BY <1>3, <2>3, <2>d DEF Mapped
  <2>9. Work(g, f, seen, S, p)
    BY <2>3, <2>5, <2>6, <2>7, <2>8 DEF Work
  <2> QED
    BY <2>5, <2>6, <2>9, <2>d
<1> QED
  BY <1>4, <1>5

(* The copy of n is written when its edges are known. *)
Rewritten(ns2, ns, i, nd) == ns2 = [ns EXCEPT ![i] = nd]

LEMMA WriteCopy ==
  ASSUME NEW g, Numbered(g), NEW ns, NEW map, NEW S, NEW n \in g.R \ {g.to}, n \notin S,
         n \in DOMAIN map, Successors(g.ns[n]) \subseteq DOMAIN map,
         Apart(g, ns, map), Copied(g, ns, map, S),
         NEW ns2, Rewritten(ns2, ns, map[n], Image(map, g.ns[n]))
  PROVE  Apart(g, ns2, map) /\ Copied(g, ns2, map, S \cup {n})
<1> DEFINE nd == Image(map, g.ns[n])
<1>1. /\ ns \in Seq(Node) /\ Len(ns) \in Nat /\ Len(g.ns) \in Nat /\ Len(g.ns) <= Len(ns)
      /\ DOMAIN g.ns = 1..Len(g.ns) /\ DOMAIN ns = 1..Len(ns)
  BY DEF Apart, Numbered
<1>2. g.ns[n] \in Node /\ g.ns[n].type \notin {"MATCH_END", "VISITED"}
  BY DEF Numbered
<1>3. g.ns[n].next \in DOMAIN map /\ (g.ns[n].type = "BRANCH" => g.ns[n].u \in DOMAIN map)
  BY <1>2 DEF Successors
<1>4. \A m \in DOMAIN map : map[m] \in 1..Len(ns) /\ (m # g.from => map[m] > Len(g.ns))
  BY DEF Apart
<1>5. nd \in Node
  <2>1. map[g.ns[n].next] \in Nat
    BY <1>1, <1>3, <1>4
  <2>2. (IF g.ns[n].type = "BRANCH" THEN map[g.ns[n].u] ELSE g.ns[n].u) \in Int
    <3>1. CASE g.ns[n].type = "BRANCH"
      BY <3>1, <1>1, <1>3, <1>4
    <3>2. CASE g.ns[n].type # "BRANCH"
      BY <3>2, <1>2 DEF Node
    <3> QED
      BY <3>1, <3>2
  <2> QED
    BY <2>1, <2>2, <1>2 DEF Node, Image
<1> HIDE DEF nd
<1>6. /\ ns2 \in Seq(Node) /\ Len(ns2) = Len(ns)
      /\ \A i \in 1..Len(ns) : ns2[i] = IF i = map[n] THEN nd ELSE ns[i]
  <2>1. map[n] \in 1..Len(ns) /\ ns2 = [ns EXCEPT ![map[n]] = nd]
    BY <1>4 DEF Rewritten, nd
  <2> QED
    BY <2>1, <1>1, <1>5, ExceptSeq
<1>7. \A m \in DOMAIN g.ns \ {g.new} : ns2[m] = g.ns[m]
  <2> SUFFICES ASSUME NEW m \in DOMAIN g.ns \ {g.new} PROVE ns2[m] = g.ns[m]
    OBVIOUS
  <2>1. ns[m] = g.ns[m]
    BY DEF Apart
  <2>2. m # map[n]
    <3>1. CASE n = g.from
      BY <3>1 DEF Apart
    <3>2. CASE n # g.from
      BY <3>2, <1>1, <1>4
    <3> QED
      BY <3>1, <3>2
  <2> QED
    BY <2>1, <2>2, <1>1, <1>6
<1>8. Apart(g, ns2, map)
  <2>1. /\ DOMAIN map \subseteq g.R
        /\ g.from \in DOMAIN map /\ map[g.from] = g.new
        /\ \A a, b \in DOMAIN map : map[a] = map[b] => a = b
        /\ \A k \in 1..Len(ns) : k > Len(g.ns) => \E m \in DOMAIN map : map[m] = k
    BY DEF Apart
  <2> QED
    BY <2>1, <1>1, <1>4, <1>6, <1>7 DEF Apart
<1>9. Copied(g, ns2, map, S)
  <2>1. ASSUME NEW m \in S PROVE ns2[map[m]] = ns[map[m]]
    <3>1. m \in DOMAIN map /\ m # n
      BY DEF Copied
    <3>2. map[m] # map[n]
      BY <3>1 DEF Apart
    <3> QED
      BY <3>1, <3>2, <1>4, <1>6
  <2>2. Extends(map, map)
    BY DEF Extends
  <2> QED
    BY <2>1, <2>2, StayCopied
<1>10. ns2[map[n]] = Image(map, g.ns[n])
  BY <1>4, <1>6 DEF nd
<1> QED
  BY <1>8, <1>9, <1>10 DEF Copied

-----------------------------------------------------------------------------
(* The steps of the search. *)

(* What the top of the stack is when the search turns to it. *)
LEMMA AtTop ==
  ASSUME NEW g, Numbered(g), CopyInv(g), dfs_stack # <<>>,
         NEW n, n = Top, NEW t, t = Popped
  PROVE  \E p \in Nat :
           /\ n \in g.R /\ n \notin visited /\ n \in DOMAIN dfs_map
           /\ g.pre[n] = p /\ InTurn(g, t, g.last[n] + 1) /\ g.last[n] + 1 \in Nat
           /\ visited = Found(g, p) /\ visited \cup {n} = Found(g, p + 1)
           /\ Mapped(dfs_map, t, visited \cup {n})
<1>1. PICK p \in Nat : visited = Found(g, p) /\ InTurn(g, dfs_stack, p)
  BY DEF CopyInv
<1>2. Shorter(t, dfs_stack) /\ n = dfs_stack[Len(dfs_stack)]
  BY DEF Shorter, Top, Popped
<1>3. n \in g.R /\ g.pre[n] = p /\ InTurn(g, t, g.last[n] + 1)
      /\ OnStack(dfs_stack) = OnStack(t) \cup {n}
  BY <1>1, <1>2, Pop
<1>4. /\ \A m \in g.R : g.pre[m] \in Nat /\ g.last[m] \in Nat
      /\ \A a, b \in g.R : g.pre[a] = g.pre[b] => a = b
  BY DEF Numbered
<1>5. n \notin visited
  BY <1>1, <1>3 DEF Found
<1>6. visited \cup {n} = Found(g, p + 1)
  BY <1>1, <1>3, <1>4 DEF Found
<1>7. Mapped(dfs_map, t, visited \cup {n}) /\ n \in DOMAIN dfs_map
  BY <1>3 DEF Mapped, CopyInv
<1>8. g.last[n] + 1 \in Nat
  BY <1>3, <1>4
<1> QED
  BY <1>1, <1>3, <1>5, <1>6, <1>7, <1>8

LEMMA StepReachEnd ==
  ASSUME NEW g, Numbered(g), CopyInv(g), CopyReachEnd
  PROVE  CopyInv(g)'
<1>1. /\ dfs_stack # <<>> /\ Top = g.to /\ copy.sg_end = g.to
      /\ copy' = [copy EXCEPT !.new_end = Lookup(dfs_map, g.to)]
      /\ visited' = visited \cup {g.to} /\ dfs_stack' = Popped
      /\ UNCHANGED <<nodes, dfs_map>>
  <2>1. copy.sg_end = g.to
    BY DEF CopyInv
  <2> QED
    BY <2>1 DEF CopyReachEnd
<1>2. PICK p \in Nat :
        /\ g.to \notin visited /\ g.to \in DOMAIN dfs_map
        /\ g.pre[g.to] = p /\ InTurn(g, dfs_stack', g.last[g.to] + 1)
        /\ visited' = Found(g, p + 1)
        /\ Mapped(dfs_map, dfs_stack', visited')
  BY <1>1, AtTop
<1>3. /\ copy' = [active |-> TRUE, sg_start |-> g.from, sg_end |-> g.to,
                  new_start |-> g.new, new_end |-> copy'.new_end]
      /\ copy'.new_end = dfs_map'[g.to]
  <2>1. PICK e : copy = [active |-> TRUE, sg_start |-> g.from, sg_end |-> g.to,
                         new_start |-> g.new, new_end |-> e]
    BY DEF CopyInv
  <2>2. Lookup(dfs_map, g.to) = dfs_map[g.to]
    BY <1>2 DEF Lookup
  <2>3. copy' = [active |-> TRUE, sg_start |-> g.from, sg_end |-> g.to,
                 new_start |-> g.new, new_end |-> dfs_map[g.to]]
    BY <2>1, <2>2, <1>1
  <2> QED
    BY <2>3, <1>1
<1>4. p + 1 \in Nat /\ InTurn(g, dfs_stack', p + 1)
  <2>1. g.last[g.to] = p
    BY <1>2 DEF Numbered
  <2> QED
    BY <1>2, <2>1
<1>5. Apart(g, nodes', dfs_map') /\ Mapped(dfs_map', dfs_stack', visited')
  BY <1>1, <1>2 DEF CopyInv
<1>6. Copied(g, nodes', dfs_map', visited' \ {g.to})
  <2>1. visited' \ {g.to} = visited \ {g.to}
    BY <1>1
  <2> QED
    BY <2>1, <1>1 DEF CopyInv
<1> QED
  BY <1>2, <1>3, <1>4, <1>5, <1>6 DEF CopyInv

(* One turn of the loop.  The node it copies is one of the subgraph and is *)
(* still what it was; neither it nor its copy is marked.                   *)
TurnOf(g, n, t, seen, begun, left, right) ==
  /\ n = Top /\ t = Popped /\ seen = visited \cup {n}
  /\ n \in g.R \ {g.to} /\ n \in DOMAIN dfs_map
  /\ nodes[n] = g.ns[n] /\ g.ns[n].type \notin {"MATCH_END", "VISITED"}
  /\ begun = [ns |-> nodes, map |-> dfs_map, stack |-> t, edge |-> NULL]
  /\ left = Follow(begun, seen, g.ns[n].next)
  /\ right = IF g.ns[n].type = "BRANCH" THEN Follow(left, seen, g.ns[n].u) ELSE left
  /\ nodes' = [right.ns EXCEPT ![dfs_map[n]] =
                 [g.ns[n] EXCEPT !.next = left.edge,
                                 !.u = IF g.ns[n].type = "BRANCH"
                                       THEN right.edge ELSE g.ns[n].u]]
  /\ visited' = seen /\ dfs_map' = right.map /\ dfs_stack' = right.stack

LEMMA Turn ==
  ASSUME NEW g, Numbered(g), CopyInv(g), CopyNode
  PROVE  \E n, t, seen, begun, left, right : TurnOf(g, n, t, seen, begun, left, right)
<1>1. PICK n, t : n = Top /\ t = Popped
  OBVIOUS
<1>2. dfs_stack # <<>> /\ n # g.to /\ UNCHANGED copy
  <2>1. copy.sg_end = g.to
    BY DEF CopyInv
  <2> QED
    BY <2>1, <1>1 DEF CopyNode
<1>3. PICK p \in Nat :
        /\ n \in g.R /\ n \notin visited /\ n \in DOMAIN dfs_map
        /\ g.pre[n] = p /\ InTurn(g, t, g.last[n] + 1) /\ g.last[n] + 1 \in Nat
        /\ visited = Found(g, p) /\ visited \cup {n} = Found(g, p + 1)
        /\ Mapped(dfs_map, t, visited \cup {n})
  BY <1>1, <1>2, AtTop
<1>4. PICK seen : seen = visited \cup {n}
  OBVIOUS
<1>5. Apart(g, nodes, dfs_map) /\ Copied(g, nodes, dfs_map, visited \ {g.to})
  BY DEF CopyInv
<1>6. nodes[n] = g.ns[n] /\ g.ns[n].type \notin {"MATCH_END", "VISITED"}
  <2>1. n \in DOMAIN g.ns \ {g.new} /\ g.ns[n].type \notin {"MATCH_END", "VISITED"}
    BY <1>2, <1>3 DEF Numbered
  <2> QED
    BY <2>1, <1>5 DEF Apart
<1>7. dfs_map[n] \notin visited
  <2>1. CASE n = g.from
    <3>1. p = 0
      BY <2>1, <1>3 DEF Numbered
    <3>2. visited = {}
      BY <3>1, <1>3 DEF Found, Numbered
    <3> QED
      BY <3>2
  <2>2. CASE n # g.from
    <3>1. dfs_map[n] > Len(g.ns) /\ dfs_map[n] \in 1..Len(nodes) /\ Len(nodes) \in Nat
      BY <2>2, <1>3, <1>5 DEF Apart
    <3>2. visited \subseteq 1..Len(g.ns) /\ Len(g.ns) \in Nat
      BY <1>3 DEF Found, Numbered
    <3> QED
      BY <3>1, <3>2
  <2> QED
    BY <2>1, <2>2
<1>8. PICK begun, left, right :
        /\ begun = [ns |-> nodes, map |-> dfs_map, stack |-> t, edge |-> NULL]
        /\ left = Follow(begun, seen, g.ns[n].next)
        /\ right = IF g.ns[n].type = "BRANCH" THEN Follow(left, seen, g.ns[n].u) ELSE left
        /\ nodes' = [right.ns EXCEPT ![dfs_map[n]] =
                       [g.ns[n] EXCEPT !.next = left.edge,
                                       !.u = IF g.ns[n].type = "BRANCH"
                                             THEN right.edge ELSE g.ns[n].u]]
        /\ visited' = seen /\ dfs_map' = right.map /\ dfs_stack' = right.stack
  <2>1. (visited \ {dfs_map[n]}) \cup (IF n \in visited THEN {dfs_map[n]} ELSE {}) = visited
    BY <1>3, <1>7
  <2>2. HasSecondEdge(nodes[n], n \in visited) <=> g.ns[n].type = "BRANCH"
    BY <1>3, <1>6 DEF HasSecondEdge
  <2> QED
    BY <2>1, <2>2, <1>1, <1>4, <1>6 DEF CopyNode
<1>9. n \in g.R \ {g.to} /\ n \in DOMAIN dfs_map
  BY <1>2, <1>3
<1>10. TurnOf(g, n, t, seen, begun, left, right)
  BY <1>1, <1>4, <1>6, <1>8, <1>9, Zenon DEF TurnOf
<1> QED
  BY <1>10

LEMMA StepCopyNode ==
  ASSUME NEW g, Numbered(g), CopyInv(g), CopyNode
  PROVE  CopyInv(g)'
<1>t. PICK n, t, seen, begun, left, right : TurnOf(g, n, t, seen, begun, left, right)
  BY Turn
<1>8. /\ n \in g.R \ {g.to} /\ n \in DOMAIN dfs_map
      /\ begun = [ns |-> nodes, map |-> dfs_map, stack |-> t, edge |-> NULL]
      /\ left = Follow(begun, seen, g.ns[n].next)
      /\ right = IF g.ns[n].type = "BRANCH" THEN Follow(left, seen, g.ns[n].u) ELSE left
      /\ nodes' = [right.ns EXCEPT ![dfs_map[n]] =
                     [g.ns[n] EXCEPT !.next = left.edge,
                                     !.u = IF g.ns[n].type = "BRANCH"
                                           THEN right.edge ELSE g.ns[n].u]]
      /\ visited' = seen /\ dfs_map' = right.map /\ dfs_stack' = right.stack
  BY <1>t DEF TurnOf
<1>1. n = Top /\ t = Popped
  BY <1>t DEF TurnOf
<1>2. dfs_stack # <<>> /\ n # g.to /\ UNCHANGED copy
  BY <1>8 DEF CopyNode
<1>3. PICK p \in Nat :
        /\ n \in g.R /\ n \notin visited /\ n \in DOMAIN dfs_map
        /\ g.pre[n] = p /\ InTurn(g, t, g.last[n] + 1) /\ g.last[n] + 1 \in Nat
        /\ visited = Found(g, p) /\ visited \cup {n} = Found(g, p + 1)
        /\ Mapped(dfs_map, t, visited \cup {n})
  BY <1>1, <1>2, AtTop
<1>4. seen = visited \cup {n}
  BY <1>t DEF TurnOf
<1>5. Apart(g, nodes, dfs_map) /\ Copied(g, nodes, dfs_map, visited \ {g.to})
  BY DEF CopyInv
<1>6. nodes[n] = g.ns[n] /\ g.ns[n].type \notin {"MATCH_END", "VISITED"}
  BY <1>t DEF TurnOf
<1>s. PICK S, m, u : S = visited \ {g.to} /\ m = g.ns[n].next /\ u = g.ns[n].u
  OBVIOUS
<1>p. PICK next \in Nat, after \in Nat : next = p + 1 /\ after = g.last[n] + 1
  BY <1>3
<1>9. Work(g, begun, seen, S, after)
  <2>1. begun.ns = nodes /\ begun.map = dfs_map /\ begun.stack = t /\ begun.edge = NULL
    BY <1>8
  <2> QED
    BY <1>s, <1>p, <2>1, <1>3, <1>4, <1>5, <1>8 DEF Work
<1>10. UpTo(g, seen, n) /\ g.pre[n] < next /\ seen = Found(g, next)
  BY <1>3, <1>4, <1>p DEF UpTo
<1>11. /\ Work(g, right, seen, S, next)
       /\ Extends(right.map, dfs_map)
       /\ Successors(g.ns[n]) \subseteq DOMAIN right.map
       /\ Rewritten(nodes', right.ns, right.map[n], Image(right.map, g.ns[n]))
  <2>1. Successors(g.ns[n]) \subseteq g.R
    BY <1>2, <1>3 DEF Numbered
  <2>2. dfs_map[n] = right.map[n] \/ ~Extends(right.map, dfs_map)
    BY <1>3 DEF Extends
  <2>3. CASE g.ns[n].type = "BRANCH"
    <3>1. PICK q \in 0..(g.last[g.from] + 1) :
            Edge(g, n, u, next, q) /\ Edge(g, n, m, q, after)
      BY <1>s, <1>p, <2>3, <1>2, <1>3 DEF Numbered
    <3>2. m \in g.R /\ u \in g.R
      BY <1>s, <2>1, <2>3 DEF Successors
    <3>3. q \in Nat /\ g.pre[n] < q
      <4>1. g.pre[u] \in Nat /\ g.last[u] \in Nat /\ g.pre[u] <= g.last[u]
            /\ g.last[g.from] \in Nat
        BY <3>2 DEF Numbered
      <4> QED
        BY <4>1, <3>1, <1>3, <1>p DEF Edge
    <3>l. Follows(left, begun, seen, m)
      BY <1>s, <1>8 DEF Follows
    <3>4. /\ Work(g, left, seen, S, q) /\ Extends(left.map, begun.map)
          /\ m \in DOMAIN left.map /\ left.edge = left.map[m]
      BY <3>1, <3>2, <3>3, <3>l, <1>3, <1>9, <1>10, Followed
    <3>5. Follows(right, left, seen, u)
      BY <1>s, <2>3, <1>8 DEF Follows
    <3>6. /\ Work(g, right, seen, S, next) /\ Extends(right.map, left.map)
          /\ u \in DOMAIN right.map /\ right.edge = right.map[u]
      BY <3>1, <3>2, <3>3, <3>4, <3>5, <1>3, <1>10, Followed
    <3>7. m \in DOMAIN right.map /\ left.edge = right.map[m]
      BY <3>4, <3>6 DEF Extends
    <3>8. Extends(right.map, dfs_map)
      <4>1. begun.map = dfs_map
        BY <1>8
      <4> QED
        BY <4>1, <3>4, <3>6 DEF Extends
    <3>9. nodes' = [right.ns EXCEPT ![right.map[n]] = Image(right.map, g.ns[n])]
      BY <1>s, <3>6, <3>7, <3>8, <2>2, <2>3, <1>8 DEF Image
    <3> QED
      BY <1>s, <3>6, <3>7, <3>8, <3>9, <2>3 DEF Successors, Rewritten
  <2>4. CASE g.ns[n].type # "BRANCH"
    <3>1. Edge(g, n, m, next, after)
      BY <1>s, <1>p, <2>4, <1>2, <1>3 DEF Numbered
    <3>2. m \in g.R
      BY <1>s, <2>1, <2>4, <1>6 DEF Successors
    <3>3. right = left /\ g.pre[n] < next
      BY <2>4, <1>8, <1>10
    <3>l. Follows(left, begun, seen, m)
      BY <1>s, <1>8 DEF Follows
    <3>4. /\ Work(g, left, seen, S, next) /\ Extends(left.map, begun.map)
          /\ m \in DOMAIN left.map /\ left.edge = left.map[m]
      BY <3>1, <3>2, <3>3, <3>l, <1>3, <1>9, <1>10, Followed
    <3>5. Extends(right.map, dfs_map)
      BY <3>3, <3>4, <1>8
    <3>6. nodes' = [right.ns EXCEPT ![right.map[n]] = Image(right.map, g.ns[n])]
      BY <1>s, <3>3, <3>4, <3>5, <2>2, <2>4, <1>8 DEF Image
    <3> QED
      BY <1>s, <3>3, <3>4, <3>5, <3>6, <2>4 DEF Successors, Rewritten
  <2> QED
    BY <2>3, <2>4
<1>12. /\ Apart(g, right.ns, right.map) /\ Mapped(right.map, right.stack, seen)
       /\ Copied(g, right.ns, right.map, S) /\ InTurn(g, right.stack, next)
  BY <1>11 DEF Work
<1>13. n \in DOMAIN right.map /\ n \in g.R \ {g.to} /\ n \notin S
  BY <1>s, <1>2, <1>3, <1>11 DEF Extends
<1>14. Apart(g, nodes', right.map) /\ Copied(g, nodes', right.map, S \cup {n})
  BY <1>11, <1>12, <1>13, WriteCopy
<1>15. S \cup {n} = visited' \ {g.to}
  BY <1>s, <1>2, <1>4, <1>8
<1>16. /\ copy' = [active |-> TRUE, sg_start |-> g.from, sg_end |-> g.to,
                   new_start |-> g.new, new_end |-> copy'.new_end]
       /\ g.to \in visited' => copy'.new_end = dfs_map'[g.to]
  <2>1. g.to \in visited' => g.to \in visited /\ g.to \in DOMAIN dfs_map
    BY <1>2, <1>4, <1>8 DEF CopyInv, Mapped
  <2> QED
    BY <2>1, <1>2, <1>8, <1>11 DEF CopyInv, Extends
<1>17. Apart(g, nodes, dfs_map)' /\ Mapped(dfs_map, dfs_stack, visited)'
  BY <1>8, <1>12, <1>14
<1>18. Copied(g, nodes, dfs_map, visited \ {g.to})'
  BY <1>8, <1>14, <1>15
<1>19. (\E x \in Nat : visited = Found(g, x) /\ InTurn(g, dfs_stack, x))'
  BY <1>8, <1>10, <1>12
<1> QED
  BY <1>16, <1>17, <1>18, <1>19 DEF CopyInv

-----------------------------------------------------------------------------

LEMMA OneOnStack ==
  ASSUME NEW S, NEW a \in S
  PROVE  /\ <<a>> \in Seq(S) /\ Len(<<a>>) = 1 /\ <<a>>[1] = a
OBVIOUS

LEMMA StartedInv ==
  ASSUME NEW g, Numbered(g), Started(g)
  PROVE  CopyInv(g)
<1>1. /\ DOMAIN dfs_map = {g.from} /\ dfs_map[g.from] = g.new
  BY DEF Started, Insert, EmptyMap
<1>2. g.from \in g.R /\ g.pre[g.from] = 0 /\ g.last[g.from] \in Nat /\ g.new \in 1..Len(g.ns)
      /\ g.ns \in Seq(Node) /\ Len(g.ns) \in Nat /\ DOMAIN g.ns = 1..Len(g.ns)
  BY DEF Numbered
<1>3. dfs_stack \in Seq(g.R) /\ Len(dfs_stack) = 1 /\ dfs_stack[1] = g.from /\ dfs_stack # <<>>
  <2>1. dfs_stack = <<g.from>>
    BY DEF Started
  <2>2. dfs_stack \in Seq(g.R) /\ Len(dfs_stack) = 1
    BY <2>1, <1>2, OneOnStack
  <2> QED
    BY <2>1, <2>2, EmptySeq
<1>4. Apart(g, nodes, dfs_map)
  BY <1>1, <1>2 DEF Apart, Started
<1>5. Mapped(dfs_map, dfs_stack, visited)
  BY <1>1, <1>3 DEF Mapped, OnStack, Started
<1>6. Copied(g, nodes, dfs_map, visited \ {g.to})
  BY DEF Copied, Started
<1>7. visited = Found(g, 0)
  BY DEF Started, Found, Numbered
<1>8. InTurn(g, dfs_stack, 0)
  BY <1>2, <1>3 DEF InTurn
<1>9. /\ copy = [active |-> TRUE, sg_start |-> g.from, sg_end |-> g.to,
                 new_start |-> g.new, new_end |-> copy.new_end]
      /\ g.to \notin visited
  BY DEF Started
<1> QED
  BY <1>4, <1>5, <1>6, <1>7, <1>8, <1>9 DEF CopyInv

LEMMA StepInv ==
  ASSUME NEW g, Numbered(g), CopyInv(g), [CopyStep]_copyVars
  PROVE  CopyInv(g)'
<1>1. CASE UNCHANGED copyVars
  BY <1>1 DEF copyVars, dfsVars, CopyInv
<1> QED
  BY <1>1, StepReachEnd, StepCopyNode DEF CopyStep

LEMMA InvFaithful ==
  ASSUME NEW g, Numbered(g), CopyInv(g)
  PROVE  CopyFaithful
<1> SUFFICES ASSUME CopyDone
             PROVE  /\ dfs_map[copy.sg_start] = copy.new_start
                    /\ copy.sg_end \in DOMAIN dfs_map /\ dfs_map[copy.sg_end] = copy.new_end
                    /\ \A m, n \in DOMAIN dfs_map : dfs_map[m] = dfs_map[n] => m = n
                    /\ Unmarked = {}
                    /\ \A n \in DOMAIN dfs_map \ {copy.sg_end} :
                         LET old == nodes[n]
                             new == nodes[dfs_map[n]]
                         IN  /\ new.type = old.type
                             /\ new.next = Lookup(dfs_map, old.next)
                             /\ new.u = IF old.type = "BRANCH"
                                        THEN Lookup(dfs_map, old.u) ELSE old.u
  BY DEF CopyFaithful
<1>1. copy.sg_start = g.from /\ copy.sg_end = g.to /\ copy.new_start = g.new
  BY DEF CopyInv
<1>2. dfs_stack = <<>>
  BY DEF CopyDone
<1>3. visited = g.R
  <2>1. visited = Found(g, g.last[g.from] + 1)
    BY <1>2 DEF CopyInv, InTurn
  <2>2. g.last[g.from] \in Nat
        /\ \A n \in g.R : g.pre[n] \in Nat /\ g.pre[n] <= g.last[g.from]
    BY DEF Numbered
  <2> QED
    BY <2>1, <2>2 DEF Found
<1>4. DOMAIN dfs_map = visited
  <2>1. Len(dfs_stack) = 0
    BY <1>2
  <2> QED
    BY <2>1 DEF CopyInv, Mapped, OnStack
<1>5. g.to \in visited /\ copy.new_end = dfs_map[g.to]
  BY <1>3 DEF CopyInv, Numbered
<1>6. dfs_map[g.from] = g.new /\ \A m, n \in DOMAIN dfs_map : dfs_map[m] = dfs_map[n] => m = n
  BY DEF CopyInv, Apart
<1>7. Unmarked = {}
  BY <1>4 DEF Unmarked
<1>8. ASSUME NEW n \in DOMAIN dfs_map \ {g.to}
      PROVE  /\ nodes[n] = g.ns[n] /\ nodes[dfs_map[n]] = Image(dfs_map, g.ns[n])
             /\ g.ns[n] \in Node
             /\ g.ns[n].next \in DOMAIN dfs_map
             /\ g.ns[n].type = "BRANCH" => g.ns[n].u \in DOMAIN dfs_map
  <2>1. n \in g.R \ {g.to} /\ n \in DOMAIN g.ns \ {g.new}
        /\ g.ns[n].type \notin {"MATCH_END", "VISITED"} /\ g.ns[n] \in Node
    BY <1>3, <1>4 DEF Numbered
  <2>2. nodes[n] = g.ns[n]
    BY <2>1 DEF CopyInv, Apart
  <2>3. Successors(g.ns[n]) \subseteq DOMAIN dfs_map
        /\ nodes[dfs_map[n]] = Image(dfs_map, g.ns[n])
    BY <1>4 DEF CopyInv, Copied
  <2> QED
    BY <2>1, <2>2, <2>3 DEF Successors
<1>9. ASSUME NEW n \in DOMAIN dfs_map \ {g.to}
      PROVE  /\ nodes[dfs_map[n]].type = nodes[n].type
             /\ nodes[dfs_map[n]].next = Lookup(dfs_map, nodes[n].next)
             /\ nodes[dfs_map[n]].u = IF nodes[n].type = "BRANCH"
                                      THEN Lookup(dfs_map, nodes[n].u) ELSE nodes[n].u
  <2> DEFINE nd == g.ns[n]
  <2>1. nd \in Node /\ nd.next \in DOMAIN dfs_map
        /\ (nd.type = "BRANCH" => nd.u \in DOMAIN dfs_map)
    BY <1>8
  <2>2. nodes[n] = nd /\ nodes[dfs_map[n]] = Image(dfs_map, nd)
    BY <1>8
  <2> HIDE DEF nd
  <2>3. /\ Image(dfs_map, nd).type = nd.type
        /\ Image(dfs_map, nd).next = dfs_map[nd.next]
        /\ Image(dfs_map, nd).u = IF nd.type = "BRANCH" THEN dfs_map[nd.u] ELSE nd.u
    BY <2>1 DEF Image, Node
  <2> QED
    BY <2>1, <2>2, <2>3 DEF Lookup
<1>10. g.to \in DOMAIN dfs_map
  BY <1>4, <1>5
<1> QED
  BY <1>1, <1>5, <1>6, <1>7, <1>9, <1>10, Zenon

(* copy_subgraph keeps the promise of its comment on every numbered part   *)
(* of a graph, however large, with loops and alternatives nested in any    *)
(* way: when the search is over the copy is the subgraph with its edges    *)
(* taken along, joined to nothing of the original, and every mark is gone. *)
THEOREM CopiesFaithfully ==
  ASSUME NEW g, Numbered(g)
  PROVE  Started(g) /\ [][CopyStep]_copyVars => []CopyFaithful
<1>1. CopyInv(g) /\ [CopyStep]_copyVars => CopyInv(g)'
  BY StepInv
<1>2. Started(g) => CopyInv(g)
  BY StartedInv
<1>3. CopyInv(g) => CopyFaithful
  BY InvFaithful
<1> QED
  BY <1>1, <1>2, <1>3, PTL

-----------------------------------------------------------------------------
(* A call of copy_subgraph has begun: what it is called with is numbered.  *)
CopiesNumbered ==
  pc = "copying" /\ visited = {} /\ dfs_stack = <<copy.sg_start>> =>
    \E g : /\ Numbered(g)
           /\ nodes = g.ns /\ copy.sg_start = g.from /\ copy.sg_end = g.to
           /\ copy.new_start = g.new

-----------------------------------------------------------------------------
(* The inductive invariant of the compiler. *)

(* Every edge leads to one of k nodes, or is the first one of its node and *)
(* still NULL.                                                             *)
NodeIn(nd, k) ==
  /\ nd \in Node /\ nd.type # "VISITED"
  /\ nd.next \in 0..k
  /\ nd.type = "BRANCH" => nd.u \in 1..k
  /\ nd.type = "CHAR_CLASS" => nd.u \in DOMAIN Classes

GraphOK(ns) == ns \in Seq(Node) /\ \A n \in 1..Len(ns) : NodeIn(ns[n], Len(ns))

(* The nodes where the open groups start lead somewhere, and are neither   *)
(* the open end nor what a quantifier would apply to: a quantifier in      *)
(* braces that empties the node of its atom cuts no group off.             *)
Places ==
  /\ start = 1 /\ node \in 1..Len(nodes)
  /\ atom_start \in 0..Len(nodes) /\ or_end \in 0..Len(nodes)
  /\ groups \in Seq([start : 1..Len(nodes), or_end : 0..Len(nodes)])
  /\ \A i \in 1..Len(groups) :
       /\ nodes[groups[i].start].next # NULL
       /\ groups[i].start \notin {node, atom_start}
       /\ \A j \in 1..(i - 1) : groups[j].start # groups[i].start

Cleared == /\ nodes = <<>> /\ groups = <<>>
           /\ start = NULL /\ node = NULL /\ atom_start = NULL /\ or_end = NULL

Reading == /\ regexp \in Seq(STRING) /\ rpos \in 1..(Len(regexp) + 1)
           /\ pc # "idle" => regexp \in Texts

Counters == /\ cap_count \in Nat /\ rx_cap_count \in Nat /\ ignorecase \in BOOLEAN
            /\ endValue \in Int

QuantType ==
  [min : Int, max : Int, greedy : BOOLEAN, i : Nat, sg_start : Nat, sg_end : Nat,
   sg_start2 : Nat, for : {"none", "required", "unbounded", "bounded"}]

QuantOK ==
  /\ pc \notin {"repeat", "copying"} => quant = NoQuant
  /\ pc \in {"repeat", "copying"} =>
       /\ quant \in QuantType
       /\ quant.sg_start \in 1..Len(nodes) /\ quant.sg_end \in 1..Len(nodes)
       /\ \A i \in 1..Len(groups) : groups[i].start # quant.sg_end
  /\ pc = "copying" => quant.sg_start2 \in 1..Len(nodes) /\ quant.for # "none"

StackOK == dfs_allocated \in Nat \ {0} /\ Len(dfs_stack) <= dfs_allocated

(* Between two copies no node is marked and no copy is under way; during   *)
(* one, the search is where the invariant of copy_subgraph says, and it    *)
(* writes to no node where an open group starts.                           *)
ClearOf(g) == \A i \in 1..Len(groups) : groups[i].start \in 1..Len(g.ns) \ {g.new}

CopiesInv ==
  /\ pc # "copying" => visited = {} /\ dfs_stack = <<>> /\ dfs_map = EmptyMap /\ ~copy.active
  /\ pc = "copying" => \E g : Numbered(g) /\ CopyInv(g) /\ ClearOf(g)

CompileInv ==
  /\ pc \in {"idle", "scan", "repeat", "copying", "done", "error"}
  /\ GraphOK(nodes)
  /\ IF pc = "idle" THEN Cleared ELSE Places
  /\ Reading /\ Counters /\ QuantOK /\ StackOK /\ CopiesInv

-----------------------------------------------------------------------------
(* What a symbol does to the graph.  A node that leads somewhere goes on   *)
(* to do so.                                                               *)

Continues(ns2, ns) ==
  /\ GraphOK(ns2) /\ Len(ns) <= Len(ns2)
  /\ \A n \in 1..Len(ns) : ns[n].next # NULL => ns2[n].next # NULL

LEMMA ContinuesOn ==
  ASSUME NEW a, NEW b, NEW c, GraphOK(a), Continues(b, a), Continues(c, b)
  PROVE  Continues(c, a)
<1>1. Len(a) \in Nat /\ Len(b) \in Nat /\ Len(c) \in Nat
  BY DEF Continues, GraphOK
<1> QED
  BY <1>1 DEF Continues

LEMMA ContinuesSame ==
  ASSUME NEW a, GraphOK(a)
  PROVE  Continues(a, a)
<1>1. Len(a) \in Nat
  BY DEF GraphOK
<1> QED
  BY <1>1 DEF Continues

LEMMA Further ==
  ASSUME NEW nd, NEW k \in Nat, NEW m \in Nat, k <= m, NodeIn(nd, k)
  PROVE  NodeIn(nd, m)
BY DEF NodeIn

LEMMA FreshIn ==
  ASSUME NEW k \in Nat
  PROVE  NodeIn(FreshNode, k) /\ FreshNode.next = NULL
BY DEF NodeIn, FreshNode, Node, NodeType, NULL

LEMMA GrowGraph ==
  ASSUME NEW ns, GraphOK(ns), NEW k \in Nat, NEW ns2, ns2 = Grow(ns, k)
  PROVE  /\ Continues(ns2, ns) /\ GraphOK(ns2) /\ Len(ns2) = Len(ns) + k
         /\ \A n \in 1..Len(ns) : ns2[n] = ns[n]
         /\ \A n \in 1..Len(ns2) : n > Len(ns) => ns2[n] = FreshNode
<1>1. ns \in Seq(Node) /\ Len(ns) \in Nat /\ \A n \in 1..Len(ns) : NodeIn(ns[n], Len(ns))
  BY DEF GraphOK
<1>2. [i \in 1..k |-> FreshNode] \in Seq(Node) /\ Len([i \in 1..k |-> FreshNode]) = k
      /\ \A i \in 1..k : [j \in 1..k |-> FreshNode][i] = FreshNode
  <2>1. FreshNode \in Node
    BY DEF FreshNode, Node, NodeType, NULL
  <2> QED
    BY <2>1
<1>3. /\ ns2 \in Seq(Node) /\ Len(ns2) = Len(ns) + k
      /\ \A n \in 1..(Len(ns) + k) : ns2[n] = IF n <= Len(ns) THEN ns[n] ELSE FreshNode
  <2>1. PICK f \in Seq(Node) : f = [i \in 1..k |-> FreshNode]
    BY <1>2
  <2>2. Len(f) = k /\ \A i \in 1..k : f[i] = FreshNode
    BY <1>2, <2>1
  <2>3. ns2 = ns \o f
    BY <2>1 DEF Grow
  <2>4. /\ ns2 \in Seq(Node) /\ Len(ns2) = Len(ns) + k
        /\ \A n \in 1..(Len(ns) + k) : ns2[n] = IF n <= Len(ns) THEN ns[n] ELSE f[n - Len(ns)]
    <3>1. /\ ns \o f \in Seq(Node) /\ Len(ns \o f) = Len(ns) + Len(f)
          /\ \A n \in 1..(Len(ns) + Len(f)) :
               (ns \o f)[n] = IF n <= Len(ns) THEN ns[n] ELSE f[n - Len(ns)]
      BY <1>1, ConcatProperties
    <3> QED
      BY <2>2, <2>3, <3>1
  <2> QED
    BY <1>1, <2>2, <2>4
<1>4. ASSUME NEW n \in 1..Len(ns2) PROVE NodeIn(ns2[n], Len(ns2))
  <2>1. Len(ns2) \in Nat /\ Len(ns) <= Len(ns2)
    BY <1>1, <1>3
  <2>2. CASE n <= Len(ns)
    BY <2>1, <2>2, <1>1, <1>3, Further
  <2>3. CASE n > Len(ns)
    BY <2>1, <2>3, <1>1, <1>3, FreshIn
  <2> QED
    BY <2>1, <2>2, <2>3, <1>1
<1>5. GraphOK(ns2)
  BY <1>3, <1>4 DEF GraphOK
<1> QED
  BY <1>1, <1>3, <1>5 DEF Continues

LEMMA GrowOne ==
  ASSUME NEW ns, GraphOK(ns), NEW ns2, ns2 = Grow(ns, 1)
  PROVE  /\ Continues(ns2, ns) /\ GraphOK(ns2) /\ Len(ns2) = Len(ns) + 1
         /\ \A n \in 1..Len(ns) : ns2[n] = ns[n]
         /\ ns2[Len(ns) + 1] = FreshNode
<1>1. Len(ns) \in Nat
  BY DEF GraphOK
<1>2. PICK k \in Nat : k = 1
  OBVIOUS
<1>3. ns2 = Grow(ns, k)
  BY <1>2
<1>4. /\ Continues(ns2, ns) /\ GraphOK(ns2) /\ Len(ns2) = Len(ns) + k
      /\ \A n \in 1..Len(ns) : ns2[n] = ns[n]
      /\ \A n \in 1..Len(ns2) : n > Len(ns) => ns2[n] = FreshNode
  BY <1>3, GrowGraph
<1> QED
  BY <1>1, <1>2, <1>4

LEMMA GrowTwo ==
  ASSUME NEW ns, GraphOK(ns), NEW ns2, ns2 = Grow(ns, 2)
  PROVE  /\ Continues(ns2, ns) /\ GraphOK(ns2) /\ Len(ns2) = Len(ns) + 2
         /\ \A n \in 1..Len(ns) : ns2[n] = ns[n]
         /\ ns2[Len(ns) + 1] = FreshNode /\ ns2[Len(ns) + 2] = FreshNode
<1>1. Len(ns) \in Nat
  BY DEF GraphOK
<1>2. PICK k \in Nat : k = 2
  OBVIOUS
<1>3. ns2 = Grow(ns, k)
  BY <1>2
<1>4. /\ Continues(ns2, ns) /\ GraphOK(ns2) /\ Len(ns2) = Len(ns) + k
      /\ \A n \in 1..Len(ns) : ns2[n] = ns[n]
      /\ \A n \in 1..Len(ns2) : n > Len(ns) => ns2[n] = FreshNode
  BY <1>3, GrowGraph
<1> QED
  BY <1>1, <1>2, <1>4

(* One node is written. *)
LEMMA WriteNode ==
  ASSUME NEW ns, GraphOK(ns), NEW i \in 1..Len(ns), NEW nd, NodeIn(nd, Len(ns)),
         NEW ns2, Rewritten(ns2, ns, i, nd)
  PROVE  /\ GraphOK(ns2) /\ Len(ns2) = Len(ns)
         /\ ns2[i] = nd
         /\ \A n \in 1..Len(ns) : n # i => ns2[n] = ns[n]
<1>1. ns \in Seq(Node) /\ Len(ns) \in Nat /\ \A n \in 1..Len(ns) : NodeIn(ns[n], Len(ns))
  BY DEF GraphOK
<1>2. nd \in Node
  BY DEF NodeIn
<1>3. /\ ns2 \in Seq(Node) /\ Len(ns2) = Len(ns)
      /\ \A n \in 1..Len(ns) : ns2[n] = IF n = i THEN nd ELSE ns[n]
  BY <1>1, <1>2, ExceptSeq DEF Rewritten
<1>4. GraphOK(ns2)
  BY <1>1, <1>3 DEF GraphOK
<1> QED
  BY <1>1, <1>3, <1>4

LEMMA PutNode ==
  ASSUME NEW ns, GraphOK(ns), NEW i \in 1..Len(ns), NEW nd, NodeIn(nd, Len(ns)),
         nd.next # NULL \/ ns[i].next = NULL,
         NEW ns2, Rewritten(ns2, ns, i, nd)
  PROVE  /\ Continues(ns2, ns) /\ GraphOK(ns2) /\ Len(ns2) = Len(ns)
         /\ ns2[i] = nd
         /\ \A n \in 1..Len(ns) : n # i => ns2[n] = ns[n]
<1>1. Len(ns) \in Nat
  BY DEF GraphOK
<1>2. /\ GraphOK(ns2) /\ Len(ns2) = Len(ns) /\ ns2[i] = nd
      /\ \A n \in 1..Len(ns) : n # i => ns2[n] = ns[n]
  BY WriteNode
<1> QED
  BY <1>1, <1>2 DEF Continues

(* A node that leads somewhere whatever the code does next. *)
Splits(nd) == nd.type = "BRANCH" /\ nd.next # NULL

(* A BRANCH with an edge to n. *)
Forks(nd, n) == nd.type = "BRANCH" /\ n \in {nd.next, nd.u}

LEMMA BranchIn ==
  ASSUME NEW greedy \in BOOLEAN, NEW k \in Nat, NEW a \in 1..k, NEW b \in 1..k,
         NEW nd, nd = Branch(greedy, a, b)
  PROVE  NodeIn(nd, k) /\ nd.next # NULL /\ Splits(nd) /\ Forks(nd, b)
BY DEF Branch, NodeIn, Node, NodeType, NULL, Splits, Forks

(* The nodes outside W stay what they were. *)
Untouched(ns2, ns, W) == \A n \in 1..Len(ns) : n \notin W => ns2[n] = ns[n]

-----------------------------------------------------------------------------
(* A symbol that is read. *)

Symbol(k) == Peek(k) # "end of text"

LEMMA Below ==
  ASSUME NEW p, NEW L \in Nat, p \in 1..(L + 1), NEW k \in Nat, p + k <= L
  PROVE  p + k \in 1..L /\ p + k + 1 \in 1..(L + 1) /\ p \in Nat
OBVIOUS

LEMMA Ahead ==
  ASSUME Reading, NEW k \in Nat, Symbol(k)
  PROVE  /\ rpos + k \in 1..Len(regexp) /\ rpos + k + 1 \in 1..(Len(regexp) + 1)
         /\ Len(regexp) \in Nat /\ rpos \in Nat
<1>1. Len(regexp) \in Nat /\ rpos \in 1..(Len(regexp) + 1)
  <2>1. regexp \in Seq(STRING)
    BY DEF Reading
  <2>2. Len(regexp) \in Nat
    BY <2>1, LenProperties
  <2> QED
    BY <2>2 DEF Reading
<1>2. PICK L \in Nat : L = Len(regexp)
  BY <1>1
<1>3. rpos + k <= Len(regexp)
  BY DEF Peek, Symbol
<1>4. rpos + k <= L /\ rpos \in 1..(L + 1)
  BY <1>1, <1>2, <1>3
<1>5. rpos + k \in 1..L /\ rpos + k + 1 \in 1..(L + 1) /\ rpos \in Nat
  BY <1>4, Below
<1> QED
  BY <1>2, <1>5

LEMMA NotIdle ==
  ASSUME CompileInv, pc # "idle"
  PROVE  /\ Places /\ Reading /\ Counters /\ GraphOK(nodes)
         /\ Len(nodes) \in Nat /\ nodes \in Seq(Node)
         /\ \A n \in 1..Len(nodes) : NodeIn(nodes[n], Len(nodes))
BY DEF CompileInv, GraphOK

LEMMA ReadOn ==
  ASSUME CompileInv, pc # "idle", pc' # "idle",
         NEW j \in Nat, NEW k \in Nat, k = j + 1, Symbol(j), Advance(k)
  PROVE  Reading' /\ endValue' = endValue
<1>1. Reading /\ regexp' = regexp /\ rpos' = rpos + k /\ endValue' = endValue
  BY DEF CompileInv, Advance
<1>2. regexp \in Seq(STRING) /\ regexp \in Texts
  BY <1>1 DEF Reading
<1>3. rpos + j + 1 \in 1..(Len(regexp) + 1) /\ rpos \in Nat
  BY <1>1, Ahead
<1>4. rpos + k = rpos + j + 1
  <2>1. \A p, a, b \in Nat : b = a + 1 => p + b = p + a + 1
    OBVIOUS
  <2> QED
    BY <1>3, <2>1
<1>5. rpos' \in 1..(Len(regexp') + 1)
  BY <1>1, <1>3, <1>4
<1> QED
  BY <1>1, <1>2, <1>5 DEF Reading

LEMMA ReadOne ==
  ASSUME CompileInv, pc # "idle", pc' # "idle", Symbol(0), Advance(1)
  PROVE  Reading' /\ endValue' = endValue
<1>1. PICK j \in Nat : j = 0
  OBVIOUS
<1>2. Symbol(j)
  BY <1>1
<1>3. 1 = j + 1
  BY <1>1
<1> QED
  BY <1>2, <1>3, ReadOn

(* The quantifiers may be lazy. *)
LEMMA ReadQuantifier ==
  ASSUME CompileInv, pc # "idle", pc' # "idle", Symbol(0),
         Advance(IF Lazy THEN 2 ELSE 1)
  PROVE  Reading' /\ endValue' = endValue
<1>1. CASE Lazy
  <2>1. Symbol(1) /\ Advance(2)
    BY <1>1 DEF Lazy, Symbol
  <2> QED
    BY <2>1, ReadOn
<1>2. CASE ~Lazy
  <2>1. (IF Lazy THEN 2 ELSE 1) = 1
    BY <1>2
  <2>2. Advance(1)
    BY <2>1
  <2> QED
    BY <2>2, ReadOne
<1> QED
  BY <1>1, <1>2

LEMMA PlacesKept ==
  ASSUME Places, GraphOK(nodes), GraphOK(nodes'), Len(nodes) <= Len(nodes'),
         UNCHANGED <<start, groups>>,
         \A i \in 1..Len(groups) : /\ nodes'[groups[i].start].next # NULL
                                   /\ groups[i].start \notin {node', atom_start'},
         node' \in 1..Len(nodes'), atom_start' \in 0..Len(nodes'), or_end' \in 0..Len(nodes')
  PROVE  Places'
<1>1. Len(nodes) \in Nat /\ Len(nodes') \in Nat
  BY DEF GraphOK
<1>2. 1..Len(nodes) \subseteq 1..Len(nodes') /\ 0..Len(nodes) \subseteq 0..Len(nodes')
  BY <1>1
<1>3. groups' \in Seq([start : 1..Len(nodes'), or_end : 0..Len(nodes')])
  <2>1. [start : 1..Len(nodes), or_end : 0..Len(nodes)]
          \subseteq [start : 1..Len(nodes'), or_end : 0..Len(nodes')]
    BY <1>2
  <2>2. groups \in Seq([start : 1..Len(nodes), or_end : 0..Len(nodes)])
    BY DEF Places
  <2> QED
    BY <2>1, <2>2, SeqMonotonic
<1>4. \A i \in 1..Len(groups) : \A j \in 1..(i - 1) : groups[j].start # groups[i].start
  BY DEF Places
<1> QED
  BY <1>3, <1>4 DEF Places

LEMMA GroupsIn ==
  ASSUME Places
  PROVE  /\ Len(groups) \in Nat
         /\ \A i \in 1..Len(groups) :
              /\ groups[i] \in [start : 1..Len(nodes), or_end : 0..Len(nodes)]
              /\ groups[i].start \in 1..Len(nodes) /\ groups[i].or_end \in 0..Len(nodes)
<1>1. groups \in Seq([start : 1..Len(nodes), or_end : 0..Len(nodes)])
  BY DEF Places
<1>2. PICK G : G = [start : 1..Len(nodes), or_end : 0..Len(nodes)]
  OBVIOUS
<1>3. Len(groups) \in Nat /\ \A i \in 1..Len(groups) : groups[i] \in G
  BY <1>1, <1>2, LenProperties, ElementOfSeq
<1> QED
  BY <1>2, <1>3

LEMMA PlacesOn ==
  ASSUME CompileInv, pc # "idle", Continues(nodes', nodes), UNCHANGED <<start, groups>>,
         node' \in 1..Len(nodes'), node' \in {node, atom_start} \/ node' > Len(nodes),
         atom_start' \in {atom_start, node, NULL}, or_end' \in 0..Len(nodes')
  PROVE  Places'
<1>1. /\ Places /\ GraphOK(nodes) /\ GraphOK(nodes') /\ Len(nodes) <= Len(nodes')
      /\ Len(nodes) \in Nat /\ Len(nodes') \in Nat
  BY NotIdle DEF Continues, GraphOK
<1>2. atom_start' \in 0..Len(nodes')
  BY <1>1 DEF Places, NULL
<1>3. ASSUME NEW i \in 1..Len(groups)
      PROVE  /\ nodes'[groups[i].start].next # NULL
             /\ groups[i].start \notin {node', atom_start'}
  <2>1. nodes[groups[i].start].next # NULL /\ groups[i].start \notin {node, atom_start}
    BY <1>1 DEF Places
  <2>2. groups[i].start \in 1..Len(nodes)
    BY <1>1, GroupsIn
  <2> QED
    BY <2>1, <2>2, <1>1 DEF Continues, NULL
<1> QED
  BY <1>1, <1>2, <1>3, PlacesKept

LEMMA Scan ==
  ASSUME CompileInv, pc = "scan", pc' \in {"scan", "done", "error"},
         UNCHANGED <<dfsVars, quant>>, Reading', Counters', GraphOK(nodes'), Places'
  PROVE  CompileInv'
<1>1. QuantOK' /\ StackOK'
  BY DEF CompileInv, QuantOK, StackOK, dfsVars
<1>2. CopiesInv'
  BY DEF CompileInv, CopiesInv, dfsVars
<1> QED
  BY <1>1, <1>2 DEF CompileInv

(* What a symbol leaves alone. *)
LEMMA SameCounters ==
  ASSUME Counters, UNCHANGED <<cap_count, rx_cap_count, ignorecase, endValue>>
  PROVE  Counters'
BY DEF Counters

-----------------------------------------------------------------------------
(* The symbols. *)

LEMMA GraphStar ==
  ASSUME CompileInv, Star
  PROVE  /\ Continues(nodes', nodes) /\ GraphOK(nodes') /\ Len(nodes') = Len(nodes) + 2
         /\ Untouched(nodes', nodes, {node, atom_start})
         /\ Splits(nodes'[node]) /\ Splits(nodes'[atom_start])
         /\ Forks(nodes'[node], Len(nodes) + 2) /\ Forks(nodes'[atom_start], Len(nodes) + 2)
         /\ nodes'[node] = Branch(~Lazy, New(1), New(2))
         /\ nodes'[atom_start] = Branch(~Lazy, New(1), New(2))
         /\ nodes'[Len(nodes) + 1] = nodes[atom_start]
         /\ nodes'[Len(nodes) + 2] = FreshNode /\ node' = Len(nodes) + 2
<1>1. pc = "scan" /\ atom_start # NULL
  BY DEF Star, Scanning
<1>3. Places /\ GraphOK(nodes) /\ Len(nodes) \in Nat
      /\ \A n \in 1..Len(nodes) : NodeIn(nodes[n], Len(nodes))
  BY <1>1, NotIdle
<1>4. atom_start \in 1..Len(nodes) /\ node \in 1..Len(nodes)
  BY <1>1, <1>3 DEF Places, NULL
<1>5. PICK n1 : n1 = Grow(nodes, 2)
  OBVIOUS
<1>6. /\ Continues(n1, nodes) /\ GraphOK(n1) /\ Len(n1) = Len(nodes) + 2
      /\ n1[Len(nodes) + 1] = FreshNode /\ n1[Len(nodes) + 2] = FreshNode
      /\ \A n \in 1..Len(nodes) : n1[n] = nodes[n]
  BY <1>3, <1>5, GrowTwo
<1>7. PICK br : br = Branch(~Lazy, New(1), New(2))
  OBVIOUS
<1>8. NodeIn(br, Len(n1)) /\ br.next # NULL /\ Splits(br) /\ Forks(br, Len(nodes) + 2)
  <2>1. New(1) \in 1..Len(n1) /\ New(2) \in 1..Len(n1) /\ Len(n1) \in Nat
    BY <1>3, <1>6 DEF New
  <2> QED
    BY <2>1, <1>7, BranchIn DEF Lazy, New
<1>9. PICK n2 : Rewritten(n2, n1, New(1), nodes[atom_start])
  BY DEF Rewritten
<1>10. /\ Continues(n2, n1) /\ GraphOK(n2) /\ Len(n2) = Len(n1)
       /\ n2[Len(nodes) + 1] = nodes[atom_start]
       /\ \A n \in 1..Len(n1) : n # Len(nodes) + 1 => n2[n] = n1[n]
  <2>1. /\ NodeIn(nodes[atom_start], Len(n1)) /\ n1[New(1)].next = NULL
        /\ New(1) \in 1..Len(n1) /\ New(1) = Len(nodes) + 1
    BY <1>3, <1>4, <1>6, Further, FreshIn DEF New
  <2> QED
    BY <2>1, <1>6, <1>9, PutNode
<1>11. PICK n3 : Rewritten(n3, n2, atom_start, br)
  BY DEF Rewritten
<1>12. /\ Continues(n3, n2) /\ GraphOK(n3) /\ Len(n3) = Len(n1) /\ n3[atom_start] = br
       /\ \A n \in 1..Len(n1) : n # atom_start => n3[n] = n2[n]
  <2>1. atom_start \in 1..Len(n2) /\ NodeIn(br, Len(n2))
    BY <1>3, <1>4, <1>6, <1>8, <1>10
  <2> QED
    BY <2>1, <1>8, <1>10, <1>11, PutNode
<1>13. PICK n4 : Rewritten(n4, n3, node, br)
  BY DEF Rewritten
<1>14. /\ Continues(n4, n3) /\ GraphOK(n4) /\ Len(n4) = Len(n1) /\ n4[node] = br
       /\ \A n \in 1..Len(n1) : n # node => n4[n] = n3[n]
  <2>1. node \in 1..Len(n3) /\ NodeIn(br, Len(n3))
    BY <1>3, <1>4, <1>6, <1>8, <1>12
  <2> QED
    BY <2>1, <1>8, <1>12, <1>13, PutNode
<1>15. nodes' = n4 /\ node' = Len(nodes) + 2
  BY <1>5, <1>7, <1>9, <1>11, <1>13 DEF Star, Rewritten, New
<1>16. Continues(nodes', nodes)
  BY <1>3, <1>6, <1>10, <1>12, <1>14, <1>15, ContinuesOn
<1>17. \A n \in 1..Len(nodes) : n \notin {node, atom_start} => n4[n] = nodes[n]
  BY <1>3, <1>6, <1>10, <1>12, <1>14
<1>18. n4[node] = br /\ n4[atom_start] = br
  BY <1>3, <1>4, <1>6, <1>12, <1>14
<1>19. n4[Len(nodes) + 1] = nodes[atom_start] /\ n4[Len(nodes) + 2] = FreshNode
  BY <1>3, <1>4, <1>6, <1>10, <1>12, <1>14
<1> QED
  BY <1>6, <1>7, <1>8, <1>14, <1>15, <1>16, <1>17, <1>18, <1>19 DEF Untouched

LEMMA StepStar ==
  ASSUME CompileInv, Star
  PROVE  CompileInv'
<1>1. pc = "scan" /\ pc' = "scan" /\ Peek(0) = "*"
      /\ UNCHANGED <<dfsVars, start, atom_start, or_end, groups, cap_count, rx_cap_count,
                     ignorecase, quant>>
      /\ Advance(IF Lazy THEN 2 ELSE 1)
  BY DEF Star, Scanning, Quantified
<1>2. Reading' /\ endValue' = endValue
  BY <1>1, ReadQuantifier DEF Symbol
<1>3. Places /\ Len(nodes) \in Nat /\ Counters
  BY <1>1, NotIdle
<1>4. Continues(nodes', nodes) /\ GraphOK(nodes') /\ Len(nodes') = Len(nodes) + 2
      /\ node' = Len(nodes) + 2
  BY GraphStar
<1>5. node' \in 1..Len(nodes') /\ node' > Len(nodes) /\ or_end' \in 0..Len(nodes')
  BY <1>1, <1>3, <1>4 DEF Places
<1>6. Places'
  BY <1>1, <1>4, <1>5, PlacesOn
<1> QED
  BY <1>1, <1>2, <1>3, <1>4, <1>6, Scan, SameCounters

LEMMA GraphPlus ==
  ASSUME CompileInv, Plus
  PROVE  /\ Continues(nodes', nodes) /\ GraphOK(nodes') /\ Len(nodes') = Len(nodes) + 1
         /\ Untouched(nodes', nodes, {node}) /\ Splits(nodes'[node])
         /\ Forks(nodes'[node], Len(nodes) + 1)
         /\ nodes'[node] = Branch(~Lazy, atom_start, New(1))
         /\ nodes'[Len(nodes) + 1] = FreshNode /\ node' = Len(nodes) + 1
<1>1. pc = "scan" /\ atom_start # NULL
  BY DEF Plus, Scanning
<1>3. Places /\ GraphOK(nodes) /\ Len(nodes) \in Nat
  BY <1>1, NotIdle
<1>4. atom_start \in 1..Len(nodes) /\ node \in 1..Len(nodes)
  BY <1>1, <1>3 DEF Places, NULL
<1>5. PICK n1 : n1 = Grow(nodes, 1)
  OBVIOUS
<1>6. /\ Continues(n1, nodes) /\ GraphOK(n1) /\ Len(n1) = Len(nodes) + 1
      /\ n1[Len(nodes) + 1] = FreshNode
      /\ \A n \in 1..Len(nodes) : n1[n] = nodes[n]
  BY <1>3, <1>5, GrowOne
<1>7. PICK br : br = Branch(~Lazy, atom_start, New(1))
  OBVIOUS
<1>8. NodeIn(br, Len(n1)) /\ br.next # NULL /\ Splits(br) /\ Forks(br, Len(nodes) + 1)
  <2>1. atom_start \in 1..Len(n1) /\ New(1) \in 1..Len(n1) /\ Len(n1) \in Nat
    BY <1>3, <1>4, <1>6 DEF New
  <2> QED
    BY <2>1, <1>7, BranchIn DEF Lazy, New
<1>9. PICK n2 : Rewritten(n2, n1, node, br)
  BY DEF Rewritten
<1>10. /\ Continues(n2, n1) /\ GraphOK(n2) /\ Len(n2) = Len(n1) /\ n2[node] = br
       /\ \A n \in 1..Len(n1) : n # node => n2[n] = n1[n]
  <2>1. node \in 1..Len(n1)
    BY <1>3, <1>4, <1>6
  <2> QED
    BY <2>1, <1>6, <1>8, <1>9, PutNode
<1>11. nodes' = n2 /\ node' = Len(nodes) + 1
  BY <1>5, <1>7, <1>9 DEF Plus, Rewritten, New
<1>12. Continues(nodes', nodes)
  BY <1>3, <1>6, <1>10, <1>11, ContinuesOn
<1>13. /\ \A n \in 1..Len(nodes) : n # node => n2[n] = nodes[n]
       /\ n2[Len(nodes) + 1] = FreshNode
  BY <1>3, <1>4, <1>6, <1>10
<1> QED
  BY <1>6, <1>7, <1>8, <1>10, <1>11, <1>12, <1>13 DEF Untouched

LEMMA StepPlus ==
  ASSUME CompileInv, Plus
  PROVE  CompileInv'
<1>1. pc = "scan" /\ pc' = "scan" /\ Peek(0) = "+"
      /\ UNCHANGED <<dfsVars, start, atom_start, or_end, groups, cap_count, rx_cap_count,
                     ignorecase, quant>>
      /\ Advance(IF Lazy THEN 2 ELSE 1)
  BY DEF Plus, Scanning, Quantified
<1>2. Reading' /\ endValue' = endValue
  BY <1>1, ReadQuantifier DEF Symbol
<1>3. Places /\ Len(nodes) \in Nat /\ Counters
  BY <1>1, NotIdle
<1>4. Continues(nodes', nodes) /\ GraphOK(nodes') /\ Len(nodes') = Len(nodes) + 1
      /\ node' = Len(nodes) + 1
  BY GraphPlus
<1>5. node' \in 1..Len(nodes') /\ node' > Len(nodes) /\ or_end' \in 0..Len(nodes')
  BY <1>1, <1>3, <1>4 DEF Places
<1>6. Places'
  BY <1>1, <1>4, <1>5, PlacesOn
<1> QED
  BY <1>1, <1>2, <1>3, <1>4, <1>6, Scan, SameCounters

LEMMA GraphOptional ==
  ASSUME CompileInv, Optional
  PROVE  /\ Continues(nodes', nodes) /\ GraphOK(nodes') /\ Len(nodes') = Len(nodes) + 1
         /\ Untouched(nodes', nodes, {atom_start}) /\ Splits(nodes'[atom_start])
         /\ Forks(nodes'[atom_start], node)
         /\ nodes'[atom_start] = Branch(~Lazy, New(1), node)
         /\ nodes'[Len(nodes) + 1] = nodes[atom_start] /\ node' = node
<1>1. pc = "scan" /\ atom_start # NULL
  BY DEF Optional, Scanning
<1>3. Places /\ GraphOK(nodes) /\ Len(nodes) \in Nat
      /\ \A n \in 1..Len(nodes) : NodeIn(nodes[n], Len(nodes))
  BY <1>1, NotIdle
<1>4. atom_start \in 1..Len(nodes) /\ node \in 1..Len(nodes)
  BY <1>1, <1>3 DEF Places, NULL
<1>5. PICK n1 : n1 = Grow(nodes, 1)
  OBVIOUS
<1>6. /\ Continues(n1, nodes) /\ GraphOK(n1) /\ Len(n1) = Len(nodes) + 1
      /\ n1[Len(nodes) + 1] = FreshNode
      /\ \A n \in 1..Len(nodes) : n1[n] = nodes[n]
  BY <1>3, <1>5, GrowOne
<1>7. PICK br : br = Branch(~Lazy, New(1), node)
  OBVIOUS
<1>8. NodeIn(br, Len(n1)) /\ br.next # NULL /\ Splits(br) /\ Forks(br, node)
  <2>1. node \in 1..Len(n1) /\ New(1) \in 1..Len(n1) /\ Len(n1) \in Nat
    BY <1>3, <1>4, <1>6 DEF New
  <2> QED
    BY <2>1, <1>7, BranchIn DEF Lazy
<1>9. PICK n2 : Rewritten(n2, n1, New(1), nodes[atom_start])
  BY DEF Rewritten
<1>10. /\ Continues(n2, n1) /\ GraphOK(n2) /\ Len(n2) = Len(n1)
       /\ n2[Len(nodes) + 1] = nodes[atom_start]
       /\ \A n \in 1..Len(n1) : n # Len(nodes) + 1 => n2[n] = n1[n]
  <2>1. /\ NodeIn(nodes[atom_start], Len(n1)) /\ n1[New(1)].next = NULL
        /\ New(1) \in 1..Len(n1) /\ New(1) = Len(nodes) + 1
    BY <1>3, <1>4, <1>6, Further, FreshIn DEF New
  <2> QED
    BY <2>1, <1>6, <1>9, PutNode
<1>11. PICK n3 : Rewritten(n3, n2, atom_start, br)
  BY DEF Rewritten
<1>12. /\ Continues(n3, n2) /\ GraphOK(n3) /\ Len(n3) = Len(n1) /\ n3[atom_start] = br
       /\ \A n \in 1..Len(n1) : n # atom_start => n3[n] = n2[n]
  <2>1. atom_start \in 1..Len(n2) /\ NodeIn(br, Len(n2))
    BY <1>3, <1>4, <1>6, <1>8, <1>10
  <2> QED
    BY <2>1, <1>8, <1>10, <1>11, PutNode
<1>13. nodes' = n3 /\ node' = node
  BY <1>5, <1>7, <1>9, <1>11 DEF Optional, Rewritten
<1>14. Continues(nodes', nodes)
  BY <1>3, <1>6, <1>10, <1>12, <1>13, ContinuesOn
<1>15. /\ \A n \in 1..Len(nodes) : n # atom_start => n3[n] = nodes[n]
       /\ n3[Len(nodes) + 1] = nodes[atom_start]
  BY <1>3, <1>4, <1>6, <1>10, <1>12
<1> QED
  BY <1>6, <1>7, <1>8, <1>12, <1>13, <1>14, <1>15 DEF Untouched

LEMMA StepOptional ==
  ASSUME CompileInv, Optional
  PROVE  CompileInv'
<1>1. pc = "scan" /\ pc' = "scan" /\ Peek(0) = "?"
      /\ UNCHANGED <<dfsVars, start, atom_start, or_end, groups, cap_count, rx_cap_count,
                     ignorecase, quant>>
      /\ Advance(IF Lazy THEN 2 ELSE 1)
  BY DEF Optional, Scanning, Quantified
<1>2. Reading' /\ endValue' = endValue
  BY <1>1, ReadQuantifier DEF Symbol
<1>3. Places /\ Len(nodes) \in Nat /\ Counters
  BY <1>1, NotIdle
<1>4. Continues(nodes', nodes) /\ GraphOK(nodes') /\ Len(nodes') = Len(nodes) + 1 /\ node' = node
  BY GraphOptional
<1>5. node' \in 1..Len(nodes') /\ or_end' \in 0..Len(nodes')
  BY <1>1, <1>3, <1>4 DEF Places
<1>6. Places'
  BY <1>1, <1>4, <1>5, PlacesOn
<1> QED
  BY <1>1, <1>2, <1>3, <1>4, <1>6, Scan, SameCounters

(* The alternatives meet. *)
LEMMA JoinGraph ==
  ASSUME Places, Len(nodes) \in Nat, NEW ns, GraphOK(ns), Len(nodes) <= Len(ns),
         NEW ns2, ns2 = Joined(ns)
  PROVE  /\ Continues(ns2, ns) /\ GraphOK(ns2) /\ Len(ns2) = Len(ns)
         /\ JoinedEnd \in 1..Len(nodes) /\ Untouched(ns2, ns, {node})
         /\ or_end = NULL => ns2 = ns
         /\ or_end # NULL => /\ ns2[node].next = or_end /\ ns2[node].type = ns[node].type
                             /\ ns2[node].u = ns[node].u
<1>1. node \in 1..Len(nodes) /\ or_end \in 0..Len(nodes)
  BY DEF Places
<1>2. Len(ns) \in Nat /\ \A n \in 1..Len(ns) : NodeIn(ns[n], Len(ns))
  BY DEF GraphOK
<1>3. JoinedEnd \in 1..Len(nodes)
  BY <1>1 DEF JoinedEnd, NULL
<1>4. CASE or_end = NULL
  BY <1>3, <1>4, ContinuesSame DEF Joined, Untouched
<1>5. CASE or_end # NULL
  <2>1. node \in 1..Len(ns) /\ or_end \in 0..Len(ns)
    BY <1>1, <1>2
  <2>2. NodeIn(ns[node], Len(ns))
    BY <1>2, <2>1
  <2>3. PICK nd : nd = [ns[node] EXCEPT !.next = or_end]
    OBVIOUS
  <2>4. /\ nd.next = or_end /\ NodeIn(nd, Len(ns))
        /\ nd.type = ns[node].type /\ nd.u = ns[node].u
    BY <2>1, <2>2, <2>3 DEF NodeIn, Node
  <2>5. Rewritten(ns2, ns, node, nd)
    BY <1>5, <2>3 DEF Joined, Rewritten
  <2> QED
    BY <1>3, <1>5, <2>1, <2>4, <2>5, PutNode DEF Untouched
<1> QED
  BY <1>4, <1>5

LEMMA OrStartIn ==
  ASSUME Places, GraphOK(nodes)
  PROVE  OrStart \in 1..Len(nodes)
<1>1. Len(nodes) \in Nat /\ \A n \in 1..Len(nodes) : NodeIn(nodes[n], Len(nodes))
  BY DEF GraphOK
<1>2. Len(groups) \in Nat /\ \A i \in 1..Len(groups) : groups[i].start \in 1..Len(nodes)
  BY GroupsIn
<1>3. CASE groups = <<>>
  BY <1>1, <1>3 DEF OrStart, Places
<1>4. CASE groups # <<>>
  <2>1. Len(groups) \in 1..Len(groups)
    <3>1. groups \in Seq([start : 1..Len(nodes), or_end : 0..Len(nodes)])
      BY DEF Places
    <3>2. Len(groups) # 0
      BY <3>1, <1>4, EmptySeq
    <3> QED
      BY <3>2, <1>2
  <2>2. PICK k \in 1..Len(groups) : k = Len(groups)
    BY <2>1
  <2>3. PICK s \in 1..Len(nodes) : s = groups[k].start
    BY <1>2, <2>2
  <2>4. nodes[s].next # NULL
    BY <2>2, <2>3 DEF Places
  <2>5. nodes[s].next \in 0..Len(nodes)
    BY <1>1, <2>3 DEF NodeIn
  <2>6. OrStart = nodes[s].next
    BY <1>4, <2>2, <2>3 DEF OrStart, Innermost
  <2> QED
    BY <1>1, <2>4, <2>5, <2>6 DEF NULL
<1> QED
  BY <1>3, <1>4

LEMMA GraphAlternative ==
  ASSUME CompileInv, Alternative
  PROVE  /\ Continues(nodes', nodes) /\ GraphOK(nodes') /\ Len(nodes') = Len(nodes) + 2
         /\ OrStart \in 1..Len(nodes) /\ Untouched(nodes', nodes, {node, OrStart})
         /\ Splits(nodes'[OrStart]) /\ Forks(nodes'[OrStart], Len(nodes) + 2)
         /\ nodes'[Len(nodes) + 1] = nodes[OrStart]
         /\ nodes'[Len(nodes) + 2] = FreshNode /\ node' = Len(nodes) + 2
         /\ or_end' = JoinedEnd /\ JoinedEnd \in 1..Len(nodes)
         /\ or_end # NULL => nodes'[node].next = or_end
         /\ or_end = NULL => Untouched(nodes', nodes, {OrStart})
         /\ node # OrStart => nodes'[OrStart] = Branch(TRUE, New(1), New(2))
         /\ node # OrStart => nodes'[node].type = nodes[node].type /\ nodes'[node].u = nodes[node].u
<1>1. pc = "scan"
  BY DEF Alternative, Scanning
<1>3. Places /\ GraphOK(nodes) /\ Len(nodes) \in Nat /\ node \in 1..Len(nodes)
      /\ \A n \in 1..Len(nodes) : NodeIn(nodes[n], Len(nodes))
  BY <1>1, NotIdle DEF Places
<1>4. PICK s \in 1..Len(nodes) : s = OrStart
  BY <1>3, OrStartIn
<1>5. PICK n1 : n1 = Grow(nodes, 2)
  OBVIOUS
<1>6. /\ Continues(n1, nodes) /\ GraphOK(n1) /\ Len(n1) = Len(nodes) + 2
      /\ n1[Len(nodes) + 1] = FreshNode /\ n1[Len(nodes) + 2] = FreshNode
      /\ \A n \in 1..Len(nodes) : n1[n] = nodes[n]
  BY <1>3, <1>5, GrowTwo
<1>7. PICK br : br = Branch(TRUE, New(1), New(2))
  OBVIOUS
<1>8. NodeIn(br, Len(n1)) /\ br.next # NULL /\ Splits(br) /\ br.u = Len(nodes) + 2 /\ Forks(br, Len(nodes) + 2)
  <2>1. New(1) \in 1..Len(n1) /\ New(2) \in 1..Len(n1) /\ Len(n1) \in Nat
    BY <1>3, <1>6 DEF New
  <2> QED
    BY <2>1, <1>7, BranchIn DEF New, Branch
<1>9. PICK n2 : Rewritten(n2, n1, New(1), nodes[s])
  BY DEF Rewritten
<1>10. /\ Continues(n2, n1) /\ GraphOK(n2) /\ Len(n2) = Len(n1)
       /\ n2[Len(nodes) + 1] = nodes[s]
       /\ \A n \in 1..Len(n1) : n # Len(nodes) + 1 => n2[n] = n1[n]
  <2>1. /\ NodeIn(nodes[s], Len(n1)) /\ n1[New(1)].next = NULL
        /\ New(1) \in 1..Len(n1) /\ New(1) = Len(nodes) + 1
    BY <1>3, <1>6, Further, FreshIn DEF New
  <2> QED
    BY <2>1, <1>6, <1>9, PutNode
<1>11. PICK n3 : Rewritten(n3, n2, s, br)
  BY DEF Rewritten
<1>12. /\ Continues(n3, n2) /\ GraphOK(n3) /\ Len(n3) = Len(n1) /\ n3[s] = br
       /\ \A n \in 1..Len(n1) : n # s => n3[n] = n2[n]
  <2>1. s \in 1..Len(n2) /\ NodeIn(br, Len(n2))
    BY <1>3, <1>6, <1>8, <1>10
  <2> QED
    BY <2>1, <1>8, <1>10, <1>11, PutNode
<1>13. nodes' = Joined(n3) /\ or_end' = JoinedEnd /\ node' = Len(nodes) + 2
  BY <1>4, <1>5, <1>7, <1>9, <1>11 DEF Alternative, Rewritten, New
<1>14. /\ Continues(nodes', n3) /\ GraphOK(nodes') /\ Len(nodes') = Len(n3)
       /\ JoinedEnd \in 1..Len(nodes) /\ Untouched(nodes', n3, {node})
       /\ or_end = NULL => nodes' = n3
       /\ or_end # NULL => /\ nodes'[node].next = or_end /\ nodes'[node].type = n3[node].type
                           /\ nodes'[node].u = n3[node].u
  <2>1. Len(nodes) <= Len(n3)
    BY <1>3, <1>6, <1>12
  <2> QED
    BY <2>1, <1>3, <1>12, <1>13, JoinGraph
<1>15. Continues(nodes', nodes)
  BY <1>3, <1>6, <1>10, <1>12, <1>14, ContinuesOn
<1>16. /\ \A n \in 1..Len(nodes) : n # s => n3[n] = nodes[n]
       /\ n3[Len(nodes) + 1] = nodes[s] /\ n3[Len(nodes) + 2] = FreshNode
       /\ Len(n3) = Len(nodes) + 2
  BY <1>3, <1>6, <1>10, <1>12
<1>17. /\ \A n \in 1..Len(nodes) : n # node => nodes'[n] = n3[n]
       /\ nodes'[Len(nodes) + 1] = nodes[s] /\ nodes'[Len(nodes) + 2] = FreshNode
  BY <1>3, <1>14, <1>16 DEF Untouched
<1>18. Untouched(nodes', nodes, {node, s})
  BY <1>16, <1>17 DEF Untouched
<1>19. Splits(nodes'[s]) /\ Forks(nodes'[s], Len(nodes) + 2)
  <2>1. CASE s # node
    BY <2>1, <1>8, <1>12, <1>17
  <2>2. CASE s = node /\ or_end = NULL
    BY <2>2, <1>8, <1>12, <1>14
  <2>3. CASE s = node /\ or_end # NULL
    BY <2>3, <1>8, <1>12, <1>14 DEF Splits, Forks
  <2> QED
    BY <2>1, <2>2, <2>3
<1>20. node # s => nodes'[node].type = nodes[node].type /\ nodes'[node].u = nodes[node].u
  BY <1>3, <1>14, <1>16
<1>21. or_end = NULL => Untouched(nodes', nodes, {s})
  BY <1>3, <1>14, <1>16 DEF Untouched
<1>22. node # s => nodes'[s] = Branch(TRUE, New(1), New(2))
  BY <1>7, <1>12, <1>17
<1> QED
  BY <1>21, <1>22, <1>4, <1>13, <1>14, <1>15, <1>16, <1>17, <1>18, <1>19, <1>20

LEMMA StepAlternative ==
  ASSUME CompileInv, Alternative
  PROVE  CompileInv'
<1>1. pc = "scan" /\ pc' = "scan" /\ Peek(0) = "|"
      /\ UNCHANGED <<dfsVars, start, atom_start, groups, cap_count, rx_cap_count,
                     ignorecase, quant>>
      /\ Advance(1)
  BY DEF Alternative, Scanning
<1>2. Reading' /\ endValue' = endValue
  BY <1>1, ReadOne DEF Symbol
<1>3. Places /\ Len(nodes) \in Nat /\ Counters
  BY <1>1, NotIdle
<1>4. Continues(nodes', nodes) /\ GraphOK(nodes') /\ Len(nodes') = Len(nodes) + 2
      /\ node' = Len(nodes) + 2 /\ or_end' = JoinedEnd /\ JoinedEnd \in 1..Len(nodes)
  BY GraphAlternative
<1>5. node' \in 1..Len(nodes') /\ node' > Len(nodes) /\ or_end' \in 0..Len(nodes')
  BY <1>3, <1>4
<1>6. Places'
  BY <1>1, <1>4, <1>5, PlacesOn
<1> QED
  BY <1>1, <1>2, <1>3, <1>4, <1>6, Scan, SameCounters

LEMMA GraphOpenGroup ==
  ASSUME CompileInv, OpenGroup
  PROVE  /\ Continues(nodes', nodes) /\ GraphOK(nodes') /\ Len(nodes') = Len(nodes) + 1
         /\ Untouched(nodes', nodes, {node})
         /\ nodes'[node].next = Len(nodes) + 1
         /\ \/ nodes'[node].type = "GROUP_START"
            \/ nodes'[node].type = "CAPTURE_START" /\ cap_count' = cap_count + 1
               /\ nodes'[node].u = cap_count'
         /\ nodes'[Len(nodes) + 1] = FreshNode /\ node' = Len(nodes) + 1
<1> DEFINE plain == Peek(1) = "?" /\ Peek(2) = ":"
<1>1. /\ pc = "scan" /\ node' = Len(nodes) + 1
      /\ cap_count' = IF plain THEN cap_count ELSE cap_count + 1
  BY DEF OpenGroup, Scanning, New
<1>3. Places /\ GraphOK(nodes) /\ Len(nodes) \in Nat /\ Counters
      /\ \A n \in 1..Len(nodes) : NodeIn(nodes[n], Len(nodes))
  BY <1>1, NotIdle
<1>4. node \in 1..Len(nodes)
  BY <1>3 DEF Places
<1>5. cap_count' \in Nat
  <2>1. cap_count \in Nat
    BY <1>3 DEF Counters
  <2> QED
    BY <1>1, <2>1
<1>6. PICK n1 : n1 = Grow(nodes, 1)
  OBVIOUS
<1>7. /\ Continues(n1, nodes) /\ GraphOK(n1) /\ Len(n1) = Len(nodes) + 1
      /\ \A n \in 1..Len(nodes) : n1[n] = nodes[n]
      /\ n1[Len(nodes) + 1] = FreshNode
  BY <1>3, <1>4, <1>6, GrowOne
<1>8. PICK nd : nd = IF plain THEN [n1[node] EXCEPT !.type = "GROUP_START", !.next = New(1)]
                     ELSE [type |-> "CAPTURE_START", next |-> New(1), u |-> cap_count']
  OBVIOUS
<1>9. /\ NodeIn(nd, Len(n1)) /\ nd.next # NULL /\ nd.next = Len(nodes) + 1
      /\ \/ nd.type = "GROUP_START"
         \/ nd.type = "CAPTURE_START" /\ cap_count' = cap_count + 1 /\ nd.u = cap_count'
  <2>1. New(1) \in 1..Len(n1) /\ Len(n1) \in Nat /\ NodeIn(n1[node], Len(n1))
        /\ New(1) = Len(nodes) + 1
    BY <1>3, <1>4, <1>7, Further DEF New
  <2>2. CASE plain
    <3>1. PICK m \in Node : m = n1[node]
      BY <2>1 DEF NodeIn
    <3>2. nd = [m EXCEPT !.type = "GROUP_START", !.next = New(1)]
      BY <1>8, <2>2, <3>1
    <3>3. nd.type = "GROUP_START" /\ nd.next = New(1)
          /\ nd \in [type : {"GROUP_START"}, next : Nat, u : Int]
      <4>1. m.u \in Int /\ m \in [type : NodeType, next : Nat, u : Int]
        BY <3>1 DEF Node
      <4>2. New(1) \in Nat
        BY <2>1
      <4>3. PICK x \in Nat : x = New(1)
        BY <4>2
      <4>4. nd = [m EXCEPT !.type = "GROUP_START", !.next = x]
        BY <3>2, <4>3
      <4> HIDE DEF plain
      <4>5. nd = [type |-> "GROUP_START", next |-> x, u |-> m.u]
        BY <4>1, <4>4
      <4> QED
        BY <4>1, <4>3, <4>5
    <3> QED
      BY <3>3, <2>1 DEF NodeIn, Node, NodeType, NULL
  <2>3. CASE ~plain
    <3>1. nd = [type |-> "CAPTURE_START", next |-> New(1), u |-> cap_count']
      BY <1>8, <2>3
    <3> QED
      BY <3>1, <2>1, <2>3, <1>1, <1>5 DEF NodeIn, Node, NodeType, NULL
  <2> QED
    BY <2>2, <2>3
<1>10. PICK n2 : Rewritten(n2, n1, node, nd)
  BY DEF Rewritten
<1>11. Continues(n2, n1) /\ GraphOK(n2) /\ Len(n2) = Len(n1) /\ n2[node] = nd
       /\ \A n \in 1..Len(n1) : n # node => n2[n] = n1[n]
  <2>1. node \in 1..Len(n1)
    BY <1>3, <1>4, <1>7
  <2> QED
    BY <2>1, <1>7, <1>9, <1>10, PutNode
<1>12. nodes' = n2
  <2>1. nodes' = [n1 EXCEPT ![node] = nd]
    <3>1. CASE plain
      BY <3>1, <1>6, <1>8 DEF OpenGroup
    <3>2. CASE ~plain
      BY <3>2, <1>6, <1>8 DEF OpenGroup
    <3> QED
      BY <3>1, <3>2
  <2> QED
    BY <2>1, <1>10 DEF Rewritten
<1>13. Continues(nodes', nodes)
  BY <1>3, <1>7, <1>11, <1>12, ContinuesOn
<1>14. /\ \A n \in 1..Len(nodes) : n # node => n2[n] = nodes[n]
       /\ n2[Len(nodes) + 1] = FreshNode
  BY <1>3, <1>4, <1>7, <1>11
<1> HIDE DEF plain
<1> QED
  BY <1>1, <1>7, <1>9, <1>11, <1>12, <1>13, <1>14 DEF Untouched

LEMMA StepOpenGroup ==
  ASSUME CompileInv, OpenGroup
  PROVE  CompileInv'
<1> DEFINE plain == Peek(1) = "?" /\ Peek(2) = ":"
<1>1. /\ pc = "scan" /\ pc' = "scan" /\ Peek(0) = "(" /\ Advance(IF plain THEN 3 ELSE 1)
      /\ cap_count' = IF plain THEN cap_count ELSE cap_count + 1
      /\ groups' = Append(groups, [start |-> node, or_end |-> or_end])
      /\ or_end' = NULL /\ atom_start' = NULL /\ node' = New(1)
      /\ UNCHANGED <<dfsVars, start, rx_cap_count, ignorecase, quant>>
  BY DEF OpenGroup, Scanning
<1>2. Reading' /\ endValue' = endValue
  <2>1. CASE plain
    <3>1. Symbol(2) /\ Advance(3)
      BY <1>1, <2>1 DEF Symbol
    <3> QED
      BY <1>1, <3>1, ReadOn
  <2>2. CASE ~plain
    <3>1. Symbol(0) /\ Advance(1)
      BY <1>1, <2>2 DEF Symbol
    <3> QED
      BY <1>1, <3>1, ReadOne
  <2> QED
    BY <2>1, <2>2
<1>3. Places /\ GraphOK(nodes) /\ Len(nodes) \in Nat /\ Counters
  BY <1>1, NotIdle
<1>4. node \in 1..Len(nodes) /\ or_end \in 0..Len(nodes)
  BY <1>3 DEF Places
<1>5. Counters' /\ cap_count' \in Nat
  <2>1. cap_count \in Nat
    BY <1>3 DEF Counters
  <2>2. cap_count' \in Nat
    BY <1>1, <2>1
  <2> QED
    BY <1>1, <1>2, <1>3, <2>2 DEF Counters
<1>6. Continues(nodes', nodes) /\ GraphOK(nodes') /\ Len(nodes') = Len(nodes) + 1
      /\ nodes'[node].next # NULL
  BY <1>3, GraphOpenGroup DEF NULL
<1>14. node' \in 1..Len(nodes') /\ node' > Len(nodes) /\ Len(nodes') \in Nat
       /\ Len(nodes) <= Len(nodes')
  BY <1>1, <1>3, <1>6 DEF New
<1>15. Places'
  <2> HIDE DEF plain
  <2>1. PICK e : e = [start |-> node, or_end |-> or_end]
    OBVIOUS
  <2>2. PICK G : G = [start : 1..Len(nodes'), or_end : 0..Len(nodes')]
    OBVIOUS
  <2>3. groups \in Seq(G) /\ e \in G /\ e.start = node
    <3>1. [start : 1..Len(nodes), or_end : 0..Len(nodes)] \subseteq G
      BY <1>3, <1>14, <2>2
    <3>2. groups \in Seq([start : 1..Len(nodes), or_end : 0..Len(nodes)])
      BY <1>3 DEF Places
    <3>3. groups \in Seq(G)
      BY <3>1, <3>2, SeqMonotonic
    <3>4. node \in 1..Len(nodes') /\ or_end \in 0..Len(nodes')
      BY <1>3, <1>4, <1>14
    <3>5. e \in G
      BY <3>4, <2>1, <2>2
    <3> QED
      BY <3>3, <3>5, <2>1
  <2>4. /\ groups' \in Seq(G) /\ Len(groups') = Len(groups) + 1
        /\ \A i \in 1..Len(groups) : groups'[i] = groups[i]
        /\ groups'[Len(groups) + 1] = e
        /\ Len(groups) \in Nat
    BY <1>1, <2>1, <2>3, AppendProperties, LenProperties
  <2>5. ASSUME NEW i \in 1..Len(groups')
        PROVE  /\ nodes'[groups'[i].start].next # NULL
               /\ groups'[i].start \notin {node', atom_start'}
               /\ \A j \in 1..(i - 1) : groups'[j].start # groups'[i].start
    <3>1. \A k \in 1..Len(groups) :
            /\ groups[k].start \in 1..Len(nodes) /\ groups[k].start # node
            /\ nodes[groups[k].start].next # NULL
            /\ \A j \in 1..(k - 1) : groups[j].start # groups[k].start
      BY <1>3, GroupsIn DEF Places
    <3>2. CASE i <= Len(groups)
      <4>1. i \in 1..Len(groups) /\ groups'[i] = groups[i]
            /\ \A j \in 1..(i - 1) : groups'[j] = groups[j]
        BY <3>2, <2>4
      <4>2. PICK s \in 1..Len(nodes) : s = groups[i].start
        BY <4>1, <3>1
      <4>3. nodes'[s].next # NULL
        BY <4>1, <4>2, <3>1, <1>6 DEF Continues
      <4>4. s \notin {node', atom_start'}
        BY <1>1, <1>3, <1>14 DEF NULL
      <4> QED
        BY <4>1, <4>2, <4>3, <4>4, <3>1
    <3>3. CASE i > Len(groups)
      <4>1. i = Len(groups) + 1 /\ groups'[i].start = node
        BY <3>3, <2>3, <2>4
      <4>2. nodes'[node].next # NULL
        BY <1>6
      <4>3. node \notin {node', atom_start'}
        BY <1>1, <1>3, <1>4, <1>14 DEF NULL
      <4>4. \A j \in 1..(i - 1) : groups'[j].start # node
        BY <4>1, <3>1, <2>4
      <4> QED
        BY <4>1, <4>2, <4>3, <4>4
    <3> QED
      BY <3>2, <3>3, <2>4
  <2>6. start' = 1 /\ atom_start' \in 0..Len(nodes') /\ or_end' \in 0..Len(nodes')
    BY <1>1, <1>3, <1>14 DEF Places, NULL
  <2> QED
    BY <1>14, <2>2, <2>4, <2>5, <2>6 DEF Places
<1> QED
  BY <1>1, <1>2, <1>5, <1>6, <1>15, Scan

LEMMA GraphCloseGroup ==
  ASSUME CompileInv, CloseGroup
  PROVE  /\ Continues(nodes', nodes) /\ GraphOK(nodes') /\ Len(nodes') = Len(nodes) + 1
         /\ Untouched(nodes', nodes, {node, or_end})
         /\ JoinedEnd \in {node, or_end} /\ nodes'[JoinedEnd].next = Len(nodes) + 1
         /\ \/ nodes'[JoinedEnd].type = "GROUP_END"
            \/ /\ nodes'[JoinedEnd].type = "CAPTURE_END"
               /\ nodes[Innermost.start].type = "CAPTURE_START"
               /\ nodes'[JoinedEnd].u = nodes[Innermost.start].u
         /\ node # JoinedEnd => /\ nodes'[node].next = or_end /\ or_end # NULL
                                /\ nodes'[node].type = nodes[node].type
                                /\ nodes'[node].u = nodes[node].u
         /\ nodes'[Len(nodes) + 1] = FreshNode /\ node' = Len(nodes) + 1
<1>1. pc = "scan" /\ groups # <<>> /\ node' = Len(nodes) + 1
  BY DEF CloseGroup, Scanning, New
<1>3. Places /\ GraphOK(nodes) /\ Len(nodes) \in Nat /\ node \in 1..Len(nodes)
      /\ \A n \in 1..Len(nodes) : NodeIn(nodes[n], Len(nodes))
  BY <1>1, NotIdle DEF Places
<1>4. PICK k \in 1..Len(groups) : k = Len(groups)
  <2>1. Len(groups) \in Nat
    BY <1>3, GroupsIn
  <2>2. groups \in Seq([start : 1..Len(nodes), or_end : 0..Len(nodes)])
    BY <1>3 DEF Places
  <2>3. Len(groups) # 0
    BY <2>2, <1>1, EmptySeq
  <2> QED
    BY <2>1, <2>3
<1>5. PICK s \in 1..Len(nodes), o \in 0..Len(nodes) : s = groups[k].start /\ o = groups[k].or_end
  BY <1>3, GroupsIn
<1>6. Innermost.start = s /\ Innermost.or_end = o
  BY <1>4, <1>5 DEF Innermost
<1>7. PICK n1 : n1 = Grow(nodes, 1)
  OBVIOUS
<1>8. /\ Continues(n1, nodes) /\ GraphOK(n1) /\ Len(n1) = Len(nodes) + 1
      /\ \A n \in 1..Len(nodes) : n1[n] = nodes[n]
      /\ n1[Len(nodes) + 1] = FreshNode
  BY <1>3, <1>7, GrowOne
<1>9. PICK n2 : n2 = Joined(n1)
  OBVIOUS
<1>10. /\ Continues(n2, n1) /\ GraphOK(n2) /\ Len(n2) = Len(n1) /\ JoinedEnd \in 1..Len(nodes)
       /\ Untouched(n2, n1, {node})
       /\ or_end = NULL => n2 = n1
       /\ or_end # NULL => /\ n2[node].next = or_end /\ n2[node].type = n1[node].type
                           /\ n2[node].u = n1[node].u
  <2>1. Len(nodes) <= Len(n1)
    BY <1>3, <1>8
  <2> QED
    BY <2>1, <1>3, <1>8, <1>9, JoinGraph
<1>11. PICK nd : nd = [type |-> IF nodes[Innermost.start].type = "CAPTURE_START"
                               THEN "CAPTURE_END" ELSE "GROUP_END",
                       next |-> New(1), u |-> nodes[Innermost.start].u]
  OBVIOUS
<1>12. /\ NodeIn(nd, Len(n2)) /\ nd.next # NULL /\ nd.next = Len(nodes) + 1
       /\ \/ nd.type = "GROUP_END"
          \/ nd.type = "CAPTURE_END" /\ nodes[s].type = "CAPTURE_START" /\ nd.u = nodes[s].u
  <2>1. New(1) \in 1..Len(n2) /\ Len(n2) \in Nat /\ New(1) = Len(nodes) + 1
    BY <1>3, <1>8, <1>10 DEF New
  <2>2. nodes[s].u \in Int
    BY <1>3 DEF NodeIn, Node
  <2>3. PICK ty \in {"CAPTURE_END", "GROUP_END"}, v \in Int, x \in 1..Len(n2) :
          /\ ty = "CAPTURE_END" => nodes[s].type = "CAPTURE_START"
          /\ v = nodes[s].u /\ x = Len(nodes) + 1
          /\ nd = [type |-> ty, next |-> x, u |-> v]
    BY <2>1, <2>2, <1>6, <1>11
  <2>4. NodeIn(nd, Len(n2)) /\ nd.next # NULL
    BY <2>1, <2>3 DEF NodeIn, Node, NodeType, NULL
  <2>5. nd.next = x /\ nd.type = ty /\ nd.u = v
    BY <2>3
  <2> QED
    BY <2>3, <2>4, <2>5
<1>13. PICK n3 : Rewritten(n3, n2, JoinedEnd, nd)
  BY DEF Rewritten
<1>14. /\ Continues(n3, n2) /\ GraphOK(n3) /\ Len(n3) = Len(n1) /\ n3[JoinedEnd] = nd
       /\ \A n \in 1..Len(n1) : n # JoinedEnd => n3[n] = n2[n]
  <2>1. JoinedEnd \in 1..Len(n2)
    BY <1>3, <1>8, <1>10
  <2> QED
    BY <2>1, <1>10, <1>12, <1>13, PutNode
<1>15. nodes' = n3
  BY <1>7, <1>9, <1>11, <1>13 DEF CloseGroup, Rewritten
<1>16. Continues(nodes', nodes)
  BY <1>3, <1>8, <1>10, <1>14, <1>15, ContinuesOn
<1>17. JoinedEnd \in {node, or_end} /\ (node # JoinedEnd => JoinedEnd = or_end /\ or_end # NULL)
  BY DEF JoinedEnd
<1>18. /\ \A n \in 1..Len(nodes) : n \notin {node, or_end} => n3[n] = nodes[n]
       /\ n3[Len(nodes) + 1] = FreshNode
  BY <1>3, <1>8, <1>10, <1>14, <1>17 DEF Untouched
<1>19. node # JoinedEnd => /\ n3[node].next = or_end
                           /\ n3[node].type = nodes[node].type /\ n3[node].u = nodes[node].u
  BY <1>3, <1>8, <1>10, <1>14, <1>17
<1> QED
  BY <1>1, <1>6, <1>8, <1>12, <1>14, <1>15, <1>16, <1>17, <1>18, <1>19 DEF Untouched

LEMMA StepCloseGroup ==
  ASSUME CompileInv, CloseGroup
  PROVE  CompileInv'
<1>1. /\ pc = "scan" /\ pc' = "scan" /\ Peek(0) = ")" /\ groups # <<>> /\ Advance(1)
      /\ node' = New(1) /\ atom_start' = Innermost.start /\ or_end' = Innermost.or_end
      /\ groups' = SubSeq(groups, 1, Len(groups) - 1)
      /\ UNCHANGED <<dfsVars, start, cap_count, rx_cap_count, ignorecase, quant>>
  BY DEF CloseGroup, Scanning
<1>2. Reading' /\ endValue' = endValue
  BY <1>1, ReadOne DEF Symbol
<1>3. Places /\ GraphOK(nodes) /\ Len(nodes) \in Nat /\ Counters
  BY <1>1, NotIdle
<1>4. PICK k \in 1..Len(groups) : k = Len(groups)
  <2>1. Len(groups) \in Nat
    BY <1>3, GroupsIn
  <2>2. groups \in Seq([start : 1..Len(nodes), or_end : 0..Len(nodes)])
    BY <1>3 DEF Places
  <2>3. Len(groups) # 0
    BY <2>2, <1>1, EmptySeq
  <2> QED
    BY <2>1, <2>3
<1>5. PICK s \in 1..Len(nodes), o \in 0..Len(nodes) : s = groups[k].start /\ o = groups[k].or_end
  BY <1>3, GroupsIn
<1>6. Innermost.start = s /\ Innermost.or_end = o
  BY <1>4, <1>5 DEF Innermost
<1>7. Continues(nodes', nodes) /\ GraphOK(nodes') /\ Len(nodes') = Len(nodes) + 1
  BY GraphCloseGroup
<1>17. node' \in 1..Len(nodes') /\ node' > Len(nodes) /\ Len(nodes') \in Nat
       /\ Len(nodes) <= Len(nodes')
  BY <1>1, <1>3, <1>7 DEF New
<1>18. Places'
  <2>1. PICK G : G = [start : 1..Len(nodes'), or_end : 0..Len(nodes')]
    OBVIOUS
  <2>2. groups \in Seq(G)
    <3>1. [start : 1..Len(nodes), or_end : 0..Len(nodes)] \subseteq G
      BY <1>3, <1>17, <2>1
    <3>2. groups \in Seq([start : 1..Len(nodes), or_end : 0..Len(nodes)])
      BY <1>3 DEF Places
    <3> QED
      BY <3>1, <3>2, SeqMonotonic
  <2>3. /\ groups' \in Seq(G) /\ Len(groups') = k - 1 /\ k \in Nat /\ k >= 1
        /\ \A i \in 1..(k - 1) : groups'[i] = groups[i]
    <3>1. groups' = SubSeq(groups, 1, k - 1)
      BY <1>1, <1>4
    <3> QED
      BY <3>1, <1>4, <2>2, WithoutLast
  <2>4. ASSUME NEW i \in 1..Len(groups')
        PROVE  /\ nodes'[groups'[i].start].next # NULL
               /\ groups'[i].start \notin {node', atom_start'}
               /\ \A j \in 1..(i - 1) : groups'[j].start # groups'[i].start
    <3>1. i \in 1..Len(groups) /\ i \in 1..(k - 1) /\ groups'[i] = groups[i]
          /\ \A j \in 1..(i - 1) : groups'[j] = groups[j]
      BY <2>3, <1>4
    <3>2. PICK r \in 1..Len(nodes) : r = groups[i].start
      BY <3>1, <1>3, GroupsIn
    <3>3. nodes[r].next # NULL /\ \A j \in 1..(i - 1) : groups[j].start # r
      BY <3>1, <3>2, <1>3 DEF Places
    <3>4. r # s
      BY <3>1, <3>2, <1>3, <1>5 DEF Places
    <3>5. nodes'[r].next # NULL
      BY <3>3, <1>7 DEF Continues
    <3>6. r \notin {node', atom_start'}
      BY <1>1, <1>3, <1>6, <1>17, <3>4
    <3> QED
      BY <3>1, <3>2, <3>3, <3>5, <3>6
  <2>5. start' = 1 /\ atom_start' \in 0..Len(nodes') /\ or_end' \in 0..Len(nodes')
    BY <1>1, <1>3, <1>6, <1>17 DEF Places
  <2> QED
    BY <1>17, <2>1, <2>3, <2>4, <2>5 DEF Places
<1> QED
  BY <1>1, <1>2, <1>3, <1>7, <1>18, Scan, SameCounters

LEMMA GraphAddAtom ==
  ASSUME CompileInv, AddAtom
  PROVE  /\ Continues(nodes', nodes) /\ GraphOK(nodes')
         /\ Len(nodes) < Len(nodes') /\ Len(nodes') \in Nat
         /\ Untouched(nodes', nodes, {node}) /\ nodes'[node].next # NULL
         /\ nodes'[node].next = Len(nodes) + 1
         /\ nodes'[node].type \in {"TAKE", "CHAR_SET", "CHAR_CLASS"}
         /\ node' = Len(nodes') /\ nodes'[Len(nodes')] = FreshNode
         /\ \A n \in 1..Len(nodes') :
              n > Len(nodes) /\ n # node' =>
                nodes'[n].next = n + 1 /\ nodes'[n].next # NULL
                /\ nodes'[n].type \in {"TAKE", "CHAR_SET", "CHAR_CLASS"}
<1>1. pc = "scan" /\ Peek(0) \in DOMAIN Atoms
  BY DEF AddAtom
<1>3. Places /\ GraphOK(nodes) /\ Len(nodes) \in Nat /\ node \in 1..Len(nodes)
      /\ \A n \in 1..Len(nodes) : NodeIn(nodes[n], Len(nodes))
  BY <1>1, NotIdle DEF Places
<1>5. PICK atom : atom = Atoms[Peek(0)]
  OBVIOUS
<1>6. PICK L \in Nat \ {0} :
        /\ L = Len(atom) /\ DOMAIN atom = 1..L
        /\ \A j \in 1..L :
             /\ atom[j].type \in {"TAKE", "CHAR_SET", "CHAR_CLASS"} /\ atom[j].u \in Int
             /\ atom[j].type = "CHAR_CLASS" => atom[j].u \in DOMAIN Classes
  <2>1. PICK A : A = [type : {"TAKE", "CHAR_SET", "CHAR_CLASS"}, u : Int]
    OBVIOUS
  <2>2. /\ atom \in Seq(A) /\ atom # <<>>
        /\ \A j \in DOMAIN atom : atom[j].type = "CHAR_CLASS" => atom[j].u \in DOMAIN Classes
    BY <1>1, <1>5, <2>1, AtomsAssumption
  <2>3. Len(atom) \in Nat \ {0} /\ DOMAIN atom = 1..Len(atom)
        /\ \A j \in 1..Len(atom) : atom[j] \in A
    BY <2>2, LenProperties, EmptySeq, ElementOfSeq
  <2>4. PICK L \in Nat \ {0} : L = Len(atom)
    BY <2>3
  <2>5. ASSUME NEW j \in 1..L
        PROVE  /\ atom[j].type \in {"TAKE", "CHAR_SET", "CHAR_CLASS"} /\ atom[j].u \in Int
               /\ atom[j].type = "CHAR_CLASS" => atom[j].u \in DOMAIN Classes
    BY <2>1, <2>2, <2>3, <2>4
  <2>6. DOMAIN atom = 1..L
    BY <2>3, <2>4
  <2> QED
    BY <2>4, <2>5, <2>6, Zenon
<1>7. PICK n1 : n1 = Grow(nodes, L)
  OBVIOUS
<1>8. /\ GraphOK(n1) /\ Len(n1) = Len(nodes) + L
      /\ \A n \in 1..Len(nodes) : n1[n] = nodes[n]
      /\ \A n \in 1..Len(n1) : n > Len(nodes) => n1[n] = FreshNode
  BY <1>3, <1>6, <1>7, GrowGraph
<1> DEFINE At(j) == IF j = 1 THEN node ELSE New(j - 1)
           Part(j) == [type |-> atom[j].type, next |-> New(j), u |-> atom[j].u]
           Picked(n) == CHOOSE j \in 1..L : n = At(j)
           Made(n) == IF \E j \in 1..L : n = At(j) THEN Part(Picked(n)) ELSE n1[n]
<1>9. nodes' = [n \in 1..(Len(nodes) + L) |-> Made(n)] /\ node' = Len(nodes) + L
  <2>1. /\ nodes' = [n \in 1..New(Len(atom)) |->
                       IF \E j \in DOMAIN atom : n = At(j)
                       THEN LET j == CHOOSE j \in DOMAIN atom : n = At(j)
                            IN  [type |-> atom[j].type, next |-> New(j), u |-> atom[j].u]
                       ELSE Grow(nodes, Len(atom))[n]]
        /\ node' = New(Len(atom))
    BY <1>5, Zenon DEF AddAtom
  <2>2. DOMAIN atom = 1..L /\ Len(atom) = L /\ New(L) = Len(nodes) + L
    BY <1>6 DEF New
  <2> QED
    BY <2>1, <2>2, <1>7, Zenon
<1>10. \A n : (\E j \in 1..L : n = At(j)) => \E j \in 1..L : n = At(j) /\ Made(n) = Part(j)
  <2>1. \A n : (\E j \in 1..L : n = At(j)) =>
                 Picked(n) \in 1..L /\ n = At(Picked(n)) /\ Made(n) = Part(Picked(n))
    OBVIOUS
  <2> QED
    BY <2>1
<1>11. \A n : ~(\E j \in 1..L : n = At(j)) => Made(n) = n1[n]
  OBVIOUS
<1>12. ASSUME NEW j \in 1..L
       PROVE  /\ NodeIn(Part(j), Len(nodes) + L)
              /\ Part(j).next # NULL /\ Part(j).next = Len(nodes) + j
              /\ Part(j).type \in {"TAKE", "CHAR_SET", "CHAR_CLASS"}
  <2>1. PICK ty \in {"TAKE", "CHAR_SET", "CHAR_CLASS"}, v \in Int :
          /\ ty = atom[j].type /\ v = atom[j].u
          /\ ty = "CHAR_CLASS" => v \in DOMAIN Classes
    BY <1>6
  <2>2. Part(j) = [type |-> ty, next |-> Len(nodes) + j, u |-> v]
    BY <2>1 DEF New
  <2>3. Len(nodes) + j \in 1..(Len(nodes) + L)
    BY <1>3, <1>6
  <2> HIDE DEF Part
  <2> QED
    BY <2>1, <2>2, <2>3, <1>3, <1>6 DEF NodeIn, Node, NodeType, NULL
<1> HIDE DEF At, Part, Picked, Made
<1>13. ASSUME NEW n \in 1..(Len(nodes) + L)
       PROVE  NodeIn(Made(n), Len(nodes) + L)
  <2>1. CASE \E j \in 1..L : n = At(j)
    BY <2>1, <1>10, <1>12
  <2>2. CASE ~(\E j \in 1..L : n = At(j))
    BY <2>2, <1>8, <1>11 DEF GraphOK
  <2> QED
    BY <2>1, <2>2
<1>14. /\ nodes' \in Seq(Node) /\ Len(nodes') = Len(nodes) + L
       /\ \A n \in 1..(Len(nodes) + L) : nodes'[n] = Made(n)
  <2>1. PICK k \in Nat : k = Len(nodes) + L
    BY <1>3
  <2>2. nodes' = [n \in 1..k |-> Made(n)] /\ \A n \in 1..k : Made(n) \in Node
    BY <1>9, <1>13, <2>1 DEF NodeIn
  <2>3. nodes' \in Seq(Node) /\ Len(nodes') = k /\ \A n \in 1..k : nodes'[n] = Made(n)
    BY <2>2
  <2> QED
    BY <2>1, <2>3
<1>15. GraphOK(nodes')
  BY <1>13, <1>14 DEF GraphOK
<1>16. Continues(nodes', nodes)
  <2>1. ASSUME NEW n \in 1..Len(nodes), nodes[n].next # NULL
        PROVE  nodes'[n].next # NULL
    <3>1. n \in 1..(Len(nodes) + L) /\ nodes'[n] = Made(n)
      BY <1>3, <1>14
    <3>2. CASE \E j \in 1..L : n = At(j)
      BY <3>1, <3>2, <1>10, <1>12
    <3>3. CASE ~(\E j \in 1..L : n = At(j))
      BY <3>1, <3>3, <2>1, <1>8, <1>11
    <3> QED
      BY <3>2, <3>3
  <2> QED
    BY <2>1, <1>3, <1>14, <1>15 DEF Continues
<1>17. ASSUME NEW n \in 1..(Len(nodes) + L), n = node \/ n > Len(nodes), n # Len(nodes) + L
       PROVE  /\ nodes'[n].next = (IF n = node THEN Len(nodes) + 1 ELSE n + 1)
              /\ nodes'[n].next # NULL
              /\ nodes'[n].type \in {"TAKE", "CHAR_SET", "CHAR_CLASS"}
  <2>1. PICK j \in 1..L : n = At(j)
    <3>1. CASE n = node
      <4>1. 1 \in 1..L /\ n = At(1)
        BY <3>1, <1>6 DEF At
      <4> QED
        BY <4>1
    <3>2. CASE n # node
      <4>1. PICK j \in 2..L : n = Len(nodes) + (j - 1)
        <5>1. (n - Len(nodes)) + 1 \in 2..L /\ n = Len(nodes) + (((n - Len(nodes)) + 1) - 1)
          BY <1>3, <1>6, <1>17, <3>2
        <5> QED
          BY <5>1
      <4>2. j \in 1..L /\ n = At(j)
        BY <4>1, <1>6 DEF At, New
      <4> QED
        BY <4>2
    <3> QED
      BY <3>1, <3>2
  <2>2. PICK i \in 1..L : n = At(i) /\ Made(n) = Part(i)
    BY <2>1, <1>10
  <2>3. Len(nodes) + i = IF n = node THEN Len(nodes) + 1 ELSE n + 1
    BY <2>2, <1>3, <1>6 DEF At, New
  <2> QED
    BY <2>2, <2>3, <1>12, <1>14
<1>18. nodes'[Len(nodes) + L] = FreshNode
  <2>1. Len(nodes) + L \in 1..(Len(nodes) + L) /\ Len(nodes) + L > Len(nodes)
    BY <1>3, <1>6
  <2>2. ~\E j \in 1..L : Len(nodes) + L = At(j)
    BY <1>3, <1>6 DEF At, New
  <2> QED
    BY <2>1, <2>2, <1>8, <1>11, <1>14
<1>19. ASSUME NEW n \in 1..Len(nodes), n # node
       PROVE  nodes'[n] = nodes[n]
  <2>1. n \in 1..(Len(nodes) + L) /\ ~\E j \in 1..L : n = At(j)
    BY <1>3, <1>6, <1>19 DEF At, New
  <2> QED
    BY <2>1, <1>8, <1>11, <1>14
<1>20. /\ Len(nodes) < Len(nodes') /\ Len(nodes') \in Nat /\ node \in 1..(Len(nodes) + L)
       /\ node # Len(nodes) + L
  BY <1>3, <1>6, <1>14
<1>21. /\ nodes'[node].next = Len(nodes) + 1 /\ nodes'[node].next # NULL
       /\ nodes'[node].type \in {"TAKE", "CHAR_SET", "CHAR_CLASS"}
  BY <1>17, <1>20
<1>22. ASSUME NEW n \in 1..Len(nodes'), n > Len(nodes), n # node'
       PROVE  /\ nodes'[n].next = n + 1 /\ nodes'[n].next # NULL
              /\ nodes'[n].type \in {"TAKE", "CHAR_SET", "CHAR_CLASS"}
  <2>1. n \in 1..(Len(nodes) + L) /\ n # Len(nodes) + L /\ n # node
    BY <1>3, <1>9, <1>14, <1>22
  <2> QED
    BY <2>1, <1>17, <1>22
<1> QED
  BY <1>9, <1>14, <1>15, <1>16, <1>18, <1>19, <1>20, <1>21, <1>22 DEF Untouched

LEMMA StepAddAtom ==
  ASSUME CompileInv, AddAtom
  PROVE  CompileInv'
<1>1. /\ pc = "scan" /\ pc' = "scan" /\ Peek(0) \in DOMAIN Atoms /\ Advance(1)
      /\ atom_start' = node
      /\ UNCHANGED <<dfsVars, start, or_end, groups, cap_count, rx_cap_count, ignorecase, quant>>
  BY DEF AddAtom
<1>2. Reading' /\ endValue' = endValue
  <2>1. Symbol(0)
    BY <1>1, TextsAssumption DEF Symbol
  <2> QED
    BY <1>1, <2>1, ReadOne
<1>3. Places /\ Len(nodes) \in Nat /\ Counters
  BY <1>1, NotIdle
<1>4. Continues(nodes', nodes) /\ GraphOK(nodes') /\ Len(nodes) < Len(nodes')
      /\ node' = Len(nodes') /\ Len(nodes') \in Nat
  BY GraphAddAtom
<1>5. node' \in 1..Len(nodes') /\ node' > Len(nodes) /\ or_end' \in 0..Len(nodes')
  BY <1>1, <1>3, <1>4 DEF Places
<1>6. Places'
  BY <1>1, <1>4, <1>5, PlacesOn
<1> QED
  BY <1>1, <1>2, <1>3, <1>4, <1>6, Scan, SameCounters

LEMMA GraphAddAssertion ==
  ASSUME CompileInv, AddAssertion
  PROVE  /\ Continues(nodes', nodes) /\ GraphOK(nodes') /\ Len(nodes') = Len(nodes) + 1
         /\ Untouched(nodes', nodes, {node})
         /\ nodes'[node].next # NULL /\ nodes'[node].next = Len(nodes) + 1
         /\ nodes'[node].type = "ASSERTION"
         /\ nodes'[Len(nodes) + 1] = FreshNode /\ node' = Len(nodes) + 1
<1>1. /\ pc = "scan" /\ Peek(0) \in {"^", "$"} \cup DOMAIN Escapes
      /\ node' = Len(nodes) + 1
  BY DEF AddAssertion, New
<1>3. Places /\ GraphOK(nodes) /\ Len(nodes) \in Nat
  BY <1>1, NotIdle
<1>4. node \in 1..Len(nodes)
  BY <1>3 DEF Places
<1>5. PICK n1 : n1 = Grow(nodes, 1)
  OBVIOUS
<1>6. /\ Continues(n1, nodes) /\ GraphOK(n1) /\ Len(n1) = Len(nodes) + 1
      /\ n1[Len(nodes) + 1] = FreshNode
      /\ \A n \in 1..Len(nodes) : n1[n] = nodes[n]
  BY <1>3, <1>5, GrowOne
<1>7. AssertKind \in Int
  <2>1. CASE Peek(0) = "^"
    BY <2>1 DEF AssertKind, ASSERT_SOL, ASSERT_SOS
  <2>2. CASE Peek(0) = "$"
    BY <2>2 DEF AssertKind, ASSERT_EOL, ASSERT_EOS
  <2>3. CASE Peek(0) \notin {"^", "$"}
    BY <2>3, <1>1, EscapesAssumption DEF AssertKind
  <2> QED
    BY <2>1, <2>2, <2>3
<1>8. PICK nd : nd = [type |-> "ASSERTION", next |-> New(1), u |-> AssertKind]
  OBVIOUS
<1>9. NodeIn(nd, Len(n1)) /\ nd.next # NULL /\ nd.next = Len(nodes) + 1 /\ nd.type = "ASSERTION"
  BY <1>3, <1>6, <1>7, <1>8 DEF New, NodeIn, Node, NodeType, NULL
<1>10. PICK n2 : Rewritten(n2, n1, node, nd)
  BY DEF Rewritten
<1>11. /\ Continues(n2, n1) /\ GraphOK(n2) /\ Len(n2) = Len(n1) /\ n2[node] = nd
       /\ \A n \in 1..Len(n1) : n # node => n2[n] = n1[n]
  <2>1. node \in 1..Len(n1)
    BY <1>3, <1>4, <1>6
  <2> QED
    BY <2>1, <1>6, <1>9, <1>10, PutNode
<1>12. nodes' = n2
  BY <1>5, <1>8, <1>10 DEF AddAssertion, Rewritten
<1>13. Continues(nodes', nodes)
  BY <1>3, <1>6, <1>11, <1>12, ContinuesOn
<1>14. /\ \A n \in 1..Len(nodes) : n # node => n2[n] = nodes[n]
       /\ n2[Len(nodes) + 1] = FreshNode
  BY <1>3, <1>4, <1>6, <1>11
<1> QED
  BY <1>1, <1>6, <1>9, <1>11, <1>12, <1>13, <1>14 DEF Untouched

LEMMA StepAddAssertion ==
  ASSUME CompileInv, AddAssertion
  PROVE  CompileInv'
<1>1. /\ pc = "scan" /\ pc' = "scan" /\ Peek(0) \in {"^", "$"} \cup DOMAIN Escapes
      /\ Advance(IF Doubled THEN 2 ELSE 1) /\ node' = New(1)
      /\ UNCHANGED <<dfsVars, start, atom_start, or_end, groups, cap_count, rx_cap_count,
                     ignorecase, quant>>
  BY DEF AddAssertion
<1>2. Reading' /\ endValue' = endValue
  <2>1. CASE Doubled
    <3>1. Symbol(1) /\ Advance(2)
      BY <1>1, <2>1 DEF Symbol, Doubled
    <3> QED
      BY <1>1, <3>1, ReadOn
  <2>2. CASE ~Doubled
    <3>1. Symbol(0) /\ Advance(1)
      BY <1>1, <2>2, TextsAssumption DEF Symbol
    <3> QED
      BY <1>1, <3>1, ReadOne
  <2> QED
    BY <2>1, <2>2
<1>3. Places /\ Len(nodes) \in Nat /\ Counters
  BY <1>1, NotIdle
<1>4. Continues(nodes', nodes) /\ GraphOK(nodes') /\ Len(nodes') = Len(nodes) + 1
  BY GraphAddAssertion
<1>5. node' \in 1..Len(nodes') /\ node' > Len(nodes) /\ or_end' \in 0..Len(nodes')
  BY <1>1, <1>3, <1>4 DEF Places, New
<1>6. Places'
  BY <1>1, <1>4, <1>5, PlacesOn
<1> QED
  BY <1>1, <1>2, <1>3, <1>4, <1>6, Scan, SameCounters

LEMMA StepIgnoreCase ==
  ASSUME CompileInv, IgnoreCase
  PROVE  CompileInv'
<1>1. /\ pc = "scan" /\ pc' = "scan" /\ Peek(0) = "\\c" /\ Advance(1) /\ ignorecase' = TRUE
      /\ UNCHANGED <<nodes, dfsVars, start, node, atom_start, or_end, groups, cap_count,
                     rx_cap_count, quant>>
  BY DEF IgnoreCase, Scanning
<1>2. Reading' /\ endValue' = endValue
  BY <1>1, ReadOne DEF Symbol
<1>3. Places /\ GraphOK(nodes) /\ Counters
  BY <1>1, NotIdle
<1>4. Places' /\ GraphOK(nodes')
  BY <1>1, <1>3 DEF Places
<1>5. Counters'
  BY <1>1, <1>2, <1>3 DEF Counters
<1> QED
  BY <1>1, <1>2, <1>4, <1>5, Scan

LEMMA StepRxError ==
  ASSUME CompileInv, RxError
  PROVE  CompileInv'
<1>1. pc = "scan" /\ pc' = "error" /\ UNCHANGED <<nodes, dfsVars, scanVars, quant>>
  BY DEF RxError
<1>2. Places /\ GraphOK(nodes) /\ Counters /\ Reading
  BY <1>1, NotIdle
<1>3. Places' /\ GraphOK(nodes') /\ Counters' /\ Reading'
  BY <1>1, <1>2 DEF Places, Counters, Reading, scanVars
<1> QED
  BY <1>1, <1>3, Scan

LEMMA EndOf ==
  ASSUME NEW m \in [type : NodeType, next : Nat, u : Int], NEW v
  PROVE  [[m EXCEPT !.type = "MATCH_END"] EXCEPT !.u = v]
           = [type |-> "MATCH_END", next |-> m.next, u |-> v]
<1>1. PICK a : a = [m EXCEPT !.type = "MATCH_END"]
  OBVIOUS
<1>2. a = [type |-> "MATCH_END", next |-> m.next, u |-> m.u]
  BY <1>1
<1>3. [a EXCEPT !.u = v] = [type |-> "MATCH_END", next |-> m.next, u |-> v]
  BY <1>2
<1> QED
  BY <1>1, <1>3

LEMMA Emptied ==
  ASSUME NEW m \in [type : NodeType, next : Nat, u : Int], NEW v
  PROVE  [[m EXCEPT !.type = "EMPTY"] EXCEPT !.next = v]
           = [type |-> "EMPTY", next |-> v, u |-> m.u]
<1>1. PICK a : a = [m EXCEPT !.type = "EMPTY"]
  OBVIOUS
<1>2. a = [type |-> "EMPTY", next |-> m.next, u |-> m.u]
  BY <1>1
<1>3. [a EXCEPT !.next = v] = [type |-> "EMPTY", next |-> v, u |-> m.u]
  BY <1>2
<1> QED
  BY <1>1, <1>3

LEMMA GraphFinish ==
  ASSUME CompileInv, Finish
  PROVE  /\ GraphOK(nodes') /\ Len(nodes') = Len(nodes)
         /\ JoinedEnd \in 1..Len(nodes) /\ JoinedEnd \in {node, or_end}
         /\ Untouched(nodes', nodes, {node, or_end})
         /\ nodes'[JoinedEnd].type = "MATCH_END"
         /\ node # JoinedEnd => /\ nodes'[node].next = or_end /\ or_end # NULL
                                /\ nodes'[node].type = nodes[node].type
                                /\ nodes'[node].u = nodes[node].u
<1>1. pc = "scan"
  BY DEF Finish, Scanning
<1>2. Places /\ GraphOK(nodes) /\ Len(nodes) \in Nat /\ Counters /\ node \in 1..Len(nodes)
  BY <1>1, NotIdle DEF Places
<1>3. PICK n1 : n1 = Joined(nodes)
  OBVIOUS
<1>4. /\ GraphOK(n1) /\ Len(n1) = Len(nodes) /\ JoinedEnd \in 1..Len(nodes)
      /\ Untouched(n1, nodes, {node})
      /\ or_end = NULL => n1 = nodes
      /\ or_end # NULL => /\ n1[node].next = or_end /\ n1[node].type = nodes[node].type
                          /\ n1[node].u = nodes[node].u
  BY <1>2, <1>3, JoinGraph
<1>5. PICK e \in 1..Len(n1) : e = JoinedEnd
  BY <1>4
<1>6. PICK m \in Node : m = n1[e] /\ m.next \in 0..Len(n1)
  BY <1>4, <1>5 DEF GraphOK, NodeIn
<1>7. PICK nd : nd = [type |-> "MATCH_END", next |-> m.next, u |-> endValue]
  OBVIOUS
<1>8. NodeIn(nd, Len(n1))
  <2>1. endValue \in Int /\ m.next \in Nat
    BY <1>2, <1>6 DEF Counters, Node
  <2> QED
    BY <1>6, <1>7, <2>1 DEF NodeIn, Node, NodeType
<1>9. Rewritten(nodes', n1, e, nd)
  <2>1. nodes' = [n1 EXCEPT ![e].type = "MATCH_END", ![e].u = endValue]
    BY <1>3, <1>5 DEF Finish
  <2>2. e \in DOMAIN n1 /\ m \in [type : NodeType, next : Nat, u : Int] /\ m = n1[e]
    BY <1>4, <1>5, <1>6 DEF GraphOK, Node
  <2>3. [[m EXCEPT !.type = "MATCH_END"] EXCEPT !.u = endValue] = nd
    BY <2>2, <1>7, EndOf
  <2> QED
    BY <2>1, <2>2, <2>3 DEF Rewritten
<1>10. /\ GraphOK(nodes') /\ Len(nodes') = Len(nodes) /\ nodes'[e] = nd
       /\ \A n \in 1..Len(n1) : n # e => nodes'[n] = n1[n]
  BY <1>4, <1>8, <1>9, WriteNode
<1>11. JoinedEnd \in {node, or_end} /\ (node # JoinedEnd => JoinedEnd = or_end /\ or_end # NULL)
  BY DEF JoinedEnd
<1>12. \A n \in 1..Len(nodes) : n \notin {node, or_end} => nodes'[n] = nodes[n]
  BY <1>2, <1>4, <1>5, <1>10, <1>11 DEF Untouched
<1>13. node # JoinedEnd => /\ nodes'[node].next = or_end
                           /\ nodes'[node].type = nodes[node].type /\ nodes'[node].u = nodes[node].u
  BY <1>2, <1>4, <1>5, <1>10, <1>11
<1> QED
  BY <1>4, <1>5, <1>7, <1>10, <1>11, <1>12, <1>13 DEF Untouched

LEMMA StepFinish ==
  ASSUME CompileInv, Finish
  PROVE  CompileInv'
<1>1. /\ pc = "scan" /\ pc' = "done" /\ groups = <<>> /\ node' = JoinedEnd
      /\ rx_cap_count' = IF cap_count > rx_cap_count THEN cap_count ELSE rx_cap_count
      /\ UNCHANGED <<dfsVars, regexp, rpos, endValue, start, atom_start, or_end, groups,
                     cap_count, ignorecase, quant>>
  BY DEF Finish, Scanning
<1>2. Places /\ GraphOK(nodes) /\ Len(nodes) \in Nat /\ Counters /\ Reading
  BY <1>1, NotIdle
<1>10. GraphOK(nodes') /\ Len(nodes') = Len(nodes) /\ JoinedEnd \in 1..Len(nodes)
  BY GraphFinish
<1>11. Places'
  <2>1. Len(groups) = 0 /\ start = 1 /\ atom_start \in 0..Len(nodes) /\ or_end \in 0..Len(nodes)
    BY <1>1, <1>2 DEF Places
  <2>2. groups' \in Seq([start : 1..Len(nodes'), or_end : 0..Len(nodes')])
    BY <1>1
  <2> QED
    BY <2>1, <2>2, <1>1, <1>10 DEF Places
<1>12. Counters'
  BY <1>1, <1>2 DEF Counters
<1>13. Reading'
  BY <1>1, <1>2 DEF Reading
<1> QED
  BY <1>1, <1>10, <1>11, <1>12, <1>13, Scan

LEMMA StepRxInit ==
  ASSUME CompileInv, NEW text \in Texts, RxInit(text)
  PROVE  CompileInv'
<1>1. /\ pc = "idle" /\ pc' = "scan" /\ regexp' = text /\ rpos' = 1 /\ endValue' = 0
      /\ nodes' = <<FreshNode>> /\ start' = 1 /\ node' = 1 /\ atom_start' = NULL
      /\ or_end' = NULL /\ groups' = <<>> /\ cap_count' = 0 /\ rx_cap_count' = 0
      /\ ignorecase' = FALSE /\ UNCHANGED <<dfsVars, quant>>
  BY DEF RxInit, RxInitStart
<1>2. GraphOK(nodes') /\ Len(nodes') = 1
  <2>1. PICK f \in Node : f = FreshNode
    <3>1. FreshNode \in Node
      BY DEF FreshNode, Node, NodeType, NULL
    <3> QED
      BY <3>1
  <2>2. nodes' = <<f>> /\ <<f>> \in Seq(Node) /\ Len(<<f>>) = 1 /\ <<f>>[1] = f
    BY <1>1, <2>1
  <2>3. NodeIn(f, 1)
    BY <2>1, FreshIn
  <2> QED
    BY <2>2, <2>3 DEF GraphOK
<1>3. Places'
  BY <1>1, <1>2 DEF Places, NULL
<1>4. Reading'
  <2>1. text \in Seq(STRING)
    BY TextsAssumption
  <2>2. Len(text) \in Nat
    BY <2>1, LenProperties
  <2>3. 1 \in 1..(Len(text) + 1)
    BY <2>2
  <2> QED
    BY <1>1, <2>1, <2>3 DEF Reading
<1>5. Counters'
  <2>1. 0 \in Nat /\ 0 \in Int
    OBVIOUS
  <2>2. cap_count' = 0 /\ rx_cap_count' = 0 /\ ignorecase' = FALSE /\ endValue' = 0
    BY <1>1
  <2> QED
    BY <2>1, <2>2 DEF Counters
<1>6. QuantOK' /\ StackOK'
  BY <1>1 DEF CompileInv, QuantOK, StackOK, dfsVars
<1>7. CopiesInv'
  BY <1>1 DEF CompileInv, CopiesInv, dfsVars
<1> QED
  BY <1>1, <1>2, <1>3, <1>4, <1>5, <1>6, <1>7 DEF CompileInv

-----------------------------------------------------------------------------
(* A quantifier in braces. *)

LEMMA Between ==
  ASSUME CompileInv, pc \in {"scan", "repeat"}, pc' \in {"scan", "repeat"},
         UNCHANGED dfsVars, Reading', Counters', GraphOK(nodes'), Places', QuantOK'
  PROVE  CompileInv'
<1>1. StackOK'
  BY DEF CompileInv, StackOK, dfsVars
<1>2. CopiesInv'
  BY DEF CompileInv, CopiesInv, dfsVars
<1> QED
  BY <1>1, <1>2 DEF CompileInv

LEMMA SameText ==
  ASSUME CompileInv, pc # "idle", UNCHANGED <<regexp, rpos>>
  PROVE  Reading'
BY DEF CompileInv, Reading

LEMMA GraphRepeat ==
  ASSUME CompileInv, Repeat
  PROVE  /\ GraphOK(nodes') /\ Len(nodes) <= Len(nodes') /\ Len(nodes') \in Nat
         /\ Untouched(nodes', nodes, {atom_start})
         /\ \/ /\ quant'.i = 0 /\ quant'.sg_start = Len(nodes) + 1 /\ node' = atom_start
               /\ Len(nodes') = Len(nodes) + 1
               /\ nodes'[Len(nodes) + 1] = nodes[atom_start]
               /\ nodes'[atom_start].type = "EMPTY" /\ nodes'[atom_start].next = NULL
            \/ /\ quant'.i = 1 /\ quant'.sg_start = atom_start /\ node' = node
               /\ nodes' = nodes
         /\ quant'.sg_end = node /\ quant'.max = Counts[Peek(0)].max
<1> DEFINE moved == Counts[Peek(0)].min = 0
<1>1. /\ pc = "scan" /\ atom_start # NULL
      /\ quant' = [min |-> Counts[Peek(0)].min, max |-> Counts[Peek(0)].max, greedy |-> ~Lazy,
                   i |-> IF moved THEN 0 ELSE 1,
                   sg_start |-> IF moved THEN New(1) ELSE atom_start, sg_end |-> node,
                   sg_start2 |-> NULL, for |-> "none"]
      /\ node' = IF moved THEN atom_start ELSE node
  BY DEF Repeat
<1>2. /\ quant'.i = (IF moved THEN 0 ELSE 1) /\ quant'.max = Counts[Peek(0)].max
      /\ quant'.sg_start = (IF moved THEN New(1) ELSE atom_start) /\ quant'.sg_end = node
  BY <1>1
<1>3. Places /\ GraphOK(nodes) /\ Len(nodes) \in Nat
      /\ \A n \in 1..Len(nodes) : NodeIn(nodes[n], Len(nodes))
  BY <1>1, NotIdle
<1>4. atom_start \in 1..Len(nodes)
  BY <1>1, <1>3 DEF Places, NULL
<1>5. CASE ~moved
  <2>1. nodes' = nodes
    BY <1>5 DEF Repeat
  <2> HIDE DEF moved
  <2> QED
    BY <2>1, <1>1, <1>2, <1>3, <1>5 DEF Untouched
<1>6. CASE moved
  <2>1. PICK n1 : n1 = Grow(nodes, 1)
    OBVIOUS
  <2>2. /\ GraphOK(n1) /\ Len(n1) = Len(nodes) + 1
        /\ \A n \in 1..Len(nodes) : n1[n] = nodes[n]
    BY <1>3, <2>1, GrowGraph
  <2>3. PICK n2 : Rewritten(n2, n1, New(1), nodes[atom_start])
    BY DEF Rewritten
  <2>4. /\ GraphOK(n2) /\ Len(n2) = Len(n1) /\ n2[atom_start] = nodes[atom_start]
        /\ n2[Len(nodes) + 1] = nodes[atom_start]
        /\ \A n \in 1..Len(nodes) : n2[n] = nodes[n]
    <3>1. NodeIn(nodes[atom_start], Len(n1)) /\ New(1) \in 1..Len(n1)
      BY <1>3, <1>4, <2>2, Further DEF New
    <3>2. /\ GraphOK(n2) /\ Len(n2) = Len(n1) /\ n2[New(1)] = nodes[atom_start]
          /\ \A n \in 1..Len(n1) : n # New(1) => n2[n] = n1[n]
      BY <3>1, <2>2, <2>3, WriteNode
    <3>3. \A n \in 1..Len(nodes) : n \in 1..Len(n1) /\ n # New(1)
      BY <1>3, <2>2 DEF New
    <3> QED
      BY <3>2, <3>3, <2>2, <1>4 DEF New
  <2>5. PICK m \in Node : m = nodes[atom_start]
    BY <1>3, <1>4 DEF NodeIn
  <2>6. PICK nd : nd = [type |-> "EMPTY", next |-> NULL, u |-> m.u]
    OBVIOUS
  <2>7. NodeIn(nd, Len(n2))
    <3>1. m.u \in Int /\ Len(n2) \in Nat
      BY <2>4, <2>5 DEF Node, GraphOK
    <3> QED
      BY <3>1, <2>6 DEF NodeIn, Node, NodeType, NULL
  <2>8. Rewritten(nodes', n2, atom_start, nd)
    <3>1. nodes' = [n2 EXCEPT ![atom_start].type = "EMPTY", ![atom_start].next = NULL]
      BY <1>6, <2>1, <2>3 DEF Repeat, Rewritten
    <3>2. atom_start \in DOMAIN n2 /\ n2[atom_start] = m
          /\ m \in [type : NodeType, next : Nat, u : Int]
      BY <1>3, <1>4, <2>2, <2>4, <2>5 DEF GraphOK, Node
    <3>3. [[m EXCEPT !.type = "EMPTY"] EXCEPT !.next = NULL] = nd
      BY <3>2, <2>6, Emptied
    <3> QED
      BY <3>1, <3>2, <3>3 DEF Rewritten
  <2>9. /\ GraphOK(nodes') /\ Len(nodes') = Len(n2) /\ nodes'[atom_start] = nd
        /\ \A n \in 1..Len(n2) : n # atom_start => nodes'[n] = n2[n]
    <3>1. atom_start \in 1..Len(n2)
      BY <1>3, <1>4, <2>2, <2>4
    <3> QED
      BY <3>1, <2>4, <2>7, <2>8, WriteNode
  <2>10. /\ Len(nodes') = Len(nodes) + 1 /\ nodes'[Len(nodes) + 1] = nodes[atom_start]
         /\ \A n \in 1..Len(nodes) : n # atom_start => nodes'[n] = nodes[n]
    BY <1>3, <1>4, <2>2, <2>4, <2>9
  <2>11. nodes'[atom_start].type = "EMPTY" /\ nodes'[atom_start].next = NULL
    BY <2>6, <2>9
  <2>12. quant'.i = 0 /\ quant'.sg_start = Len(nodes) + 1 /\ node' = atom_start
    BY <1>1, <1>2, <1>6 DEF New
  <2>13. Len(nodes) <= Len(nodes') /\ Len(nodes') \in Nat
    BY <1>3, <2>10
  <2> QED
    BY <1>2, <2>9, <2>10, <2>11, <2>12, <2>13 DEF Untouched
<1> QED
  BY <1>5, <1>6

LEMMA StepRepeat ==
  ASSUME CompileInv, Repeat
  PROVE  CompileInv'
<1> DEFINE moved == Counts[Peek(0)].min = 0
<1>1. /\ pc = "scan" /\ pc' = "repeat" /\ Peek(0) \in DOMAIN Counts /\ atom_start # NULL
      /\ Advance(IF Lazy THEN 2 ELSE 1)
      /\ quant' = [min |-> Counts[Peek(0)].min, max |-> Counts[Peek(0)].max, greedy |-> ~Lazy,
                   i |-> IF moved THEN 0 ELSE 1,
                   sg_start |-> IF moved THEN New(1) ELSE atom_start, sg_end |-> node,
                   sg_start2 |-> NULL, for |-> "none"]
      /\ node' = IF moved THEN atom_start ELSE node
      /\ UNCHANGED <<dfsVars, start, atom_start, or_end, groups, cap_count, rx_cap_count,
                     ignorecase>>
  BY DEF Repeat
<1>2. Reading' /\ endValue' = endValue
  <2>1. Symbol(0)
    BY <1>1, TextsAssumption DEF Symbol
  <2> QED
    BY <1>1, <2>1, ReadQuantifier
<1>3. Places /\ GraphOK(nodes) /\ Len(nodes) \in Nat /\ Counters
      /\ \A n \in 1..Len(nodes) : NodeIn(nodes[n], Len(nodes))
  BY <1>1, NotIdle
<1>4. atom_start \in 1..Len(nodes) /\ node \in 1..Len(nodes) /\ or_end \in 0..Len(nodes)
  BY <1>1, <1>3 DEF Places, NULL
<1>5. /\ GraphOK(nodes') /\ Len(nodes) <= Len(nodes') /\ Len(nodes') \in Nat
      /\ moved => New(1) \in 1..Len(nodes')
      /\ \A n \in 1..Len(nodes) : n # atom_start => nodes'[n] = nodes[n]
  <2>1. /\ GraphOK(nodes') /\ Len(nodes) <= Len(nodes') /\ Len(nodes') \in Nat
        /\ Untouched(nodes', nodes, {atom_start})
        /\ quant'.i = 0 => Len(nodes') = Len(nodes) + 1
    BY <1>3, GraphRepeat
  <2>2. moved => quant'.i = 0
    BY <1>1
  <2>3. moved => New(1) \in 1..Len(nodes')
    BY <1>3, <2>1, <2>2 DEF New
  <2> QED
    BY <2>1, <2>3 DEF Untouched
<1>6. node' \in 1..Len(nodes') /\ node' \in {node, atom_start}
  BY <1>1, <1>3, <1>4, <1>5
<1>7. \A i \in 1..Len(groups) : groups[i].start \in 1..Len(nodes)
        /\ groups[i].start \notin {node, atom_start} /\ nodes[groups[i].start].next # NULL
  BY <1>3, GroupsIn DEF Places
<1>8. Places'
  <2>1. \A i \in 1..Len(groups) : /\ nodes'[groups[i].start].next # NULL
                                 /\ groups[i].start \notin {node', atom_start'}
    BY <1>1, <1>5, <1>6, <1>7
  <2>2. atom_start' \in 0..Len(nodes') /\ or_end' \in 0..Len(nodes')
    BY <1>1, <1>3, <1>4, <1>5
  <2> QED
    BY <1>1, <1>3, <1>5, <1>6, <2>1, <2>2, PlacesKept
<1>9. QuantOK'
  <2>1. PICK mn \in Int, mx \in Int : Counts[Peek(0)].min = mn /\ Counts[Peek(0)].max = mx
    BY <1>1, CountsAssumption
  <2>2. PICK sg \in 1..Len(nodes') : sg = IF moved THEN New(1) ELSE atom_start
    <3>1. atom_start \in 1..Len(nodes')
      BY <1>3, <1>4, <1>5
    <3> QED
      BY <3>1, <1>5
  <2>3. PICK k \in Nat : k = IF moved THEN 0 ELSE 1
    OBVIOUS
  <2>4. PICK lazy \in BOOLEAN : lazy = ~Lazy
    BY DEF Lazy
  <2>5. quant' = [min |-> mn, max |-> mx, greedy |-> lazy, i |-> k, sg_start |-> sg,
                  sg_end |-> node, sg_start2 |-> NULL, for |-> "none"]
    BY <1>1, <2>1, <2>2, <2>3, <2>4, Zenon
  <2> HIDE DEF moved
  <2>6. node \in Nat /\ sg \in Nat /\ NULL \in Nat /\ node \in 1..Len(nodes')
    BY <1>3, <1>4, <1>5 DEF NULL
  <2>7. quant' \in QuantType /\ quant'.sg_start = sg /\ quant'.sg_end = node
    BY <2>1, <2>3, <2>4, <2>5, <2>6 DEF QuantType
  <2> QED
    BY <1>1, <1>7, <2>2, <2>6, <2>7 DEF QuantOK
<1> QED
  BY <1>1, <1>2, <1>3, <1>5, <1>8, <1>9, Between, SameCounters

(* What is known while a quantifier is applied. *)
LEMMA Quant ==
  ASSUME CompileInv, pc \in {"repeat", "copying"}
  PROVE  /\ quant \in QuantType
         /\ quant.sg_start \in 1..Len(nodes) /\ quant.sg_end \in 1..Len(nodes)
         /\ \A i \in 1..Len(groups) : groups[i].start # quant.sg_end
         /\ pc = "copying" => quant.sg_start2 \in 1..Len(nodes) /\ quant.for # "none"
BY DEF CompileInv, QuantOK

LEMMA LinkedLoop ==
  ASSUME Places, GraphOK(nodes), quant.greedy \in BOOLEAN,
         NEW first \in 1..Len(nodes), NEW last \in 1..Len(nodes),
         UNCHANGED <<start, atom_start, or_end, groups>>, LinkUnbounded(first, last)
  PROVE  /\ Continues(nodes', nodes) /\ GraphOK(nodes') /\ Places'
         /\ Len(nodes') = Len(nodes) + 1 /\ Untouched(nodes', nodes, {node, last})
         /\ Splits(nodes'[node]) /\ Splits(nodes'[last])
         /\ Forks(nodes'[node], Len(nodes) + 1) /\ Forks(nodes'[last], Len(nodes) + 1)
         /\ nodes'[node] = Branch(quant.greedy, first, New(1)) /\ nodes'[last] = nodes'[node]
         /\ nodes'[Len(nodes) + 1] = FreshNode /\ node' = Len(nodes) + 1
<1>1. Len(nodes) \in Nat /\ node \in 1..Len(nodes) /\ atom_start \in 0..Len(nodes)
      /\ or_end \in 0..Len(nodes)
  BY DEF GraphOK, Places
<1>2. PICK n1 : n1 = Grow(nodes, 1)
  OBVIOUS
<1>3. /\ Continues(n1, nodes) /\ GraphOK(n1) /\ Len(n1) = Len(nodes) + 1
      /\ n1[Len(nodes) + 1] = FreshNode
      /\ \A n \in 1..Len(nodes) : n1[n] = nodes[n]
  BY <1>1, <1>2, GrowOne
<1>4. PICK br : br = Branch(quant.greedy, first, New(1))
  OBVIOUS
<1>5. NodeIn(br, Len(n1)) /\ br.next # NULL /\ Splits(br) /\ Forks(br, Len(nodes) + 1)
  <2>1. first \in 1..Len(n1) /\ New(1) \in 1..Len(n1) /\ Len(n1) \in Nat
    BY <1>1, <1>3 DEF New
  <2> QED
    BY <2>1, <1>4, BranchIn DEF New
<1>6. PICK n2 : Rewritten(n2, n1, node, br)
  BY DEF Rewritten
<1>7. /\ Continues(n2, n1) /\ GraphOK(n2) /\ Len(n2) = Len(n1) /\ n2[node] = br
      /\ \A n \in 1..Len(n1) : n # node => n2[n] = n1[n]
  <2>1. node \in 1..Len(n1)
    BY <1>1, <1>3
  <2> QED
    BY <2>1, <1>3, <1>5, <1>6, PutNode
<1>8. PICK n3 : Rewritten(n3, n2, last, br)
  BY DEF Rewritten
<1>9. /\ Continues(n3, n2) /\ GraphOK(n3) /\ Len(n3) = Len(n1) /\ n3[last] = br
      /\ \A n \in 1..Len(n1) : n # last => n3[n] = n2[n]
  <2>1. last \in 1..Len(n2) /\ NodeIn(br, Len(n2))
    BY <1>1, <1>3, <1>5, <1>7
  <2> QED
    BY <2>1, <1>5, <1>7, <1>8, PutNode
<1>10. nodes' = n3 /\ node' = Len(nodes) + 1
  BY <1>2, <1>4, <1>6, <1>8 DEF LinkUnbounded, Rewritten, New
<1>11. Continues(nodes', nodes) /\ GraphOK(nodes')
  BY <1>3, <1>7, <1>9, <1>10, ContinuesOn
<1>12. /\ node' \in 1..Len(nodes') /\ node' > Len(nodes) /\ Len(nodes) <= Len(nodes')
       /\ atom_start' \in 0..Len(nodes') /\ or_end' \in 0..Len(nodes')
  BY <1>1, <1>3, <1>9, <1>10
<1>13. ASSUME NEW i \in 1..Len(groups)
       PROVE  nodes'[groups[i].start].next # NULL /\ groups[i].start \notin {node', atom_start'}
  <2>1. PICK s \in 1..Len(nodes) : s = groups[i].start
    BY GroupsIn
  <2>2. nodes[s].next # NULL /\ s # atom_start
    BY <2>1 DEF Places
  <2>3. s # node'
    BY <1>1, <1>12
  <2> QED
    BY <2>1, <2>2, <2>3, <1>11 DEF Continues
<1>14. Places'
  BY <1>11, <1>12, <1>13, PlacesKept
<1>15. /\ \A n \in 1..Len(nodes) : n \notin {node, last} => n3[n] = nodes[n]
       /\ n3[Len(nodes) + 1] = FreshNode /\ n3[node] = br /\ n3[last] = br
  BY <1>1, <1>3, <1>7, <1>9
<1> QED
  BY <1>3, <1>4, <1>5, <1>9, <1>10, <1>11, <1>14, <1>15 DEF Untouched

LEMMA LinkedOn ==
  ASSUME Places, GraphOK(nodes), quant.greedy \in BOOLEAN,
         NEW first \in 1..Len(nodes), NEW last \in 1..Len(nodes),
         \A i \in 1..Len(groups) : groups[i].start # last,
         UNCHANGED <<start, atom_start, or_end, groups>>, LinkBounded(first, last)
  PROVE  /\ Continues(nodes', nodes) /\ GraphOK(nodes') /\ Places'
         /\ Len(nodes') = Len(nodes) /\ Untouched(nodes', nodes, {node})
         /\ Splits(nodes'[node]) /\ Forks(nodes'[node], last) /\ node' = last
         /\ nodes'[node] = Branch(quant.greedy, first, last)
<1>1. Len(nodes) \in Nat /\ node \in 1..Len(nodes) /\ atom_start \in 0..Len(nodes)
      /\ or_end \in 0..Len(nodes)
  BY DEF GraphOK, Places
<1>2. PICK br : br = Branch(quant.greedy, first, last)
  OBVIOUS
<1>3. NodeIn(br, Len(nodes)) /\ br.next # NULL /\ Splits(br) /\ Forks(br, last)
  BY <1>1, <1>2, BranchIn
<1>4. Rewritten(nodes', nodes, node, br) /\ node' = last
  BY <1>2 DEF LinkBounded, Rewritten
<1>5. /\ Continues(nodes', nodes) /\ GraphOK(nodes') /\ Len(nodes') = Len(nodes)
      /\ nodes'[node] = br /\ \A n \in 1..Len(nodes) : n # node => nodes'[n] = nodes[n]
  BY <1>1, <1>3, <1>4, PutNode
<1>6. ASSUME NEW i \in 1..Len(groups)
      PROVE  nodes'[groups[i].start].next # NULL /\ groups[i].start \notin {node', atom_start'}
  <2>1. PICK s \in 1..Len(nodes) : s = groups[i].start
    BY GroupsIn
  <2>2. nodes[s].next # NULL /\ s # atom_start
    BY <2>1 DEF Places
  <2> QED
    BY <2>1, <2>2, <1>4, <1>5 DEF Continues
<1>7. Len(nodes) <= Len(nodes')
  BY <1>1, <1>5
<1>8. Places'
  BY <1>1, <1>4, <1>5, <1>6, <1>7, PlacesKept
<1> QED
  BY <1>2, <1>3, <1>4, <1>5, <1>8 DEF Untouched

(* The next turn of the loop over the repetitions. *)
LEMMA NextTurn ==
  ASSUME quant \in QuantType,
         quant' = [quant EXCEPT !.i = @ + 1, !.for = "none", !.sg_start2 = NULL]
  PROVE  /\ quant' \in QuantType
         /\ quant'.sg_start = quant.sg_start /\ quant'.sg_end = quant.sg_end
<1>1. PICK q : q = quant
  OBVIOUS
<1>2. /\ q.min \in Int /\ q.max \in Int /\ q.greedy \in BOOLEAN /\ q.i \in Nat
      /\ q.sg_start \in Nat /\ q.sg_end \in Nat
      /\ q = [min |-> q.min, max |-> q.max, greedy |-> q.greedy, i |-> q.i,
              sg_start |-> q.sg_start, sg_end |-> q.sg_end,
              sg_start2 |-> q.sg_start2, for |-> q.for]
  BY <1>1 DEF QuantType
<1>3. PICK j \in Nat : j = q.i + 1
  BY <1>2
<1>4. quant' = [q EXCEPT !.i = j, !.for = "none", !.sg_start2 = 0]
  BY <1>1, <1>3 DEF NULL
<1>5. quant' = [min |-> q.min, max |-> q.max, greedy |-> q.greedy, i |-> j,
                sg_start |-> q.sg_start, sg_end |-> q.sg_end, sg_start2 |-> 0, for |-> "none"]
  BY <1>2, <1>4
<1> QED
  BY <1>1, <1>2, <1>5 DEF QuantType

LEMMA StepRepeatFirst ==
  ASSUME CompileInv, RepeatFirst
  PROVE  CompileInv'
<1>1. /\ pc = "repeat"
      /\ IF Unbounded THEN LinkUnbounded(quant.sg_start, quant.sg_end)
         ELSE LinkBounded(quant.sg_start, quant.sg_end)
      /\ UNCHANGED <<dfsVars, regexp, rpos, endValue, start, atom_start, or_end,
                     groups, cap_count, rx_cap_count, ignorecase>>
  BY DEF RepeatFirst
<1>2. Places /\ GraphOK(nodes) /\ Len(nodes) \in Nat /\ Counters
  BY <1>1, NotIdle
<1>3. PICK first \in 1..Len(nodes), last \in 1..Len(nodes) :
        first = quant.sg_start /\ last = quant.sg_end
  BY <1>1, Quant
<1>4. quant \in QuantType /\ quant.greedy \in BOOLEAN
      /\ \A i \in 1..Len(groups) : groups[i].start # last
  <2>1. quant \in QuantType
    BY <1>1, Quant
  <2>2. quant.greedy \in BOOLEAN
    BY <2>1 DEF QuantType
  <2> QED
    BY <2>1, <2>2, <1>1, <1>3, Quant
<1>5. Reading' /\ Counters'
  BY <1>1, <1>2, SameText, SameCounters
<1>6. CASE Unbounded
  <2>1. LinkUnbounded(first, last)
    BY <1>1, <1>3, <1>6
  <2>2. pc' = "scan" /\ quant' = NoQuant
    BY <2>1 DEF LinkUnbounded
  <2>3. GraphOK(nodes') /\ Places'
    BY <2>1, <1>1, <1>2, <1>4, LinkedLoop
  <2>4. QuantOK'
    BY <2>2 DEF QuantOK
  <2> QED
    BY <1>1, <1>5, <2>2, <2>3, <2>4, Between
<1>7. CASE ~Unbounded
  <2>1. LinkBounded(first, last)
    BY <1>1, <1>3, <1>7
  <2>2. pc' = "repeat"
        /\ quant' = [quant EXCEPT !.i = @ + 1, !.for = "none", !.sg_start2 = NULL]
    BY <2>1 DEF LinkBounded
  <2>3. GraphOK(nodes') /\ Places' /\ Len(nodes') = Len(nodes)
    BY <2>1, <1>1, <1>2, <1>4, LinkedOn
  <2>4. quant' \in QuantType /\ quant'.sg_start = first /\ quant'.sg_end = last
    BY <1>3, <1>4, <2>2, NextTurn
  <2>5. QuantOK'
    BY <1>1, <1>4, <2>2, <2>3, <2>4 DEF QuantOK
  <2> QED
    BY <1>1, <1>5, <2>2, <2>3, <2>5, Between
<1> QED
  BY <1>6, <1>7

LEMMA StepRepeatEnd ==
  ASSUME CompileInv, RepeatEnd
  PROVE  CompileInv'
<1>1. pc = "repeat" /\ pc' = "scan" /\ quant' = NoQuant
      /\ UNCHANGED <<nodes, dfsVars, scanVars>>
  BY DEF RepeatEnd
<1>2. Places /\ GraphOK(nodes) /\ Counters /\ Reading
  BY <1>1, NotIdle
<1>3. Places' /\ GraphOK(nodes') /\ Counters' /\ Reading' /\ QuantOK'
  BY <1>1, <1>2 DEF Places, Counters, Reading, scanVars, QuantOK
<1> QED
  BY <1>1, <1>3, Between

-----------------------------------------------------------------------------
(* The copy. *)

LEMMA StartedInvNext ==
  ASSUME NEW g, Numbered(g)
  PROVE  Started(g)' => CopyInv(g)'
<1>1. Started(g) => CopyInv(g)
  BY StartedInv
<1> QED
  BY <1>1, PTL

LEMMA GraphRepeatCopy ==
  ASSUME CompileInv, RepeatCopy, CopiesNumbered', NEW new,
         new = IF Required THEN node ELSE New(1)
  PROVE  /\ Continues(nodes', nodes) /\ GraphOK(nodes') /\ Len(nodes) <= Len(nodes')
         /\ new \in 1..Len(nodes') /\ Untouched(nodes', nodes, {})
         /\ new = node \/ new > Len(nodes)
         /\ \A n \in 1..Len(nodes') : n > Len(nodes) => n = new /\ nodes'[n] = FreshNode
         /\ \E g : /\ Numbered(g) /\ CopyInv(g)' /\ ClearOf(g)'
                  /\ g.ns = nodes' /\ g.from = quant.sg_start /\ g.to = quant.sg_end
                  /\ g.new = new
<1>1. /\ pc = "repeat" /\ pc' = "copying" /\ UNCHANGED scanVars
      /\ quant' = [quant EXCEPT !.sg_start2 = IF Required THEN node ELSE New(1),
                                !.for = IF Required THEN "required"
                                        ELSE IF Unbounded THEN "unbounded" ELSE "bounded"]
  BY DEF RepeatCopy
<1>2. PICK ns : ns = IF Required THEN nodes ELSE Grow(nodes, 1)
  OBVIOUS
<1>3. CopyBegin(ns, quant.sg_start, quant.sg_end, new)
  BY <1>2 DEF RepeatCopy
<1>4. Places /\ GraphOK(nodes) /\ Len(nodes) \in Nat /\ Counters /\ Reading
  BY <1>1, NotIdle
<1>5. node \in 1..Len(nodes) /\ \A i \in 1..Len(groups) :
        groups[i].start \in 1..Len(nodes) /\ groups[i].start # node
  BY <1>4, GroupsIn DEF Places
<1>6. /\ Continues(ns, nodes) /\ GraphOK(ns) /\ Len(nodes) <= Len(ns) /\ new \in 1..Len(ns)
      /\ \A i \in 1..Len(groups) : groups[i].start # new
      /\ Untouched(ns, nodes, {}) /\ (new = node \/ new > Len(nodes))
      /\ \A n \in 1..Len(ns) : n > Len(nodes) => n = new /\ ns[n] = FreshNode
  <2>1. CASE Required
    <3>1. ns = nodes /\ new = node
      BY <2>1, <1>2
    <3>2. \A n \in 1..Len(nodes) : ~(n > Len(nodes))
      BY <1>4
    <3> QED
      BY <3>1, <3>2, <1>4, <1>5, ContinuesSame DEF Untouched
  <2>2. CASE ~Required
    <3>1. ns = Grow(nodes, 1) /\ new = Len(nodes) + 1
      BY <2>2, <1>2 DEF New
    <3>2. /\ Continues(ns, nodes) /\ GraphOK(ns) /\ Len(ns) = Len(nodes) + 1
          /\ \A n \in 1..Len(nodes) : ns[n] = nodes[n]
          /\ ns[Len(nodes) + 1] = FreshNode
      BY <3>1, <1>4, GrowOne
    <3> QED
      BY <3>1, <3>2, <1>4, <1>5 DEF Untouched
  <2> QED
    BY <2>1, <2>2
<1>7. nodes' = ns /\ Len(ns) \in Nat
  BY <1>3, <1>6 DEF CopyBegin, GraphOK
<1>8. visited' = {} /\ dfs_stack' = <<quant.sg_start>> /\ dfs_allocated' = dfs_allocated
       /\ dfs_map' = Insert(EmptyMap, quant.sg_start, new)
       /\ copy' = [active |-> TRUE, sg_start |-> quant.sg_start, sg_end |-> quant.sg_end,
                   new_start |-> new, new_end |-> NULL]
  BY <1>1, <1>3 DEF CopyBegin, CompileInv, CopiesInv
<1>9. PICK g : Numbered(g) /\ ns = g.ns /\ quant.sg_start = g.from /\ quant.sg_end = g.to
               /\ new = g.new
  <2>1. copy'.sg_start = quant.sg_start /\ copy'.sg_end = quant.sg_end /\ copy'.new_start = new
    BY <1>8
  <2> QED
    BY <2>1, <1>1, <1>7, <1>8 DEF CopiesNumbered
<1>10. CopyInv(g)'
  <2>1. Started(g)'
    BY <1>7, <1>8, <1>9 DEF Started
  <2> QED
    BY <2>1, <1>9, StartedInvNext
<1>11. ClearOf(g)'
  <2>1. groups' = groups
    BY <1>1 DEF scanVars
  <2> QED
    BY <2>1, <1>4, <1>5, <1>6, <1>7, <1>9 DEF ClearOf
<1> QED
  BY <1>6, <1>7, <1>9, <1>10, <1>11

LEMMA StepRepeatCopy ==
  ASSUME CompileInv, RepeatCopy, CopiesNumbered'
  PROVE  CompileInv'
<1>1. /\ pc = "repeat" /\ pc' = "copying" /\ UNCHANGED scanVars
      /\ quant' = [quant EXCEPT !.sg_start2 = IF Required THEN node ELSE New(1),
                                !.for = IF Required THEN "required"
                                        ELSE IF Unbounded THEN "unbounded" ELSE "bounded"]
  BY DEF RepeatCopy
<1>2. PICK ns, new : ns = nodes' /\ new = IF Required THEN node ELSE New(1)
  OBVIOUS
<1>3. PICK g : /\ Numbered(g) /\ CopyInv(g)' /\ ClearOf(g)'
  BY <1>2, GraphRepeatCopy
<1>4. Places /\ GraphOK(nodes) /\ Len(nodes) \in Nat /\ Counters /\ Reading
  BY <1>1, NotIdle
<1>5. CopyBegin(ns, quant.sg_start, quant.sg_end, new)
  BY <1>2 DEF RepeatCopy, CopyBegin
<1>6. Continues(ns, nodes) /\ GraphOK(ns) /\ Len(nodes) <= Len(ns) /\ new \in 1..Len(ns)
  BY <1>2, GraphRepeatCopy
<1>7. nodes' = ns /\ Len(ns) \in Nat
  BY <1>2, <1>6 DEF GraphOK
<1>8. Places'
  <2>1. UNCHANGED <<start, node, atom_start, or_end, groups>>
    BY <1>1 DEF scanVars
  <2>2. node' \in 1..Len(nodes') /\ or_end' \in 0..Len(nodes')
    BY <2>1, <1>4, <1>6, <1>7 DEF Places
  <2> QED
    BY <2>1, <2>2, <1>1, <1>6, <1>7, PlacesOn
<1>9. QuantOK'
  <2>1. PICK q : q = quant
    OBVIOUS
  <2>2. /\ q.min \in Int /\ q.max \in Int /\ q.greedy \in BOOLEAN /\ q.i \in Nat
        /\ q.sg_start \in 1..Len(ns) /\ q.sg_end \in 1..Len(ns)
        /\ q = [min |-> q.min, max |-> q.max, greedy |-> q.greedy, i |-> q.i,
                sg_start |-> q.sg_start, sg_end |-> q.sg_end,
                sg_start2 |-> q.sg_start2, for |-> q.for]
        /\ \A i \in 1..Len(groups) : groups[i].start # q.sg_end
    <3>1. /\ quant \in QuantType
          /\ quant.sg_start \in 1..Len(nodes) /\ quant.sg_end \in 1..Len(nodes)
          /\ \A i \in 1..Len(groups) : groups[i].start # quant.sg_end
      BY <1>1, Quant
    <3>2. quant.sg_start \in 1..Len(ns) /\ quant.sg_end \in 1..Len(ns)
      BY <3>1, <1>4, <1>6, <1>7
    <3> QED
      BY <2>1, <3>1, <3>2 DEF QuantType
  <2>3. PICK f \in {"required", "unbounded", "bounded"} :
          f = IF Required THEN "required" ELSE IF Unbounded THEN "unbounded" ELSE "bounded"
    OBVIOUS
  <2>4. quant' = [q EXCEPT !.sg_start2 = new, !.for = f]
    BY <1>1, <1>2, <2>1, <2>3
  <2>5. quant' = [min |-> q.min, max |-> q.max, greedy |-> q.greedy, i |-> q.i,
                  sg_start |-> q.sg_start, sg_end |-> q.sg_end, sg_start2 |-> new, for |-> f]
    BY <2>2, <2>4
  <2>6. new \in Nat /\ q.sg_start \in Nat /\ q.sg_end \in Nat
    BY <1>6, <1>7, <2>2
  <2>7. /\ quant' \in QuantType /\ quant'.sg_start = q.sg_start /\ quant'.sg_end = q.sg_end
        /\ quant'.sg_start2 = new /\ quant'.for # "none"
    BY <2>2, <2>3, <2>5, <2>6 DEF QuantType
  <2>8. groups' = groups
    BY <1>1 DEF scanVars
  <2> QED
    BY <1>1, <1>6, <1>7, <2>2, <2>7, <2>8 DEF QuantOK
<1>10. visited' = {} /\ dfs_stack' = <<quant.sg_start>> /\ dfs_allocated' = dfs_allocated
       /\ dfs_map' = Insert(EmptyMap, quant.sg_start, new)
       /\ copy' = [active |-> TRUE, sg_start |-> quant.sg_start, sg_end |-> quant.sg_end,
                   new_start |-> new, new_end |-> NULL]
  BY <1>1, <1>5 DEF CopyBegin, CompileInv, CopiesInv
<1>11. StackOK'
  <2>1. PICK a : a = quant.sg_start
    OBVIOUS
  <2>2. dfs_stack' = <<a>> /\ Len(<<a>>) = 1
    BY <2>1, <1>10
  <2>3. dfs_allocated \in Nat \ {0}
    BY DEF CompileInv, StackOK
  <2> QED
    BY <2>2, <2>3, <1>10 DEF StackOK
<1>12. CopiesInv'
  BY <1>1, <1>3 DEF CopiesInv
<1>13. Reading' /\ Counters'
  BY <1>1, <1>4 DEF Reading, Counters, scanVars
<1> QED
  BY <1>1, <1>6, <1>7, <1>8, <1>9, <1>11, <1>12, <1>13 DEF CompileInv

(* The map leads to nodes of the graph. *)
MapIn(map, k) == \A x \in DOMAIN map : map[x] \in 1..k
Known(seen, map) == seen \subseteq DOMAIN map

(* An edge is followed: the graph grows by at most one node, and so does   *)
(* the stack.                                                              *)
WorkIn(w, S) ==
  /\ w = [ns |-> w.ns, map |-> w.map, stack |-> w.stack, edge |-> w.edge]
  /\ GraphOK(w.ns) /\ MapIn(w.map, Len(w.ns)) /\ w.stack \in Seq(S)

LEMMA FollowGraph ==
  ASSUME NEW S, NEW w, WorkIn(w, S), NEW m \in S, NEW seen, Known(seen, w.map),
         NEW f, Follows(f, w, seen, m)
  PROVE  /\ WorkIn(f, S) /\ Known(seen, f.map)
         /\ Len(w.ns) <= Len(f.ns) /\ Len(f.stack) <= Len(w.stack) + 1
         /\ f.edge \in 1..Len(f.ns)
<1>0. PICK ns, map, s :
        /\ s \in Seq(S) /\ ns = w.ns /\ map = w.map /\ s = w.stack
        /\ GraphOK(ns) /\ MapIn(map, Len(ns)) /\ Known(seen, map)
  BY DEF WorkIn
<1>1. ns \in Seq(Node) /\ Len(ns) \in Nat /\ \A n \in 1..Len(ns) : NodeIn(ns[n], Len(ns))
  BY <1>0 DEF GraphOK
<1>2. w.ns = ns /\ w.map = map /\ w.stack = s /\ Len(s) \in Nat
  BY <1>0, LenProperties
<1>3. CASE m \in seen
  <2>1. PICK e2 : e2 = Lookup(map, m)
    OBVIOUS
  <2>2. f = [ns |-> ns, map |-> map, stack |-> s, edge |-> e2]
    BY <1>2, <1>3, <2>1 DEF Follows, Follow, WorkIn
  <2>3. e2 \in 1..Len(ns)
    BY <1>0, <1>1, <1>3, <2>1 DEF Lookup, MapIn, Known
  <2>4. Len(ns) <= Len(ns) /\ Len(s) <= Len(s) + 1
    BY <1>1, <1>2
  <2>5. /\ f = [ns |-> f.ns, map |-> f.map, stack |-> f.stack, edge |-> f.edge]
        /\ f.ns = ns /\ f.map = map /\ f.stack = s /\ f.edge = e2
    BY <2>2
  <2> QED
    BY <2>3, <2>4, <2>5, <1>0, <1>2 DEF WorkIn
<1>4. CASE m \notin seen
  <2>1. PICK v \in Nat : v = Len(ns) + 1
    BY <1>1
  <2>2. PICK ns2, map2, s2 : /\ Longer(ns2, ns, FreshNode) /\ Entered(map2, map, m, v)
                             /\ Longer(s2, s, m)
    BY DEF Longer, Entered
  <2>3. f = [ns |-> ns2, map |-> map2, stack |-> s2, edge |-> v]
    BY <1>2, <1>4, <2>1, <2>2 DEF Follows, Follow, Longer, Entered
  <2>4. /\ ns2 \in Seq(Node) /\ Len(ns2) = v
        /\ \A n \in 1..Len(ns) : ns2[n] = ns[n]
        /\ ns2[v] = FreshNode
    <3>1. FreshNode \in Node
      BY DEF FreshNode, Node, NodeType, NULL
    <3> QED
      BY <3>1, <1>1, <2>1, <2>2, AppendProperties DEF Longer
  <2>5. GraphOK(ns2)
    <3>1. ASSUME NEW n \in 1..Len(ns2) PROVE NodeIn(ns2[n], Len(ns2))
      <4>1. CASE n = v
        BY <4>1, <2>4, FreshIn
      <4>2. CASE n # v
        <5>1. n \in 1..Len(ns)
          BY <4>2, <1>1, <2>1, <2>4
        <5>2. NodeIn(ns[n], v)
          BY <5>1, <1>1, <2>1, Further
        <5> QED
          BY <5>1, <5>2, <2>4
      <4> QED
        BY <4>1, <4>2
    <3> QED
      BY <3>1, <2>4 DEF GraphOK
  <2>6. MapIn(map2, v) /\ Known(seen, map2)
    <3>1. DOMAIN map2 = DOMAIN map \cup {m}
          /\ \A x \in DOMAIN map2 : map2[x] = IF x = m THEN v ELSE map[x]
      BY <2>2 DEF Entered, Insert
    <3>2. v \in 1..v /\ 1..Len(ns) \subseteq 1..v
      BY <1>1, <2>1
    <3> QED
      BY <3>1, <3>2, <1>0 DEF MapIn, Known
  <2>7. s2 \in Seq(S) /\ Len(s2) = Len(s) + 1
    BY <1>0, <2>2, AppendProperties DEF Longer
  <2>8. Len(ns) <= v /\ v \in 1..v /\ Len(s2) <= Len(s) + 1
    BY <1>1, <1>2, <2>1, <2>7
  <2>9. /\ f = [ns |-> f.ns, map |-> f.map, stack |-> f.stack, edge |-> f.edge]
        /\ f.ns = ns2 /\ f.map = map2 /\ f.stack = s2 /\ f.edge = v
    BY <2>3
  <2> QED
    BY <2>4, <2>5, <2>6, <2>7, <2>8, <2>9, <1>2 DEF WorkIn
<1> QED
  BY <1>3, <1>4

LEMMA StackLess ==
  ASSUME NEW S, NEW s \in Seq(S), s # <<>>, NEW t, t = SubSeq(s, 1, Len(s) - 1)
  PROVE  t \in Seq(S) /\ Len(s) \in Nat \ {0} /\ Len(t) = Len(s) - 1 /\ s[Len(s)] \in S
<1>1. Len(s) \in Nat /\ Len(s) # 0
  BY LenProperties, EmptySeq
<1>2. PICK k \in 1..Len(s) : k = Len(s)
  BY <1>1
<1>3. t = SubSeq(s, 1, k - 1)
  BY <1>2
<1>4. t \in Seq(S) /\ Len(t) = k - 1
  BY <1>3, WithoutLast
<1>5. s[k] \in S
  BY ElementOfSeq
<1> QED
  BY <1>1, <1>2, <1>4, <1>5

LEMMA RoomEnough ==
  ASSUME NEW a \in Nat \ {0}, NEW k \in Nat, k < a, NEW m \in Nat, m <= k + 2,
         NEW b, b = IF k + 1 >= a THEN 2 * a ELSE a
  PROVE  b \in Nat \ {0} /\ m <= b
OBVIOUS

(* The graph and the stack grow as a turn of the search makes them grow. *)
LEMMA CopyGraph ==
  ASSUME NEW g, Numbered(g), CopyInv(g), CopyStep, GraphOK(nodes), StackOK
  PROVE  GraphOK(nodes') /\ Len(nodes) <= Len(nodes') /\ StackOK'
<1>1. Len(nodes) \in Nat /\ nodes \in Seq(Node) /\ \A n \in 1..Len(nodes) : NodeIn(nodes[n], Len(nodes))
  BY DEF GraphOK
<1>2. dfs_stack # <<>>
  BY DEF CopyStep, CopyReachEnd, CopyNode
<1>3. PICK t : t = Popped
  OBVIOUS
<1>4. dfs_stack \in Seq(g.R)
  BY DEF CopyInv, InTurn
<1>5. t \in Seq(g.R) /\ Len(dfs_stack) \in Nat \ {0} /\ Len(t) = Len(dfs_stack) - 1
  BY <1>2, <1>3, <1>4, StackLess DEF Popped
<1>6. PICK a \in Nat \ {0} : a = dfs_allocated /\ Len(dfs_stack) <= a
  BY DEF StackOK
<1>7. PICK k \in Nat : k = Len(t) /\ k < a
  BY <1>5, <1>6
<1>8. CASE CopyReachEnd
  <2>1. nodes' = nodes /\ dfs_stack' = t /\ dfs_allocated' = a
    BY <1>3, <1>6, <1>8 DEF CopyReachEnd
  <2>2. StackOK'
    BY <2>1, <1>6, <1>7 DEF StackOK
  <2> QED
    BY <2>1, <2>2, <1>1 DEF GraphOK
<1>9. CASE CopyNode
  <2>1. PICK n, t0, seen, start0, left, right : TurnOf(g, n, t0, seen, start0, left, right)
    BY <1>9, Turn
  <2>2. /\ n \in g.R \ {g.to} /\ n \in DOMAIN dfs_map /\ nodes[n] = g.ns[n]
        /\ g.ns[n].type \notin {"MATCH_END", "VISITED"}
        /\ start0 = [ns |-> nodes, map |-> dfs_map, stack |-> t, edge |-> NULL]
        /\ left = Follow(start0, seen, g.ns[n].next)
        /\ right = IF g.ns[n].type = "BRANCH" THEN Follow(left, seen, g.ns[n].u) ELSE left
        /\ nodes' = [right.ns EXCEPT ![dfs_map[n]] =
                       [g.ns[n] EXCEPT !.next = left.edge,
                                       !.u = IF g.ns[n].type = "BRANCH"
                                             THEN right.edge ELSE g.ns[n].u]]
        /\ dfs_stack' = right.stack
    BY <2>1, <1>3 DEF TurnOf
  <2>3. PICK nd \in Node : nd = g.ns[n]
    BY <2>2 DEF Numbered
  <2>4. nd.next \in g.R /\ (nd.type = "BRANCH" => nd.u \in g.R)
    BY <2>2, <2>3 DEF Numbered, Successors
  <2>5. PICK new \in 1..Len(nodes) : new = dfs_map[n]
    BY <2>2 DEF CopyInv, Apart
  <2>6. MapIn(dfs_map, Len(nodes))
    BY DEF MapIn, CopyInv, Apart
  <2>7. PICK m \in g.R : m = nd.next
    BY <2>4
  <2>8. Follows(left, start0, seen, m)
    BY <2>2, <2>3, <2>7 DEF Follows
  <2>9. /\ WorkIn(left, g.R) /\ Known(seen, left.map)
        /\ Len(nodes) <= Len(left.ns) /\ Len(left.stack) <= Len(t) + 1
        /\ left.edge \in 1..Len(left.ns)
    <3>1. Known(seen, dfs_map)
      BY <2>1, <2>2 DEF TurnOf, CopyInv, Mapped, Known
    <3>2. /\ start0.ns = nodes /\ start0.map = dfs_map /\ start0.stack = t
          /\ start0 = [ns |-> start0.ns, map |-> start0.map, stack |-> start0.stack,
                       edge |-> start0.edge]
      BY <2>2
    <3>3. WorkIn(start0, g.R)
      BY <3>2, <2>6, <1>5 DEF WorkIn
    <3> QED
      BY <3>1, <3>2, <3>3, <2>8, FollowGraph
  <2>10. PICK ns1, s1, e1 :
           /\ ns1 = left.ns /\ s1 = left.stack /\ e1 = left.edge /\ e1 \in 1..Len(ns1)
           /\ Len(ns1) \in Nat /\ Len(s1) \in Nat
           /\ Len(nodes) <= Len(ns1) /\ Len(s1) <= Len(t) + 1
    BY <2>9, LenProperties DEF WorkIn, GraphOK
  <2>11. /\ WorkIn(right, g.R) /\ Len(ns1) <= Len(right.ns) /\ Len(right.stack) <= Len(s1) + 1
         /\ nd.type = "BRANCH" => right.edge \in 1..Len(right.ns)
    <3>1. CASE nd.type = "BRANCH"
      <4>1. PICK u \in g.R : u = nd.u
        BY <3>1, <2>4
      <4>2. Follows(right, left, seen, u)
        BY <3>1, <4>1, <2>2, <2>3 DEF Follows
      <4> QED
        BY <4>2, <2>9, <2>10, FollowGraph
    <3>2. CASE nd.type # "BRANCH"
      <4>1. right = left
        BY <3>2, <2>2, <2>3
      <4> QED
        BY <3>2, <4>1, <2>9, <2>10
    <3> QED
      BY <3>1, <3>2
  <2>12. PICK ns2, s2, e2 :
           /\ ns2 = right.ns /\ s2 = right.stack /\ e2 = right.edge
           /\ GraphOK(ns2) /\ Len(ns2) \in Nat /\ Len(s2) \in Nat
           /\ Len(ns1) <= Len(ns2) /\ Len(s2) <= Len(s1) + 1
           /\ nd.type = "BRANCH" => e2 \in 1..Len(ns2)
    BY <2>11, LenProperties DEF WorkIn, GraphOK
  <2>13. PICK u \in Int : /\ u = IF nd.type = "BRANCH" THEN e2 ELSE nd.u
                          /\ nd.type = "BRANCH" => u \in 1..Len(ns2)
                          /\ nd.type = "CHAR_CLASS" => u \in DOMAIN Classes
    <3>1. nd.u \in Int /\ (nd.type = "CHAR_CLASS" => nd.u \in DOMAIN Classes)
      <4>1. n \in 1..Len(nodes)
        <5>0. n \in g.R
          BY <2>2
        <5>1. n \in DOMAIN g.ns /\ DOMAIN g.ns = 1..Len(g.ns) /\ Len(g.ns) \in Nat
          BY <5>0 DEF Numbered
        <5>2. Len(g.ns) <= Len(nodes)
          BY DEF CopyInv, Apart
        <5> QED
          BY <5>1, <5>2, <1>1
      <4> QED
        BY <4>1, <2>2, <2>3, <1>1 DEF Node, NodeIn
    <3>2. CASE nd.type = "BRANCH"
      BY <3>2, <2>12
    <3>3. CASE nd.type # "BRANCH"
      BY <3>1, <3>3
    <3> QED
      BY <3>2, <3>3
  <2>14. e1 \in 0..Len(ns2) /\ new \in 1..Len(ns2) /\ Len(nodes) <= Len(ns2)
    BY <1>1, <2>5, <2>10, <2>12
  <2>15. PICK nd2 : nd2 = [nd EXCEPT !.next = e1, !.u = u]
    OBVIOUS
  <2>16. NodeIn(nd2, Len(ns2))
    <3>1. e1 \in Nat
      BY <2>14, <2>12
    <3>2. nd2 = [type |-> nd.type, next |-> e1, u |-> u] /\ nd.type \in NodeType
      BY <2>15 DEF Node
    <3>3. nd.type # "VISITED"
      BY <2>2, <2>3 DEF Numbered
    <3> QED
      BY <3>1, <3>2, <3>3, <2>13, <2>14 DEF NodeIn, Node
  <2>17. Rewritten(nodes', ns2, new, nd2)
    BY <2>2, <2>3, <2>5, <2>10, <2>12, <2>13, <2>15 DEF Rewritten
  <2>18. GraphOK(nodes') /\ Len(nodes') = Len(ns2)
    BY <2>12, <2>14, <2>16, <2>17, WriteNode
  <2>19. StackOK'
    <3>1. dfs_allocated' = IF k + 1 >= a THEN 2 * a ELSE a
      BY <1>3, <1>6, <1>7, <1>9 DEF CopyNode, RoomForTwo
    <3>2. Len(dfs_stack') = Len(s2)
      BY <2>2, <2>12
    <3>3. Len(s2) <= k + 2
      BY <2>10, <2>12, <1>7
    <3>4. PICK b : b = dfs_allocated'
      OBVIOUS
    <3>5. PICK c \in Nat : c = Len(s2)
      BY <2>12
    <3>6. b \in Nat \ {0} /\ c <= b
      BY <1>7, <3>1, <3>3, <3>4, <3>5, RoomEnough
    <3> QED
      BY <3>2, <3>4, <3>5, <3>6 DEF StackOK
  <2> QED
    BY <2>14, <2>18, <2>19
<1> QED
  BY <1>8, <1>9 DEF CopyStep

LEMMA StepCopying ==
  ASSUME CompileInv, Copying
  PROVE  CompileInv'
<1>1. pc = "copying" /\ pc' = "copying" /\ CopyStep /\ UNCHANGED <<scanVars, quant>>
  BY DEF Copying
<1>2. UNCHANGED <<start, node, atom_start, or_end, groups>>
  BY <1>1 DEF scanVars
<1>3. PICK g : Numbered(g) /\ CopyInv(g) /\ ClearOf(g)
  BY <1>1 DEF CompileInv, CopiesInv
<1>4. Places /\ GraphOK(nodes) /\ Len(nodes) \in Nat /\ Counters /\ Reading /\ StackOK
  BY <1>1, NotIdle DEF CompileInv
<1>5. GraphOK(nodes') /\ Len(nodes) <= Len(nodes') /\ StackOK' /\ Len(nodes') \in Nat
  BY <1>1, <1>3, <1>4, CopyGraph DEF GraphOK
<1>6. CopyInv(g)'
  BY <1>1, <1>3, StepInv
<1>7. CopiesInv'
  <2>1. ClearOf(g)'
    BY <1>2, <1>3 DEF ClearOf
  <2> QED
    BY <2>1, <1>1, <1>3, <1>6 DEF CopiesInv
<1>8. Places'
  <2>1. node' \in 1..Len(nodes') /\ atom_start' \in 0..Len(nodes') /\ or_end' \in 0..Len(nodes')
    BY <1>2, <1>4, <1>5 DEF Places
  <2>2. ASSUME NEW i \in 1..Len(groups)
        PROVE  nodes'[groups[i].start].next # NULL /\ groups[i].start \notin {node', atom_start'}
    <3>1. PICK s : s = groups[i].start /\ s \in 1..Len(g.ns) \ {g.new}
      BY <1>3 DEF ClearOf
    <3>2. nodes[s].next # NULL /\ s \notin {node, atom_start}
      BY <3>1, <1>4 DEF Places
    <3>3. s \in DOMAIN g.ns \ {g.new}
      BY <3>1, <1>3 DEF Numbered
    <3>4. nodes[s] = g.ns[s] /\ nodes'[s] = g.ns[s]
      BY <3>3, <1>3, <1>6 DEF CopyInv, Apart
    <3> QED
      BY <3>1, <3>2, <3>4, <1>2
  <2> QED
    BY <2>1, <2>2, <1>2, <1>4, <1>5, PlacesKept
<1>9. QuantOK'
  <2>1. /\ quant \in QuantType
        /\ quant.sg_start \in 1..Len(nodes') /\ quant.sg_end \in 1..Len(nodes')
        /\ quant.sg_start2 \in 1..Len(nodes') /\ quant.for # "none"
        /\ \A i \in 1..Len(groups) : groups[i].start # quant.sg_end
    <3>1. 1..Len(nodes) \subseteq 1..Len(nodes')
      BY <1>4, <1>5
    <3> QED
      BY <3>1, <1>1, Quant
  <2> QED
    BY <2>1, <1>1, <1>2 DEF QuantOK
<1>10. Reading' /\ Counters'
  BY <1>1, <1>4 DEF Reading, Counters, scanVars
<1> QED
  BY <1>1, <1>5, <1>7, <1>8, <1>9, <1>10 DEF CompileInv

LEMMA StepCopyReturn ==
  ASSUME CompileInv, CopyReturn
  PROVE  CompileInv'
<1>1. /\ pc = "copying" /\ CopyDone /\ visited' = Unmarked /\ dfs_map' = EmptyMap /\ copy' = NoCopy
      /\ UNCHANGED <<dfs_stack, dfs_allocated, regexp, rpos, endValue, start, atom_start, or_end,
                     groups, cap_count, rx_cap_count, ignorecase>>
  BY DEF CopyReturn
<1>2. PICK g : Numbered(g) /\ CopyInv(g) /\ ClearOf(g)
  BY <1>1 DEF CompileInv, CopiesInv
<1>3. CopyFaithful
  BY <1>2, InvFaithful
<1>4. Unmarked = {} /\ copy.sg_end = g.to /\ g.to \in DOMAIN dfs_map /\ dfs_map[g.to] = copy.new_end
  <2>1. copy.sg_end = g.to
    BY <1>2 DEF CopyInv
  <2> QED
    BY <2>1, <1>1, <1>3 DEF CopyFaithful
<1>5. Places /\ GraphOK(nodes) /\ Len(nodes) \in Nat /\ Counters /\ Reading
  BY <1>1, NotIdle
<1>6. PICK last \in 1..Len(nodes) : last = copy.new_end
  BY <1>2, <1>4 DEF CopyInv, Apart
<1>7. ASSUME NEW i \in 1..Len(groups) PROVE groups[i].start # last
  <2>1. groups[i].start \in 1..Len(g.ns) \ {g.new}
    BY <1>2 DEF ClearOf
  <2>2. last = g.new \/ last > Len(g.ns)
    BY <1>2, <1>4, <1>6 DEF CopyInv, Apart
  <2>3. Len(g.ns) \in Nat
    BY <1>2 DEF Numbered
  <2> QED
    BY <2>1, <2>2, <2>3, <1>5
<1>8. PICK first \in 1..Len(nodes) : first = quant.sg_start2
  BY <1>1, Quant
<1>9. /\ quant \in QuantType /\ quant.greedy \in BOOLEAN
      /\ quant.for \in {"required", "unbounded", "bounded"}
      /\ quant.sg_start \in 1..Len(nodes) /\ quant.sg_end \in 1..Len(nodes)
      /\ \A i \in 1..Len(groups) : groups[i].start # quant.sg_end
  <2>1. quant \in QuantType /\ quant.for # "none"
    BY <1>1, Quant
  <2>2. quant.greedy \in BOOLEAN /\ quant.for \in {"required", "unbounded", "bounded"}
    BY <2>1 DEF QuantType
  <2> QED
    BY <2>1, <2>2, <1>1, Quant
<1>10. Reading' /\ Counters'
  BY <1>1, <1>5 DEF Reading, Counters
<1>11. StackOK'
  BY <1>1 DEF CompileInv, StackOK
<1>12. pc' # "copying" => CopiesInv'
  <2>1. dfs_stack' = <<>> /\ visited' = {} /\ ~copy'.active
    BY <1>1, <1>4 DEF CopyDone, NoCopy
  <2> QED
    BY <2>1, <1>1 DEF CopiesInv
<1>13. CASE quant.for = "required"
  <2>1. /\ node' = last /\ nodes' = nodes /\ pc' = "repeat"
        /\ quant' = [quant EXCEPT !.i = @ + 1, !.for = "none", !.sg_start2 = NULL]
    BY <1>6, <1>13 DEF CopyReturn
  <2>2. quant' \in QuantType /\ quant'.sg_start = quant.sg_start /\ quant'.sg_end = quant.sg_end
    BY <2>1, <1>9, NextTurn
  <2>3. QuantOK'
    BY <2>1, <2>2, <1>1, <1>9 DEF QuantOK
  <2>4. Places'
    <3>1. \A i \in 1..Len(groups) : /\ nodes'[groups[i].start].next # NULL
                                   /\ groups[i].start \notin {node', atom_start'}
      BY <2>1, <1>1, <1>5, <1>7 DEF Places
    <3>2. /\ Len(nodes) <= Len(nodes') /\ node' \in 1..Len(nodes')
          /\ atom_start' \in 0..Len(nodes') /\ or_end' \in 0..Len(nodes') /\ GraphOK(nodes')
      BY <2>1, <1>1, <1>5 DEF Places
    <3> QED
      BY <3>1, <3>2, <1>1, <1>5, PlacesKept
  <2>5. GraphOK(nodes')
    BY <2>1, <1>5
  <2> QED
    BY <2>1, <2>3, <2>4, <2>5, <1>10, <1>11, <1>12 DEF CompileInv
<1>14. CASE quant.for = "unbounded"
  <2>1. LinkUnbounded(first, last)
    BY <1>6, <1>8, <1>14 DEF CopyReturn
  <2>2. pc' = "scan" /\ quant' = NoQuant
    BY <2>1 DEF LinkUnbounded
  <2>3. GraphOK(nodes') /\ Places'
    BY <2>1, <1>1, <1>5, <1>9, LinkedLoop
  <2>4. QuantOK'
    BY <2>2 DEF QuantOK
  <2> QED
    BY <2>2, <2>3, <2>4, <1>10, <1>11, <1>12 DEF CompileInv
<1>15. CASE quant.for = "bounded"
  <2>1. LinkBounded(first, last)
    BY <1>6, <1>8, <1>15 DEF CopyReturn
  <2>2. pc' = "repeat"
        /\ quant' = [quant EXCEPT !.i = @ + 1, !.for = "none", !.sg_start2 = NULL]
    BY <2>1 DEF LinkBounded
  <2>3. GraphOK(nodes') /\ Places' /\ Len(nodes') = Len(nodes)
    BY <2>1, <1>1, <1>5, <1>7, <1>9, LinkedOn
  <2>4. quant' \in QuantType /\ quant'.sg_start = quant.sg_start /\ quant'.sg_end = quant.sg_end
    BY <2>2, <1>9, NextTurn
  <2>5. QuantOK'
    BY <2>2, <2>3, <2>4, <1>1, <1>9 DEF QuantOK
  <2> QED
    BY <2>2, <2>3, <2>5, <1>10, <1>11, <1>12 DEF CompileInv
<1> QED
  BY <1>9, <1>13, <1>14, <1>15

LEMMA StepPartialFree ==
  ASSUME CompileInv, PartialFree
  PROVE  CompileInv'
<1>1. /\ pc \in {"done", "error"} /\ pc' = "idle"
      /\ nodes' = <<>> /\ visited' = {} /\ regexp' = <<>> /\ rpos' = 1 /\ endValue' = 0
      /\ start' = NULL /\ node' = NULL /\ atom_start' = NULL /\ or_end' = NULL /\ groups' = <<>>
      /\ cap_count' = 0 /\ rx_cap_count' = 0 /\ ignorecase' = FALSE
      /\ UNCHANGED <<dfs_stack, dfs_allocated, dfs_map, copy, quant>>
  BY DEF PartialFree
<1>2. GraphOK(nodes')
  BY <1>1 DEF GraphOK
<1>3. Cleared'
  BY <1>1 DEF Cleared
<1>4. Reading'
  BY <1>1 DEF Reading
<1>5. Counters'
  <2>1. 0 \in Nat /\ 0 \in Int
    OBVIOUS
  <2>2. cap_count' = 0 /\ rx_cap_count' = 0 /\ ignorecase' = FALSE /\ endValue' = 0
    BY <1>1
  <2> QED
    BY <2>1, <2>2 DEF Counters
<1>6. QuantOK' /\ StackOK'
  BY <1>1 DEF CompileInv, QuantOK, StackOK
<1>7. CopiesInv'
  BY <1>1 DEF CompileInv, CopiesInv
<1> QED
  BY <1>1, <1>2, <1>3, <1>4, <1>5, <1>6, <1>7 DEF CompileInv

LEMMA InitInv ==
  ASSUME CompileInit
  PROVE  CompileInv
<1>1. /\ nodes = <<>> /\ visited = {} /\ dfs_stack = <<>> /\ dfs_allocated = DfsAllocated
      /\ dfs_map = EmptyMap /\ copy = NoCopy
      /\ regexp = <<>> /\ rpos = 1 /\ endValue = 0
      /\ start = NULL /\ node = NULL /\ atom_start = NULL /\ or_end = NULL
      /\ groups = <<>> /\ cap_count = 0 /\ rx_cap_count = 0 /\ ignorecase = FALSE
      /\ quant = NoQuant /\ pc = "idle"
  BY DEF CompileInit, CopyInit
<1>2. GraphOK(nodes)
  BY <1>1 DEF GraphOK
<1>3. Cleared
  BY <1>1 DEF Cleared
<1>4. Reading
  BY <1>1 DEF Reading
<1>5. Counters
  <2>1. 0 \in Nat /\ 0 \in Int
    OBVIOUS
  <2>2. cap_count = 0 /\ rx_cap_count = 0 /\ ignorecase = FALSE /\ endValue = 0
    BY <1>1
  <2> QED
    BY <2>1, <2>2 DEF Counters
<1>6. QuantOK
  BY <1>1 DEF QuantOK
<1>7. StackOK
  <2>1. Len(dfs_stack) = 0 /\ dfs_allocated \in Nat \ {0}
    BY <1>1, DfsAllocatedAssumption
  <2> QED
    BY <2>1 DEF StackOK
<1>8. CopiesInv
  BY <1>1 DEF CopiesInv, NoCopy
<1> QED
  BY <1>1, <1>2, <1>3, <1>4, <1>5, <1>6, <1>7, <1>8 DEF CompileInv

LEMMA StutterInv ==
  ASSUME CompileInv, UNCHANGED compileVars
  PROVE  CompileInv'
<1>1. UNCHANGED <<nodes, visited, dfs_stack, dfs_allocated, dfs_map, copy, regexp, rpos, endValue,
                  start, node, atom_start, or_end, groups, cap_count, rx_cap_count, ignorecase,
                  quant, pc>>
  BY DEF compileVars, dfsVars
<1>2. GraphOK(nodes') /\ Reading' /\ Counters'
  BY <1>1 DEF CompileInv, Reading, Counters
<1>3. Cleared = Cleared' /\ Places = Places'
  BY <1>1 DEF Cleared, Places
<1>4. QuantOK' /\ StackOK'
  BY <1>1 DEF CompileInv, QuantOK, StackOK
<1>5. CopiesInv'
  <2>1. CASE pc # "copying"
    BY <2>1, <1>1 DEF CompileInv, CopiesInv
  <2>2. CASE pc = "copying"
    <3>1. PICK g : Numbered(g) /\ CopyInv(g) /\ ClearOf(g)
      BY <2>2 DEF CompileInv, CopiesInv
    <3>2. UNCHANGED copyVars
      BY <1>1 DEF copyVars, dfsVars
    <3>3. CopyInv(g)'
      BY <3>1, <3>2, StepInv
    <3>4. ClearOf(g)'
      BY <3>1, <1>1 DEF ClearOf
    <3> QED
      BY <3>1, <3>3, <3>4, <2>2, <1>1 DEF CopiesInv
  <2> QED
    BY <2>1, <2>2
<1> QED
  BY <1>1, <1>2, <1>3, <1>4, <1>5 DEF CompileInv

LEMMA StepCompile ==
  ASSUME CompileInv, [CompileNext]_compileVars, CopiesNumbered'
  PROVE  CompileInv'
<1>1. CASE UNCHANGED compileVars
  BY <1>1, StutterInv
<1>2. CASE \E text \in Texts : RxInit(text)
  BY <1>2, StepRxInit
<1>3. CASE PartialFree
  BY <1>3, StepPartialFree
<1>4. CASE CompileStep
  BY <1>4, StepOpenGroup, StepCloseGroup, StepAlternative, StepStar, StepPlus, StepOptional,
     StepAddAtom, StepAddAssertion, StepIgnoreCase, StepRxError, StepFinish, StepRepeat,
     StepRepeatCopy, StepRepeatFirst, StepRepeatEnd, StepCopying, StepCopyReturn
  DEF CompileStep
<1> QED
  BY <1>1, <1>2, <1>3, <1>4 DEF CompileNext

-----------------------------------------------------------------------------
(* What the invariant says of a state. *)

LEMMA InvType ==
  ASSUME CompileInv
  PROVE  CompileTypeOK
<1>1. /\ nodes \in Seq(Node) /\ Len(nodes) \in Nat /\ DOMAIN nodes = 1..Len(nodes)
      /\ \A n \in 1..Len(nodes) : NodeIn(nodes[n], Len(nodes))
  BY DEF CompileInv, GraphOK
<1>2. NodeIndex = 0..Len(nodes) /\ 1..Len(nodes) \subseteq NodeIndex
  BY <1>1 DEF NodeIndex, NULL
<1>3. \A n \in DOMAIN nodes : Successors(nodes[n]) \subseteq NodeIndex
  BY <1>1, <1>2 DEF NodeIn, Successors
<1>4. {start, node, atom_start, or_end} \subseteq NodeIndex
      /\ groups \in Seq([start : DOMAIN nodes, or_end : NodeIndex])
  <2>1. CASE pc = "idle"
    <3>1. Cleared
      BY <2>1 DEF CompileInv
    <3>2. NULL \in NodeIndex
      BY DEF NodeIndex
    <3>3. groups \in Seq([start : DOMAIN nodes, or_end : NodeIndex])
      BY <3>1 DEF Cleared
    <3> QED
      BY <3>1, <3>2, <3>3 DEF Cleared
  <2>2. CASE pc # "idle"
    <3>1. Places
      BY <2>2, NotIdle
    <3>2. start \in 0..Len(nodes)
      BY <3>1, <1>1 DEF Places
    <3> QED
      BY <3>1, <3>2, <1>1, <1>2 DEF Places
  <2> QED
    BY <2>1, <2>2
<1>5. /\ visited \subseteq DOMAIN nodes
      /\ dfs_stack \in Seq(DOMAIN dfs_map)
      /\ DOMAIN dfs_map \subseteq DOMAIN nodes
      /\ \A n \in DOMAIN dfs_map : dfs_map[n] \in DOMAIN nodes
  <2>1. CASE pc # "copying"
    BY <2>1 DEF CompileInv, CopiesInv, EmptyMap
  <2>2. CASE pc = "copying"
    <3>1. PICK g : Numbered(g) /\ CopyInv(g)
      BY <2>2 DEF CompileInv, CopiesInv
    <3>2. Apart(g, nodes, dfs_map) /\ Mapped(dfs_map, dfs_stack, visited)
          /\ dfs_stack \in Seq(g.R)
      BY <3>1 DEF CopyInv, InTurn
    <3>3. g.R \subseteq DOMAIN nodes
      <4>1. g.R \subseteq 1..Len(g.ns) /\ Len(g.ns) \in Nat
        BY <3>1 DEF Numbered
      <4>2. Len(g.ns) <= Len(nodes)
        BY <3>2 DEF Apart
      <4> QED
        BY <4>1, <4>2, <1>1
    <3>4. DOMAIN dfs_map \subseteq g.R /\ \A n \in DOMAIN dfs_map : dfs_map[n] \in 1..Len(nodes)
      BY <3>2 DEF Apart
    <3>5. visited \subseteq DOMAIN dfs_map
          /\ \A i \in 1..Len(dfs_stack) : dfs_stack[i] \in DOMAIN dfs_map
      BY <3>2 DEF Mapped, OnStack
    <3>6. dfs_stack \in Seq(DOMAIN dfs_map)
      <4>1. dfs_stack = [i \in 1..Len(dfs_stack) |-> dfs_stack[i]] /\ Len(dfs_stack) \in Nat
        BY <3>2, LenProperties
      <4> QED
        BY <4>1, <3>5
    <3> QED
      BY <3>3, <3>4, <3>5, <3>6, <1>1
  <2> QED
    BY <2>1, <2>2
<1>6. pc # "idle" => start = 1 /\ node # NULL /\ regexp \in Texts
  <2>1. pc # "idle" => Places /\ Reading
    BY NotIdle
  <2> QED
    BY <2>1, <1>1 DEF Places, Reading, NULL
<1>7. quant.i \in Nat /\ quant.sg_start \in NodeIndex /\ quant.sg_end \in NodeIndex
  <2>1. CASE pc \in {"repeat", "copying"}
    <3>1. quant \in QuantType /\ quant.sg_start \in 1..Len(nodes) /\ quant.sg_end \in 1..Len(nodes)
      BY <2>1, Quant
    <3>2. quant.i \in Nat
      BY <3>1 DEF QuantType
    <3> QED
      BY <3>1, <3>2, <1>2
  <2>2. CASE pc \notin {"repeat", "copying"}
    <3>1. quant = NoQuant
      BY <2>2 DEF CompileInv, QuantOK
    <3> QED
      BY <3>1 DEF NoQuant, NodeIndex
  <2> QED
    BY <2>1, <2>2
<1>8. Len(dfs_stack) <= dfs_allocated /\ rpos \in 1..(Len(regexp) + 1)
      /\ cap_count \in Nat /\ rx_cap_count \in Nat /\ ignorecase \in BOOLEAN
  BY DEF CompileInv, StackOK, Reading, Counters
<1>9. pc \in {"idle", "scan", "repeat", "copying", "done", "error"}
  BY DEF CompileInv
<1> QED
  BY <1>1, <1>3, <1>4, <1>5, <1>6, <1>7, <1>8, <1>9, Zenon DEF CompileTypeOK

LEMMA InvCopy ==
  ASSUME CompileInv
  PROVE  CopyFaithful
<1>1. CASE pc = "copying"
  BY <1>1, InvFaithful DEF CompileInv, CopiesInv
<1>2. CASE pc # "copying"
  BY <1>2 DEF CompileInv, CopiesInv, CopyFaithful, CopyDone
<1> QED
  BY <1>1, <1>2

-----------------------------------------------------------------------------
(* Open ends.  A text is plain when none of its groups, nor the text       *)
(* itself, begins with an empty alternative, and no quantifier has         *)
(* max = 0: in the others an edge the code never sets may be left.         *)

(* The position p of a text is where an alternative starts, or only \c     *)
(* comes before it there: nothing has been added to the graph since.       *)
Opening(text, p) ==
  \/ p = 1 \/ text[p - 1] = "("
  \/ p > 3 /\ text[p - 1] = ":" /\ text[p - 2] = "?" /\ text[p - 3] = "("

EmptyAt(text, p) ==
  \E q \in 1..p : Opening(text, q) /\ \A r \in q..(p - 1) : text[r] = "\\c"

(* No group, nor the text itself, begins with an empty alternative, and no *)
(* quantifier has max = 0.                                                 *)
Plain(text) ==
  \A p \in 1..Len(text) :
    /\ text[p] = "|" => ~EmptyAt(text, p)
    /\ text[p] \in DOMAIN Counts => Counts[text[p]].max = -1 \/ Counts[text[p]].max > 0

(* The invariant of a graph in which every first edge is set but those of  *)
(* the open ends.                                                          *)
OpenOnly(ns, S) == \A n \in 1..Len(ns) : ns[n].next = NULL => n \in S

Starts == {groups[i].start : i \in 1..Len(groups)}
OrEnds == {or_end} \cup {groups[i].or_end : i \in 1..Len(groups)}

(* The first node of the alternatives of the group i; of the text, for 0. *)
First(ns, i) == IF i = 0 THEN start ELSE ns[groups[i].start].next

(* Where alternatives meet is not where the graph is written next, and no  *)
(* group starts at the first node of a group inside of it.                 *)
PlacesApart(ns) ==
  /\ \A e \in OrEnds : e # NULL => e \notin {node, atom_start} \cup Starts
  /\ \A i \in 0..Len(groups), j \in 1..Len(groups) : First(ns, i) = groups[j].start => i < j

InScan ==
  /\ PlacesApart(nodes) /\ OpenOnly(nodes, OpenEnds)
  /\ atom_start # NULL => atom_start # node /\ nodes[atom_start].next # NULL
  /\ \A i \in 0..Len(groups) :
       nodes[First(nodes, i)].next = NULL =>
         i = Len(groups) /\ atom_start = NULL /\ First(nodes, i) = node /\ EmptyAt(regexp, rpos)

(* The quantifier that is applied, in a loop and in a copy.                *)
QuantApart ==
  /\ atom_start # NULL /\ quant.sg_end # atom_start /\ quant.sg_start # quant.sg_end
  /\ quant.sg_end \notin OrEnds
  /\ quant.max = -1 \/ quant.max > 0

InRepeat ==
  /\ PlacesApart(nodes) /\ QuantApart
  /\ OpenOnly(nodes, OpenEnds \cup (IF quant.i = 0 THEN {quant.sg_end} ELSE {}))
  /\ IF quant.i = 0 THEN node = atom_start
     ELSE node # atom_start /\ nodes[atom_start].next # NULL
  /\ \A i \in 0..Len(groups) :
       nodes[First(nodes, i)].next = NULL => quant.i = 0 /\ First(nodes, i) = node

(* A copy is made: all of it is about the graph at the call.               *)
InCopy(g) ==
  /\ PlacesApart(g.ns) /\ QuantApart /\ quant.i > 0
  /\ OpenOnly(g.ns, OpenEnds \cup {g.new})
  /\ g.from # g.to /\ (quant.for = "required" => g.new = node)
  /\ node \in 1..Len(g.ns) /\ atom_start \in 1..Len(g.ns) /\ node # atom_start
  /\ OrEnds \subseteq 0..Len(g.ns)
  /\ g.ns[atom_start].next # NULL
  /\ \A i \in 0..Len(groups) : First(g.ns, i) \in 1..Len(g.ns)
                              /\ g.ns[First(g.ns, i)].next # NULL

Ended == \A n \in 1..Len(nodes) : nodes[n].next = NULL => nodes[n].type = "MATCH_END"

OpenInv ==
  /\ pc = "scan" => InScan
  /\ pc = "repeat" => InRepeat
  /\ pc = "copying" => \E g : Numbered(g) /\ CopyInv(g) /\ ClearOf(g) /\ InCopy(g)
  /\ pc = "done" => Ended

-----------------------------------------------------------------------------
LEMMA FirstIn ==
  ASSUME Places, GraphOK(nodes), NEW i \in 0..Len(groups)
  PROVE  First(nodes, i) \in 1..Len(nodes)
<1>1. Len(nodes) \in Nat /\ \A n \in 1..Len(nodes) : NodeIn(nodes[n], Len(nodes))
  BY DEF GraphOK
<1>2. CASE i = 0
  BY <1>1, <1>2 DEF First, Places
<1>3. CASE i # 0
  <2>1. i \in 1..Len(groups) /\ Len(groups) \in Nat
    BY <1>3, GroupsIn
  <2>2. PICK s \in 1..Len(nodes) : s = groups[i].start
    BY <2>1, GroupsIn
  <2>3. nodes[s].next # NULL
    BY <2>1, <2>2 DEF Places
  <2>4. nodes[s].next \in 0..Len(nodes)
    BY <1>1 DEF NodeIn
  <2> QED
    BY <1>1, <1>3, <2>2, <2>3, <2>4 DEF First, NULL
<1> QED
  BY <1>2, <1>3

(* The first nodes stay where they are when no start of a group is written. *)
LEMMA SameFirst ==
  ASSUME Places, UNCHANGED <<start, groups>>, NEW W, Untouched(nodes', nodes, W),
         \A j \in 1..Len(groups) : groups[j].start \notin W,
         NEW i \in 0..Len(groups)
  PROVE  First(nodes, i)' = First(nodes, i)
<1>1. CASE i = 0
  BY <1>1 DEF First
<1>2. CASE i # 0
  <2>1. i \in 1..Len(groups)
    BY <1>2, GroupsIn
  <2>2. PICK s \in 1..Len(nodes) : s = groups[i].start /\ s \notin W
    BY <2>1, GroupsIn
  <2>3. nodes'[s] = nodes[s]
    BY <2>2 DEF Untouched
  <2> QED
    BY <1>2, <2>2, <2>3 DEF First
<1> QED
  BY <1>1, <1>2

LEMMA EndsIn ==
  ASSUME Places
  PROVE  /\ OpenEnds = {node} \cup OrEnds /\ OrEnds \subseteq 0..Len(nodes)
         /\ Starts \subseteq 1..Len(nodes)
<1>1. groups \in Seq([start : 1..Len(nodes), or_end : 0..Len(nodes)])
      /\ or_end \in 0..Len(nodes)
  BY DEF Places
<1>2. DOMAIN groups = 1..Len(groups)
  BY <1>1
<1>3. \A i \in 1..Len(groups) : groups[i].start \in 1..Len(nodes) /\ groups[i].or_end \in 0..Len(nodes)
  BY GroupsIn
<1> QED
  BY <1>1, <1>2, <1>3 DEF OpenEnds, OrEnds, Starts

LEMMA StillApart ==
  ASSUME Places, PlacesApart(nodes), UNCHANGED <<start, groups, or_end>>,
         \A i \in 0..Len(groups) : First(nodes, i)' = First(nodes, i),
         \A e \in OrEnds : e # NULL => e \notin {node', atom_start'}
  PROVE  PlacesApart(nodes)'
<1>1. OrEnds' = OrEnds /\ Starts' = Starts
  BY DEF OrEnds, Starts
<1>2. \A e \in OrEnds : e # NULL => e \notin {node', atom_start'} \cup Starts
  BY DEF PlacesApart
<1>3. \A i \in 0..Len(groups), j \in 1..Len(groups) :
        First(nodes, i)' = groups[j].start => i < j
  BY DEF PlacesApart
<1> QED
  BY <1>1, <1>2, <1>3 DEF PlacesApart

(* A symbol that leads the open end on to new nodes. *)
LEMMA Onward ==
  ASSUME CompileInv, InScan, pc = "scan", UNCHANGED <<start, groups, or_end>>,
         Continues(nodes', nodes), Untouched(nodes', nodes, {node, atom_start}),
         node' \in 1..Len(nodes'), node' > Len(nodes), nodes'[node].next # NULL,
         \A n \in 1..Len(nodes') : n > Len(nodes) /\ n # node' => nodes'[n].next # NULL,
         atom_start' \in {atom_start, node}
  PROVE  InScan'
<1>1. Places /\ GraphOK(nodes) /\ Len(nodes) \in Nat /\ node \in 1..Len(nodes)
      /\ atom_start \in 0..Len(nodes)
  BY NotIdle DEF Places
<1>2. \A i \in 0..Len(groups) : First(nodes, i)' = First(nodes, i)
  <2>1. \A j \in 1..Len(groups) : groups[j].start \notin {node, atom_start}
    BY <1>1 DEF Places
  <2> QED
    BY <2>1, <1>1, SameFirst
<1>3. OpenEnds = {node} \cup OrEnds /\ OrEnds \subseteq 0..Len(nodes)
  BY <1>1, EndsIn
<1>4. OpenEnds' = {node'} \cup OrEnds
  <2>1. DOMAIN groups = 1..Len(groups)
    BY <1>1 DEF Places
  <2> QED
    BY <2>1 DEF OpenEnds, OrEnds
<1>5. PlacesApart(nodes)'
  <2>1. \A e \in OrEnds : e # NULL => e \notin {node, atom_start}
    BY DEF InScan, PlacesApart
  <2>2. \A e \in OrEnds : e # node'
    BY <1>1, <1>3
  <2>3. PlacesApart(nodes)
    BY DEF InScan
  <2> QED
    BY <2>1, <2>2, <2>3, <1>1, <1>2, StillApart
<1>6. OpenOnly(nodes', OpenEnds')
  <2> SUFFICES ASSUME NEW n \in 1..Len(nodes'), nodes'[n].next = NULL
               PROVE  n \in OpenEnds'
    BY DEF OpenOnly
  <2>1. CASE n \in 1..Len(nodes)
    <3>1. nodes[n].next = NULL
      BY <2>1 DEF Continues
    <3>2. n \in OpenEnds /\ n # node
      BY <2>1, <3>1 DEF InScan, OpenOnly
    <3> QED
      BY <3>2, <1>3, <1>4
  <2>2. CASE n \notin 1..Len(nodes)
    <3>1. n > Len(nodes)
      BY <2>2, <1>1
    <3> QED
      BY <3>1, <1>4
  <2> QED
    BY <2>1, <2>2
<1>7. atom_start' # NULL => atom_start' # node' /\ nodes'[atom_start'].next # NULL
  <2>1. CASE atom_start' = node
    BY <2>1, <1>1
  <2>2. CASE atom_start' = atom_start /\ atom_start # NULL
    <3>1. atom_start \in 1..Len(nodes) /\ nodes[atom_start].next # NULL
      BY <2>2, <1>1 DEF InScan, NULL
    <3>2. nodes'[atom_start].next # NULL
      BY <3>1 DEF Continues
    <3>3. atom_start # node'
      BY <3>1, <1>1
    <3> QED
      BY <2>2, <3>2, <3>3
  <2> QED
    BY <2>1, <2>2
<1>8. ASSUME NEW i \in 0..Len(groups) PROVE nodes'[First(nodes, i)'].next # NULL
  <2>1. PICK f \in 1..Len(nodes) : f = First(nodes, i)
    BY <1>1, FirstIn
  <2>2. nodes[f].next = NULL => f = node
    BY <2>1 DEF InScan
  <2>3. nodes'[f].next # NULL
    BY <2>2 DEF Continues
  <2> QED
    BY <1>2, <2>1, <2>3
<1> QED
  BY <1>5, <1>6, <1>7, <1>8 DEF InScan

LEMMA OpenStar ==
  ASSUME CompileInv, InScan, Star
  PROVE  InScan'
<1>1. /\ pc = "scan" /\ atom_start # NULL /\ UNCHANGED <<start, groups, or_end, atom_start>>
  BY DEF Star, Scanning, Quantified
<1>2. /\ Continues(nodes', nodes) /\ Len(nodes') = Len(nodes) + 2
      /\ Untouched(nodes', nodes, {node, atom_start}) /\ nodes'[node].next # NULL
      /\ nodes'[Len(nodes) + 1] = nodes[atom_start] /\ node' = Len(nodes) + 2
  BY GraphStar DEF Splits
<1>3. nodes[atom_start].next # NULL
  BY <1>1 DEF InScan
<1>4. Len(nodes) \in Nat
  BY <1>1, NotIdle
<1>5. \A n \in 1..Len(nodes') : n > Len(nodes) /\ n # node' => nodes'[n].next # NULL
  <2>1. \A n \in 1..Len(nodes') : n > Len(nodes) /\ n # node' => n = Len(nodes) + 1
    BY <1>2, <1>4
  <2> QED
    BY <2>1, <1>2, <1>3
<1>6. node' \in 1..Len(nodes') /\ node' > Len(nodes)
  BY <1>2, <1>4
<1> QED
  BY <1>1, <1>2, <1>5, <1>6, Onward

LEMMA OpenPlus ==
  ASSUME CompileInv, InScan, Plus
  PROVE  InScan'
<1>1. /\ pc = "scan" /\ UNCHANGED <<start, groups, or_end, atom_start>>
  BY DEF Plus, Scanning, Quantified
<1>2. /\ Continues(nodes', nodes) /\ Len(nodes') = Len(nodes) + 1
      /\ Untouched(nodes', nodes, {node, atom_start}) /\ nodes'[node].next # NULL
      /\ node' = Len(nodes) + 1
  BY GraphPlus DEF Splits, Untouched
<1>3. Len(nodes) \in Nat
  BY <1>1, NotIdle
<1>4. \A n \in 1..Len(nodes') : n > Len(nodes) => n = node'
  BY <1>2, <1>3
<1>5. node' \in 1..Len(nodes') /\ node' > Len(nodes)
  BY <1>2, <1>3
<1> QED
  BY <1>1, <1>2, <1>4, <1>5, Onward

LEMMA OpenAddAtom ==
  ASSUME CompileInv, InScan, AddAtom
  PROVE  InScan'
<1>1. /\ pc = "scan" /\ UNCHANGED <<start, groups, or_end>> /\ atom_start' = node
  BY DEF AddAtom
<1>2. /\ Continues(nodes', nodes) /\ Len(nodes) < Len(nodes') /\ Len(nodes') \in Nat
      /\ Untouched(nodes', nodes, {node, atom_start}) /\ nodes'[node].next # NULL
      /\ node' = Len(nodes')
      /\ \A n \in 1..Len(nodes') : n > Len(nodes) /\ n # node' => nodes'[n].next # NULL
  BY GraphAddAtom DEF Untouched
<1>3. Len(nodes) \in Nat
  BY <1>1, NotIdle
<1>4. node' \in 1..Len(nodes') /\ node' > Len(nodes)
  BY <1>2, <1>3
<1> QED
  BY <1>1, <1>2, <1>4, Onward

LEMMA OpenAddAssertion ==
  ASSUME CompileInv, InScan, AddAssertion
  PROVE  InScan'
<1>1. /\ pc = "scan" /\ UNCHANGED <<start, groups, or_end, atom_start>>
  BY DEF AddAssertion
<1>2. /\ Continues(nodes', nodes) /\ Len(nodes') = Len(nodes) + 1
      /\ Untouched(nodes', nodes, {node, atom_start}) /\ nodes'[node].next # NULL
      /\ node' = Len(nodes) + 1
  BY GraphAddAssertion DEF Untouched
<1>3. Len(nodes) \in Nat
  BY <1>1, NotIdle
<1>4. \A n \in 1..Len(nodes') : n > Len(nodes) => n = node'
  BY <1>2, <1>3
<1>5. node' \in 1..Len(nodes') /\ node' > Len(nodes)
  BY <1>2, <1>3
<1> QED
  BY <1>1, <1>2, <1>4, <1>5, Onward

(* Where the open ends are written or stay, the others stay. *)
LEMMA StillOpen ==
  ASSUME NEW n \in 1..Len(nodes), Continues(nodes', nodes), OpenOnly(nodes, OpenEnds),
         nodes'[n].next = NULL
  PROVE  n \in OpenEnds
BY DEF Continues, OpenOnly

LEMMA OpenOptional ==
  ASSUME CompileInv, InScan, Optional
  PROVE  InScan'
<1>1. /\ pc = "scan" /\ atom_start # NULL /\ UNCHANGED <<start, groups, or_end, atom_start>>
  BY DEF Optional, Scanning, Quantified
<1>2. /\ Continues(nodes', nodes) /\ Len(nodes') = Len(nodes) + 1
      /\ Untouched(nodes', nodes, {atom_start}) /\ nodes'[atom_start].next # NULL
      /\ nodes'[Len(nodes) + 1] = nodes[atom_start] /\ node' = node
  BY GraphOptional DEF Splits
<1>3. Places /\ GraphOK(nodes) /\ Len(nodes) \in Nat
  BY <1>1, NotIdle
<1>4. PlacesApart(nodes) /\ OpenOnly(nodes, OpenEnds)
      /\ atom_start # node /\ nodes[atom_start].next # NULL
      /\ \A i \in 0..Len(groups) : nodes[First(nodes, i)].next # NULL
  BY <1>1 DEF InScan
<1>5. \A i \in 0..Len(groups) : First(nodes, i)' = First(nodes, i)
  <2>1. \A j \in 1..Len(groups) : groups[j].start \notin {atom_start}
    BY <1>3 DEF Places
  <2> QED
    BY <2>1, <1>1, <1>2, <1>3, SameFirst
<1>6. PlacesApart(nodes)'
  <2>1. \A e \in OrEnds : e # NULL => e \notin {node, atom_start}
    BY <1>4 DEF PlacesApart
  <2> QED
    BY <2>1, <1>1, <1>2, <1>3, <1>4, <1>5, StillApart
<1>7. OpenOnly(nodes', OpenEnds')
  <2>1. OpenEnds' = OpenEnds
    BY <1>1, <1>2 DEF OpenEnds
  <2> SUFFICES ASSUME NEW n \in 1..Len(nodes'), nodes'[n].next = NULL
               PROVE  n \in OpenEnds
    BY <2>1 DEF OpenOnly
  <2>2. n # Len(nodes) + 1
    BY <1>2, <1>4
  <2>3. n \in 1..Len(nodes)
    BY <2>2, <1>2, <1>3
  <2> QED
    BY <2>3, <1>2, <1>4, StillOpen
<1>8. ASSUME NEW i \in 0..Len(groups) PROVE nodes'[First(nodes, i)'].next # NULL
  <2>1. PICK f \in 1..Len(nodes) : f = First(nodes, i)
    BY <1>3, FirstIn
  <2>2. nodes'[f].next # NULL
    BY <2>1, <1>2, <1>4 DEF Continues
  <2> QED
    BY <1>5, <2>1, <2>2
<1> QED
  BY <1>1, <1>2, <1>4, <1>6, <1>7, <1>8 DEF InScan

-----------------------------------------------------------------------------
LEMMA Here ==
  ASSUME Reading, Symbol(0)
  PROVE  rpos \in 1..Len(regexp) /\ rpos \in Nat \ {0} /\ regexp[rpos] = Peek(0)
<1>1. PICK k \in Nat : k = 0
  OBVIOUS
<1>2. rpos + k \in 1..Len(regexp) /\ rpos \in Nat
  BY <1>1, Ahead
<1>3. rpos + k = rpos
  BY <1>1, <1>2
<1>4. Peek(0) = regexp[rpos + k]
  BY <1>1 DEF Peek, Symbol
<1>5. rpos \in 1..Len(regexp)
  BY <1>2, <1>3
<1>6. rpos \in Nat \ {0}
  <2>1. rpos # 0
    BY <1>5
  <2> QED
    BY <2>1, <1>2
<1>7. regexp[rpos] = Peek(0)
  BY <1>3, <1>4
<1> QED
  BY <1>5, <1>6, <1>7

LEMMA EmptyOn ==
  ASSUME NEW text, NEW p \in Nat, EmptyAt(text, p), text[p] = "\\c"
  PROVE  EmptyAt(text, p + 1)
<1>1. PICK q \in 1..p : Opening(text, q) /\ \A r \in q..(p - 1) : text[r] = "\\c"
  BY DEF EmptyAt
<1>2. q \in 1..(p + 1)
  OBVIOUS
<1>3. \A r \in q..((p + 1) - 1) : text[r] = "\\c"
  <2>1. \A r \in q..((p + 1) - 1) : r \in q..(p - 1) \/ r = p
    OBVIOUS
  <2> QED
    BY <2>1, <1>1
<1> QED
  BY <1>1, <1>2, <1>3 DEF EmptyAt

LEMMA EmptyHere ==
  ASSUME NEW text, NEW p \in Nat \ {0}, Opening(text, p)
  PROVE  EmptyAt(text, p)
<1>1. p \in 1..p /\ \A r \in p..(p - 1) : text[r] = "\\c"
  OBVIOUS
<1> QED
  BY <1>1 DEF EmptyAt

LEMMA OpenIgnoreCase ==
  ASSUME CompileInv, InScan, IgnoreCase
  PROVE  InScan'
<1>1. /\ pc = "scan" /\ Peek(0) = "\\c" /\ rpos' = rpos + 1 /\ regexp' = regexp
      /\ UNCHANGED <<nodes, start, node, atom_start, or_end, groups>>
  BY DEF IgnoreCase, Scanning, Advance
<1>2. Reading
  BY <1>1, NotIdle
<1>3. rpos \in Nat /\ regexp[rpos] = "\\c"
  BY <1>1, <1>2, Here DEF Symbol
<1>4. EmptyAt(regexp, rpos) => EmptyAt(regexp', rpos')
  BY <1>1, <1>3, EmptyOn
<1>5. PlacesApart(nodes)' /\ OpenOnly(nodes', OpenEnds')
  BY <1>1 DEF InScan, PlacesApart, OpenOnly, OpenEnds, OrEnds, Starts, First
<1>6. \A i \in 0..Len(groups) : First(nodes, i)' = First(nodes, i)
  BY <1>1 DEF First
<1> QED
  BY <1>1, <1>4, <1>5, <1>6 DEF InScan

-----------------------------------------------------------------------------
LEMMA OpenAlternative ==
  ASSUME CompileInv, InScan, Alternative, Plain(regexp)
  PROVE  InScan'
<1>1. /\ pc = "scan" /\ Peek(0) = "|" /\ UNCHANGED <<start, groups, atom_start>>
  BY DEF Alternative, Scanning
<1>2. /\ Continues(nodes', nodes) /\ Len(nodes') = Len(nodes) + 2
      /\ OrStart \in 1..Len(nodes) /\ Untouched(nodes', nodes, {node, OrStart})
      /\ nodes'[OrStart].next # NULL
      /\ nodes'[Len(nodes) + 1] = nodes[OrStart]
      /\ node' = Len(nodes) + 2
      /\ or_end' = JoinedEnd /\ JoinedEnd \in 1..Len(nodes)
      /\ or_end # NULL => nodes'[node].next = or_end
  BY GraphAlternative DEF Splits
<1>3. Places /\ GraphOK(nodes) /\ Len(nodes) \in Nat /\ Reading /\ node \in 1..Len(nodes)
      /\ atom_start \in 0..Len(nodes)
  BY <1>1, NotIdle DEF Places
<1>4. ~EmptyAt(regexp, rpos)
  BY <1>1, <1>3, Here DEF Plain, Symbol
<1>5. /\ PlacesApart(nodes) /\ OpenOnly(nodes, OpenEnds)
      /\ atom_start # NULL => atom_start # node /\ nodes[atom_start].next # NULL
      /\ \A i \in 0..Len(groups) : nodes[First(nodes, i)].next # NULL
  BY <1>4 DEF InScan
<1>6. OrStart = First(nodes, Len(groups)) /\ Len(groups) \in Nat
  <2>1. Len(groups) \in Nat /\ (groups = <<>> <=> Len(groups) = 0)
    <3>1. groups \in Seq([start : 1..Len(nodes), or_end : 0..Len(nodes)])
      BY <1>3 DEF Places
    <3> QED
      BY <3>1, LenProperties, EmptySeq
  <2> QED
    BY <2>1 DEF OrStart, First, Innermost
<1>7. nodes[OrStart].next # NULL
  BY <1>5, <1>6
<1>8. \A j \in 1..Len(groups) : groups[j].start \notin {node, OrStart}
  <2>1. ASSUME NEW j \in 1..Len(groups), groups[j].start = OrStart PROVE FALSE
    <3>1. Len(groups) < j
      BY <2>1, <1>5, <1>6 DEF PlacesApart
    <3> QED
      BY <3>1, <1>6
  <2> QED
    BY <2>1, <1>3 DEF Places
<1>9. \A i \in 0..Len(groups) : First(nodes, i)' = First(nodes, i)
  BY <1>1, <1>2, <1>3, <1>8, SameFirst
<1>10. OrEnds \subseteq 0..Len(nodes) /\ Starts' = Starts
       /\ OpenEnds = {node} \cup OrEnds
  BY <1>1, <1>3, EndsIn DEF Starts
<1>11. JoinedEnd = (IF or_end = NULL THEN node ELSE or_end) /\ or_end \in OrEnds
  BY DEF JoinedEnd, OrEnds
<1>12. OrEnds' = {JoinedEnd} \cup {groups[i].or_end : i \in 1..Len(groups)}
       /\ OpenEnds' = {node'} \cup OrEnds'
  <2>1. DOMAIN groups = 1..Len(groups)
    BY <1>3 DEF Places
  <2> QED
    BY <2>1, <1>1, <1>2 DEF OrEnds, OpenEnds
<1>13. PlacesApart(nodes)'
  <2>1. \A e \in OrEnds : e # NULL => e \notin {node', atom_start} \cup Starts
    <3>1. \A e \in OrEnds : e # node'
      BY <1>2, <1>3, <1>10
    <3> QED
      BY <3>1, <1>5 DEF PlacesApart
  <2>2. JoinedEnd \notin {node', atom_start} \cup Starts
    <3>1. CASE or_end # NULL
      BY <3>1, <2>1, <1>11
    <3>2. CASE or_end = NULL
      <4>1. JoinedEnd = node /\ node # NULL
        BY <3>2, <1>3, <1>11 DEF NULL
      <4>2. node # node' /\ node # atom_start /\ node \notin Starts
        BY <4>1, <1>2, <1>3, <1>5, <1>8 DEF Starts
      <4> QED
        BY <4>1, <4>2
    <3> QED
      BY <3>1, <3>2
  <2>3. \A e \in OrEnds' : e # NULL => e \notin {node', atom_start} \cup Starts
    BY <2>1, <2>2, <1>12 DEF OrEnds
  <2>4. \A i \in 0..Len(groups), j \in 1..Len(groups) :
          First(nodes, i)' = groups[j].start => i < j
    BY <1>5, <1>9 DEF PlacesApart
  <2> QED
    BY <2>3, <2>4, <1>1, <1>10 DEF PlacesApart
<1>14. OpenOnly(nodes', OpenEnds')
  <2> SUFFICES ASSUME NEW n \in 1..Len(nodes'), nodes'[n].next = NULL
               PROVE  n \in OpenEnds'
    BY DEF OpenOnly
  <2>1. CASE n \in 1..Len(nodes)
    <3>1. n \in {node} \cup OrEnds
      BY <2>1, <1>2, <1>5, <1>10, StillOpen
    <3>2. n = node => or_end = NULL
      BY <1>2
    <3>3. n = or_end => JoinedEnd = or_end
      BY <2>1, <1>11 DEF NULL
    <3>4. n = node => n = JoinedEnd
      BY <3>2, <1>11
    <3> QED
      BY <3>1, <3>3, <3>4, <1>12 DEF OrEnds
  <2>2. CASE n \notin 1..Len(nodes)
    <3>1. n # Len(nodes) + 1
      BY <1>2, <1>7
    <3>2. n = Len(nodes) + 2
      BY <2>2, <3>1, <1>2, <1>3
    <3> QED
      BY <3>2, <1>2, <1>12
  <2> QED
    BY <2>1, <2>2
<1>15. atom_start' # NULL => atom_start' # node' /\ nodes'[atom_start'].next # NULL
  <2> SUFFICES ASSUME atom_start # NULL
               PROVE  atom_start # node' /\ nodes'[atom_start].next # NULL
    BY <1>1
  <2>1. atom_start \in 1..Len(nodes)
    BY <1>3 DEF NULL
  <2> QED
    BY <2>1, <1>2, <1>3, <1>5 DEF Continues
<1>16. ASSUME NEW i \in 0..Len(groups) PROVE nodes'[First(nodes, i)'].next # NULL
  <2>1. PICK f \in 1..Len(nodes) : f = First(nodes, i)
    BY <1>3, FirstIn
  <2>2. nodes'[f].next # NULL
    BY <2>1, <1>2, <1>5 DEF Continues
  <2> QED
    BY <1>9, <2>1, <2>2
<1> QED
  BY <1>1, <1>13, <1>14, <1>15, <1>16 DEF InScan

LEMMA OpenOpenGroup ==
  ASSUME CompileInv, InScan, OpenGroup
  PROVE  InScan'
<1> DEFINE plain == Peek(1) = "?" /\ Peek(2) = ":"
<1>1. /\ pc = "scan" /\ Peek(0) = "(" /\ start' = start /\ regexp' = regexp
      /\ groups' = Append(groups, [start |-> node, or_end |-> or_end])
      /\ or_end' = NULL /\ atom_start' = NULL
      /\ rpos' = rpos + (IF plain THEN 3 ELSE 1)
  BY DEF OpenGroup, Scanning, Advance
<1>2. /\ Continues(nodes', nodes) /\ Len(nodes') = Len(nodes) + 1
      /\ Untouched(nodes', nodes, {node}) /\ nodes'[node].next = Len(nodes) + 1
      /\ node' = Len(nodes) + 1
  BY GraphOpenGroup
<1>3. Places /\ GraphOK(nodes) /\ Len(nodes) \in Nat /\ Reading /\ node \in 1..Len(nodes)
  BY <1>1, NotIdle DEF Places
<1>4. EmptyAt(regexp', rpos')
  <2>1. rpos \in Nat \ {0} /\ regexp[rpos] = "("
    <3>1. Symbol(0)
      BY <1>1 DEF Symbol
    <3> HIDE DEF plain
    <3> QED
      BY <3>1, <1>1, <1>3, Here
  <2>2. CASE plain
    <3>1. PICK j \in Nat, k \in Nat : j = 1 /\ k = 2
      OBVIOUS
    <3>2. Symbol(j) /\ Symbol(k)
      BY <3>1, <2>2 DEF Symbol
    <3>3. Peek(j) = regexp[rpos + j] /\ Peek(k) = regexp[rpos + k]
      BY <3>2 DEF Peek, Symbol
    <3>4. regexp[rpos + 1] = "?" /\ regexp[rpos + 2] = ":"
      BY <3>1, <3>3, <2>2
    <3>5. rpos' = rpos + 3
      BY <1>1, <2>2
    <3>6. PICK p \in Nat \ {0} : p = rpos + 3 /\ p > 3 /\ p - 1 = rpos + 2 /\ p - 2 = rpos + 1
                                 /\ p - 3 = rpos
      BY <2>1
    <3>7. Opening(regexp, p)
      BY <2>1, <3>4, <3>6 DEF Opening
    <3> QED
      BY <3>5, <3>6, <3>7, <1>1, EmptyHere
  <2>3. CASE ~plain
    <3>1. rpos' = rpos + 1
      BY <1>1, <2>3
    <3>2. PICK p \in Nat \ {0} : p = rpos + 1 /\ p - 1 = rpos
      BY <2>1
    <3>3. Opening(regexp, p)
      BY <2>1, <3>2 DEF Opening
    <3> QED
      BY <3>1, <3>2, <3>3, <1>1, EmptyHere
  <2> QED
    BY <2>2, <2>3
<1> HIDE DEF plain
<1>5. /\ PlacesApart(nodes) /\ OpenOnly(nodes, OpenEnds)
      /\ \A i \in 0..Len(groups) : nodes[First(nodes, i)].next = NULL => First(nodes, i) = node
  BY DEF InScan
<1>6. PICK L \in Nat : L = Len(groups)
  BY <1>3, GroupsIn
<1>7. /\ Len(groups') = L + 1 /\ groups'[L + 1].start = node /\ groups'[L + 1].or_end = or_end
      /\ \A i \in 1..L : groups'[i] = groups[i]
      /\ DOMAIN groups = 1..L /\ DOMAIN groups' = 1..(L + 1)
  <2>1. PICK e : e = [start |-> node, or_end |-> or_end]
    OBVIOUS
  <2>2. PICK G : groups \in Seq(G) /\ e \in G
    <3>1. groups \in Seq([start : 1..Len(nodes), or_end : 0..Len(nodes)])
          /\ or_end \in 0..Len(nodes)
      BY <1>3 DEF Places
    <3>2. e \in [start : 1..Len(nodes), or_end : 0..Len(nodes)]
      BY <3>1, <2>1, <1>3
    <3> QED
      BY <3>1, <3>2
  <2>3. groups' \in Seq(G) /\ Len(groups') = L + 1 /\ groups'[L + 1] = e
        /\ \A i \in 1..L : groups'[i] = groups[i]
    BY <1>1, <1>6, <2>1, <2>2, AppendProperties
  <2> QED
    BY <2>1, <2>2, <2>3, <1>6
<1>8. \A j \in 1..L : groups[j].start # node /\ groups[j].start \in 1..Len(nodes)
  BY <1>3, <1>6, GroupsIn DEF Places
<1>9. /\ \A i \in 0..L : First(nodes, i)' = First(nodes, i)
      /\ First(nodes, L + 1)' = node'
  <2>1. ASSUME NEW i \in 1..L PROVE First(nodes, i)' = First(nodes, i)
    <3>1. PICK s \in 1..Len(nodes) : s = groups[i].start /\ s # node
      BY <1>8
    <3>2. nodes'[s] = nodes[s]
      BY <3>1, <1>2 DEF Untouched
    <3> QED
      BY <3>1, <3>2, <1>7 DEF First
  <2>2. First(nodes, 0)' = First(nodes, 0)
    BY <1>1 DEF First
  <2>3. First(nodes, L + 1)' = node'
    BY <1>2, <1>6, <1>7 DEF First
  <2>4. \A i \in 0..L : i = 0 \/ i \in 1..L
    OBVIOUS
  <2> QED
    BY <2>1, <2>2, <2>3, <2>4
<1>10. OrEnds \subseteq 0..Len(nodes) /\ Starts \subseteq 1..Len(nodes)
       /\ OpenEnds = {node} \cup OrEnds
  BY <1>3, EndsIn
<1>11. OrEnds' = {NULL} \cup OrEnds /\ Starts' = {node} \cup Starts
       /\ OpenEnds' = {node'} \cup OrEnds'
  <2>1. \A i \in 1..(L + 1) : i \in 1..L \/ i = L + 1
    OBVIOUS
  <2>2. 1..L \subseteq 1..(L + 1) /\ L + 1 \in 1..(L + 1)
    OBVIOUS
  <2>3. {groups'[i].or_end : i \in 1..(L + 1)} = {or_end} \cup {groups[i].or_end : i \in 1..L}
    BY <2>1, <2>2, <1>7
  <2>4. {groups'[i].start : i \in 1..(L + 1)} = {node} \cup {groups[i].start : i \in 1..L}
    BY <2>1, <2>2, <1>7
  <2> QED
    BY <2>3, <2>4, <1>1, <1>6, <1>7 DEF OrEnds, Starts, OpenEnds
<1>12. PlacesApart(nodes)'
  <2>1. \A e \in OrEnds' : e # NULL => e \notin {node', atom_start'} \cup Starts'
    <3>1. ASSUME NEW e \in OrEnds, e # NULL PROVE e \notin {node', NULL} \cup {node} \cup Starts
      <4>1. e # node'
        BY <1>2, <1>3, <1>10
      <4> QED
        BY <4>1, <3>1, <1>5 DEF PlacesApart
    <3> QED
      BY <3>1, <1>1, <1>11
  <2>2. ASSUME NEW i \in 0..(L + 1), NEW j \in 1..(L + 1), First(nodes, i)' = groups'[j].start
        PROVE  i < j
    <3>1. CASE i \in 0..L /\ j \in 1..L
      BY <3>1, <2>2, <1>5, <1>6, <1>7, <1>9 DEF PlacesApart
    <3>2. CASE i = L + 1
      <4>1. groups'[j].start \in 1..Len(nodes)
        <5>1. j \in 1..L \/ j = L + 1
          OBVIOUS
        <5> QED
          BY <5>1, <1>3, <1>7, <1>8
      <4>2. groups'[j].start = Len(nodes) + 1
        BY <3>2, <2>2, <1>2, <1>9
      <4> QED
        BY <4>1, <4>2, <1>3
    <3> QED
      BY <3>1, <3>2
  <2> QED
    BY <2>1, <2>2, <1>7 DEF PlacesApart
<1>13. OpenOnly(nodes', OpenEnds')
  <2> SUFFICES ASSUME NEW n \in 1..Len(nodes'), nodes'[n].next = NULL
               PROVE  n \in OpenEnds'
    BY DEF OpenOnly
  <2>1. CASE n \in 1..Len(nodes)
    <3>1. n \in {node} \cup OrEnds
      BY <2>1, <1>2, <1>5, <1>10, StillOpen
    <3>2. n # node
      BY <1>2, <1>3 DEF NULL
    <3> QED
      BY <3>1, <3>2, <1>11
  <2>2. CASE n \notin 1..Len(nodes)
    <3>1. n = Len(nodes) + 1
      BY <2>2, <1>2, <1>3
    <3> QED
      BY <3>1, <1>2, <1>11
  <2> QED
    BY <2>1, <2>2
<1>14. ASSUME NEW i \in 0..(L + 1), nodes'[First(nodes, i)'].next = NULL
       PROVE  i = L + 1
  <2>1. CASE i \in 0..L
    <3>1. PICK f \in 1..Len(nodes) : f = First(nodes, i)
      BY <2>1, <1>3, <1>6, FirstIn
    <3>2. nodes'[f].next = NULL
      BY <3>1, <2>1, <1>9, <1>14
    <3>3. nodes[f].next = NULL
      BY <3>2, <1>2 DEF Continues
    <3>4. f = node
      BY <3>1, <3>3, <2>1, <1>5, <1>6
    <3> QED
      BY <3>2, <3>4, <1>2, <1>3 DEF NULL
  <2> QED
    BY <2>1
<1> QED
  BY <1>1, <1>4, <1>7, <1>9, <1>12, <1>13, <1>14 DEF InScan

LEMMA OpenCloseGroup ==
  ASSUME CompileInv, InScan, CloseGroup
  PROVE  InScan'
<1>1. /\ pc = "scan" /\ groups # <<>> /\ start' = start
      /\ groups' = SubSeq(groups, 1, Len(groups) - 1)
      /\ or_end' = Innermost.or_end /\ atom_start' = Innermost.start
  BY DEF CloseGroup, Scanning
<1>2. /\ Continues(nodes', nodes) /\ Len(nodes') = Len(nodes) + 1
      /\ Untouched(nodes', nodes, {node, or_end})
      /\ nodes'[JoinedEnd].next = Len(nodes) + 1
      /\ node # JoinedEnd => nodes'[node].next = or_end /\ or_end # NULL
      /\ node' = Len(nodes) + 1
  BY GraphCloseGroup
<1>3. Places /\ GraphOK(nodes) /\ Len(nodes) \in Nat /\ node \in 1..Len(nodes)
  BY <1>1, NotIdle DEF Places
<1>4. PICK L \in Nat : L + 1 = Len(groups)
  <2>1. Len(groups) \in Nat
    BY <1>3, GroupsIn
  <2>2. groups \in Seq([start : 1..Len(nodes), or_end : 0..Len(nodes)])
    BY <1>3 DEF Places
  <2>3. Len(groups) # 0
    BY <2>2, <1>1, EmptySeq
  <2>4. Len(groups) - 1 \in Nat /\ (Len(groups) - 1) + 1 = Len(groups)
    BY <2>1, <2>3
  <2> QED
    BY <2>4
<1>5. /\ Len(groups') = L /\ DOMAIN groups' = 1..L /\ DOMAIN groups = 1..(L + 1)
      /\ \A i \in 1..L : groups'[i] = groups[i]
      /\ atom_start' = groups[L + 1].start /\ or_end' = groups[L + 1].or_end
  <2>1. PICK G : groups \in Seq(G)
    BY <1>3 DEF Places
  <2>2. PICK k \in 1..Len(groups) : k = L + 1
    BY <1>4
  <2>3. groups' = SubSeq(groups, 1, k - 1)
    BY <1>1, <1>4, <2>2
  <2>4. /\ groups' \in Seq(G) /\ Len(groups') = k - 1
        /\ \A i \in 1..(k - 1) : groups'[i] = groups[i]
    BY <2>1, <2>3, WithoutLast
  <2>5. k - 1 = L
    BY <1>4, <2>2
  <2>6. DOMAIN groups' = 1..L /\ DOMAIN groups = 1..(L + 1)
    BY <2>1, <2>4, <2>5, <1>4
  <2> QED
    BY <2>4, <2>5, <2>6, <1>1, <1>4 DEF Innermost
<1>6. /\ PlacesApart(nodes) /\ OpenOnly(nodes, OpenEnds)
      /\ \A i \in 0..Len(groups) :
           nodes[First(nodes, i)].next = NULL => i = Len(groups) /\ First(nodes, i) = node
  BY DEF InScan
<1>7. \A j \in 1..(L + 1) : groups[j].start # node /\ groups[j].start \in 1..Len(nodes)
        /\ groups[j].or_end \in 0..Len(nodes) /\ nodes[groups[j].start].next # NULL
  BY <1>3, <1>4, GroupsIn DEF Places
<1>8. OrEnds \subseteq 0..Len(nodes) /\ Starts \subseteq 1..Len(nodes)
      /\ OpenEnds = {node} \cup OrEnds
  BY <1>3, EndsIn
<1>9. /\ OrEnds = {or_end} \cup OrEnds'
      /\ OrEnds' = {groups[i].or_end : i \in 1..(L + 1)}
      /\ Starts' \subseteq Starts /\ groups[L + 1].start \in Starts
      /\ OpenEnds' = {node'} \cup OrEnds'
  <2>1. \A i \in 1..(L + 1) : i \in 1..L \/ i = L + 1
    OBVIOUS
  <2>2. 1..L \subseteq 1..(L + 1) /\ L + 1 \in 1..(L + 1)
    OBVIOUS
  <2>3. {groups[i].or_end : i \in 1..(L + 1)} = {or_end'} \cup {groups'[i].or_end : i \in 1..L}
    BY <2>1, <2>2, <1>5
  <2>4. {groups'[i].start : i \in 1..L} \subseteq {groups[i].start : i \in 1..(L + 1)}
    BY <2>2, <1>5
  <2> QED
    BY <2>2, <2>3, <2>4, <1>4, <1>5 DEF OrEnds, Starts, OpenEnds
<1>10. ASSUME NEW i \in 0..L PROVE First(nodes, i)' = First(nodes, i)
  <2>1. CASE i = 0
    BY <2>1, <1>1 DEF First
  <2>2. CASE i # 0
    <3>1. i \in 1..L /\ i \in 1..(L + 1) /\ i \in 1..Len(groups)
      BY <2>2, <1>4
    <3>2. PICK s \in 1..Len(nodes) : s = groups[i].start /\ s # node
      BY <3>1, <1>7
    <3>3. s \in Starts /\ or_end \in OrEnds
      BY <3>1, <3>2 DEF Starts, OrEnds
    <3>4. s # or_end
      BY <3>2, <3>3, <1>6 DEF PlacesApart, NULL
    <3>5. nodes'[s] = nodes[s]
      BY <3>2, <3>4, <1>2 DEF Untouched
    <3> QED
      BY <2>2, <3>1, <3>2, <3>5, <1>5 DEF First
  <2> QED
    BY <2>1, <2>2
<1>11. PlacesApart(nodes)'
  <2>1. ASSUME NEW e \in OrEnds', e # NULL PROVE e \notin {node', atom_start'} \cup Starts'
    <3>1. e \in OrEnds
      BY <1>9
    <3>2. e \notin Starts
      BY <3>1, <2>1, <1>6 DEF PlacesApart
    <3>3. e # node'
      BY <3>1, <1>2, <1>3, <1>8
    <3> QED
      BY <3>2, <3>3, <1>5, <1>9
  <2>2. ASSUME NEW i \in 0..L, NEW j \in 1..L, First(nodes, i)' = groups'[j].start
        PROVE  i < j
    <3>1. i \in 0..Len(groups) /\ j \in 1..Len(groups) /\ First(nodes, i) = groups[j].start
      BY <2>2, <1>4, <1>5, <1>10
    <3> QED
      BY <3>1, <1>6 DEF PlacesApart
  <2> QED
    BY <2>1, <2>2, <1>5 DEF PlacesApart
<1>12. OpenOnly(nodes', OpenEnds')
  <2> SUFFICES ASSUME NEW n \in 1..Len(nodes'), nodes'[n].next = NULL
               PROVE  n \in OpenEnds'
    BY DEF OpenOnly
  <2>1. CASE n \in 1..Len(nodes)
    <3>1. n \in {node} \cup OrEnds
      BY <2>1, <1>2, <1>6, <1>8, StillOpen
    <3>2. n # JoinedEnd
      BY <1>2, <1>3 DEF NULL
    <3>3. n # node
      BY <3>2, <1>2
    <3>4. n # or_end
      BY <2>1, <3>2 DEF JoinedEnd, NULL
    <3> QED
      BY <3>1, <3>3, <3>4, <1>9
  <2>2. CASE n \notin 1..Len(nodes)
    <3>1. n = Len(nodes) + 1
      BY <2>2, <1>2, <1>3
    <3> QED
      BY <3>1, <1>2, <1>9
  <2> QED
    BY <2>1, <2>2
<1>13. atom_start' # node' /\ nodes'[atom_start'].next # NULL
  <2>1. PICK s \in 1..Len(nodes) : s = groups[L + 1].start /\ nodes[s].next # NULL
    <3>1. L + 1 \in 1..(L + 1)
      OBVIOUS
    <3> QED
      BY <3>1, <1>7
  <2>2. nodes'[s].next # NULL /\ s # node'
    BY <2>1, <1>2, <1>3 DEF Continues
  <2> QED
    BY <2>1, <2>2, <1>5
<1>14. ASSUME NEW i \in 0..L PROVE nodes'[First(nodes, i)'].next # NULL
  <2>1. i \in 0..Len(groups) /\ i # Len(groups)
    BY <1>4
  <2>2. PICK f \in 1..Len(nodes) : f = First(nodes, i)
    BY <2>1, <1>3, FirstIn
  <2>3. nodes[f].next # NULL
    BY <2>1, <2>2, <1>6
  <2>4. nodes'[f].next # NULL
    BY <2>3, <1>2 DEF Continues
  <2> QED
    BY <1>10, <2>2, <2>4
<1> QED
  BY <1>5, <1>11, <1>12, <1>13, <1>14 DEF InScan

LEMMA OpenFinish ==
  ASSUME CompileInv, InScan, Finish
  PROVE  Ended'
<1>1. pc = "scan" /\ groups = <<>>
  BY DEF Finish, Scanning
<1>2. /\ Len(nodes') = Len(nodes) /\ Untouched(nodes', nodes, {node, or_end})
      /\ nodes'[JoinedEnd].type = "MATCH_END"
      /\ node # JoinedEnd => nodes'[node].next = or_end /\ or_end # NULL
  BY GraphFinish
<1>3. OpenEnds = {node, or_end}
  BY <1>1 DEF OpenEnds
<1> SUFFICES ASSUME NEW n \in 1..Len(nodes'), nodes'[n].next = NULL
             PROVE  nodes'[n].type = "MATCH_END"
  BY DEF Ended
<1>4. n \in 1..Len(nodes)
  BY <1>2
<1>5. CASE n \notin {node, or_end}
  BY <1>2, <1>3, <1>4, <1>5 DEF Untouched, InScan, OpenOnly
<1>6. CASE n = node
  BY <1>2, <1>6
<1>7. CASE n = or_end
  <2>1. Len(nodes) \in Nat
    BY <1>1, NotIdle
  <2>2. or_end # NULL
    BY <2>1, <1>4, <1>7 DEF NULL
  <2> QED
    BY <2>2, <1>2, <1>7 DEF JoinedEnd
<1> QED
  BY <1>5, <1>6, <1>7

LEMMA OpenRxInit ==
  ASSUME NEW text \in Texts, RxInit(text)
  PROVE  InScan'
<1>1. /\ regexp' = text /\ rpos' = 1 /\ nodes' = <<FreshNode>> /\ start' = 1 /\ node' = 1
      /\ atom_start' = NULL /\ or_end' = NULL /\ groups' = <<>>
  BY DEF RxInit, RxInitStart
<1>2. Len(nodes') = 1 /\ Len(groups') = 0
  BY <1>1
<1>3. OrEnds' = {NULL} /\ OpenEnds' = {1, NULL}
  BY <1>1, <1>2 DEF OrEnds, OpenEnds
<1>4. First(nodes, 0)' = 1
  BY <1>1 DEF First
<1>5. EmptyAt(text, 1)
  <2>1. PICK p \in Nat \ {0} : p = 1
    OBVIOUS
  <2>2. Opening(text, p)
    BY <2>1 DEF Opening
  <2> QED
    BY <2>1, <2>2, EmptyHere
<1>6. PlacesApart(nodes)'
  <2>1. \A e \in OrEnds' : e = NULL
    BY <1>3
  <2>2. \A j \in 1..Len(groups') : FALSE
    BY <1>2
  <2> QED
    BY <2>1, <2>2 DEF PlacesApart
<1>7. OpenOnly(nodes', OpenEnds')
  BY <1>2, <1>3 DEF OpenOnly
<1>8. \A i \in 0..Len(groups') : i = 0
  BY <1>2
<1> QED
  BY <1>1, <1>2, <1>4, <1>5, <1>6, <1>7, <1>8 DEF InScan

-----------------------------------------------------------------------------
(* The quantifiers in braces. *)

LEMMA OpenRepeat ==
  ASSUME CompileInv, InScan, Repeat, Plain(regexp)
  PROVE  InRepeat'
<1>1. /\ pc = "scan" /\ Peek(0) \in DOMAIN Counts /\ atom_start # NULL
      /\ UNCHANGED <<start, atom_start, or_end, groups>>
  BY DEF Repeat
<1>2. /\ Len(nodes) <= Len(nodes') /\ Untouched(nodes', nodes, {atom_start})
      /\ \/ /\ quant'.i = 0 /\ quant'.sg_start = Len(nodes) + 1 /\ node' = atom_start
            /\ Len(nodes') = Len(nodes) + 1
            /\ nodes'[Len(nodes) + 1] = nodes[atom_start]
         \/ /\ quant'.i = 1 /\ quant'.sg_start = atom_start /\ node' = node
            /\ nodes' = nodes
      /\ quant'.sg_end = node /\ quant'.max = Counts[Peek(0)].max
  BY GraphRepeat
<1>3. Places /\ GraphOK(nodes) /\ Len(nodes) \in Nat /\ Reading /\ node \in 1..Len(nodes)
      /\ atom_start \in 1..Len(nodes)
  <2>1. Places /\ GraphOK(nodes) /\ Len(nodes) \in Nat /\ Reading
    BY <1>1, NotIdle
  <2>2. node \in 1..Len(nodes) /\ atom_start \in 0..Len(nodes)
    BY <2>1 DEF Places
  <2> QED
    BY <1>1, <2>1, <2>2 DEF NULL
<1>4. quant'.max = -1 \/ quant'.max > 0
  <2>1. Symbol(0)
    BY <1>1, TextsAssumption DEF Symbol
  <2>2. rpos \in 1..Len(regexp) /\ regexp[rpos] = Peek(0)
    BY <2>1, <1>3, Here
  <2> QED
    BY <2>2, <1>1, <1>2 DEF Plain
<1>5. /\ PlacesApart(nodes) /\ OpenOnly(nodes, OpenEnds)
      /\ atom_start # node /\ nodes[atom_start].next # NULL
      /\ \A i \in 0..Len(groups) : nodes[First(nodes, i)].next # NULL
  BY <1>1 DEF InScan
<1>6. \A i \in 0..Len(groups) : First(nodes, i)' = First(nodes, i)
  <2>1. \A j \in 1..Len(groups) : groups[j].start \notin {atom_start}
    BY <1>3 DEF Places
  <2> QED
    BY <2>1, <1>1, <1>2, <1>3, SameFirst
<1>7. \A e \in OrEnds : e # NULL => e \notin {node, atom_start}
  BY <1>5 DEF PlacesApart
<1>8. PlacesApart(nodes)'
  <2>1. node' \in {node, atom_start}
    BY <1>2
  <2> QED
    BY <2>1, <1>1, <1>3, <1>5, <1>6, <1>7, StillApart
<1>9. OrEnds' = OrEnds /\ OpenEnds = {node} \cup OrEnds /\ OpenEnds' = {node'} \cup OrEnds
  <2>1. DOMAIN groups = 1..Len(groups)
    BY <1>3 DEF Places
  <2> QED
    BY <2>1, <1>1 DEF OpenEnds, OrEnds
<1>10. QuantApart'
  <2>1. node \notin OrEnds
    BY <1>3, <1>7 DEF NULL
  <2>2. quant'.sg_start # node
    BY <1>2, <1>3, <1>5
  <2> QED
    BY <2>1, <2>2, <1>1, <1>2, <1>4, <1>5, <1>9 DEF QuantApart
<1>11. OpenOnly(nodes', OpenEnds' \cup (IF quant'.i = 0 THEN {quant'.sg_end} ELSE {}))
  <2> SUFFICES ASSUME NEW n \in 1..Len(nodes'), nodes'[n].next = NULL
               PROVE  n \in OpenEnds' \cup (IF quant'.i = 0 THEN {quant'.sg_end} ELSE {})
    BY DEF OpenOnly
  <2>1. CASE quant'.i = 0
    <3>1. /\ node' = atom_start /\ Len(nodes') = Len(nodes) + 1
          /\ nodes'[Len(nodes) + 1] = nodes[atom_start]
      BY <2>1, <1>2
    <3>2. n # Len(nodes) + 1
      BY <3>1, <1>5
    <3>3. n \in 1..Len(nodes)
      BY <3>1, <3>2, <1>3
    <3>4. CASE n = atom_start
      BY <3>1, <3>4, <1>9
    <3>5. CASE n # atom_start
      <4>1. nodes[n].next = NULL
        BY <3>3, <3>5, <1>2 DEF Untouched
      <4>2. n \in {node} \cup OrEnds
        BY <3>3, <4>1, <1>5, <1>9 DEF OpenOnly
      <4> QED
        BY <4>2, <2>1, <1>2, <1>9
    <3> QED
      BY <3>4, <3>5
  <2>2. CASE quant'.i # 0
    BY <2>2, <1>2, <1>5, <1>9 DEF OpenOnly
  <2> QED
    BY <2>1, <2>2
<1>12. ASSUME NEW i \in 0..Len(groups), nodes'[First(nodes, i)'].next = NULL
       PROVE  quant'.i = 0 /\ First(nodes, i)' = node'
  <2>1. PICK f \in 1..Len(nodes) : f = First(nodes, i)
    BY <1>3, FirstIn
  <2>2. nodes'[f].next = NULL /\ nodes[f].next # NULL
    BY <2>1, <1>5, <1>6, <1>12
  <2>3. f = atom_start
    BY <2>2, <1>2 DEF Untouched
  <2>4. nodes' # nodes
    BY <2>2
  <2> QED
    BY <2>1, <2>3, <2>4, <1>2, <1>6
<1>13. IF quant'.i = 0 THEN node' = atom_start
       ELSE node' # atom_start /\ nodes'[atom_start].next # NULL
  BY <1>2, <1>5
<1> QED
  BY <1>1, <1>8, <1>10, <1>11, <1>12, <1>13 DEF InRepeat

(* Both ways to go on after a repetition, that ends in last. *)
LEMMA OpenLoop ==
  ASSUME Places, GraphOK(nodes), quant.greedy \in BOOLEAN, PlacesApart(nodes),
         NEW first \in 1..Len(nodes), NEW last \in 1..Len(nodes), LinkUnbounded(first, last),
         UNCHANGED <<start, atom_start, or_end, groups>>,
         OpenOnly(nodes, OpenEnds \cup {last}), atom_start # NULL,
         nodes[atom_start].next = NULL => atom_start = node,
         \A j \in 1..Len(groups) : groups[j].start # last,
         \A i \in 0..Len(groups) : nodes[First(nodes, i)].next = NULL => First(nodes, i) = node
  PROVE  InScan'
<1>1. /\ Continues(nodes', nodes) /\ Len(nodes') = Len(nodes) + 1
      /\ Untouched(nodes', nodes, {node, last})
      /\ nodes'[node].next # NULL /\ nodes'[last].next # NULL /\ node' = Len(nodes) + 1
  BY LinkedLoop DEF Splits
<1>2. Len(nodes) \in Nat /\ atom_start \in 1..Len(nodes)
  BY DEF GraphOK, Places, NULL
<1>3. \A i \in 0..Len(groups) : First(nodes, i)' = First(nodes, i)
  <2>1. \A j \in 1..Len(groups) : groups[j].start \notin {node, last}
    BY DEF Places
  <2> QED
    BY <2>1, <1>1, SameFirst
<1>4. OpenEnds = {node} \cup OrEnds /\ OrEnds \subseteq 0..Len(nodes)
      /\ OpenEnds' = {node'} \cup OrEnds
  <2>1. DOMAIN groups = 1..Len(groups)
    BY DEF Places
  <2>2. OpenEnds = {node} \cup OrEnds /\ OrEnds \subseteq 0..Len(nodes)
    BY EndsIn
  <2> QED
    BY <2>1, <2>2 DEF OpenEnds, OrEnds
<1>5. PlacesApart(nodes)'
  <2>1. \A e \in OrEnds : e # node'
    BY <1>1, <1>2, <1>4
  <2>2. \A e \in OrEnds : e # NULL => e # atom_start
    BY DEF PlacesApart
  <2> QED
    BY <2>1, <2>2, <1>3, StillApart
<1>6. OpenOnly(nodes', OpenEnds')
  <2> SUFFICES ASSUME NEW n \in 1..Len(nodes'), nodes'[n].next = NULL
               PROVE  n \in OpenEnds'
    BY DEF OpenOnly
  <2>1. CASE n \in 1..Len(nodes)
    <3>1. nodes[n].next = NULL
      BY <2>1, <1>1 DEF Continues
    <3>2. n \in OpenEnds \cup {last} /\ n # node /\ n # last
      BY <2>1, <3>1, <1>1 DEF OpenOnly
    <3> QED
      BY <3>2, <1>4
  <2>2. CASE n \notin 1..Len(nodes)
    <3>1. n = Len(nodes) + 1
      BY <2>2, <1>1, <1>2
    <3> QED
      BY <3>1, <1>1, <1>4
  <2> QED
    BY <2>1, <2>2
<1>7. atom_start # node' /\ nodes'[atom_start].next # NULL
  BY <1>1, <1>2 DEF Continues
<1>8. ASSUME NEW i \in 0..Len(groups) PROVE nodes'[First(nodes, i)'].next # NULL
  <2>1. PICK f \in 1..Len(nodes) : f = First(nodes, i)
    BY FirstIn
  <2>2. nodes[f].next = NULL => f = node
    BY <2>1
  <2>3. nodes'[f].next # NULL
    BY <2>2, <1>1 DEF Continues
  <2> QED
    BY <1>3, <2>1, <2>3
<1> QED
  BY <1>5, <1>6, <1>7, <1>8 DEF InScan

LEMMA OpenLink ==
  ASSUME Places, GraphOK(nodes), quant \in QuantType, PlacesApart(nodes), QuantApart,
         NEW first \in 1..Len(nodes), NEW last \in 1..Len(nodes), LinkBounded(first, last),
         UNCHANGED <<start, atom_start, or_end, groups>>,
         OpenOnly(nodes, OpenEnds \cup {last}), last \notin OrEnds, last # atom_start,
         nodes[atom_start].next = NULL => atom_start = node,
         \A j \in 1..Len(groups) : groups[j].start # last,
         \A i \in 0..Len(groups) : nodes[First(nodes, i)].next = NULL => First(nodes, i) = node
  PROVE  InRepeat'
<1>1. /\ Continues(nodes', nodes) /\ Len(nodes') = Len(nodes)
      /\ Untouched(nodes', nodes, {node}) /\ nodes'[node].next # NULL /\ node' = last
  <2>1. quant.greedy \in BOOLEAN
    BY DEF QuantType
  <2> QED
    BY <2>1, LinkedOn DEF Splits
<1>2. Len(nodes) \in Nat /\ atom_start \in 1..Len(nodes)
  BY DEF GraphOK, Places, QuantApart, NULL
<1>3. \A i \in 0..Len(groups) : First(nodes, i)' = First(nodes, i)
  <2>1. \A j \in 1..Len(groups) : groups[j].start \notin {node}
    BY DEF Places
  <2> QED
    BY <2>1, <1>1, SameFirst
<1>4. OpenEnds = {node} \cup OrEnds /\ OrEnds' = OrEnds /\ OpenEnds' = {node'} \cup OrEnds
  <2>1. DOMAIN groups = 1..Len(groups)
    BY DEF Places
  <2> QED
    BY <2>1, EndsIn DEF OpenEnds, OrEnds
<1>5. PlacesApart(nodes)'
  <2>1. \A e \in OrEnds : e # node'
    BY <1>1
  <2>2. \A e \in OrEnds : e # NULL => e # atom_start
    BY DEF PlacesApart
  <2> QED
    BY <2>1, <2>2, <1>3, StillApart
<1>6. OpenOnly(nodes', OpenEnds')
  <2> SUFFICES ASSUME NEW n \in 1..Len(nodes'), nodes'[n].next = NULL
               PROVE  n \in OpenEnds'
    BY DEF OpenOnly
  <2>1. n \in 1..Len(nodes) /\ nodes[n].next = NULL
    BY <1>1 DEF Continues
  <2>2. n \in OpenEnds \cup {last} /\ n # node
    BY <2>1, <1>1 DEF OpenOnly
  <2> QED
    BY <2>2, <1>1, <1>4
<1>7. atom_start # node' /\ nodes'[atom_start].next # NULL
  BY <1>1, <1>2 DEF Continues
<1>8. ASSUME NEW i \in 0..Len(groups) PROVE nodes'[First(nodes, i)'].next # NULL
  <2>1. PICK f \in 1..Len(nodes) : f = First(nodes, i)
    BY FirstIn
  <2>2. nodes[f].next = NULL => f = node
    BY <2>1
  <2>3. nodes'[f].next # NULL
    BY <2>2, <1>1 DEF Continues
  <2> QED
    BY <1>3, <2>1, <2>3
<1>9. quant'.i # 0 /\ QuantApart'
  <2>1. quant' = [quant EXCEPT !.i = @ + 1, !.for = "none", !.sg_start2 = NULL]
    BY DEF LinkBounded
  <2>2. /\ quant'.i = quant.i + 1 /\ quant'.max = quant.max
        /\ quant'.sg_start = quant.sg_start /\ quant'.sg_end = quant.sg_end
    BY <2>1 DEF QuantType
  <2>3. quant'.i # 0
    <3>1. quant.i \in Nat
      BY DEF QuantType
    <3> QED
      BY <2>2, <3>1
  <2> QED
    BY <2>2, <2>3, <1>4 DEF QuantApart
<1> QED
  BY <1>5, <1>6, <1>7, <1>8, <1>9 DEF InRepeat

LEMMA OpenRepeatFirst ==
  ASSUME CompileInv, InRepeat, RepeatFirst
  PROVE  (pc' = "scan" /\ InScan') \/ (pc' = "repeat" /\ InRepeat')
<1>1. /\ pc = "repeat" /\ ~CopyNeeded /\ (Unbounded \/ Bounded)
      /\ IF Unbounded THEN LinkUnbounded(quant.sg_start, quant.sg_end)
         ELSE LinkBounded(quant.sg_start, quant.sg_end)
      /\ UNCHANGED <<start, atom_start, or_end, groups>>
  BY DEF RepeatFirst
<1>2. Places /\ GraphOK(nodes)
  BY <1>1, NotIdle
<1>3. PICK first \in 1..Len(nodes), last \in 1..Len(nodes) :
        first = quant.sg_start /\ last = quant.sg_end
  BY <1>1, Quant
<1>4. /\ quant \in QuantType /\ quant.greedy \in BOOLEAN
      /\ \A j \in 1..Len(groups) : groups[j].start # last
  <2>1. quant \in QuantType
    BY <1>1, Quant
  <2>2. quant.greedy \in BOOLEAN
    BY <2>1 DEF QuantType
  <2> QED
    BY <2>1, <2>2, <1>1, <1>3, Quant
<1>5. quant.i = 0
  <2>1. quant.i \in Nat
    BY <1>4 DEF QuantType
  <2>2. ~(quant.i > 0)
    BY <1>1 DEF CopyNeeded
  <2> QED
    BY <2>1, <2>2
<1>6. /\ PlacesApart(nodes) /\ QuantApart /\ OpenOnly(nodes, OpenEnds \cup {last})
      /\ node = atom_start
      /\ \A i \in 0..Len(groups) : nodes[First(nodes, i)].next = NULL => First(nodes, i) = node
  BY <1>3, <1>5 DEF InRepeat
<1>7. atom_start # NULL /\ last # atom_start /\ last \notin OrEnds
  BY <1>3, <1>6 DEF QuantApart
<1>8. CASE Unbounded
  <2>1. LinkUnbounded(first, last)
    BY <1>1, <1>3, <1>8
  <2>2. InScan'
    BY <2>1, <1>1, <1>2, <1>4, <1>6, <1>7, OpenLoop
  <2> QED
    BY <2>1, <2>2 DEF LinkUnbounded
<1>9. CASE ~Unbounded
  <2>1. LinkBounded(first, last)
    BY <1>1, <1>3, <1>9
  <2>2. InRepeat'
    BY <2>1, <1>1, <1>2, <1>4, <1>6, <1>7, OpenLink
  <2> QED
    BY <2>1, <2>2 DEF LinkBounded
<1> QED
  BY <1>8, <1>9

LEMMA OpenRepeatEnd ==
  ASSUME CompileInv, InRepeat, RepeatEnd
  PROVE  InScan'
<1>1. /\ pc = "repeat" /\ ~Required /\ ~Unbounded /\ ~Bounded
      /\ UNCHANGED <<nodes, regexp, rpos, start, node, atom_start, or_end, groups>>
  BY DEF RepeatEnd, scanVars
<1>2. quant.i # 0
  <2>1. quant.i \in Nat /\ quant.max \in Int
    <3>1. quant \in QuantType
      BY <1>1, Quant
    <3> QED
      BY <3>1 DEF QuantType
  <2>2. quant.max # -1 /\ ~(quant.i < quant.max)
    BY <1>1 DEF Unbounded, Bounded
  <2>3. quant.max > 0
    BY <2>2 DEF InRepeat, QuantApart
  <2> QED
    BY <2>1, <2>2, <2>3
<1>3. /\ PlacesApart(nodes) /\ OpenOnly(nodes, OpenEnds)
      /\ node # atom_start /\ nodes[atom_start].next # NULL
      /\ \A i \in 0..Len(groups) : nodes[First(nodes, i)].next # NULL
  BY <1>2 DEF InRepeat
<1>4. PlacesApart(nodes)' /\ OpenOnly(nodes', OpenEnds')
  BY <1>1, <1>3 DEF PlacesApart, OpenOnly, OpenEnds, OrEnds, Starts, First
<1>5. \A i \in 0..Len(groups) : First(nodes, i)' = First(nodes, i)
  BY <1>1 DEF First
<1> QED
  BY <1>1, <1>3, <1>4, <1>5 DEF InScan

LEMMA OpenRepeatCopy ==
  ASSUME CompileInv, InRepeat, RepeatCopy, CopiesNumbered'
  PROVE  \E g : /\ Numbered(g) /\ CopyInv(g)' /\ ClearOf(g)' /\ InCopy(g)'
              /\ g.ns = nodes' /\ g.to = quant.sg_end
              /\ g.new = IF Required THEN node ELSE New(1)
<1>1. /\ pc = "repeat" /\ CopyNeeded
      /\ UNCHANGED <<start, node, atom_start, or_end, groups>>
      /\ quant' = [quant EXCEPT !.sg_start2 = IF Required THEN node ELSE New(1),
                                !.for = IF Required THEN "required"
                                        ELSE IF Unbounded THEN "unbounded" ELSE "bounded"]
  BY DEF RepeatCopy, scanVars
<1>2. PICK new : new = IF Required THEN node ELSE New(1)
  OBVIOUS
<1>3. PICK g : /\ Numbered(g) /\ CopyInv(g)' /\ ClearOf(g)'
               /\ g.ns = nodes' /\ g.from = quant.sg_start /\ g.to = quant.sg_end /\ g.new = new
  BY <1>2, GraphRepeatCopy
<1>4. /\ Continues(nodes', nodes) /\ Len(nodes) <= Len(nodes') /\ Untouched(nodes', nodes, {})
      /\ \A n \in 1..Len(nodes') : n > Len(nodes) => n = new
  BY <1>2, GraphRepeatCopy
<1>5. Places /\ GraphOK(nodes) /\ Len(nodes) \in Nat /\ Len(nodes') \in Nat
  BY <1>1, <1>4, NotIdle DEF Continues, GraphOK
<1>6. quant \in QuantType /\ quant.i \in Nat
  <2>1. quant \in QuantType
    BY <1>1, Quant
  <2> QED
    BY <2>1 DEF QuantType
<1>7. quant.i > 0
  BY <1>1, <1>6 DEF CopyNeeded, Required
<1>8. /\ PlacesApart(nodes) /\ QuantApart /\ OpenOnly(nodes, OpenEnds)
      /\ node # atom_start /\ nodes[atom_start].next # NULL
      /\ \A i \in 0..Len(groups) : nodes[First(nodes, i)].next # NULL
  <2>1. quant.i # 0
    BY <1>7
  <2> QED
    BY <2>1 DEF InRepeat
<1>9. /\ quant'.i = quant.i /\ quant'.max = quant.max
      /\ quant'.sg_start = quant.sg_start /\ quant'.sg_end = quant.sg_end
      /\ quant'.for = "required" => Required
  BY <1>1, <1>6 DEF QuantType
<1>10. \A i \in 0..Len(groups) : First(nodes, i)' = First(nodes, i)
  BY <1>1, <1>4, <1>5, SameFirst
<1>11. OrEnds' = OrEnds /\ OpenEnds' = OpenEnds /\ OrEnds \subseteq 0..Len(nodes)
  <2>1. OrEnds' = OrEnds /\ OpenEnds' = OpenEnds
    BY <1>1 DEF OrEnds, OpenEnds
  <2> QED
    BY <2>1, <1>5, EndsIn
<1>12. PlacesApart(nodes)'
  <2>1. \A e \in OrEnds : e # NULL => e \notin {node, atom_start}
    BY <1>8 DEF PlacesApart
  <2> QED
    BY <2>1, <1>1, <1>5, <1>8, <1>10, StillApart
<1>13. QuantApart'
  BY <1>1, <1>8, <1>9, <1>11 DEF QuantApart
<1>14. OpenOnly(nodes', OpenEnds \cup {new})
  <2> SUFFICES ASSUME NEW n \in 1..Len(nodes'), nodes'[n].next = NULL
               PROVE  n \in OpenEnds \cup {new}
    BY DEF OpenOnly
  <2>1. CASE n \in 1..Len(nodes)
    BY <2>1, <1>4, <1>8 DEF Untouched, OpenOnly
  <2>2. CASE n \notin 1..Len(nodes)
    BY <2>2, <1>4, <1>5
  <2> QED
    BY <2>1, <2>2
<1>15. node \in 1..Len(nodes') /\ atom_start \in 1..Len(nodes') /\ nodes'[atom_start].next # NULL
  <2>1. node \in 1..Len(nodes) /\ atom_start \in 0..Len(nodes) /\ atom_start # NULL
    BY <1>5, <1>8 DEF Places, QuantApart
  <2>2. atom_start \in 1..Len(nodes)
    BY <2>1, <1>5 DEF NULL
  <2> QED
    BY <2>1, <2>2, <1>4, <1>5, <1>8 DEF Continues
<1>16. ASSUME NEW i \in 0..Len(groups)
       PROVE  First(nodes, i)' \in 1..Len(nodes') /\ nodes'[First(nodes, i)'].next # NULL
  <2>1. PICK f \in 1..Len(nodes) : f = First(nodes, i)
    BY <1>5, FirstIn
  <2>2. nodes'[f].next # NULL
    BY <2>1, <1>4, <1>8 DEF Continues
  <2> QED
    BY <1>4, <1>5, <1>10, <2>1, <2>2
<1>17. g.from # g.to /\ (quant'.for = "required" => g.new = node)
  <2>1. g.from # g.to
    BY <1>3, <1>8 DEF QuantApart
  <2>2. Required => new = node
    BY <1>2
  <2> QED
    BY <2>1, <2>2, <1>3, <1>9
<1>18. OrEnds' \subseteq 0..Len(nodes')
  BY <1>4, <1>5, <1>11
<1>19. InCopy(g)'
  <2>1. PICK ns : ns = g.ns /\ ns = nodes'
    BY <1>3
  <2>2. /\ PlacesApart(ns)' /\ OpenOnly(ns, OpenEnds' \cup {g.new})
        /\ \A i \in 0..Len(groups) : First(ns, i)' \in 1..Len(ns) /\ ns[First(ns, i)'].next # NULL
    <3>1. \A i : First(ns, i)' = First(nodes, i)'
      BY <2>1 DEF First
    <3>2. PlacesApart(ns)'
      BY <3>1, <1>12 DEF PlacesApart
    <3> QED
      BY <3>1, <3>2, <2>1, <1>3, <1>11, <1>14, <1>16
  <2>3. OpenOnly(g.ns, OpenEnds' \cup {g.new})
    BY <2>1, <2>2
  <2>4. \A i \in 0..Len(groups') : /\ First(g.ns, i)' \in 1..Len(g.ns)
                                   /\ g.ns[First(g.ns, i)'].next # NULL
    <3>1. \A i : First(g.ns, i)' = First(ns, i)'
      BY <2>1 DEF First
    <3> QED
      BY <3>1, <2>1, <2>2, <1>1
  <2>5. PlacesApart(g.ns)'
    <3>1. \A i : First(g.ns, i)' = First(ns, i)'
      BY <2>1 DEF First
    <3> QED
      BY <3>1, <2>2 DEF PlacesApart
  <2>6. /\ node' \in 1..Len(g.ns) /\ atom_start' \in 1..Len(g.ns) /\ node' # atom_start'
        /\ OrEnds' \subseteq 0..Len(g.ns) /\ g.ns[atom_start'].next # NULL
        /\ quant'.i > 0 /\ g.from # g.to /\ (quant'.for = "required" => g.new = node')
    BY <2>1, <1>1, <1>7, <1>8, <1>9, <1>15, <1>17, <1>18
  <2> QED
    BY <2>3, <2>4, <2>5, <2>6, <1>13 DEF InCopy
<1> QED
  BY <1>2, <1>3, <1>19

LEMMA OpenCopying ==
  ASSUME NEW g, Numbered(g), CopyInv(g), ClearOf(g), InCopy(g),
         [CopyStep]_copyVars, UNCHANGED <<scanVars, quant>>
  PROVE  CopyInv(g)' /\ ClearOf(g)' /\ InCopy(g)'
<1>1. CopyInv(g)'
  BY StepInv
<1>2. UNCHANGED <<start, node, atom_start, or_end, groups, quant>>
  BY DEF scanVars
<1>3. ClearOf(g)'
  BY <1>2 DEF ClearOf
<1>4. InCopy(g)'
  <2>1. PlacesApart(g.ns)' /\ QuantApart'
    BY <1>2 DEF InCopy, PlacesApart, QuantApart, OrEnds, Starts, First
  <2>2. OrEnds' = OrEnds /\ OpenEnds' = OpenEnds /\ \A i : First(g.ns, i)' = First(g.ns, i)
    BY <1>2 DEF OrEnds, OpenEnds, First
  <2>3. OpenOnly(g.ns, OpenEnds' \cup {g.new})
    BY <2>2 DEF InCopy
  <2>4. \A i \in 0..Len(groups') : /\ First(g.ns, i)' \in 1..Len(g.ns)
                                   /\ g.ns[First(g.ns, i)'].next # NULL
    BY <2>2, <1>2 DEF InCopy
  <2>5. /\ node' \in 1..Len(g.ns) /\ atom_start' \in 1..Len(g.ns) /\ node' # atom_start'
        /\ OrEnds' \subseteq 0..Len(g.ns) /\ g.ns[atom_start'].next # NULL
        /\ quant'.i > 0 /\ g.from # g.to /\ (quant'.for = "required" => g.new = node')
    BY <2>2, <1>2 DEF InCopy
  <2> QED
    BY <2>1, <2>3, <2>4, <2>5 DEF InCopy
<1> QED
  BY <1>1, <1>3, <1>4

(* When a copy is over, the only first edges that are not set are that of  *)
(* its end and those that were not set before.                             *)
LEMMA CopyEnd ==
  ASSUME NEW g, Numbered(g), CopyInv(g), CopyDone
  PROVE  /\ copy.new_end \in 1..Len(nodes)
         /\ g.from # g.to => copy.new_end > Len(g.ns)
         /\ Len(g.ns) \in Nat /\ Len(g.ns) <= Len(nodes)
         /\ \A n \in 1..Len(g.ns) : n # g.new => nodes[n] = g.ns[n]
         /\ \A n \in 1..Len(nodes) :
              nodes[n].next = NULL =>
                n = copy.new_end \/ (n \in 1..Len(g.ns) /\ n # g.new)
<1>1. visited = g.R
  <2>1. visited = Found(g, g.last[g.from] + 1)
    BY DEF CopyDone, CopyInv, InTurn
  <2>2. g.last[g.from] \in Nat
        /\ \A n \in g.R : g.pre[n] \in Nat /\ g.pre[n] <= g.last[g.from]
    BY DEF Numbered
  <2> QED
    BY <2>1, <2>2 DEF Found
<1>2. DOMAIN dfs_map = g.R
  <2>1. Len(dfs_stack) = 0
    BY DEF CopyDone
  <2> QED
    BY <2>1, <1>1 DEF CopyInv, Mapped, OnStack
<1>3. g.from \in g.R /\ g.to \in g.R /\ g.ns \in Seq(Node) /\ DOMAIN g.ns = 1..Len(g.ns)
      /\ Len(g.ns) \in Nat
  BY DEF Numbered
<1>4. copy.new_end = dfs_map[g.to]
  BY <1>1, <1>3 DEF CopyInv
<1>5. /\ nodes \in Seq(Node) /\ Len(g.ns) <= Len(nodes) /\ Len(nodes) \in Nat
      /\ \A n \in 1..Len(g.ns) : n # g.new => nodes[n] = g.ns[n]
      /\ dfs_map[g.from] = g.new
      /\ \A n \in g.R : dfs_map[n] \in 1..Len(nodes) /\ (n # g.from => dfs_map[n] > Len(g.ns))
      /\ \A k \in 1..Len(nodes) : k > Len(g.ns) => \E m \in g.R : dfs_map[m] = k
  BY <1>2, <1>3 DEF CopyInv, Apart
<1>6. ASSUME NEW m \in g.R \ {g.to}
      PROVE  nodes[dfs_map[m]].next # NULL
  <2>1. Successors(g.ns[m]) \subseteq g.R /\ g.ns[m] \in Node
        /\ g.ns[m].type \notin {"MATCH_END", "VISITED"}
    BY DEF Numbered
  <2>2. nodes[dfs_map[m]] = Image(dfs_map, g.ns[m])
    BY <1>1 DEF CopyInv, Copied
  <2>3. PICK nd : nd = g.ns[m]
    OBVIOUS
  <2>4. nd.next \in g.R
    BY <2>1, <2>3 DEF Successors
  <2>5. Image(dfs_map, nd).next = dfs_map[nd.next]
    BY <2>1, <2>3 DEF Image, Node
  <2> QED
    BY <2>2, <2>3, <2>4, <2>5, <1>5 DEF NULL
<1>7. ASSUME NEW n \in 1..Len(nodes), nodes[n].next = NULL
      PROVE  n = copy.new_end \/ (n \in 1..Len(g.ns) /\ n # g.new)
  <2>1. CASE n \in 1..Len(g.ns)
    <3>1. n = g.new => n = copy.new_end
      BY <1>3, <1>4, <1>5, <1>6, <1>7
    <3> QED
      BY <2>1, <3>1
  <2>2. CASE n \notin 1..Len(g.ns)
    <3>1. PICK m \in g.R : dfs_map[m] = n
      BY <2>2, <1>3, <1>5
    <3> QED
      BY <3>1, <1>4, <1>6, <1>7
  <2> QED
    BY <2>1, <2>2
<1> QED
  BY <1>3, <1>4, <1>5, <1>7

LEMMA OpenCopyReturn ==
  ASSUME CompileInv, CopyReturn,
         NEW g, Numbered(g), CopyInv(g), ClearOf(g), InCopy(g)
  PROVE  (pc' = "scan" /\ InScan') \/ (pc' = "repeat" /\ InRepeat')
<1>1. pc = "copying" /\ CopyDone /\ UNCHANGED <<start, atom_start, or_end, groups>>
  BY DEF CopyReturn
<1>2. Places /\ GraphOK(nodes) /\ Len(nodes) \in Nat
  BY <1>1, NotIdle
<1>3. PICK first \in 1..Len(nodes) : first = quant.sg_start2
  BY <1>1, Quant
<1>4. PICK last \in 1..Len(nodes) : last = copy.new_end
  BY <1>1, CopyEnd
<1>5. /\ last > Len(g.ns) /\ Len(g.ns) \in Nat /\ Len(g.ns) <= Len(nodes)
      /\ \A n \in 1..Len(g.ns) : n # g.new => nodes[n] = g.ns[n]
      /\ \A n \in 1..Len(nodes) :
           nodes[n].next = NULL => n = last \/ (n \in 1..Len(g.ns) /\ n # g.new)
  <2>1. g.from # g.to
    BY DEF InCopy
  <2> QED
    BY <2>1, <1>1, <1>4, CopyEnd
<1>6. \A n \in 1..Len(g.ns) : g.ns[n].next # NULL => nodes[n].next # NULL
  BY <1>5
<1>7. \A j \in 1..Len(groups) : groups[j].start \in 1..Len(g.ns) \ {g.new}
  BY DEF ClearOf
<1>8. \A i \in 0..Len(groups) : First(nodes, i) = First(g.ns, i)
  <2> SUFFICES ASSUME NEW i \in 0..Len(groups) PROVE First(nodes, i) = First(g.ns, i)
    OBVIOUS
  <2>1. CASE i = 0
    BY <2>1 DEF First
  <2>2. CASE i # 0
    <3>1. i \in 1..Len(groups)
      BY <2>2, <1>2, GroupsIn
    <3> QED
      BY <2>2, <3>1, <1>5, <1>7 DEF First
  <2> QED
    BY <2>1, <2>2
<1>9. /\ PlacesApart(g.ns) /\ QuantApart
      /\ OpenOnly(g.ns, OpenEnds \cup {g.new})
      /\ quant.for = "required" => g.new = node
      /\ node \in 1..Len(g.ns) /\ atom_start \in 1..Len(g.ns) /\ node # atom_start
      /\ OrEnds \subseteq 0..Len(g.ns) /\ g.ns[atom_start].next # NULL
      /\ \A i \in 0..Len(groups) : First(g.ns, i) \in 1..Len(g.ns)
                                  /\ g.ns[First(g.ns, i)].next # NULL
  BY DEF InCopy
<1>10. PlacesApart(nodes)
  BY <1>2, <1>8, <1>9, GroupsIn DEF PlacesApart
<1>11. \A i \in 0..Len(groups) : nodes[First(nodes, i)].next # NULL
  BY <1>6, <1>8, <1>9
<1>12. nodes[atom_start].next # NULL /\ atom_start # NULL
  BY <1>5, <1>6, <1>9 DEF NULL
<1>13. ASSUME NEW n \in 1..Len(nodes), nodes[n].next = NULL, n # last
       PROVE  n \in OpenEnds /\ n # g.new
  <2>1. n \in 1..Len(g.ns) /\ n # g.new
    BY <1>5, <1>13
  <2>2. g.ns[n].next = NULL
    BY <2>1, <1>5, <1>13
  <2> QED
    BY <2>1, <2>2, <1>9 DEF OpenOnly
<1>14. OpenOnly(nodes, OpenEnds \cup {last})
  BY <1>13 DEF OpenOnly
<1>15. last \notin OrEnds /\ last # atom_start /\ \A j \in 1..Len(groups) : groups[j].start # last
  BY <1>5, <1>7, <1>9
<1>16. /\ quant \in QuantType /\ quant.greedy \in BOOLEAN
       /\ quant.for \in {"required", "unbounded", "bounded"}
  <2>1. quant \in QuantType /\ quant.for # "none"
    BY <1>1, Quant
  <2> QED
    BY <2>1 DEF QuantType
<1>17. CASE quant.for = "required"
  <2>1. /\ node' = last /\ nodes' = nodes /\ pc' = "repeat"
        /\ quant' = [quant EXCEPT !.i = @ + 1, !.for = "none", !.sg_start2 = NULL]
    BY <1>4, <1>17 DEF CopyReturn
  <2>2. /\ quant'.i = quant.i + 1 /\ quant'.max = quant.max
        /\ quant'.sg_start = quant.sg_start /\ quant'.sg_end = quant.sg_end
    BY <2>1, <1>16 DEF QuantType
  <2>3. quant'.i # 0
    <3>1. quant.i \in Nat
      BY <1>16 DEF QuantType
    <3> QED
      BY <2>2, <3>1
  <2>4. \A i \in 0..Len(groups) : First(nodes, i)' = First(nodes, i)
    BY <2>1, <1>1 DEF First
  <2>5. PlacesApart(nodes)'
    <3>1. \A e \in OrEnds : e # NULL => e \notin {node', atom_start'}
      BY <2>1, <1>1, <1>10, <1>15 DEF PlacesApart
    <3> QED
      BY <3>1, <2>4, <1>1, <1>2, <1>10, StillApart
  <2>6. OrEnds' = OrEnds /\ OpenEnds = {node} \cup OrEnds /\ OpenEnds' = {last} \cup OrEnds
    <3>1. DOMAIN groups = 1..Len(groups)
      BY <1>2 DEF Places
    <3> QED
      BY <3>1, <2>1, <1>1 DEF OpenEnds, OrEnds
  <2>7. QuantApart'
    BY <2>2, <2>6, <1>1, <1>9 DEF QuantApart
  <2>8. OpenOnly(nodes', OpenEnds')
    BY <2>1, <2>6, <1>9, <1>13, <1>17 DEF OpenOnly
  <2> QED
    BY <2>1, <2>3, <2>4, <2>5, <2>7, <2>8, <1>1, <1>11, <1>12, <1>15 DEF InRepeat
<1>18. CASE quant.for = "unbounded"
  <2>1. LinkUnbounded(first, last)
    BY <1>3, <1>4, <1>18 DEF CopyReturn
  <2>2. InScan'
    BY <2>1, <1>1, <1>2, <1>10, <1>11, <1>12, <1>14, <1>15, <1>16, OpenLoop
  <2> QED
    BY <2>1, <2>2 DEF LinkUnbounded
<1>19. CASE quant.for = "bounded"
  <2>1. LinkBounded(first, last)
    BY <1>3, <1>4, <1>19 DEF CopyReturn
  <2>2. InRepeat'
    BY <2>1, <1>1, <1>2, <1>9, <1>10, <1>11, <1>12, <1>14, <1>15, <1>16, OpenLink
  <2> QED
    BY <2>1, <2>2 DEF LinkBounded
<1> QED
  BY <1>16, <1>17, <1>18, <1>19

LEMMA SameRegexp ==
  ASSUME CompileStep
  PROVE  regexp' = regexp
<1>1. CASE OpenGroup \/ CloseGroup \/ Alternative \/ AddAtom \/ AddAssertion \/ IgnoreCase \/ Repeat
  BY <1>1 DEF OpenGroup, CloseGroup, Alternative, AddAtom, AddAssertion, IgnoreCase, Repeat, Advance
<1>2. CASE Star \/ Plus \/ Optional
  BY <1>2 DEF Star, Plus, Optional, Quantified, Advance
<1>3. CASE RxError \/ Finish \/ RepeatCopy \/ RepeatFirst \/ RepeatEnd \/ Copying \/ CopyReturn
  BY <1>3 DEF RxError, Finish, RepeatCopy, RepeatFirst, RepeatEnd, Copying, CopyReturn, scanVars
<1> QED
  BY <1>1, <1>2, <1>3 DEF CompileStep

LEMMA ScanOpen ==
  ASSUME CompileInv, InScan, pc = "scan", Plain(regexp), CompileStep
  PROVE  OpenInv'
<1>1. CASE OpenGroup \/ CloseGroup \/ Alternative \/ Star \/ Plus \/ Optional
           \/ AddAtom \/ AddAssertion \/ IgnoreCase
  <2>1. InScan'
    BY <1>1, OpenOpenGroup, OpenCloseGroup, OpenAlternative, OpenStar, OpenPlus, OpenOptional,
       OpenAddAtom, OpenAddAssertion, OpenIgnoreCase
  <2>2. pc' = "scan"
    BY <1>1 DEF OpenGroup, CloseGroup, Alternative, Star, Plus, Optional, Quantified,
                AddAtom, AddAssertion, IgnoreCase, Scanning
  <2> QED
    BY <2>1, <2>2 DEF OpenInv
<1>2. CASE RxError
  BY <1>2 DEF RxError, OpenInv
<1>3. CASE Finish
  <2>1. Ended'
    BY <1>3, OpenFinish
  <2> QED
    BY <2>1, <1>3 DEF OpenInv, Finish
<1>4. CASE Repeat
  <2>1. InRepeat'
    BY <1>4, OpenRepeat
  <2> QED
    BY <2>1, <1>4 DEF OpenInv, Repeat
<1>5. ~RepeatCopy /\ ~RepeatFirst /\ ~RepeatEnd /\ ~Copying /\ ~CopyReturn
  BY DEF RepeatCopy, RepeatFirst, RepeatEnd, Copying, CopyReturn
<1> QED
  BY <1>1, <1>2, <1>3, <1>4, <1>5 DEF CompileStep

LEMMA RepeatOpen ==
  ASSUME CompileInv, InRepeat, pc = "repeat", CopiesNumbered', CompileStep
  PROVE  OpenInv'
<1>1. RepeatCopy \/ RepeatFirst \/ RepeatEnd
  BY DEF CompileStep, OpenGroup, CloseGroup, Alternative, Star, Plus, Optional, AddAtom,
         AddAssertion, IgnoreCase, RxError, Finish, Repeat, Copying, CopyReturn, Scanning
<1>2. CASE RepeatCopy
  <2>1. PICK g : Numbered(g) /\ CopyInv(g)' /\ ClearOf(g)' /\ InCopy(g)'
    BY <1>2, OpenRepeatCopy
  <2>2. pc' = "copying"
    BY <1>2 DEF RepeatCopy
  <2> QED
    BY <2>1, <2>2 DEF OpenInv
<1>3. CASE RepeatFirst
  <2>1. (pc' = "scan" /\ InScan') \/ (pc' = "repeat" /\ InRepeat')
    BY <1>3, OpenRepeatFirst
  <2> QED
    BY <2>1 DEF OpenInv
<1>4. CASE RepeatEnd
  <2>1. InScan'
    BY <1>4, OpenRepeatEnd
  <2> QED
    BY <2>1, <1>4 DEF OpenInv, RepeatEnd
<1> QED
  BY <1>1, <1>2, <1>3, <1>4

LEMMA CopyOpen ==
  ASSUME CompileInv, pc = "copying", CompileStep,
         NEW g, Numbered(g), CopyInv(g), ClearOf(g), InCopy(g)
  PROVE  OpenInv'
<1>1. Copying \/ CopyReturn
  BY DEF CompileStep, OpenGroup, CloseGroup, Alternative, Star, Plus, Optional, AddAtom,
         AddAssertion, IgnoreCase, RxError, Finish, Repeat, RepeatCopy, RepeatFirst, RepeatEnd,
         Scanning
<1>2. CASE Copying
  <2>1. pc' = "copying" /\ CopyStep /\ UNCHANGED <<scanVars, quant>>
    BY <1>2 DEF Copying
  <2>2. CopyInv(g)' /\ ClearOf(g)' /\ InCopy(g)'
    BY <2>1, OpenCopying
  <2> QED
    BY <2>1, <2>2 DEF OpenInv
<1>3. CASE CopyReturn
  <2>1. (pc' = "scan" /\ InScan') \/ (pc' = "repeat" /\ InRepeat')
    BY <1>3, OpenCopyReturn
  <2> QED
    BY <2>1 DEF OpenInv
<1> QED
  BY <1>1, <1>2, <1>3

LEMMA StutterOpen ==
  ASSUME OpenInv, UNCHANGED compileVars
  PROVE  OpenInv'
<1>1. UNCHANGED <<nodes, regexp, rpos, start, node, atom_start, or_end, groups, quant, pc>>
  BY DEF compileVars
<1>2. UNCHANGED copyVars /\ UNCHANGED <<scanVars, quant>>
  BY DEF compileVars, copyVars, scanVars
<1>3. CASE pc = "copying"
  <2>1. PICK g : Numbered(g) /\ CopyInv(g) /\ ClearOf(g) /\ InCopy(g)
    BY <1>3 DEF OpenInv
  <2>2. CopyInv(g)' /\ ClearOf(g)' /\ InCopy(g)'
    BY <2>1, <1>2, OpenCopying
  <2> QED
    BY <2>1, <2>2, <1>1, <1>3 DEF OpenInv
<1>4. CASE pc # "copying"
  <2>1. PlacesApart(nodes)' = PlacesApart(nodes) /\ OpenEnds' = OpenEnds
        /\ \A i : First(nodes, i)' = First(nodes, i)
    BY <1>1 DEF PlacesApart, OpenEnds, OrEnds, Starts, First
  <2>2. QuantApart' = QuantApart /\ Ended' = Ended
    BY <1>1 DEF QuantApart, Ended, OrEnds
  <2>3. InScan => InScan'
    BY <2>1, <1>1 DEF InScan
  <2>4. InRepeat => InRepeat'
    BY <2>1, <2>2, <1>1 DEF InRepeat
  <2> QED
    BY <2>2, <2>3, <2>4, <1>1, <1>4 DEF OpenInv
<1> QED
  BY <1>3, <1>4

LEMMA InitOpen ==
  ASSUME CompileInit
  PROVE  OpenInv
BY DEF CompileInit, OpenInv

LEMMA StepOpen ==
  ASSUME CompileInv, [CompileNext]_compileVars, CopiesNumbered', Plain(regexp) => OpenInv
  PROVE  (Plain(regexp) => OpenInv)'
<1> SUFFICES ASSUME Plain(regexp') PROVE OpenInv'
  OBVIOUS
<1>1. CASE UNCHANGED compileVars
  <2>1. regexp' = regexp
    BY <1>1 DEF compileVars
  <2> QED
    BY <2>1, <1>1, StutterOpen
<1>2. CASE \E text \in Texts : RxInit(text)
  <2>1. PICK text \in Texts : RxInit(text)
    BY <1>2
  <2>2. InScan'
    BY <2>1, OpenRxInit
  <2> QED
    BY <2>1, <2>2 DEF OpenInv, RxInit, RxInitStart
<1>3. CASE PartialFree
  BY <1>3 DEF PartialFree, OpenInv
<1>4. CASE CompileStep
  <2>1. regexp' = regexp
    BY <1>4, SameRegexp
  <2>2. OpenInv /\ Plain(regexp)
    BY <2>1
  <2>3. CASE pc = "scan"
    BY <2>2, <2>3, <1>4, ScanOpen DEF OpenInv
  <2>4. CASE pc = "repeat"
    BY <2>2, <2>4, <1>4, RepeatOpen DEF OpenInv
  <2>5. CASE pc = "copying"
    <3>1. PICK g : Numbered(g) /\ CopyInv(g) /\ ClearOf(g) /\ InCopy(g)
      BY <2>2, <2>5 DEF OpenInv
    <3> QED
      BY <3>1, <2>5, <1>4, CopyOpen
  <2>6. pc \in {"scan", "repeat", "copying"}
    BY <1>4 DEF CompileStep, OpenGroup, CloseGroup, Alternative, Star, Plus, Optional, AddAtom,
         AddAssertion, IgnoreCase, RxError, Finish, Repeat, RepeatCopy, RepeatFirst, RepeatEnd,
         Copying, CopyReturn, Scanning
  <2> QED
    BY <2>3, <2>4, <2>5, <2>6
<1> QED
  BY <1>1, <1>2, <1>3, <1>4 DEF CompileNext

(* What the invariant says between two symbols. *)
LEMMA OpenDangle ==
  ASSUME CompileInv, Plain(regexp) => OpenInv, Plain(regexp)
  PROVE  OnlyOpenEndsDangle
<1> SUFFICES ASSUME pc = "scan",
                    NEW n \in DOMAIN nodes, NULL \in Successors(nodes[n])
             PROVE  n \in OpenEnds
  BY DEF OnlyOpenEndsDangle
<1>1. GraphOK(nodes) /\ Len(nodes) \in Nat
  BY NotIdle
<1>2. n \in 1..Len(nodes) /\ NodeIn(nodes[n], Len(nodes))
  BY <1>1 DEF GraphOK
<1>3. nodes[n].next = NULL
  BY <1>1, <1>2 DEF NodeIn, Successors, NULL
<1>4. OpenOnly(nodes, OpenEnds)
  BY DEF OpenInv, InScan
<1> QED
  BY <1>2, <1>3, <1>4 DEF OpenOnly

-----------------------------------------------------------------------------
(* The numbers of the groups. *)

Labelled(nd, c) == nd.type \in {"CAPTURE_START", "CAPTURE_END"} => nd.u \in 1..c
Labels(ns, c) == \A n \in 1..Len(ns) : Labelled(ns[n], c)

(* Every capture of the graph is one that was counted. *)
LabelInv == /\ Labels(nodes, cap_count)
            /\ pc = "done" => cap_count <= rx_cap_count

LEMMA LabelsKept ==
  ASSUME NEW ns, NEW ns2, Len(ns) \in Nat, Len(ns2) \in Nat,
         NEW c \in Nat, NEW d \in Nat, c <= d, Labels(ns, c),
         NEW W, Untouched(ns2, ns, W),
         \A n \in 1..Len(ns2) : n \in W \/ n > Len(ns) => Labelled(ns2[n], d)
  PROVE  Labels(ns2, d)
<1> SUFFICES ASSUME NEW n \in 1..Len(ns2), n \notin W, ~(n > Len(ns))
             PROVE  Labelled(ns2[n], d)
  BY DEF Labels
<1>1. n \in 1..Len(ns) /\ ns2[n] = ns[n]
  BY DEF Untouched
<1>2. Labelled(ns[n], c)
  BY <1>1 DEF Labels
<1> QED
  BY <1>1, <1>2 DEF Labelled

LEMMA FreshLabelled ==
  ASSUME NEW c
  PROVE  Labelled(FreshNode, c)
BY DEF Labelled, FreshNode

LEMMA Counted ==
  ASSUME CompileInv
  PROVE  cap_count \in Nat /\ rx_cap_count \in Nat /\ Len(nodes) \in Nat
BY DEF CompileInv, Counters, GraphOK

LEMMA LabelsStar ==
  ASSUME CompileInv, LabelInv, Star
  PROVE  Labels(nodes', cap_count)
<1>1. pc = "scan" /\ atom_start # NULL
  BY DEF Star, Scanning
<1>2. /\ Len(nodes') = Len(nodes) + 2 /\ Untouched(nodes', nodes, {node, atom_start})
      /\ Splits(nodes'[node]) /\ Splits(nodes'[atom_start])
      /\ nodes'[Len(nodes) + 1] = nodes[atom_start] /\ nodes'[Len(nodes) + 2] = FreshNode
  BY GraphStar
<1>3. atom_start \in 1..Len(nodes) /\ cap_count \in Nat /\ Len(nodes) \in Nat
  BY <1>1, Counted, NotIdle DEF Places, NULL
<1>4. Labelled(nodes[atom_start], cap_count)
  BY <1>3 DEF LabelInv, Labels
<1>5. \A n \in 1..Len(nodes') :
        n \in {node, atom_start} \/ n > Len(nodes) => Labelled(nodes'[n], cap_count)
  <2> SUFFICES ASSUME NEW n \in 1..Len(nodes'), n \in {node, atom_start} \/ n > Len(nodes)
               PROVE  Labelled(nodes'[n], cap_count)
    OBVIOUS
  <2>1. CASE n \in {node, atom_start}
    BY <2>1, <1>2 DEF Splits, Labelled
  <2>2. CASE n > Len(nodes)
    <3>1. n = Len(nodes) + 1 \/ n = Len(nodes) + 2
      BY <2>2, <1>2, <1>3
    <3> QED
      BY <3>1, <1>2, <1>4, FreshLabelled
  <2> QED
    BY <2>1, <2>2
<1>6. Len(nodes') \in Nat /\ cap_count <= cap_count
  BY <1>2, <1>3
<1> QED
  BY <1>2, <1>3, <1>5, <1>6, LabelsKept DEF LabelInv

LEMMA LabelsPlus ==
  ASSUME CompileInv, LabelInv, Plus
  PROVE  Labels(nodes', cap_count)
<1>1. /\ Len(nodes') = Len(nodes) + 1 /\ Untouched(nodes', nodes, {node})
      /\ Splits(nodes'[node]) /\ nodes'[Len(nodes) + 1] = FreshNode
  BY GraphPlus
<1>2. cap_count \in Nat /\ Len(nodes) \in Nat /\ Len(nodes') \in Nat /\ cap_count <= cap_count
  BY <1>1, Counted
<1>3. \A n \in 1..Len(nodes') : n > Len(nodes) => n = Len(nodes) + 1
  BY <1>1, <1>2
<1>4. \A n \in 1..Len(nodes') :
        n \in {node} \/ n > Len(nodes) => Labelled(nodes'[n], cap_count)
  BY <1>1, <1>3, FreshLabelled DEF Splits, Labelled
<1> QED
  BY <1>1, <1>2, <1>4, LabelsKept DEF LabelInv

LEMMA LabelsOptional ==
  ASSUME CompileInv, LabelInv, Optional
  PROVE  Labels(nodes', cap_count)
<1>1. pc = "scan" /\ atom_start # NULL
  BY DEF Optional, Scanning
<1>2. /\ Len(nodes') = Len(nodes) + 1 /\ Untouched(nodes', nodes, {atom_start})
      /\ Splits(nodes'[atom_start]) /\ nodes'[Len(nodes) + 1] = nodes[atom_start]
  BY GraphOptional
<1>3. atom_start \in 1..Len(nodes) /\ cap_count \in Nat /\ Len(nodes) \in Nat
      /\ Len(nodes') \in Nat /\ cap_count <= cap_count
  BY <1>1, <1>2, Counted, NotIdle DEF Places, NULL
<1>4. Labelled(nodes[atom_start], cap_count)
  BY <1>3 DEF LabelInv, Labels
<1>5. \A n \in 1..Len(nodes') : n > Len(nodes) => n = Len(nodes) + 1
  BY <1>2, <1>3
<1>6. \A n \in 1..Len(nodes') :
        n \in {atom_start} \/ n > Len(nodes) => Labelled(nodes'[n], cap_count)
  BY <1>2, <1>4, <1>5 DEF Splits, Labelled
<1> QED
  BY <1>2, <1>3, <1>6, LabelsKept DEF LabelInv

LEMMA LabelsAlternative ==
  ASSUME CompileInv, LabelInv, Alternative
  PROVE  Labels(nodes', cap_count)
<1>1. pc = "scan"
  BY DEF Alternative, Scanning
<1>2. /\ Len(nodes') = Len(nodes) + 2 /\ OrStart \in 1..Len(nodes)
      /\ Untouched(nodes', nodes, {node, OrStart}) /\ Splits(nodes'[OrStart])
      /\ nodes'[Len(nodes) + 1] = nodes[OrStart] /\ nodes'[Len(nodes) + 2] = FreshNode
      /\ node # OrStart => nodes'[node].type = nodes[node].type /\ nodes'[node].u = nodes[node].u
  BY GraphAlternative
<1>3. node \in 1..Len(nodes) /\ cap_count \in Nat /\ Len(nodes) \in Nat
  BY <1>1, Counted, NotIdle DEF Places
<1>4. Labelled(nodes[OrStart], cap_count) /\ Labelled(nodes[node], cap_count)
  BY <1>2, <1>3 DEF LabelInv, Labels
<1>5. Labelled(nodes'[OrStart], cap_count)
  BY <1>2 DEF Splits, Labelled
<1>6. Labelled(nodes'[node], cap_count)
  <2>1. CASE node = OrStart
    BY <2>1, <1>5
  <2>2. CASE node # OrStart
    BY <2>2, <1>2, <1>4 DEF Labelled
  <2> QED
    BY <2>1, <2>2
<1>7. \A n \in 1..Len(nodes') : n > Len(nodes) => n = Len(nodes) + 1 \/ n = Len(nodes) + 2
  BY <1>2, <1>3
<1>8. \A n \in 1..Len(nodes') :
        n \in {node, OrStart} \/ n > Len(nodes) => Labelled(nodes'[n], cap_count)
  BY <1>2, <1>4, <1>5, <1>6, <1>7, FreshLabelled
<1>9. Len(nodes') \in Nat /\ cap_count <= cap_count
  BY <1>2, <1>3
<1> QED
  BY <1>2, <1>3, <1>8, <1>9, LabelsKept DEF LabelInv

LEMMA LabelsOpenGroup ==
  ASSUME CompileInv, LabelInv, OpenGroup
  PROVE  Labels(nodes', cap_count')
<1>1. /\ Len(nodes') = Len(nodes) + 1 /\ Untouched(nodes', nodes, {node})
      /\ \/ nodes'[node].type = "GROUP_START"
         \/ nodes'[node].type = "CAPTURE_START" /\ cap_count' = cap_count + 1
            /\ nodes'[node].u = cap_count'
      /\ nodes'[Len(nodes) + 1] = FreshNode
  BY GraphOpenGroup
<1>2. cap_count \in Nat /\ Len(nodes) \in Nat /\ Len(nodes') \in Nat
  BY <1>1, Counted
<1>3. PICK k \in Nat : k = cap_count' /\ cap_count <= k
  <2>1. cap_count' = cap_count \/ cap_count' = cap_count + 1
    BY DEF OpenGroup
  <2> QED
    BY <2>1, <1>2
<1>4. Labelled(nodes'[node], k)
  <2>1. nodes'[node].type = "CAPTURE_START" /\ k = cap_count + 1 /\ nodes'[node].u = k
        => nodes'[node].u \in 1..k
    BY <1>2
  <2> QED
    BY <2>1, <1>1, <1>3 DEF Labelled
<1>5. \A n \in 1..Len(nodes') : n > Len(nodes) => n = Len(nodes) + 1
  BY <1>1, <1>2
<1>6. \A n \in 1..Len(nodes') : n \in {node} \/ n > Len(nodes) => Labelled(nodes'[n], k)
  BY <1>1, <1>4, <1>5, FreshLabelled
<1>7. Labels(nodes', k)
  BY <1>1, <1>2, <1>3, <1>6, LabelsKept DEF LabelInv
<1> QED
  BY <1>3, <1>7

LEMMA LabelsCloseGroup ==
  ASSUME CompileInv, LabelInv, CloseGroup
  PROVE  Labels(nodes', cap_count)
<1>1. pc = "scan" /\ groups # <<>>
  BY DEF CloseGroup, Scanning
<1>2. /\ Len(nodes') = Len(nodes) + 1 /\ Untouched(nodes', nodes, {node, or_end})
      /\ JoinedEnd \in {node, or_end}
      /\ \/ nodes'[JoinedEnd].type = "GROUP_END"
         \/ /\ nodes'[JoinedEnd].type = "CAPTURE_END"
            /\ nodes[Innermost.start].type = "CAPTURE_START"
            /\ nodes'[JoinedEnd].u = nodes[Innermost.start].u
      /\ node # JoinedEnd => /\ nodes'[node].type = nodes[node].type
                             /\ nodes'[node].u = nodes[node].u
      /\ nodes'[Len(nodes) + 1] = FreshNode
  BY GraphCloseGroup
<1>3. Places /\ node \in 1..Len(nodes) /\ cap_count \in Nat /\ Len(nodes) \in Nat
      /\ Len(nodes') \in Nat /\ cap_count <= cap_count
  BY <1>1, <1>2, Counted, NotIdle DEF Places
<1>4. Innermost.start \in 1..Len(nodes)
  <2>1. Len(groups) \in 1..Len(groups)
    BY <1>1, <1>3, EmptySeq, LenProperties DEF Places
  <2> QED
    BY <2>1, <1>3, GroupsIn DEF Innermost
<1>5. Labelled(nodes[Innermost.start], cap_count) /\ Labelled(nodes[node], cap_count)
  BY <1>3, <1>4 DEF LabelInv, Labels
<1>6. Labelled(nodes'[JoinedEnd], cap_count)
  BY <1>2, <1>5 DEF Labelled
<1>7. Labelled(nodes'[node], cap_count)
  <2>1. CASE node = JoinedEnd
    BY <2>1, <1>6
  <2>2. CASE node # JoinedEnd
    BY <2>2, <1>2, <1>5 DEF Labelled
  <2> QED
    BY <2>1, <2>2
<1>8. or_end \in 1..Len(nodes') => Labelled(nodes'[or_end], cap_count)
  <2>1. or_end # NULL => JoinedEnd = or_end
    BY DEF JoinedEnd
  <2>2. or_end \in 1..Len(nodes') => or_end # NULL
    BY <1>3 DEF NULL
  <2> QED
    BY <2>1, <2>2, <1>6
<1>9. \A n \in 1..Len(nodes') : n > Len(nodes) => n = Len(nodes) + 1
  BY <1>2, <1>3
<1>10. \A n \in 1..Len(nodes') :
         n \in {node, or_end} \/ n > Len(nodes) => Labelled(nodes'[n], cap_count)
  BY <1>2, <1>7, <1>8, <1>9, FreshLabelled
<1> QED
  BY <1>2, <1>3, <1>10, LabelsKept DEF LabelInv

LEMMA LabelsFinish ==
  ASSUME CompileInv, LabelInv, Finish
  PROVE  Labels(nodes', cap_count) /\ cap_count' <= rx_cap_count'
<1>1. pc = "scan" /\ cap_count' = cap_count
      /\ rx_cap_count' = IF cap_count > rx_cap_count THEN cap_count ELSE rx_cap_count
  BY DEF Finish, Scanning
<1>2. /\ Len(nodes') = Len(nodes) /\ Untouched(nodes', nodes, {node, or_end})
      /\ nodes'[JoinedEnd].type = "MATCH_END"
      /\ node # JoinedEnd => /\ nodes'[node].type = nodes[node].type
                             /\ nodes'[node].u = nodes[node].u
  BY GraphFinish
<1>3. node \in 1..Len(nodes) /\ cap_count \in Nat /\ rx_cap_count \in Nat /\ Len(nodes) \in Nat
      /\ Len(nodes') \in Nat /\ cap_count <= cap_count
  BY <1>1, <1>2, Counted, NotIdle DEF Places
<1>4. Labelled(nodes[node], cap_count)
  BY <1>3 DEF LabelInv, Labels
<1>5. Labelled(nodes'[JoinedEnd], cap_count)
  BY <1>2 DEF Labelled
<1>6. Labelled(nodes'[node], cap_count)
  <2>1. CASE node = JoinedEnd
    BY <2>1, <1>5
  <2>2. CASE node # JoinedEnd
    BY <2>2, <1>2, <1>4 DEF Labelled
  <2> QED
    BY <2>1, <2>2
<1>7. or_end \in 1..Len(nodes') => Labelled(nodes'[or_end], cap_count)
  <2>1. or_end # NULL => JoinedEnd = or_end
    BY DEF JoinedEnd
  <2>2. or_end \in 1..Len(nodes') => or_end # NULL
    BY <1>3 DEF NULL
  <2> QED
    BY <2>1, <2>2, <1>5
<1>8. \A n \in 1..Len(nodes') : ~(n > Len(nodes))
  BY <1>2, <1>3
<1>9. \A n \in 1..Len(nodes') :
        n \in {node, or_end} \/ n > Len(nodes) => Labelled(nodes'[n], cap_count)
  BY <1>6, <1>7, <1>8
<1>10. Labels(nodes', cap_count)
  BY <1>2, <1>3, <1>9, LabelsKept DEF LabelInv
<1> QED
  BY <1>1, <1>3, <1>10

LEMMA LabelsAtoms ==
  ASSUME CompileInv, LabelInv, AddAtom \/ AddAssertion
  PROVE  Labels(nodes', cap_count)
<1>1. CASE AddAtom
  <2>1. /\ Len(nodes') \in Nat /\ Untouched(nodes', nodes, {node})
        /\ nodes'[node].type \in {"TAKE", "CHAR_SET", "CHAR_CLASS"}
        /\ node' = Len(nodes') /\ nodes'[Len(nodes')] = FreshNode
        /\ \A n \in 1..Len(nodes') :
             n > Len(nodes) /\ n # node' => nodes'[n].type \in {"TAKE", "CHAR_SET", "CHAR_CLASS"}
    BY <1>1, GraphAddAtom
  <2>2. cap_count \in Nat /\ Len(nodes) \in Nat /\ cap_count <= cap_count
    BY Counted
  <2>3. \A nd : nd.type \in {"TAKE", "CHAR_SET", "CHAR_CLASS"} => Labelled(nd, cap_count)
    BY DEF Labelled
  <2>4. \A n \in 1..Len(nodes') :
          n \in {node} \/ n > Len(nodes) => Labelled(nodes'[n], cap_count)
    BY <2>1, <2>3, FreshLabelled
  <2> QED
    BY <2>1, <2>2, <2>4, LabelsKept DEF LabelInv
<1>2. CASE AddAssertion
  <2>1. /\ Len(nodes') = Len(nodes) + 1 /\ Untouched(nodes', nodes, {node})
        /\ nodes'[node].type = "ASSERTION" /\ nodes'[Len(nodes) + 1] = FreshNode
    BY <1>2, GraphAddAssertion
  <2>2. cap_count \in Nat /\ Len(nodes) \in Nat /\ Len(nodes') \in Nat /\ cap_count <= cap_count
    BY <2>1, Counted
  <2>3. \A n \in 1..Len(nodes') : n > Len(nodes) => n = Len(nodes) + 1
    BY <2>1, <2>2
  <2>4. \A n \in 1..Len(nodes') :
          n \in {node} \/ n > Len(nodes) => Labelled(nodes'[n], cap_count)
    BY <2>1, <2>3, FreshLabelled DEF Labelled
  <2> QED
    BY <2>1, <2>2, <2>4, LabelsKept DEF LabelInv
<1> QED
  BY <1>1, <1>2

LEMMA LabelsRepeat ==
  ASSUME CompileInv, LabelInv, Repeat
  PROVE  Labels(nodes', cap_count)
<1>1. pc = "scan" /\ atom_start # NULL
  BY DEF Repeat
<1>2. /\ Len(nodes') \in Nat /\ Untouched(nodes', nodes, {atom_start})
      /\ \/ /\ Len(nodes') = Len(nodes) + 1 /\ nodes'[Len(nodes) + 1] = nodes[atom_start]
            /\ nodes'[atom_start].type = "EMPTY"
         \/ nodes' = nodes
  BY GraphRepeat
<1>3. atom_start \in 1..Len(nodes) /\ cap_count \in Nat /\ Len(nodes) \in Nat
      /\ cap_count <= cap_count
  BY <1>1, Counted, NotIdle DEF Places, NULL
<1>4. CASE nodes' = nodes
  BY <1>4 DEF LabelInv
<1>5. CASE nodes' # nodes
  <2>1. Labelled(nodes[atom_start], cap_count)
    BY <1>3 DEF LabelInv, Labels
  <2>2. Labelled(nodes'[atom_start], cap_count)
    BY <1>2, <1>5 DEF Labelled
  <2>3. \A n \in 1..Len(nodes') : n > Len(nodes) => n = Len(nodes) + 1
    BY <1>2, <1>3, <1>5
  <2>4. \A n \in 1..Len(nodes') :
          n \in {atom_start} \/ n > Len(nodes) => Labelled(nodes'[n], cap_count)
    BY <1>2, <1>5, <2>1, <2>2, <2>3
  <2> QED
    BY <1>2, <1>3, <2>4, LabelsKept DEF LabelInv
<1> QED
  BY <1>4, <1>5

(* Both ways to go on after a repetition. *)
LEMMA LabelsLink ==
  ASSUME Places, GraphOK(nodes), quant.greedy \in BOOLEAN, LabelInv, cap_count \in Nat,
         NEW first \in 1..Len(nodes), NEW last \in 1..Len(nodes),
         \A i \in 1..Len(groups) : groups[i].start # last,
         UNCHANGED <<start, atom_start, or_end, groups>>,
         LinkUnbounded(first, last) \/ LinkBounded(first, last)
  PROVE  Labels(nodes', cap_count)
<1>1. Len(nodes) \in Nat /\ cap_count <= cap_count
  BY DEF GraphOK
<1>2. CASE LinkUnbounded(first, last)
  <2>1. /\ Len(nodes') = Len(nodes) + 1 /\ Untouched(nodes', nodes, {node, last})
        /\ Splits(nodes'[node]) /\ Splits(nodes'[last]) /\ nodes'[Len(nodes) + 1] = FreshNode
    BY <1>2, LinkedLoop
  <2>2. Len(nodes') \in Nat /\ \A n \in 1..Len(nodes') : n > Len(nodes) => n = Len(nodes) + 1
    BY <1>1, <2>1
  <2>3. \A n \in 1..Len(nodes') :
          n \in {node, last} \/ n > Len(nodes) => Labelled(nodes'[n], cap_count)
    BY <2>1, <2>2, FreshLabelled DEF Splits, Labelled
  <2> QED
    BY <1>1, <2>1, <2>2, <2>3, LabelsKept DEF LabelInv
<1>3. CASE LinkBounded(first, last)
  <2>1. /\ Len(nodes') = Len(nodes) /\ Untouched(nodes', nodes, {node})
        /\ Splits(nodes'[node])
    BY <1>3, LinkedOn
  <2>2. Len(nodes') \in Nat /\ \A n \in 1..Len(nodes') : ~(n > Len(nodes))
    BY <1>1, <2>1
  <2>3. \A n \in 1..Len(nodes') :
          n \in {node} \/ n > Len(nodes) => Labelled(nodes'[n], cap_count)
    BY <2>1, <2>2 DEF Splits, Labelled
  <2> QED
    BY <1>1, <2>1, <2>2, <2>3, LabelsKept DEF LabelInv
<1> QED
  BY <1>2, <1>3

LEMMA LabelsRepeatFirst ==
  ASSUME CompileInv, LabelInv, RepeatFirst
  PROVE  Labels(nodes', cap_count)
<1>1. /\ pc = "repeat" /\ UNCHANGED <<start, atom_start, or_end, groups>>
      /\ IF Unbounded THEN LinkUnbounded(quant.sg_start, quant.sg_end)
         ELSE LinkBounded(quant.sg_start, quant.sg_end)
  BY DEF RepeatFirst
<1>2. Places /\ GraphOK(nodes) /\ cap_count \in Nat
  BY <1>1, NotIdle, Counted
<1>3. PICK first \in 1..Len(nodes), last \in 1..Len(nodes) :
        /\ first = quant.sg_start /\ last = quant.sg_end
        /\ \A i \in 1..Len(groups) : groups[i].start # last
  BY <1>1, Quant
<1>4. quant.greedy \in BOOLEAN
  BY <1>1, Quant DEF QuantType
<1>5. LinkUnbounded(first, last) \/ LinkBounded(first, last)
  BY <1>1, <1>3
<1> QED
  BY <1>1, <1>2, <1>3, <1>4, <1>5, LabelsLink

LEMMA LabelsCopyReturn ==
  ASSUME CompileInv, LabelInv, CopyReturn
  PROVE  Labels(nodes', cap_count)
<1>1. /\ pc = "copying" /\ CopyDone /\ UNCHANGED <<start, atom_start, or_end, groups>>
  BY DEF CopyReturn
<1>2. PICK g : Numbered(g) /\ CopyInv(g) /\ ClearOf(g)
  BY <1>1 DEF CompileInv, CopiesInv
<1>3. CopyFaithful
  BY <1>2, InvFaithful
<1>4. copy.sg_end = g.to /\ g.to \in DOMAIN dfs_map /\ dfs_map[g.to] = copy.new_end
  <2>1. copy.sg_end = g.to
    BY <1>2 DEF CopyInv
  <2> QED
    BY <2>1, <1>1, <1>3 DEF CopyFaithful
<1>5. Places /\ GraphOK(nodes) /\ cap_count \in Nat /\ Len(nodes) \in Nat
  BY <1>1, NotIdle, Counted
<1>6. PICK last \in 1..Len(nodes) : last = copy.new_end
  BY <1>2, <1>4 DEF CopyInv, Apart
<1>7. ASSUME NEW i \in 1..Len(groups) PROVE groups[i].start # last
  <2>1. groups[i].start \in 1..Len(g.ns) \ {g.new}
    BY <1>2 DEF ClearOf
  <2>2. last = g.new \/ last > Len(g.ns)
    BY <1>2, <1>4, <1>6 DEF CopyInv, Apart
  <2>3. Len(g.ns) \in Nat
    BY <1>2 DEF Numbered
  <2> QED
    BY <2>1, <2>2, <2>3, <1>5
<1>8. PICK first \in 1..Len(nodes) : first = quant.sg_start2
  BY <1>1, Quant
<1>9. quant.greedy \in BOOLEAN /\ quant.for \in {"required", "unbounded", "bounded"}
  <2>1. quant \in QuantType /\ quant.for # "none"
    BY <1>1, Quant
  <2> QED
    BY <2>1 DEF QuantType
<1>10. nodes' = nodes \/ LinkUnbounded(first, last) \/ LinkBounded(first, last)
  BY <1>6, <1>8, <1>9 DEF CopyReturn
<1>11. CASE nodes' = nodes
  BY <1>11 DEF LabelInv
<1>12. CASE LinkUnbounded(first, last) \/ LinkBounded(first, last)
  BY <1>1, <1>5, <1>7, <1>9, <1>12, LabelsLink
<1> QED
  BY <1>10, <1>11, <1>12

(* A turn of the search adds no node that is labelled otherwise. *)
WorkLabels(w, c) ==
  /\ w = [ns |-> w.ns, map |-> w.map, stack |-> w.stack, edge |-> w.edge]
  /\ w.ns \in Seq(Node) /\ Labels(w.ns, c)

LEMMA FollowLabels ==
  ASSUME NEW c, NEW w, WorkLabels(w, c), NEW seen, NEW m, NEW f, Follows(f, w, seen, m)
  PROVE  WorkLabels(f, c)
<1>0. PICK a, b, s, e :
        /\ w = [ns |-> a, map |-> b, stack |-> s, edge |-> e]
        /\ a \in Seq(Node) /\ Labels(a, c)
  BY DEF WorkLabels
<1>1. CASE m \in seen
  <2>1. PICK x : x = Lookup(w.map, m)
    OBVIOUS
  <2>2. f = [ns |-> a, map |-> b, stack |-> s, edge |-> x]
    BY <1>0, <1>1, <2>1 DEF Follows, Follow
  <2> QED
    BY <2>2, <1>0 DEF WorkLabels
<1>2. CASE m \notin seen
  <2>1. PICK x, y, z, ns2 : /\ x = Insert(w.map, m, Len(w.ns) + 1) /\ y = Append(w.stack, m)
                            /\ z = Len(w.ns) + 1 /\ ns2 = Append(w.ns, FreshNode)
    OBVIOUS
  <2>2. f = [ns |-> ns2, map |-> x, stack |-> y, edge |-> z]
    BY <1>2, <2>1 DEF Follows, Follow
  <2>3. FreshNode \in Node
    BY DEF FreshNode, Node, NodeType, NULL
  <2>4. PICK ns \in Seq(Node) : ns = w.ns /\ Labels(ns, c)
    BY <1>0
  <2>5. ns2 \in Seq(Node) /\ Len(ns2) = Len(ns) + 1 /\ Len(ns) \in Nat
        /\ ns2[Len(ns) + 1] = FreshNode /\ \A n \in 1..Len(ns) : ns2[n] = ns[n]
    BY <2>1, <2>3, <2>4, AppendProperties, LenProperties
  <2>6. Labels(ns2, c)
    <3>1. \A n \in 1..Len(ns2) : n \in 1..Len(ns) \/ n = Len(ns) + 1
      BY <2>5
    <3>2. \A n \in 1..Len(ns) : Labelled(ns[n], c)
      BY <2>4 DEF Labels
    <3> QED
      BY <3>1, <3>2, <2>5, FreshLabelled DEF Labels
  <2> QED
    BY <2>2, <2>5, <2>6 DEF WorkLabels
<1> QED
  BY <1>1, <1>2

LEMMA LabelsCopying ==
  ASSUME CompileInv, LabelInv, Copying
  PROVE  Labels(nodes', cap_count)
<1>1. pc = "copying" /\ CopyStep
  BY DEF Copying
<1>2. PICK g : Numbered(g) /\ CopyInv(g)
  BY <1>1 DEF CompileInv, CopiesInv
<1>3. GraphOK(nodes) /\ nodes \in Seq(Node) /\ Len(nodes) \in Nat /\ Labels(nodes, cap_count)
  BY <1>1, NotIdle DEF GraphOK, LabelInv
<1>4. CASE CopyReachEnd
  BY <1>3, <1>4 DEF CopyReachEnd
<1>5. CASE CopyNode
  <2>1. PICK n, t, seen, begun, left, right : TurnOf(g, n, t, seen, begun, left, right)
    BY <1>2, <1>5, Turn
  <2>2. /\ n \in g.R /\ nodes[n] = g.ns[n]
        /\ begun = [ns |-> nodes, map |-> dfs_map, stack |-> t, edge |-> NULL]
        /\ left = Follow(begun, seen, g.ns[n].next)
        /\ right = IF g.ns[n].type = "BRANCH" THEN Follow(left, seen, g.ns[n].u) ELSE left
        /\ nodes' = [right.ns EXCEPT ![dfs_map[n]] =
                       [g.ns[n] EXCEPT !.next = left.edge,
                                       !.u = IF g.ns[n].type = "BRANCH"
                                             THEN right.edge ELSE g.ns[n].u]]
    BY <2>1 DEF TurnOf
  <2>3. WorkLabels(begun, cap_count)
    BY <2>2, <1>3 DEF WorkLabels
  <2>4. WorkLabels(left, cap_count)
    <3>1. PICK m : m = g.ns[n].next
      OBVIOUS
    <3>2. Follows(left, begun, seen, m)
      BY <2>2, <3>1 DEF Follows
    <3> QED
      BY <2>3, <3>2, FollowLabels
  <2>5. right.ns \in Seq(Node) /\ Labels(right.ns, cap_count)
    <3>1. CASE g.ns[n].type = "BRANCH"
      <4>1. PICK m : m = g.ns[n].u
        OBVIOUS
      <4>2. Follows(right, left, seen, m)
        BY <2>2, <3>1, <4>1 DEF Follows
      <4>3. WorkLabels(right, cap_count)
        BY <2>4, <4>2, FollowLabels
      <4> QED
        BY <4>3 DEF WorkLabels
    <3>2. CASE g.ns[n].type # "BRANCH"
      BY <3>2, <2>2, <2>4 DEF WorkLabels
    <3> QED
      BY <3>1, <3>2
  <2>6. PICK nd \in Node : nd = g.ns[n]
    BY <2>2, <1>2 DEF Numbered
  <2>7. Labelled(nd, cap_count)
    <3>1. n \in 1..Len(nodes)
      <4>1. n \in DOMAIN g.ns /\ DOMAIN g.ns = 1..Len(g.ns) /\ Len(g.ns) \in Nat
        BY <2>2, <1>2 DEF Numbered
      <4>2. Len(g.ns) <= Len(nodes)
        BY <1>2 DEF CopyInv, Apart
      <4> QED
        BY <4>1, <4>2, <1>3
    <3> QED
      BY <3>1, <2>2, <2>6, <1>3 DEF Labels
  <2>8. PICK x, u : x = left.edge /\ u = IF nd.type = "BRANCH" THEN right.edge ELSE nd.u
    OBVIOUS
  <2>9. PICK nd2 : nd2 = [nd EXCEPT !.next = x, !.u = u]
    OBVIOUS
  <2>10. Labelled(nd2, cap_count)
    <3>1. nd2.type = nd.type /\ nd2.u = u
      BY <2>9 DEF Node
    <3> QED
      BY <3>1, <2>7, <2>8 DEF Labelled
  <2>11. PICK ns2 \in Seq(Node) : ns2 = right.ns
    BY <2>5
  <2>12. PICK k : k = dfs_map[n]
    OBVIOUS
  <2>13. nodes' = [ns2 EXCEPT ![k] = nd2]
    BY <2>2, <2>6, <2>8, <2>9, <2>11, <2>12
  <2>14. /\ Len(nodes') = Len(ns2)
         /\ \A m \in 1..Len(ns2) : nodes'[m] = IF m = k THEN nd2 ELSE ns2[m]
    BY <2>11, <2>13
  <2> QED
    BY <2>5, <2>10, <2>11, <2>14 DEF Labels
<1> QED
  BY <1>1, <1>4, <1>5 DEF CopyStep

LEMMA LabelsRepeatCopy ==
  ASSUME CompileInv, LabelInv, RepeatCopy, CopiesNumbered'
  PROVE  Labels(nodes', cap_count)
<1>1. PICK new : new = IF Required THEN node ELSE New(1)
  OBVIOUS
<1>2. /\ GraphOK(nodes') /\ Untouched(nodes', nodes, {})
      /\ \A n \in 1..Len(nodes') : n > Len(nodes) => nodes'[n] = FreshNode
  BY <1>1, GraphRepeatCopy
<1>3. cap_count \in Nat /\ Len(nodes) \in Nat /\ Len(nodes') \in Nat /\ cap_count <= cap_count
  BY <1>2, Counted DEF GraphOK
<1>4. \A n \in 1..Len(nodes') : n \in {} \/ n > Len(nodes) => Labelled(nodes'[n], cap_count)
  BY <1>2, FreshLabelled
<1> QED
  BY <1>2, <1>3, <1>4, LabelsKept DEF LabelInv

LEMMA InitLabels ==
  ASSUME CompileInit
  PROVE  LabelInv
BY DEF CompileInit, LabelInv, Labels

LEMMA StepLabels ==
  ASSUME CompileInv, LabelInv, [CompileNext]_compileVars, CopiesNumbered'
  PROVE  LabelInv'
<1>1. CASE UNCHANGED compileVars
  BY <1>1 DEF compileVars, LabelInv, Labels
<1>2. CASE \E text \in Texts : RxInit(text)
  <2>1. /\ nodes' = <<FreshNode>> /\ pc' = "scan"
    BY <1>2 DEF RxInit, RxInitStart
  <2> QED
    BY <2>1, FreshLabelled DEF LabelInv, Labels
<1>3. CASE PartialFree
  BY <1>3 DEF PartialFree, LabelInv, Labels
<1>4. CASE OpenGroup
  <2>1. pc' = "scan"
    BY <1>4 DEF OpenGroup, Scanning
  <2> QED
    BY <2>1, <1>4, LabelsOpenGroup DEF LabelInv
<1>5. CASE Finish
  <2>1. cap_count' = cap_count
    BY <1>5 DEF Finish
  <2> QED
    BY <2>1, <1>5, LabelsFinish DEF LabelInv
<1>6. CASE CloseGroup \/ Alternative \/ Star \/ Plus \/ Optional \/ AddAtom \/ AddAssertion
           \/ IgnoreCase \/ RxError \/ Repeat
  <2>1. Labels(nodes', cap_count)
    <3>1. CASE IgnoreCase \/ RxError
      BY <3>1 DEF IgnoreCase, RxError, LabelInv
    <3> QED
      BY <3>1, <1>6, LabelsCloseGroup, LabelsAlternative, LabelsStar, LabelsPlus, LabelsOptional,
         LabelsAtoms, LabelsRepeat
  <2>2. cap_count' = cap_count /\ pc' # "done"
    BY <1>6 DEF CloseGroup, Alternative, Star, Plus, Optional, Quantified, AddAtom, AddAssertion,
                IgnoreCase, RxError, Repeat, Scanning, scanVars
  <2> QED
    BY <2>1, <2>2 DEF LabelInv
<1>7. CASE RepeatCopy \/ RepeatFirst \/ RepeatEnd \/ Copying \/ CopyReturn
  <2>1. Labels(nodes', cap_count)
    <3>1. CASE RepeatEnd
      BY <3>1 DEF RepeatEnd, LabelInv
    <3> QED
      BY <3>1, <1>7, LabelsRepeatCopy, LabelsRepeatFirst, LabelsCopying, LabelsCopyReturn
  <2>2. cap_count' = cap_count
    BY <1>7 DEF RepeatCopy, RepeatFirst, RepeatEnd, Copying, CopyReturn, scanVars
  <2>3. pc' # "done"
    <3>1. CASE CopyReturn
      <4>1. quant.for \in {"required", "unbounded", "bounded"}
        <5>1. quant \in QuantType /\ quant.for # "none"
          BY <3>1, Quant DEF CopyReturn
        <5> QED
          BY <5>1 DEF QuantType
      <4> QED
        BY <3>1, <4>1 DEF CopyReturn, LinkUnbounded, LinkBounded
    <3> QED
      BY <3>1, <1>7 DEF RepeatCopy, RepeatFirst, RepeatEnd, Copying, LinkUnbounded, LinkBounded
  <2> QED
    BY <2>1, <2>2, <2>3 DEF LabelInv
<1> QED
  BY <1>1, <1>2, <1>3, <1>4, <1>5, <1>6, <1>7 DEF CompileNext, CompileStep

LEMMA EndWellFormed ==
  ASSUME CompileInv, LabelInv, OpenInv, pc = "done"
  PROVE  WellFormed(CompiledRx)
<1>1. Places /\ GraphOK(nodes) /\ Len(nodes) \in Nat /\ Counters /\ visited = {}
  BY NotIdle DEF CompileInv, CopiesInv
<1>2. nodes \in Seq(Node) /\ DOMAIN nodes = 1..Len(nodes)
      /\ \A n \in 1..Len(nodes) : NodeIn(nodes[n], Len(nodes))
  BY <1>1 DEF GraphOK
<1>3. [n \in DOMAIN nodes |->
         IF n \in visited THEN [nodes[n] EXCEPT !.type = "VISITED"] ELSE nodes[n]] = nodes
  <2>1. nodes = [n \in 1..Len(nodes) |-> nodes[n]]
    BY <1>2
  <2> QED
    BY <2>1, <1>1, <1>2
<1>4. PICK g : g = CompiledRx
  OBVIOUS
<1>5. g = [start |-> start, ignorecase |-> ignorecase, cap_count |-> rx_cap_count,
           char_classes |-> Classes, nodes |-> nodes]
  BY <1>3, <1>4 DEF CompiledRx
<1>6. start \in Nat /\ start \in 1..Len(nodes) /\ ignorecase \in BOOLEAN /\ rx_cap_count \in Nat
      /\ cap_count \in Nat /\ cap_count <= rx_cap_count
  <2>1. start = 1 /\ node \in 1..Len(nodes)
    BY <1>1 DEF Places
  <2>2. ignorecase \in BOOLEAN /\ rx_cap_count \in Nat /\ cap_count \in Nat
    BY <1>1 DEF Counters
  <2>3. cap_count <= rx_cap_count
    BY DEF LabelInv
  <2> QED
    BY <2>1, <2>2, <2>3, <1>1
<1>7. g \in Rx /\ g.start \in DOMAIN g.nodes
  BY <1>2, <1>5, <1>6, ClassesAssumption DEF Rx
<1>8. ASSUME NEW n \in DOMAIN g.nodes
      PROVE  /\ Successors(g.nodes[n]) \subseteq DOMAIN g.nodes
             /\ g.nodes[n].type \in {"CAPTURE_START", "CAPTURE_END"}
                  => g.nodes[n].u \in 1..g.cap_count
             /\ g.nodes[n].type = "CHAR_CLASS" => g.nodes[n].u \in DOMAIN g.char_classes
  <2>1. n \in 1..Len(nodes) /\ g.nodes = nodes /\ g.cap_count = rx_cap_count
        /\ g.char_classes = Classes
    BY <1>2, <1>5
  <2>2. PICK nd : nd = nodes[n] /\ NodeIn(nd, Len(nodes))
    BY <2>1, <1>2
  <2>3. nd.next = NULL => nd.type = "MATCH_END"
    BY <2>1, <2>2 DEF OpenInv, Ended
  <2>4. Successors(nd) \subseteq 1..Len(nodes)
    BY <2>2, <2>3, <1>1 DEF NodeIn, Successors, NULL
  <2>5. Labelled(nd, cap_count)
    BY <2>1, <2>2 DEF LabelInv, Labels
  <2>6. nd.type \in {"CAPTURE_START", "CAPTURE_END"} => nd.u \in 1..rx_cap_count
    BY <2>5, <1>6 DEF Labelled
  <2>7. nd.type = "CHAR_CLASS" => nd.u \in DOMAIN Classes
    BY <2>2 DEF NodeIn
  <2> QED
    BY <2>1, <2>2, <2>4, <2>6, <2>7, <1>2
<1> QED
  BY <1>4, <1>7, <1>8 DEF WellFormed

-----------------------------------------------------------------------------
(* Whatever the text, its length and the nesting of its groups, and        *)
(* whatever the bounds of its quantifiers: every edge of the graph under   *)
(* construction leads to a node of it, the places the code remembers are   *)
(* nodes of it, the open end never is NULL, not even after a copy, and the *)
(* stack of the search has room for what is pushed.                        *)
THEOREM CompileTypes == CompileSpec /\ []CopiesNumbered => []CompileTypeOK
<1>1. CompileInit => CompileInv
  BY InitInv
<1>2. CompileInv /\ [CompileNext]_compileVars /\ CopiesNumbered' => CompileInv'
  BY StepCompile
<1>3. CompileInv => CompileTypeOK
  BY InvType
<1> QED
  BY <1>1, <1>2, <1>3, PTL DEF CompileSpec

(* And every copy that a quantifier makes, of an atom that may hold other  *)
(* quantifiers and alternatives, is faithful when it is used.              *)
THEOREM EveryCopyFaithful == CompileSpec /\ []CopiesNumbered => []CopyFaithful
<1>1. CompileInit => CompileInv
  BY InitInv
<1>2. CompileInv /\ [CompileNext]_compileVars /\ CopiesNumbered' => CompileInv'
  BY StepCompile
<1>3. CompileInv => CopyFaithful
  BY InvCopy
<1> QED
  BY <1>1, <1>2, <1>3, PTL DEF CompileSpec

(* Between two symbols of a plain text, however long and deeply nested, no *)
(* edge is unset but those of the places where the code goes on: a         *)
(* quantifier, with the copies it makes, and a | that rewrite a node leave *)
(* no other one dangling.                                                  *)
THEOREM NothingDangles ==
  CompileSpec /\ []CopiesNumbered => [](Plain(regexp) => OnlyOpenEndsDangle)
<1>1. CompileInit => CompileInv /\ (Plain(regexp) => OpenInv)
  BY InitInv, InitOpen
<1>2. /\ CompileInv /\ (Plain(regexp) => OpenInv)
      /\ [CompileNext]_compileVars /\ CopiesNumbered'
      => CompileInv' /\ (Plain(regexp) => OpenInv)'
  BY StepCompile, StepOpen
<1>3. CompileInv /\ (Plain(regexp) => OpenInv) => (Plain(regexp) => OnlyOpenEndsDangle)
  BY OpenDangle
<1> QED
  BY <1>1, <1>2, <1>3, PTL DEF CompileSpec

(* The graph of a plain text that has been compiled is one that rx_match   *)
(* can walk: no walk meets NULL, every group a node names has its slot,    *)
(* and every character class is there.  It is what the matcher is assumed  *)
(* to be given.                                                            *)
THEOREM CompiledWellFormed ==
  CompileSpec /\ []CopiesNumbered =>
    [](pc = "done" /\ Plain(regexp) => WellFormed(CompiledRx))
<1>1. CompileInit => CompileInv /\ LabelInv /\ (Plain(regexp) => OpenInv)
  BY InitInv, InitLabels, InitOpen
<1>2. /\ CompileInv /\ LabelInv /\ (Plain(regexp) => OpenInv)
      /\ [CompileNext]_compileVars /\ CopiesNumbered'
      => CompileInv' /\ LabelInv' /\ (Plain(regexp) => OpenInv)'
  BY StepCompile, StepLabels, StepOpen
<1>3. CompileInv /\ LabelInv /\ (Plain(regexp) => OpenInv)
      => (pc = "done" /\ Plain(regexp) => WellFormed(CompiledRx))
  BY EndWellFormed
<1> QED
  BY <1>1, <1>2, <1>3, PTL DEF CompileSpec

-----------------------------------------------------------------------------
(* No way out.  A trap is a set of nodes that no edge leaves and no edge   *)
(* of which is unset: a walk that enters it never comes to the open end.   *)

Edges(nd) == IF nd.type = "BRANCH" THEN {nd.next, nd.u} ELSE {nd.next}

Trap(ns, S) ==
  S # {} /\ S \subseteq 1..Len(ns) /\ \A n \in S : Edges(ns[n]) \subseteq S

NoTrap(ns) == \A S : ~Trap(ns, S)

(* What keeps a node out of a trap. *)
LEMMA Trapped ==
  ASSUME NEW ns, NEW S, Trap(ns, S), NEW n \in S
  PROVE  /\ ns[n].next \in S /\ ns[n].next # NULL
         /\ \A m : Forks(ns[n], m) => m \in S
<1>1. Edges(ns[n]) \subseteq S /\ S \subseteq 1..Len(ns)
  BY DEF Trap
<1>2. ns[n].next \in S
  BY <1>1 DEF Edges
<1>3. \A k \in 1..Len(ns) : k # NULL
  BY DEF NULL
<1>4. \A m : Forks(ns[n], m) => m \in S
  BY <1>1 DEF Edges, Forks
<1> QED
  BY <1>1, <1>2, <1>3, <1>4

(* Nodes are written that are in no trap. *)
LEMMA StillNoTrap ==
  ASSUME NEW ns, NoTrap(ns), NEW ns2, NEW W, Untouched(ns2, ns, W),
         \A n \in 1..Len(ns2) : n \in 1..Len(ns) \/ n \in W,
         \A S : Trap(ns2, S) => S \cap W = {}
  PROVE  NoTrap(ns2)
<1> SUFFICES ASSUME NEW S, Trap(ns2, S) PROVE FALSE
  BY DEF NoTrap
<1>1. S # {} /\ S \subseteq 1..Len(ns2) /\ \A n \in S : Edges(ns2[n]) \subseteq S
  BY DEF Trap
<1>2. \A n \in S : n \in 1..Len(ns) /\ n \notin W
  BY <1>1
<1>3. \A n \in S : ns2[n] = ns[n]
  BY <1>2 DEF Untouched
<1>4. S \subseteq 1..Len(ns) /\ \A n \in S : Edges(ns[n]) \subseteq S
  BY <1>1, <1>2, <1>3
<1>5. Trap(ns, S)
  BY <1>1, <1>4 DEF Trap
<1> QED
  BY <1>5 DEF NoTrap

(* As well, a node moves to the new node c and leaves a behind.            *)
LEMMA MovedNoTrap ==
  ASSUME NEW ns, GraphOK(ns), NoTrap(ns), NEW ns2, NEW W, Untouched(ns2, ns, W),
         NEW a \in 1..Len(ns), a \in W, NEW c, c \notin 1..Len(ns), ns2[c] = ns[a],
         \A n \in 1..Len(ns2) : n \in 1..Len(ns) \/ n \in W \/ n = c,
         \A S : Trap(ns2, S) => S \cap W = {}
  PROVE  NoTrap(ns2)
<1> SUFFICES ASSUME NEW S, Trap(ns2, S) PROVE FALSE
  BY DEF NoTrap
<1>1. S # {} /\ S \subseteq 1..Len(ns2) /\ \A n \in S : Edges(ns2[n]) \subseteq S
  BY DEF Trap
<1>2. \A n \in S : n # c => n \in 1..Len(ns) /\ ns2[n] = ns[n]
  BY <1>1 DEF Untouched
<1>3. PICK T : T = {n \in 1..Len(ns) : n \in S \/ (n = a /\ c \in S)}
  OBVIOUS
<1>4. T # {} /\ T \subseteq 1..Len(ns)
  BY <1>1, <1>2, <1>3
<1>5. ASSUME NEW n \in 1..Len(ns) PROVE \A m \in Edges(ns[n]) : m # NULL => m \in 1..Len(ns)
  <2>1. NodeIn(ns[n], Len(ns)) /\ Len(ns) \in Nat
    BY DEF GraphOK
  <2> QED
    BY <2>1 DEF NodeIn, Edges, NULL
<1>6. \A n \in S : \A m \in Edges(ns2[n]) : m # NULL /\ m \in S
  <2>1. \A k \in 1..Len(ns2) : k # NULL
    BY DEF NULL
  <2> QED
    BY <2>1, <1>1
<1>7. ASSUME NEW n \in T PROVE Edges(ns[n]) \subseteq T
  <2>1. \A m \in 1..Len(ns) : m \in S => m \in T
    BY <1>3
  <2>2. CASE n \in S
    <3>1. ns2[n] = ns[n] /\ n \in 1..Len(ns)
      BY <2>2, <1>2, <1>4
    <3> QED
      BY <3>1, <2>1, <2>2, <1>5, <1>6
  <2>3. CASE n = a /\ c \in S
    <3>1. Edges(ns2[c]) = Edges(ns[n])
      BY <2>3
    <3> QED
      BY <3>1, <2>1, <2>3, <1>5, <1>6
  <2> QED
    BY <2>2, <2>3, <1>3
<1>8. Trap(ns, T)
  BY <1>4, <1>7 DEF Trap
<1> QED
  BY <1>8 DEF NoTrap

(* The open ends are open. *)
Undone(ns) == \A e \in OpenEnds : e # NULL => ns[e].next = NULL

LEMMA StillUndone ==
  ASSUME Places, GraphOK(nodes), Undone(nodes), NEW W, Untouched(nodes', nodes, W),
         \A e \in OrEnds : e # NULL => e \notin W,
         nodes'[node'].next = NULL, UNCHANGED <<or_end, groups>>
  PROVE  Undone(nodes)'
<1>1. OpenEnds = {node} \cup OrEnds /\ OrEnds \subseteq 0..Len(nodes) /\ DOMAIN groups = 1..Len(groups)
  BY EndsIn DEF Places
<1>2. OpenEnds' = {node'} \cup OrEnds
  BY <1>1 DEF OpenEnds, OrEnds
<1>3. ASSUME NEW e \in OrEnds, e # NULL PROVE nodes'[e].next = NULL
  <2>1. e \in 1..Len(nodes) /\ e \notin W
    BY <1>1, <1>3 DEF NULL, GraphOK
  <2>2. nodes[e].next = NULL
    BY <1>1, <1>3 DEF Undone
  <2> QED
    BY <2>1, <2>2 DEF Untouched
<1> QED
  BY <1>2, <1>3 DEF Undone

LEMMA TrapStar ==
  ASSUME CompileInv, PlacesApart(nodes), NoTrap(nodes), Undone(nodes), Star
  PROVE  NoTrap(nodes') /\ Undone(nodes)'
<1>1. /\ pc = "scan" /\ atom_start # NULL /\ UNCHANGED <<or_end, groups>>
  BY DEF Star, Scanning, Quantified
<1>2. Places /\ GraphOK(nodes) /\ Len(nodes) \in Nat /\ atom_start \in 1..Len(nodes)
  BY <1>1, NotIdle DEF Places, NULL
<1>3. /\ Len(nodes') = Len(nodes) + 2 /\ Untouched(nodes', nodes, {node, atom_start})
      /\ Forks(nodes'[node], Len(nodes) + 2) /\ Forks(nodes'[atom_start], Len(nodes) + 2)
      /\ nodes'[Len(nodes) + 1] = nodes[atom_start]
      /\ nodes'[Len(nodes) + 2] = FreshNode /\ node' = Len(nodes) + 2
  BY GraphStar
<1>4. PICK ns2, W : ns2 = nodes' /\ W = {node, atom_start, Len(nodes) + 2}
  OBVIOUS
<1>5. ASSUME NEW S, Trap(ns2, S) PROVE S \cap W = {}
  <2>1. Len(nodes) + 2 \notin S
    BY <1>3, <1>4, <1>5, Trapped, FreshIn
  <2> QED
    BY <2>1, <1>3, <1>4, <1>5, Trapped
<1>6. NoTrap(ns2)
  <2>1. \A n \in 1..Len(ns2) : n \in 1..Len(nodes) \/ n \in W \/ n = Len(nodes) + 1
    BY <1>2, <1>3, <1>4
  <2>2. Untouched(ns2, nodes, W) /\ atom_start \in W /\ Len(nodes) + 1 \notin 1..Len(nodes)
    BY <1>2, <1>3, <1>4 DEF Untouched
  <2> QED
    BY <2>1, <2>2, <1>2, <1>3, <1>4, <1>5, MovedNoTrap
<1>7. Undone(nodes)'
  <2>1. \A e \in OrEnds : e # NULL => e \notin {node, atom_start}
    BY DEF PlacesApart
  <2>2. nodes'[node'].next = NULL
    BY <1>3, FreshIn
  <2> QED
    BY <2>1, <2>2, <1>1, <1>2, <1>3, StillUndone
<1> QED
  BY <1>4, <1>6, <1>7

(* One new node is the open end, and the node written leads to it. *)
LEMMA TrapOne ==
  ASSUME CompileInv, pc # "idle", NoTrap(nodes), Undone(nodes),
         UNCHANGED <<or_end, groups>>, Len(nodes') = Len(nodes) + 1,
         NEW W, Untouched(nodes', nodes, W), \A e \in OrEnds : e # NULL => e \notin W,
         \A n \in W : n = NULL \/ nodes'[n].next = Len(nodes) + 1 \/ Forks(nodes'[n], Len(nodes) + 1),
         nodes'[Len(nodes) + 1] = FreshNode, node' = Len(nodes) + 1
  PROVE  NoTrap(nodes') /\ Undone(nodes)'
<1>1. Places /\ GraphOK(nodes) /\ Len(nodes) \in Nat
  BY NotIdle
<1>2. PICK ns2, X, k : ns2 = nodes' /\ k = Len(nodes) + 1 /\ X = W \cup {k}
  OBVIOUS
<1>3. ASSUME NEW S, Trap(ns2, S) PROVE S \cap X = {}
  <2>1. k \notin S
    BY <1>2, <1>3, Trapped, FreshIn
  <2>2. NULL \notin S
    BY <1>3 DEF Trap, NULL
  <2> QED
    BY <2>1, <2>2, <1>2, <1>3, Trapped
<1>4. NoTrap(ns2)
  <2>1. \A n \in 1..Len(ns2) : n \in 1..Len(nodes) \/ n \in X
    BY <1>1, <1>2
  <2>2. Untouched(ns2, nodes, X)
    BY <1>2 DEF Untouched
  <2> QED
    BY <2>1, <2>2, <1>3, StillNoTrap
<1>5. nodes'[node'].next = NULL
  BY FreshIn
<1>6. Undone(nodes)'
  BY <1>1, <1>5, StillUndone
<1> QED
  BY <1>2, <1>4, <1>6

LEMMA TrapPlus ==
  ASSUME CompileInv, PlacesApart(nodes), NoTrap(nodes), Undone(nodes), Plus
  PROVE  NoTrap(nodes') /\ Undone(nodes)'
<1>1. pc = "scan" /\ UNCHANGED <<or_end, groups>>
  BY DEF Plus, Scanning, Quantified
<1>2. PICK W : W = {node}
  OBVIOUS
<1>3. /\ Len(nodes') = Len(nodes) + 1 /\ Untouched(nodes', nodes, W)
      /\ \A n \in W : Forks(nodes'[n], Len(nodes) + 1)
      /\ nodes'[Len(nodes) + 1] = FreshNode /\ node' = Len(nodes) + 1
  BY <1>2, GraphPlus
<1>4. \A e \in OrEnds : e # NULL => e \notin W
  BY <1>2 DEF PlacesApart
<1> QED
  BY <1>1, <1>3, <1>4, TrapOne

LEMMA TrapAddAssertion ==
  ASSUME CompileInv, PlacesApart(nodes), NoTrap(nodes), Undone(nodes), AddAssertion
  PROVE  NoTrap(nodes') /\ Undone(nodes)'
<1>1. pc = "scan" /\ UNCHANGED <<or_end, groups>>
  BY DEF AddAssertion
<1>2. PICK W : W = {node}
  OBVIOUS
<1>3. /\ Len(nodes') = Len(nodes) + 1 /\ Untouched(nodes', nodes, W)
      /\ \A n \in W : nodes'[n].next = Len(nodes) + 1
      /\ nodes'[Len(nodes) + 1] = FreshNode /\ node' = Len(nodes) + 1
  BY <1>2, GraphAddAssertion
<1>4. \A e \in OrEnds : e # NULL => e \notin W
  BY <1>2 DEF PlacesApart
<1> QED
  BY <1>1, <1>3, <1>4, TrapOne

LEMMA TrapOptional ==
  ASSUME CompileInv, PlacesApart(nodes), NoTrap(nodes), Undone(nodes), Optional,
         atom_start # node
  PROVE  NoTrap(nodes') /\ Undone(nodes)'
<1>1. /\ pc = "scan" /\ atom_start # NULL /\ UNCHANGED <<or_end, groups>>
  BY DEF Optional, Scanning, Quantified
<1>2. Places /\ GraphOK(nodes) /\ Len(nodes) \in Nat /\ atom_start \in 1..Len(nodes)
      /\ node \in 1..Len(nodes)
  BY <1>1, NotIdle DEF Places, NULL
<1>3. /\ Len(nodes') = Len(nodes) + 1 /\ Untouched(nodes', nodes, {atom_start})
      /\ Forks(nodes'[atom_start], node)
      /\ nodes'[Len(nodes) + 1] = nodes[atom_start] /\ node' = node
  BY GraphOptional
<1>4. nodes'[node].next = NULL
  <2>1. node \in OpenEnds /\ node # NULL
    BY <1>2 DEF OpenEnds, NULL
  <2> QED
    BY <2>1, <1>2, <1>3 DEF Undone, Untouched
<1>5. PICK ns2, W : ns2 = nodes' /\ W = {atom_start}
  OBVIOUS
<1>6. ASSUME NEW S, Trap(ns2, S) PROVE S \cap W = {}
  BY <1>3, <1>4, <1>5, <1>6, Trapped
<1>7. NoTrap(ns2)
  <2>1. \A n \in 1..Len(ns2) : n \in 1..Len(nodes) \/ n \in W \/ n = Len(nodes) + 1
    BY <1>2, <1>3, <1>5
  <2> QED
    BY <2>1, <1>2, <1>3, <1>5, <1>6, MovedNoTrap
<1>8. Undone(nodes)'
  <2>1. \A e \in OrEnds : e # NULL => e \notin {atom_start}
    BY DEF PlacesApart
  <2> QED
    BY <2>1, <1>1, <1>2, <1>3, <1>4, StillUndone
<1> QED
  BY <1>5, <1>7, <1>8

LEMMA TrapAddAtom ==
  ASSUME CompileInv, PlacesApart(nodes), NoTrap(nodes), Undone(nodes), AddAtom
  PROVE  NoTrap(nodes') /\ Undone(nodes)'
<1>1. pc = "scan" /\ UNCHANGED <<or_end, groups>>
  BY DEF AddAtom
<1>2. Places /\ GraphOK(nodes) /\ Len(nodes) \in Nat /\ node \in 1..Len(nodes)
  BY <1>1, NotIdle DEF Places
<1>3. /\ Len(nodes) < Len(nodes') /\ Len(nodes') \in Nat
      /\ Untouched(nodes', nodes, {node}) /\ nodes'[node].next = Len(nodes) + 1
      /\ node' = Len(nodes') /\ nodes'[Len(nodes')] = FreshNode
      /\ \A n \in 1..Len(nodes') : n > Len(nodes) /\ n # node' => nodes'[n].next = n + 1
  BY GraphAddAtom
<1>4. PICK ns2, W : ns2 = nodes' /\ W = {node} \cup ((Len(nodes) + 1)..Len(nodes'))
  OBVIOUS
<1>5. ASSUME NEW S, Trap(ns2, S) PROVE S \cap W = {}
  <2>1. PICK T : T = {n \in S : n > Len(nodes)}
    OBVIOUS
  <2>2. T = {}
    <3> SUFFICES ASSUME T # {} PROVE FALSE
      OBVIOUS
    <3>1. T \subseteq 0..Len(nodes')
      <4>1. S \subseteq 1..Len(nodes')
        BY <1>4, <1>5 DEF Trap
      <4>2. T \subseteq S /\ 1..Len(nodes') \subseteq 0..Len(nodes')
        BY <2>1, <1>3
      <4> QED
        BY <4>1, <4>2
    <3>2. PICK x \in T : \A y \in T : y <= x
      BY <3>1, <1>3, GreatestNat
    <3>3. x \in S /\ x > Len(nodes) /\ x \in 1..Len(nodes')
      BY <2>1, <3>2, <1>4, <1>5 DEF Trap
    <3>4. ns2[x].next \in S /\ ns2[x].next # NULL
      BY <3>3, <1>5, Trapped
    <3>5. x # node'
      BY <3>4, <1>3, <1>4, FreshIn
    <3>6. x + 1 \in T
      BY <3>3, <3>4, <3>5, <2>1, <1>2, <1>3, <1>4
    <3> QED
      BY <3>2, <3>3, <3>6
  <2>3. Len(nodes) + 1 \notin S
    BY <2>1, <2>2, <1>2
  <2>4. node \notin S
    BY <2>3, <1>3, <1>4, <1>5, Trapped
  <2> QED
    BY <2>1, <2>2, <2>4, <1>2, <1>4
<1>6. NoTrap(ns2)
  <2>1. \A n \in 1..Len(ns2) : n \in 1..Len(nodes) \/ n \in W
    BY <1>2, <1>3, <1>4
  <2>2. Untouched(ns2, nodes, W)
    BY <1>3, <1>4 DEF Untouched
  <2> QED
    BY <2>1, <2>2, <1>5, StillNoTrap
<1>7. Undone(nodes)'
  <2>1. \A e \in OrEnds : e # NULL => e \notin {node}
    BY DEF PlacesApart
  <2>2. nodes'[node'].next = NULL
    BY <1>3, FreshIn
  <2> QED
    BY <2>1, <2>2, <1>1, <1>2, <1>3, StillUndone
<1> QED
  BY <1>4, <1>6, <1>7

(* Two groups' alternatives meet at different nodes. *)
EndsApart ==
  \A i \in 1..Len(groups) : groups[i].or_end # NULL =>
    /\ groups[i].or_end # or_end
    /\ \A j \in 1..(i - 1) : groups[j].or_end # groups[i].or_end

(* Where a group opens, its alternatives meet nowhere yet. *)
LEMMA TrapOpenGroup ==
  ASSUME CompileInv, PlacesApart(nodes), NoTrap(nodes), Undone(nodes), OpenGroup
  PROVE  NoTrap(nodes') /\ Undone(nodes)'
<1>1. /\ pc = "scan" /\ groups' = Append(groups, [start |-> node, or_end |-> or_end])
      /\ or_end' = NULL
  BY DEF OpenGroup, Scanning
<1>2. Places /\ GraphOK(nodes) /\ Len(nodes) \in Nat /\ node \in 1..Len(nodes)
  BY <1>1, NotIdle DEF Places
<1>3. /\ Len(nodes') = Len(nodes) + 1 /\ Untouched(nodes', nodes, {node})
      /\ nodes'[node].next = Len(nodes) + 1
      /\ nodes'[Len(nodes) + 1] = FreshNode /\ node' = Len(nodes) + 1
  BY GraphOpenGroup
<1>4. PICK ns2, k, W : ns2 = nodes' /\ k = Len(nodes) + 1 /\ W = {node, k}
  OBVIOUS
<1>5. ASSUME NEW S, Trap(ns2, S) PROVE S \cap W = {}
  <2>1. k \notin S
    BY <1>3, <1>4, <1>5, Trapped, FreshIn
  <2> QED
    BY <2>1, <1>3, <1>4, <1>5, Trapped
<1>6. NoTrap(ns2)
  <2>1. \A n \in 1..Len(ns2) : n \in 1..Len(nodes) \/ n \in W
    BY <1>2, <1>3, <1>4
  <2>2. Untouched(ns2, nodes, W)
    BY <1>3, <1>4 DEF Untouched
  <2> QED
    BY <2>1, <2>2, <1>5, StillNoTrap
<1>7. OpenEnds = {node} \cup OrEnds /\ OrEnds \subseteq 0..Len(nodes)
  BY <1>2, EndsIn
<1>8. OpenEnds' \subseteq {node', NULL} \cup OrEnds
  <2>1. groups \in Seq([start : 1..Len(nodes), or_end : 0..Len(nodes)])
        /\ [start |-> node, or_end |-> or_end] \in [start : 1..Len(nodes), or_end : 0..Len(nodes)]
    BY <1>2 DEF Places
  <2>2. /\ DOMAIN groups' = 1..(Len(groups) + 1) /\ Len(groups) \in Nat
        /\ \A i \in 1..Len(groups) : groups'[i] = groups[i]
        /\ groups'[Len(groups) + 1] = [start |-> node, or_end |-> or_end]
    BY <2>1, <1>1, AppendProperties, LenProperties
  <2>3. \A i \in DOMAIN groups' : groups'[i].or_end \in OrEnds
    <3>1. \A i \in DOMAIN groups' : i \in 1..Len(groups) \/ i = Len(groups) + 1
      BY <2>2
    <3> QED
      BY <3>1, <2>2 DEF OrEnds
  <2> QED
    BY <2>3, <1>1 DEF OpenEnds
<1>9. Undone(nodes)'
  <2> SUFFICES ASSUME NEW e \in OpenEnds', e # NULL PROVE nodes'[e].next = NULL
    BY DEF Undone
  <2>1. CASE e = node'
    BY <2>1, <1>3, FreshIn
  <2>2. CASE e \in OrEnds
    <3>1. e \in 1..Len(nodes) /\ e # node
      BY <2>2, <1>2, <1>7 DEF NULL, PlacesApart
    <3>2. nodes[e].next = NULL
      BY <2>2, <1>7 DEF Undone
    <3> QED
      BY <3>1, <3>2, <1>3 DEF Untouched
  <2> QED
    BY <2>1, <2>2, <1>8
<1> QED
  BY <1>4, <1>6, <1>9

LEMMA TrapCloseGroup ==
  ASSUME CompileInv, PlacesApart(nodes), NoTrap(nodes), Undone(nodes), CloseGroup, EndsApart
  PROVE  NoTrap(nodes') /\ Undone(nodes)'
<1>1. /\ pc = "scan" /\ groups # <<>> /\ groups' = SubSeq(groups, 1, Len(groups) - 1)
      /\ or_end' = groups[Len(groups)].or_end
  BY DEF CloseGroup, Scanning, Innermost
<1>2. Places /\ GraphOK(nodes) /\ Len(nodes) \in Nat /\ node \in 1..Len(nodes)
  BY <1>1, NotIdle DEF Places
<1>3. /\ Len(nodes') = Len(nodes) + 1 /\ Untouched(nodes', nodes, {node, or_end})
      /\ JoinedEnd \in {node, or_end} /\ nodes'[JoinedEnd].next = Len(nodes) + 1
      /\ node # JoinedEnd => nodes'[node].next = or_end /\ or_end # NULL
      /\ nodes'[Len(nodes) + 1] = FreshNode /\ node' = Len(nodes) + 1
  BY GraphCloseGroup
<1>4. PICK ns2, k, W : ns2 = nodes' /\ k = Len(nodes) + 1 /\ W = {node, or_end, k}
  OBVIOUS
<1>5. ASSUME NEW S, Trap(ns2, S) PROVE S \cap W = {}
  <2>1. k \notin S
    BY <1>3, <1>4, <1>5, Trapped, FreshIn
  <2>2. JoinedEnd \notin S
    BY <2>1, <1>3, <1>4, <1>5, Trapped
  <2>3. or_end # NULL => or_end = JoinedEnd
    BY DEF JoinedEnd
  <2>4. NULL \notin S
    BY <1>5 DEF Trap, NULL
  <2>5. or_end \notin S
    BY <2>2, <2>3, <2>4
  <2>6. node \notin S
    BY <2>2, <2>5, <1>3, <1>4, <1>5, Trapped
  <2> QED
    BY <2>1, <2>5, <2>6, <1>4
<1>6. NoTrap(ns2)
  <2>1. \A n \in 1..Len(ns2) : n \in 1..Len(nodes) \/ n \in W
    BY <1>2, <1>3, <1>4
  <2>2. Untouched(ns2, nodes, W)
    BY <1>3, <1>4 DEF Untouched
  <2> QED
    BY <2>1, <2>2, <1>5, StillNoTrap
<1>7. OpenEnds = {node} \cup OrEnds /\ OrEnds \subseteq 0..Len(nodes)
  BY <1>2, EndsIn
<1>8. \A e \in OpenEnds' : e # NULL /\ e # node' => e \in OrEnds /\ e # or_end
  <2>1. PICK G : G = [start : 1..Len(nodes), or_end : 0..Len(nodes)]
    OBVIOUS
  <2>2. groups \in Seq(G)
    BY <2>1, <1>2 DEF Places
  <2>3. /\ Len(groups) \in Nat \ {0} /\ DOMAIN groups' = 1..(Len(groups) - 1)
        /\ \A i \in 1..(Len(groups) - 1) : groups'[i] = groups[i]
    <3>1. Len(groups) \in Nat \ {0}
      BY <2>2, <1>1, EmptySeq, LenProperties
    <3> QED
      BY <2>2, <3>1, <1>1
  <2>4. \A i \in 1..(Len(groups) - 1) : i \in 1..Len(groups)
    BY <2>3
  <2>5. Len(groups) \in 1..Len(groups)
    BY <2>3
  <2>6. OpenEnds' = {node', or_end'} \cup {groups'[i].or_end : i \in DOMAIN groups'}
    BY DEF OpenEnds
  <2>7. \A e \in OpenEnds' : e # node' => \E i \in 1..Len(groups) : e = groups[i].or_end
    BY <2>3, <2>4, <2>5, <2>6, <1>1
  <2> QED
    BY <2>7 DEF OrEnds, EndsApart
<1>9. Undone(nodes)'
  <2> SUFFICES ASSUME NEW e \in OpenEnds', e # NULL PROVE nodes'[e].next = NULL
    BY DEF Undone
  <2>1. CASE e = node'
    BY <2>1, <1>3, FreshIn
  <2>2. CASE e # node'
    <3>0. e \in OrEnds /\ e # or_end /\ e \in OpenEnds
      BY <2>2, <1>7, <1>8
    <3>1. e \in 1..Len(nodes) /\ e # node /\ e # or_end /\ e \in OpenEnds
      <4>1. e # node
        BY <3>0 DEF PlacesApart
      <4>2. e \in 1..Len(nodes)
        BY <3>0, <1>2, <1>7 DEF NULL
      <4> QED
        BY <3>0, <4>1, <4>2
    <3>2. nodes[e].next = NULL
      BY <3>1 DEF Undone
    <3> QED
      BY <3>1, <3>2, <1>3 DEF Untouched
  <2> QED
    BY <2>1, <2>2
<1> QED
  BY <1>4, <1>6, <1>9

LEMMA TrapAlternative ==
  ASSUME CompileInv, InScan, NoTrap(nodes), Undone(nodes), Alternative, Plain(regexp)
  PROVE  NoTrap(nodes') /\ Undone(nodes)'
<1>1. /\ pc = "scan" /\ UNCHANGED <<atom_start, groups>> /\ Peek(0) = "|"
  BY DEF Alternative, Scanning
<1>2. Places /\ GraphOK(nodes) /\ Len(nodes) \in Nat /\ node \in 1..Len(nodes)
  BY <1>1, NotIdle DEF Places
<1>3. /\ Len(nodes') = Len(nodes) + 2
      /\ Untouched(nodes', nodes, {node, OrStart}) /\ OrStart \in 1..Len(nodes)
      /\ Forks(nodes'[OrStart], Len(nodes) + 2)
      /\ nodes'[Len(nodes) + 1] = nodes[OrStart]
      /\ nodes'[Len(nodes) + 2] = FreshNode /\ node' = Len(nodes) + 2
      /\ or_end' = JoinedEnd
      /\ or_end # NULL => nodes'[node].next = or_end
      /\ or_end = NULL => Untouched(nodes', nodes, {OrStart})
  BY GraphAlternative
<1>4. OpenEnds = {node} \cup OrEnds /\ OrEnds \subseteq 0..Len(nodes)
  BY <1>2, EndsIn
<1>5. nodes[OrStart].next # NULL
  <2>1. Len(groups) \in 0..Len(groups) /\ Len(groups) \in Nat
    BY <1>2, GroupsIn
  <2>2. OrStart = First(nodes, Len(groups))
    <3>1. groups = <<>> <=> Len(groups) = 0
      BY <1>2, EmptySeq DEF Places
    <3> QED
      BY <3>1 DEF OrStart, First, Innermost
  <2>3. ~EmptyAt(regexp, rpos)
    <3>1. rpos \in 1..Len(regexp) /\ regexp[rpos] = "|"
      <4>1. Reading /\ Symbol(0)
        BY <1>1, NotIdle DEF Symbol
      <4> QED
        BY <4>1, <1>1, Here
    <3> QED
      BY <3>1 DEF Plain
  <2> QED
    BY <2>1, <2>2, <2>3 DEF InScan
<1>6. \A e \in OpenEnds : e # NULL => e # OrStart
  BY <1>5 DEF Undone
<1>7. \A e \in OrEnds : e # NULL => e # node /\ e \in 1..Len(nodes) /\ nodes'[e].next = NULL
  <2> SUFFICES ASSUME NEW e \in OrEnds, e # NULL
               PROVE  e # node /\ e \in 1..Len(nodes) /\ nodes'[e].next = NULL
    OBVIOUS
  <2>1. e # node
    BY DEF InScan, PlacesApart
  <2>2. e \in 1..Len(nodes)
    BY <1>2, <1>4 DEF NULL
  <2>3. e \in OpenEnds
    BY <1>4
  <2>4. e # OrStart /\ nodes[e].next = NULL
    BY <2>3, <1>6 DEF Undone
  <2> QED
    BY <2>1, <2>2, <2>4, <1>3 DEF Untouched
<1>8. PICK ns2, k, W : ns2 = nodes' /\ k = Len(nodes) + 2 /\ W = {node, OrStart, k}
  OBVIOUS
<1>9. node # OrStart
  <2>1. node \in OpenEnds /\ node # NULL
    BY <1>2, <1>4 DEF NULL
  <2> QED
    BY <2>1, <1>6
<1>10. or_end = NULL => nodes'[node].next = NULL
  <2>1. node \in OpenEnds /\ node # NULL
    BY <1>2, <1>4 DEF NULL
  <2>2. nodes[node].next = NULL
    BY <2>1 DEF Undone
  <2> QED
    BY <2>2, <1>2, <1>3, <1>9 DEF Untouched
<1>11. ASSUME NEW S, Trap(ns2, S) PROVE S \cap W = {}
  <2>1. k \notin S
    BY <1>3, <1>8, <1>11, Trapped, FreshIn
  <2>2. OrStart \notin S
    BY <2>1, <1>3, <1>8, <1>11, Trapped
  <2>3. or_end # NULL => or_end \notin S
    <3>1. or_end \in OrEnds
      BY DEF OrEnds
    <3> QED
      BY <3>1, <1>7, <1>8, <1>11, Trapped
  <2>4. node \notin S
    <3>1. CASE or_end = NULL
      BY <3>1, <1>8, <1>10, <1>11, Trapped
    <3>2. CASE or_end # NULL
      BY <3>2, <2>3, <1>3, <1>8, <1>11, Trapped
    <3> QED
      BY <3>1, <3>2
  <2> QED
    BY <2>1, <2>2, <2>4, <1>8
<1>12. NoTrap(ns2)
  <2>1. \A n \in 1..Len(ns2) : n \in 1..Len(nodes) \/ n \in W \/ n = Len(nodes) + 1
    BY <1>2, <1>3, <1>8
  <2>2. Untouched(ns2, nodes, W) /\ OrStart \in W /\ Len(nodes) + 1 \notin 1..Len(nodes)
    BY <1>2, <1>3, <1>8 DEF Untouched
  <2> QED
    BY <2>1, <2>2, <1>2, <1>3, <1>8, <1>11, MovedNoTrap
<1>13. Undone(nodes)'
  <2> SUFFICES ASSUME NEW e \in OpenEnds', e # NULL PROVE nodes'[e].next = NULL
    BY DEF Undone
  <2>1. CASE e = node'
    BY <2>1, <1>3, FreshIn
  <2>2. CASE e # node'
    <3>1. e \in OrEnds \/ (or_end = NULL /\ e = node)
      <4>1. DOMAIN groups = 1..Len(groups)
        BY <1>2 DEF Places
      <4>2. e = or_end' \/ e \in {groups[i].or_end : i \in 1..Len(groups)}
        BY <2>2, <4>1, <1>1 DEF OpenEnds
      <4> QED
        BY <4>2, <1>3 DEF OrEnds, JoinedEnd
    <3> QED
      BY <3>1, <1>7, <1>10
  <2> QED
    BY <2>1, <2>2
<1> QED
  BY <1>8, <1>12, <1>13

LEMMA TrapRepeat ==
  ASSUME CompileInv, PlacesApart(nodes), NoTrap(nodes), Undone(nodes), Repeat,
         atom_start # node
  PROVE  NoTrap(nodes') /\ Undone(nodes)' /\ nodes'[quant'.sg_end].next = NULL
<1>1. /\ pc = "scan" /\ atom_start # NULL /\ UNCHANGED <<or_end, groups>>
  BY DEF Repeat
<1>2. Places /\ GraphOK(nodes) /\ Len(nodes) \in Nat /\ node \in 1..Len(nodes)
      /\ atom_start \in 1..Len(nodes)
  BY <1>1, NotIdle DEF Places, NULL
<1>3. /\ Untouched(nodes', nodes, {atom_start}) /\ quant'.sg_end = node
      /\ \/ /\ node' = atom_start /\ Len(nodes') = Len(nodes) + 1
            /\ nodes'[Len(nodes) + 1] = nodes[atom_start]
            /\ nodes'[atom_start].next = NULL
         \/ node' = node /\ nodes' = nodes
  BY GraphRepeat
<1>4. nodes[node].next = NULL
  <2>1. node \in OpenEnds /\ node # NULL
    BY <1>2 DEF OpenEnds, NULL
  <2> QED
    BY <2>1 DEF Undone
<1>5. nodes'[node].next = NULL /\ nodes'[node'].next = NULL
  BY <1>2, <1>3, <1>4 DEF Untouched
<1>6. Undone(nodes)'
  <2>1. \A e \in OrEnds : e # NULL => e \notin {atom_start}
    BY DEF PlacesApart
  <2> QED
    BY <2>1, <1>1, <1>2, <1>3, <1>5, StillUndone
<1>7. NoTrap(nodes')
  <2>1. CASE nodes' = nodes
    BY <2>1
  <2>2. CASE nodes' # nodes
    <3>1. PICK ns2, W : ns2 = nodes' /\ W = {atom_start}
      OBVIOUS
    <3>2. ASSUME NEW S, Trap(ns2, S) PROVE S \cap W = {}
      BY <2>2, <3>1, <3>2, <1>3, Trapped
    <3>3. \A n \in 1..Len(ns2) : n \in 1..Len(nodes) \/ n \in W \/ n = Len(nodes) + 1
      BY <2>2, <3>1, <1>2, <1>3
    <3>4. Len(nodes) + 1 \notin 1..Len(nodes) /\ ns2[Len(nodes) + 1] = nodes[atom_start]
          /\ Untouched(ns2, nodes, W) /\ atom_start \in W
      BY <2>2, <3>1, <1>2, <1>3
    <3>5. NoTrap(ns2)
      BY <3>2, <3>3, <3>4, <1>2, MovedNoTrap
    <3> QED
      BY <3>1, <3>5
  <2> QED
    BY <2>1, <2>2
<1> QED
  BY <1>3, <1>5, <1>6, <1>7

(* The links of a quantifier. *)
LEMMA TrapLoop ==
  ASSUME Places, GraphOK(nodes), quant.greedy \in BOOLEAN, PlacesApart(nodes),
         NoTrap(nodes), \A e \in OrEnds : e # NULL => nodes[e].next = NULL,
         NEW first \in 1..Len(nodes), NEW last \in 1..Len(nodes), LinkUnbounded(first, last),
         last \notin OrEnds, UNCHANGED <<start, atom_start, or_end, groups>>
  PROVE  NoTrap(nodes') /\ Undone(nodes)'
<1>1. /\ Len(nodes') = Len(nodes) + 1 /\ Untouched(nodes', nodes, {node, last})
      /\ Forks(nodes'[node], Len(nodes) + 1) /\ Forks(nodes'[last], Len(nodes) + 1)
      /\ nodes'[Len(nodes) + 1] = FreshNode /\ node' = Len(nodes) + 1
  BY LinkedLoop
<1>2. PICK ns2, k, W : ns2 = nodes' /\ k = Len(nodes) + 1 /\ W = {node, last, k}
  OBVIOUS
<1>3. ASSUME NEW S, Trap(ns2, S) PROVE S \cap W = {}
  <2>1. k \notin S
    BY <1>1, <1>2, <1>3, Trapped, FreshIn
  <2> QED
    BY <2>1, <1>1, <1>2, <1>3, Trapped
<1>4. NoTrap(ns2)
  <2>1. \A n \in 1..Len(ns2) : n \in 1..Len(nodes) \/ n \in W
    BY <1>1, <1>2 DEF GraphOK
  <2>2. Untouched(ns2, nodes, W)
    BY <1>1, <1>2 DEF Untouched
  <2> QED
    BY <2>1, <2>2, <1>3, StillNoTrap
<1>5. Undone(nodes)'
  <2>1. OrEnds' = OrEnds /\ OpenEnds' = {node'} \cup OrEnds /\ OrEnds \subseteq 0..Len(nodes)
    <3>1. DOMAIN groups = 1..Len(groups)
      BY DEF Places
    <3> QED
      BY <3>1, EndsIn DEF OpenEnds, OrEnds
  <2>2. ASSUME NEW e \in OrEnds, e # NULL PROVE nodes'[e].next = NULL
    <3>1. e # node /\ e # last
      BY <2>2 DEF PlacesApart
    <3>2. e \in 1..Len(nodes)
      BY <2>1, <2>2 DEF GraphOK, NULL
    <3> QED
      BY <3>1, <3>2, <2>2, <1>1 DEF Untouched
  <2>3. nodes'[node'].next = NULL
    BY <1>1, FreshIn
  <2> QED
    BY <2>1, <2>2, <2>3 DEF Undone
<1> QED
  BY <1>2, <1>4, <1>5

LEMMA TrapLink ==
  ASSUME Places, GraphOK(nodes), quant.greedy \in BOOLEAN, PlacesApart(nodes),
         NoTrap(nodes), \A e \in OrEnds : e # NULL => nodes[e].next = NULL,
         NEW first \in 1..Len(nodes), NEW last \in 1..Len(nodes), LinkBounded(first, last),
         \A j \in 1..Len(groups) : groups[j].start # last,
         last # node, nodes[last].next = NULL, UNCHANGED <<start, atom_start, or_end, groups>>
  PROVE  NoTrap(nodes') /\ Undone(nodes)'
<1>1. /\ Len(nodes') = Len(nodes) /\ Untouched(nodes', nodes, {node})
      /\ Forks(nodes'[node], last) /\ node' = last
  BY LinkedOn
<1>2. nodes'[last].next = NULL
  BY <1>1 DEF Untouched
<1>3. PICK ns2, W : ns2 = nodes' /\ W = {node}
  OBVIOUS
<1>4. ASSUME NEW S, Trap(ns2, S) PROVE S \cap W = {}
  BY <1>1, <1>2, <1>3, <1>4, Trapped
<1>5. NoTrap(ns2)
  <2>1. \A n \in 1..Len(ns2) : n \in 1..Len(nodes) \/ n \in W
    BY <1>1, <1>3
  <2> QED
    BY <2>1, <1>1, <1>3, <1>4, StillNoTrap
<1>6. Undone(nodes)'
  <2>1. OrEnds' = OrEnds /\ OpenEnds' = {node'} \cup OrEnds /\ OrEnds \subseteq 0..Len(nodes)
    <3>1. DOMAIN groups = 1..Len(groups)
      BY DEF Places
    <3> QED
      BY <3>1, EndsIn DEF OpenEnds, OrEnds
  <2>2. ASSUME NEW e \in OrEnds, e # NULL PROVE nodes'[e].next = NULL
    <3>1. e # node
      BY <2>2 DEF PlacesApart
    <3>2. e \in 1..Len(nodes)
      BY <2>1, <2>2 DEF GraphOK, NULL
    <3> QED
      BY <3>1, <3>2, <2>2, <1>1 DEF Untouched
  <2> QED
    BY <2>1, <2>2, <1>1, <1>2 DEF Undone
<1> QED
  BY <1>3, <1>5, <1>6

LEMMA TrapRepeatFirst ==
  ASSUME CompileInv, InRepeat, RepeatFirst, NoTrap(nodes), Undone(nodes),
         quant.i = 0 => nodes[quant.sg_end].next = NULL
  PROVE  NoTrap(nodes') /\ Undone(nodes)' /\ (pc' = "repeat" => quant'.i # 0)
<1>1. /\ pc = "repeat" /\ ~CopyNeeded /\ (Unbounded \/ Bounded)
      /\ IF Unbounded THEN LinkUnbounded(quant.sg_start, quant.sg_end)
         ELSE LinkBounded(quant.sg_start, quant.sg_end)
      /\ UNCHANGED <<start, atom_start, or_end, groups>>
  BY DEF RepeatFirst
<1>2. Places /\ GraphOK(nodes)
  BY <1>1, NotIdle
<1>3. PICK first \in 1..Len(nodes), last \in 1..Len(nodes) :
        first = quant.sg_start /\ last = quant.sg_end
  BY <1>1, Quant
<1>4. /\ quant \in QuantType /\ quant.greedy \in BOOLEAN /\ quant.i \in Nat
      /\ \A j \in 1..Len(groups) : groups[j].start # last
  <2>1. quant \in QuantType
    BY <1>1, Quant
  <2>2. quant.greedy \in BOOLEAN /\ quant.i \in Nat
    BY <2>1 DEF QuantType
  <2> QED
    BY <2>1, <2>2, <1>1, <1>3, Quant
<1>5. quant.i = 0
  BY <1>1, <1>4 DEF CopyNeeded
<1>6. PlacesApart(nodes) /\ node = atom_start /\ last # atom_start /\ last \notin OrEnds
  BY <1>3, <1>5 DEF InRepeat, QuantApart
<1>7. \A e \in OrEnds : e # NULL => nodes[e].next = NULL
  BY <1>2, EndsIn DEF Undone
<1>8. CASE Unbounded
  <2>1. LinkUnbounded(first, last)
    BY <1>1, <1>3, <1>8
  <2>2. pc' = "scan"
    BY <2>1 DEF LinkUnbounded
  <2> QED
    BY <2>1, <2>2, <1>1, <1>2, <1>4, <1>6, <1>7, TrapLoop
<1>9. CASE ~Unbounded
  <2>1. LinkBounded(first, last) /\ nodes[last].next = NULL
    BY <1>1, <1>3, <1>5, <1>9
  <2>2. NoTrap(nodes') /\ Undone(nodes)'
    BY <2>1, <1>1, <1>2, <1>4, <1>6, <1>7, TrapLink
  <2>3. quant'.i = quant.i + 1
    BY <2>1, <1>4 DEF LinkBounded, QuantType
  <2> QED
    BY <2>2, <2>3, <1>4
<1> QED
  BY <1>8, <1>9

(* A copy is made of a graph without traps, and where the copy will grow   *)
(* on from is open.                                                        *)
EndOpen(g) == g.to \in DOMAIN dfs_map => nodes[dfs_map[g.to]] = FreshNode

InTrap(g) == NoTrap(g.ns) /\ Undone(g.ns) /\ g.new \notin OrEnds /\ EndOpen(g)

LEMMA TrapRepeatCopy ==
  ASSUME CompileInv, InRepeat, RepeatCopy, CopiesNumbered', NoTrap(nodes), Undone(nodes)
  PROVE  \E g : /\ Numbered(g) /\ CopyInv(g)' /\ ClearOf(g)' /\ InCopy(g)' /\ InTrap(g)'
                /\ g.ns = nodes' /\ g.to = quant.sg_end
                /\ g.new = IF Required THEN node ELSE New(1)
<1>1. PICK new : new = IF Required THEN node ELSE New(1)
  OBVIOUS
<1>2. PICK g : /\ Numbered(g) /\ CopyInv(g)' /\ ClearOf(g)' /\ InCopy(g)'
               /\ g.ns = nodes' /\ g.to = quant.sg_end /\ g.new = new
  BY <1>1, OpenRepeatCopy
<1>3. /\ pc = "repeat" /\ UNCHANGED <<node, or_end, groups>>
      /\ dfs_map' = Insert(EmptyMap, quant.sg_start, new)
  <2>1. dfs_map' = Insert(EmptyMap, quant.sg_start, new)
    BY <1>1 DEF RepeatCopy, CopyBegin
  <2> QED
    BY <2>1 DEF RepeatCopy, scanVars
<1>4. /\ Untouched(nodes', nodes, {}) /\ (new = node \/ new > Len(nodes))
      /\ \A n \in 1..Len(nodes') : n > Len(nodes) => n = new /\ nodes'[n] = FreshNode
  BY <1>1, GraphRepeatCopy
<1>5. Places /\ GraphOK(nodes) /\ Len(nodes) \in Nat /\ node \in 1..Len(nodes)
  BY <1>3, NotIdle DEF Places
<1>6. OpenEnds = {node} \cup OrEnds /\ OrEnds \subseteq 0..Len(nodes)
      /\ OpenEnds' = OpenEnds /\ OrEnds' = OrEnds
  <2>1. OpenEnds' = OpenEnds /\ OrEnds' = OrEnds
    BY <1>3 DEF OpenEnds, OrEnds
  <2> QED
    BY <2>1, <1>5, EndsIn
<1>7. PICK ns2, W : ns2 = nodes' /\ W = {n \in 1..Len(nodes') : n > Len(nodes)}
  OBVIOUS
<1>8. NoTrap(ns2)
  <2>1. ASSUME NEW S, Trap(ns2, S) PROVE S \cap W = {}
    BY <2>1, <1>4, <1>7, Trapped, FreshIn
  <2>2. \A n \in 1..Len(ns2) : n \in 1..Len(nodes) \/ n \in W
    BY <1>5, <1>7
  <2>3. Untouched(ns2, nodes, W)
    BY <1>4, <1>7 DEF Untouched
  <2> QED
    BY <2>1, <2>2, <2>3, StillNoTrap
<1>9. ASSUME NEW e \in OpenEnds, e # NULL PROVE nodes'[e].next = NULL
  <2>1. e \in 1..Len(nodes)
    BY <1>5, <1>6, <1>9 DEF NULL
  <2> QED
    BY <2>1, <1>4, <1>9 DEF Untouched, Undone
<1>10. new \notin OrEnds
  <2>1. node \notin OrEnds
    <3>1. node # NULL
      BY <1>5 DEF NULL
    <3> QED
      BY <3>1 DEF InRepeat, PlacesApart
  <2>2. \A e \in OrEnds : ~(e > Len(nodes))
    BY <1>5, <1>6
  <2> QED
    BY <2>1, <2>2, <1>4
<1>11. g.to \notin DOMAIN dfs_map'
  <2>1. DOMAIN dfs_map' = {quant.sg_start}
    BY <1>3 DEF Insert, EmptyMap
  <2>2. quant.sg_start # quant.sg_end
    BY DEF InRepeat, QuantApart
  <2> QED
    BY <2>1, <2>2, <1>2
<1>12. InTrap(g)'
  <2>1. NoTrap(g.ns)
    BY <1>2, <1>7, <1>8
  <2>2. Undone(g.ns)'
    <3>1. \A e \in OpenEnds' : e # NULL => g.ns[e].next = NULL
      BY <1>2, <1>6, <1>9
    <3> QED
      BY <3>1 DEF Undone
  <2>3. g.new \notin OrEnds'
    BY <1>2, <1>6, <1>10
  <2>4. EndOpen(g)'
    BY <1>11 DEF EndOpen
  <2> QED
    BY <2>1, <2>2, <2>3, <2>4 DEF InTrap
<1> QED
  BY <1>1, <1>2, <1>12

(* What a turn of the search adds for the node k is open, and the copy of  *)
(* n stays where it is.                                                    *)
WorkOpen(w, k, n, c) ==
  /\ w = [ns |-> w.ns, map |-> w.map, stack |-> w.stack, edge |-> w.edge]
  /\ w.ns \in Seq(Node) /\ MapIn(w.map, Len(w.ns))
  /\ k \in DOMAIN w.map => w.ns[w.map[k]] = FreshNode
  /\ n \in DOMAIN w.map /\ w.map[n] = c

LEMMA FollowOpen ==
  ASSUME NEW k, NEW n, NEW c, NEW w, WorkOpen(w, k, n, c), NEW seen, n \in seen,
         NEW m, NEW f, Follows(f, w, seen, m)
  PROVE  WorkOpen(f, k, n, c)
<1>0. PICK a, b, s, e :
        /\ w = [ns |-> a, map |-> b, stack |-> s, edge |-> e]
        /\ a \in Seq(Node) /\ MapIn(b, Len(a)) /\ n \in DOMAIN b /\ b[n] = c
        /\ k \in DOMAIN b => a[b[k]] = FreshNode
  BY DEF WorkOpen
<1>1. CASE m \in seen
  <2>1. PICK x : x = Lookup(w.map, m)
    OBVIOUS
  <2>2. f = [ns |-> a, map |-> b, stack |-> s, edge |-> x]
    BY <1>0, <1>1, <2>1 DEF Follows, Follow
  <2> QED
    BY <2>2, <1>0 DEF WorkOpen
<1>2. CASE m \notin seen
  <2>1. PICK x, y, z, ns2 : /\ x = Insert(b, m, z) /\ y = Append(s, m)
                            /\ z = Len(a) + 1 /\ ns2 = Append(a, FreshNode)
    OBVIOUS
  <2>2. f = [ns |-> ns2, map |-> x, stack |-> y, edge |-> z]
    BY <1>0, <1>2, <2>1 DEF Follows, Follow
  <2>3. FreshNode \in Node /\ FreshNode.next = NULL
    BY DEF FreshNode, Node, NodeType, NULL
  <2>4. ns2 \in Seq(Node) /\ Len(ns2) = Len(a) + 1 /\ Len(a) \in Nat
        /\ ns2[Len(a) + 1] = FreshNode /\ \A i \in 1..Len(a) : ns2[i] = a[i]
    BY <1>0, <2>1, <2>3, AppendProperties, LenProperties
  <2>5. DOMAIN x = DOMAIN b \cup {m} /\ \A i \in DOMAIN x : x[i] = IF i = m THEN z ELSE b[i]
    BY <2>1 DEF Insert
  <2>6. n # m /\ n \in DOMAIN x /\ x[n] = c
    BY <1>0, <1>2, <2>5
  <2>7. MapIn(x, Len(ns2))
    <3>1. \A i \in DOMAIN x : i # m => x[i] \in 1..Len(a)
      BY <1>0, <2>5 DEF MapIn
    <3> QED
      BY <3>1, <2>1, <2>4, <2>5 DEF MapIn
  <2>8. k \in DOMAIN x => ns2[x[k]] = FreshNode
    <3>1. CASE k = m
      BY <3>1, <2>1, <2>3, <2>4, <2>5
    <3>2. CASE k # m /\ k \in DOMAIN x
      <4>1. k \in DOMAIN b /\ x[k] = b[k] /\ b[k] \in 1..Len(a)
        BY <3>2, <1>0, <2>5 DEF MapIn
      <4> QED
        BY <4>1, <1>0, <2>4
    <3> QED
      BY <3>1, <3>2
  <2> QED
    BY <2>2, <2>4, <2>6, <2>7, <2>8 DEF WorkOpen
<1> QED
  BY <1>1, <1>2

LEMMA EndStaysOpen ==
  ASSUME NEW g, Numbered(g), CopyInv(g), CopyStep, EndOpen(g)
  PROVE  EndOpen(g)'
<1>1. CASE CopyReachEnd
  BY <1>1 DEF CopyReachEnd, EndOpen
<1>2. CASE CopyNode
  <2>1. PICK n, t, seen, begun, left, right : TurnOf(g, n, t, seen, begun, left, right)
    BY <1>2, Turn
  <2>2. /\ n \in g.R \ {g.to} /\ n \in DOMAIN dfs_map /\ n \in seen
        /\ begun = [ns |-> nodes, map |-> dfs_map, stack |-> t, edge |-> NULL]
        /\ left = Follow(begun, seen, g.ns[n].next)
        /\ right = IF g.ns[n].type = "BRANCH" THEN Follow(left, seen, g.ns[n].u) ELSE left
        /\ nodes' = [right.ns EXCEPT ![dfs_map[n]] =
                       [g.ns[n] EXCEPT !.next = left.edge,
                                       !.u = IF g.ns[n].type = "BRANCH"
                                             THEN right.edge ELSE g.ns[n].u]]
        /\ dfs_map' = right.map
    BY <2>1 DEF TurnOf
  <2>3. PICK k, c : k = g.to /\ c = dfs_map[n]
    OBVIOUS
  <2>4. WorkOpen(begun, k, n, c)
    <3>1. nodes \in Seq(Node) /\ MapIn(dfs_map, Len(nodes))
      BY DEF CopyInv, Apart, MapIn
    <3> QED
      BY <3>1, <2>2, <2>3 DEF WorkOpen, EndOpen
  <2>5. WorkOpen(left, k, n, c)
    <3>1. PICK m : m = g.ns[n].next
      OBVIOUS
    <3>2. Follows(left, begun, seen, m)
      BY <2>2, <3>1 DEF Follows
    <3> QED
      BY <2>2, <2>4, <3>2, FollowOpen
  <2>6. WorkOpen(right, k, n, c)
    <3>1. CASE g.ns[n].type = "BRANCH"
      <4>1. PICK m : m = g.ns[n].u
        OBVIOUS
      <4>2. Follows(right, left, seen, m)
        BY <2>2, <3>1, <4>1 DEF Follows
      <4> QED
        BY <2>2, <2>5, <4>2, FollowOpen
    <3>2. CASE g.ns[n].type # "BRANCH"
      BY <3>2, <2>2, <2>5
    <3> QED
      BY <3>1, <3>2
  <2>7. PICK ns2, map2 : ns2 \in Seq(Node) /\ ns2 = right.ns /\ map2 = right.map
    BY <2>6 DEF WorkOpen
  <2>8. k \in DOMAIN map2 => ns2[map2[k]] = FreshNode /\ map2[k] \in 1..Len(ns2)
    BY <2>6, <2>7 DEF WorkOpen, MapIn
  <2>9. n \in DOMAIN map2 /\ map2[n] = c /\ n # k
    BY <2>2, <2>3, <2>6, <2>7 DEF WorkOpen
  <2>10. k \in DOMAIN map2 => map2[k] # c
    <3>1. [CopyStep]_copyVars
      OBVIOUS
    <3>2. CopyInv(g)'
      BY <3>1, StepInv
    <3>3. \A i, j \in DOMAIN dfs_map' : dfs_map'[i] = dfs_map'[j] => i = j
      BY <3>2 DEF CopyInv, Apart
    <3> QED
      BY <3>3, <2>2, <2>7, <2>9
  <2>11. PICK nd : nodes' = [ns2 EXCEPT ![c] = nd]
    BY <2>2, <2>3, <2>7
  <2>12. k \in DOMAIN map2 => nodes'[map2[k]] = ns2[map2[k]]
    BY <2>8, <2>10, <2>11
  <2> QED
    BY <2>2, <2>3, <2>7, <2>8, <2>12 DEF EndOpen
<1> QED
  BY <1>1, <1>2 DEF CopyStep

LEMMA TrapCopying ==
  ASSUME NEW g, Numbered(g), CopyInv(g), ClearOf(g), InCopy(g), InTrap(g),
         [CopyStep]_copyVars, UNCHANGED <<scanVars, quant>>
  PROVE  CopyInv(g)' /\ ClearOf(g)' /\ InCopy(g)' /\ InTrap(g)'
<1>1. CopyInv(g)' /\ ClearOf(g)' /\ InCopy(g)'
  BY OpenCopying
<1>2. UNCHANGED <<node, or_end, groups>>
  BY DEF scanVars
<1>3. OrEnds' = OrEnds /\ OpenEnds' = OpenEnds
  BY <1>2 DEF OrEnds, OpenEnds
<1>4. NoTrap(g.ns) /\ Undone(g.ns)' /\ g.new \notin OrEnds'
  BY <1>3 DEF InTrap, Undone
<1>5. EndOpen(g)'
  <2>1. CASE CopyStep
    BY <2>1, EndStaysOpen DEF InTrap
  <2>2. CASE UNCHANGED copyVars
    BY <2>2 DEF copyVars, dfsVars, InTrap, EndOpen
  <2> QED
    BY <2>1, <2>2
<1> QED
  BY <1>1, <1>4, <1>5 DEF InTrap

(* A trap in the copy would be one of the original. *)
LEMMA CopyNoTrap ==
  ASSUME NEW g, Numbered(g), CopyInv(g), CopyDone, NoTrap(g.ns), EndOpen(g)
  PROVE  NoTrap(nodes) /\ nodes[copy.new_end].next = NULL /\ nodes[copy.new_end] = FreshNode
<1>1. visited = g.R
  <2>1. visited = Found(g, g.last[g.from] + 1)
    BY DEF CopyDone, CopyInv, InTurn
  <2>2. g.last[g.from] \in Nat
        /\ \A n \in g.R : g.pre[n] \in Nat /\ g.pre[n] <= g.last[g.from]
    BY DEF Numbered
  <2> QED
    BY <2>1, <2>2 DEF Found
<1>2. DOMAIN dfs_map = g.R
  <2>1. Len(dfs_stack) = 0
    BY DEF CopyDone
  <2> QED
    BY <2>1, <1>1 DEF CopyInv, Mapped, OnStack
<1>3. g.from \in g.R /\ g.to \in g.R /\ g.ns \in Seq(Node) /\ DOMAIN g.ns = 1..Len(g.ns)
      /\ Len(g.ns) \in Nat /\ g.R \subseteq 1..Len(g.ns)
  BY DEF Numbered
<1>4. /\ copy.new_end = dfs_map[g.to] /\ nodes[dfs_map[g.to]].next = NULL
      /\ nodes[copy.new_end] = FreshNode
  <2>1. copy.new_end = dfs_map[g.to] /\ nodes[dfs_map[g.to]] = FreshNode
    BY <1>1, <1>2, <1>3 DEF CopyInv, EndOpen
  <2> QED
    BY <2>1 DEF FreshNode
<1>5. /\ nodes \in Seq(Node) /\ Len(g.ns) <= Len(nodes) /\ Len(nodes) \in Nat
      /\ \A n \in 1..Len(g.ns) : n # g.new => nodes[n] = g.ns[n]
      /\ dfs_map[g.from] = g.new
      /\ \A n \in g.R : dfs_map[n] \in 1..Len(nodes)
      /\ \A k \in 1..Len(nodes) : k > Len(g.ns) => \E m \in g.R : dfs_map[m] = k
      /\ \A m, n \in g.R : dfs_map[m] = dfs_map[n] => m = n
  BY <1>2, <1>3 DEF CopyInv, Apart
<1>6. SUFFICES ASSUME NEW S, Trap(nodes, S) PROVE FALSE
  BY <1>4 DEF NoTrap
<1>7. PICK T : T = {m \in g.R : dfs_map[m] \in S}
  OBVIOUS
<1>8. ASSUME NEW m \in T
      PROVE  Edges(g.ns[m]) \subseteq T
  <2>1. m \in g.R /\ dfs_map[m] \in S /\ m # g.to
    BY <1>4, <1>6, <1>7, Trapped
  <2>2. Successors(g.ns[m]) \subseteq g.R /\ g.ns[m] \in Node
        /\ g.ns[m].type \notin {"MATCH_END", "VISITED"}
    BY <2>1 DEF Numbered
  <2>3. nodes[dfs_map[m]] = Image(dfs_map, g.ns[m])
    BY <2>1, <1>1 DEF CopyInv, Copied
  <2>4. PICK nd \in Node : nd = g.ns[m]
    BY <2>2
  <2>5. Edges(nd) \subseteq g.R /\ Edges(nd) = Successors(nd)
    BY <2>2, <2>4 DEF Edges, Successors
  <2>6. /\ Image(dfs_map, nd).next = dfs_map[nd.next] /\ Image(dfs_map, nd).type = nd.type
        /\ nd.type = "BRANCH" => Image(dfs_map, nd).u = dfs_map[nd.u]
    BY <2>4 DEF Image, Node
  <2>7. Edges(nodes[dfs_map[m]]) \subseteq S
    BY <2>1, <1>6 DEF Trap
  <2>8. \A x \in Edges(nd) : dfs_map[x] \in S
    BY <2>3, <2>4, <2>6, <2>7 DEF Edges
  <2> QED
    BY <2>4, <2>5, <2>8, <1>7
<1>9. T = {}
  <2>1. T \subseteq 1..Len(g.ns)
    BY <1>3, <1>7
  <2> QED
    BY <2>1, <1>8 DEF NoTrap, Trap
<1>10. ASSUME NEW n \in S
       PROVE  n \in 1..Len(g.ns) /\ nodes[n] = g.ns[n]
  <2>1. n \in 1..Len(nodes)
    BY <1>6 DEF Trap
  <2>2. ~\E m \in g.R : dfs_map[m] = n
    BY <1>7, <1>9
  <2>3. n # g.new
    BY <2>2, <1>3, <1>5
  <2>4. n \in 1..Len(g.ns)
    BY <2>1, <2>2, <1>3, <1>5
  <2> QED
    BY <2>3, <2>4, <1>5
<1>11. Trap(g.ns, S)
  BY <1>6, <1>10 DEF Trap
<1> QED
  BY <1>11 DEF NoTrap

LEMMA TrapCopyReturn ==
  ASSUME CompileInv, CopyReturn,
         NEW g, Numbered(g), CopyInv(g), ClearOf(g), InCopy(g), InTrap(g)
  PROVE  NoTrap(nodes') /\ Undone(nodes)' /\ (pc' = "repeat" => quant'.i # 0)
<1>1. pc = "copying" /\ CopyDone /\ UNCHANGED <<start, atom_start, or_end, groups>>
  BY DEF CopyReturn
<1>2. Places /\ GraphOK(nodes) /\ Len(nodes) \in Nat
  BY <1>1, NotIdle
<1>3. PICK first \in 1..Len(nodes) : first = quant.sg_start2
  BY <1>1, Quant
<1>4. PICK last \in 1..Len(nodes) : last = copy.new_end
  BY <1>1, CopyEnd
<1>5. /\ last > Len(g.ns) /\ Len(g.ns) \in Nat
      /\ \A n \in 1..Len(g.ns) : n # g.new => nodes[n] = g.ns[n]
  <2>1. g.from # g.to
    BY DEF InCopy
  <2> QED
    BY <2>1, <1>1, <1>4, CopyEnd
<1>6. NoTrap(nodes) /\ nodes[last].next = NULL
  BY <1>1, <1>4, CopyNoTrap DEF InTrap
<1>7. \A j \in 1..Len(groups) : groups[j].start \in 1..Len(g.ns) \ {g.new}
  BY DEF ClearOf
<1>8. /\ PlacesApart(g.ns)
      /\ node \in 1..Len(g.ns) /\ OrEnds \subseteq 0..Len(g.ns)
  BY DEF InCopy
<1>9. PlacesApart(nodes)
  <2>1. \A i \in 0..Len(groups) : First(nodes, i) = First(g.ns, i)
    <3> SUFFICES ASSUME NEW i \in 0..Len(groups) PROVE First(nodes, i) = First(g.ns, i)
      OBVIOUS
    <3>1. CASE i = 0
      BY <3>1 DEF First
    <3>2. CASE i # 0
      <4>1. i \in 1..Len(groups)
        BY <3>2, <1>2, GroupsIn
      <4> QED
        BY <3>2, <4>1, <1>5, <1>7 DEF First
    <3> QED
      BY <3>1, <3>2
  <2>2. \A e \in OrEnds : e # NULL => e \notin {node, atom_start} \cup Starts
    BY <1>8 DEF PlacesApart
  <2>3. ASSUME NEW i \in 0..Len(groups), NEW j \in 1..Len(groups), First(nodes, i) = groups[j].start
        PROVE  i < j
    <3>1. First(g.ns, i) = groups[j].start
      BY <2>1, <2>3
    <3> QED
      BY <3>1, <1>8 DEF PlacesApart
  <2> QED
    BY <2>2, <2>3 DEF PlacesApart
<1>10. OpenEnds = {node} \cup OrEnds
  BY <1>2, EndsIn
<1>11. \A e \in OrEnds : e # NULL => nodes[e].next = NULL
  <2> SUFFICES ASSUME NEW e \in OrEnds, e # NULL PROVE nodes[e].next = NULL
    OBVIOUS
  <2>1. e \in 1..Len(g.ns)
    BY <1>5, <1>8 DEF NULL
  <2>2. e # g.new /\ g.ns[e].next = NULL
    BY <1>10 DEF InTrap, Undone
  <2> QED
    BY <2>1, <2>2, <1>5
<1>12. last \notin OrEnds /\ last # node /\ \A j \in 1..Len(groups) : groups[j].start # last
  BY <1>5, <1>7, <1>8
<1>13. /\ quant \in QuantType /\ quant.greedy \in BOOLEAN /\ quant.i \in Nat
       /\ quant.for \in {"required", "unbounded", "bounded"}
  <2>1. quant \in QuantType /\ quant.for # "none"
    BY <1>1, Quant
  <2> QED
    BY <2>1 DEF QuantType
<1>14. CASE quant.for = "required"
  <2>1. node' = last /\ nodes' = nodes /\ quant' = [quant EXCEPT !.i = @ + 1, !.for = "none", !.sg_start2 = NULL]
    BY <1>4, <1>14 DEF CopyReturn
  <2>2. OpenEnds' = {last} \cup OrEnds
    <3>1. DOMAIN groups = 1..Len(groups)
      BY <1>2 DEF Places
    <3> QED
      BY <3>1, <2>1, <1>1 DEF OpenEnds, OrEnds
  <2>3. Undone(nodes)'
    BY <2>1, <2>2, <1>6, <1>11 DEF Undone
  <2>4. quant'.i = quant.i + 1
    BY <2>1, <1>13 DEF QuantType
  <2> QED
    BY <2>1, <2>3, <2>4, <1>6, <1>13
<1>15. CASE quant.for = "unbounded"
  <2>1. LinkUnbounded(first, last)
    BY <1>3, <1>4, <1>15 DEF CopyReturn
  <2>2. NoTrap(nodes') /\ Undone(nodes)'
    BY <2>1, <1>1, <1>2, <1>6, <1>9, <1>11, <1>12, <1>13, TrapLoop
  <2> QED
    BY <2>1, <2>2 DEF LinkUnbounded
<1>16. CASE quant.for = "bounded"
  <2>1. LinkBounded(first, last)
    BY <1>3, <1>4, <1>16 DEF CopyReturn
  <2>2. NoTrap(nodes') /\ Undone(nodes)'
    BY <2>1, <1>1, <1>2, <1>6, <1>9, <1>11, <1>12, <1>13, TrapLink
  <2>3. quant'.i = quant.i + 1
    BY <2>1, <1>13 DEF LinkBounded, QuantType
  <2> QED
    BY <2>2, <2>3, <1>13
<1> QED
  BY <1>13, <1>14, <1>15, <1>16

-----------------------------------------------------------------------------
(* No step of the pass makes a trap. *)

LEMMA KeptEndsApart ==
  ASSUME EndsApart, UNCHANGED <<or_end, groups>>
  PROVE  EndsApart'
BY DEF EndsApart

LEMMA EndsAlternative ==
  ASSUME CompileInv, PlacesApart(nodes), EndsApart, Alternative
  PROVE  EndsApart'
<1>1. pc = "scan" /\ groups' = groups /\ or_end' = (IF or_end = NULL THEN node ELSE or_end)
  BY DEF Alternative, Scanning, JoinedEnd
<1>2. \A i \in 1..Len(groups) : groups[i].or_end # NULL => groups[i].or_end # node
  BY DEF PlacesApart, OrEnds
<1> QED
  BY <1>1, <1>2 DEF EndsApart

LEMMA EndsOpenGroup ==
  ASSUME CompileInv, EndsApart, OpenGroup
  PROVE  EndsApart'
<1>1. /\ pc = "scan" /\ groups' = Append(groups, [start |-> node, or_end |-> or_end])
      /\ or_end' = NULL
  BY DEF OpenGroup, Scanning
<1>2. Places
  BY <1>1, NotIdle
<1>3. groups \in Seq([start : 1..Len(nodes), or_end : 0..Len(nodes)])
      /\ [start |-> node, or_end |-> or_end] \in [start : 1..Len(nodes), or_end : 0..Len(nodes)]
  BY <1>2 DEF Places
<1>4. /\ Len(groups') = Len(groups) + 1 /\ Len(groups) \in Nat
      /\ \A i \in 1..Len(groups) : groups'[i] = groups[i]
      /\ groups'[Len(groups) + 1].or_end = or_end
  BY <1>3, <1>1, AppendProperties, LenProperties
<1> SUFFICES ASSUME NEW i \in 1..Len(groups'), groups'[i].or_end # NULL
             PROVE  /\ groups'[i].or_end # or_end'
                    /\ \A j \in 1..(i - 1) : groups'[j].or_end # groups'[i].or_end
  BY DEF EndsApart
<1>5. groups'[i].or_end # or_end'
  BY <1>1
<1>6. ASSUME NEW j \in 1..(i - 1) PROVE groups'[j].or_end # groups'[i].or_end
  <2>1. i \in 1..(Len(groups) + 1) /\ j \in 1..Len(groups) /\ groups'[j] = groups[j]
    BY <1>4
  <2>2. CASE i \in 1..Len(groups)
    BY <2>1, <2>2, <1>4 DEF EndsApart
  <2>3. CASE i = Len(groups) + 1
    <3>1. groups[j].or_end # NULL => groups[j].or_end # or_end
      BY <2>1 DEF EndsApart
    <3> QED
      BY <3>1, <2>1, <2>3, <1>4
  <2> QED
    BY <2>1, <2>2, <2>3, <1>4
<1> QED
  BY <1>5, <1>6

LEMMA EndsCloseGroup ==
  ASSUME CompileInv, EndsApart, CloseGroup
  PROVE  EndsApart'
<1>1. /\ pc = "scan" /\ groups # <<>> /\ groups' = SubSeq(groups, 1, Len(groups) - 1)
      /\ or_end' = groups[Len(groups)].or_end
  BY DEF CloseGroup, Scanning, Innermost
<1>2. Places
  BY <1>1, NotIdle
<1>3. groups \in Seq([start : 1..Len(nodes), or_end : 0..Len(nodes)])
  BY <1>2 DEF Places
<1>4. /\ Len(groups) \in Nat \ {0} /\ Len(groups') = Len(groups) - 1
      /\ \A i \in 1..(Len(groups) - 1) : groups'[i] = groups[i]
  <2>1. Len(groups) \in Nat \ {0}
    BY <1>1, <1>3, EmptySeq, LenProperties
  <2>2. PICK k \in 1..Len(groups) : k = Len(groups)
    BY <2>1
  <2>3. PICK G : G = [start : 1..Len(nodes), or_end : 0..Len(nodes)]
    OBVIOUS
  <2>4. /\ Len(SubSeq(groups, 1, k - 1)) = k - 1
        /\ \A i \in 1..(k - 1) : SubSeq(groups, 1, k - 1)[i] = groups[i]
    BY <2>3, <1>3, WithoutLast
  <2> QED
    BY <2>1, <2>2, <2>4, <1>1
<1> SUFFICES ASSUME NEW i \in 1..Len(groups'), groups'[i].or_end # NULL
             PROVE  /\ groups'[i].or_end # or_end'
                    /\ \A j \in 1..(i - 1) : groups'[j].or_end # groups'[i].or_end
  BY DEF EndsApart
<1>5. /\ i \in 1..(Len(groups) - 1) /\ i \in 1..Len(groups) /\ Len(groups) \in 1..Len(groups)
      /\ groups'[i] = groups[i] /\ \A j \in 1..(i - 1) : groups'[j] = groups[j]
  BY <1>4
<1>6. \A j \in 1..(i - 1) : groups[j].or_end # groups[i].or_end
  BY <1>5 DEF EndsApart
<1>7. groups[Len(groups)].or_end # groups[i].or_end
  <2>1. CASE groups[Len(groups)].or_end # NULL
    <3>1. i \in 1..(Len(groups) - 1)
      BY <1>5
    <3> QED
      BY <3>1, <2>1, <1>5 DEF EndsApart
  <2> QED
    BY <2>1, <1>5
<1> QED
  BY <1>1, <1>5, <1>6, <1>7

LEMMA EndsStep ==
  ASSUME CompileInv, pc = "scan" => PlacesApart(nodes), EndsApart, CompileStep
  PROVE  EndsApart'
<1>1. CASE OpenGroup
  BY <1>1, EndsOpenGroup
<1>2. CASE CloseGroup
  BY <1>2, EndsCloseGroup
<1>3. CASE Alternative
  BY <1>3, EndsAlternative DEF Alternative, Scanning
<1>4. CASE Star \/ Plus \/ Optional \/ AddAtom \/ AddAssertion \/ IgnoreCase \/ RxError \/ Finish
           \/ Repeat
  <2>1. UNCHANGED <<or_end, groups>>
    BY <1>4 DEF Star, Plus, Optional, Quantified, AddAtom, AddAssertion, IgnoreCase, RxError, Finish,
                Repeat, scanVars
  <2> QED
    BY <2>1, KeptEndsApart
<1>5. CASE RepeatCopy \/ RepeatFirst \/ RepeatEnd \/ Copying \/ CopyReturn
  <2>1. UNCHANGED <<or_end, groups>>
    BY <1>5 DEF RepeatCopy, RepeatFirst, RepeatEnd, Copying, CopyReturn, scanVars
  <2> QED
    BY <2>1, KeptEndsApart
<1> QED
  BY <1>1, <1>2, <1>3, <1>4, <1>5 DEF CompileStep

-----------------------------------------------------------------------------
(* A finished graph: a set of nodes that no edge leaves has a MATCH_END.   *)
Leads(ns) ==
  \A S : S # {} /\ S \subseteq 1..Len(ns) /\ (\A n \in S : Successors(ns[n]) \subseteq S)
         => \E n \in S : ns[n].type = "MATCH_END"

LEMMA SameEdges ==
  ASSUME NEW nd, nd.type # "VISITED", nd.type # "MATCH_END"
  PROVE  Successors(nd) = Edges(nd)
BY DEF Successors, Edges

LEMMA TrapFinish ==
  ASSUME CompileInv, NoTrap(nodes), Finish
  PROVE  Leads(nodes')
<1>1. pc = "scan"
  BY DEF Finish, Scanning
<1>2. /\ GraphOK(nodes') /\ Len(nodes') = Len(nodes)
      /\ JoinedEnd \in {node, or_end}
      /\ Untouched(nodes', nodes, {node, or_end})
      /\ nodes'[JoinedEnd].type = "MATCH_END"
      /\ node # JoinedEnd => nodes'[node].next = or_end /\ or_end # NULL
  BY GraphFinish
<1>3. PICK ns2, e : ns2 = nodes' /\ e = JoinedEnd
  OBVIOUS
<1>4. or_end # NULL => or_end = e
  BY <1>3 DEF JoinedEnd
<1> SUFFICES ASSUME NEW S, S # {}, S \subseteq 1..Len(ns2),
                    \A n \in S : Successors(ns2[n]) \subseteq S,
                    \A n \in S : ns2[n].type # "MATCH_END"
             PROVE  FALSE
  BY <1>3 DEF Leads
<1>5. \A n \in 1..Len(ns2) : ns2[n].type # "VISITED"
  BY <1>2, <1>3 DEF GraphOK, NodeIn
<1>6. \A n \in S : Edges(ns2[n]) \subseteq S
  BY <1>5, SameEdges
<1>7. Trap(ns2, S)
  BY <1>6 DEF Trap
<1>8. NULL \notin S
  BY DEF NULL
<1>9. e \notin S
  BY <1>2, <1>3
<1>10. or_end \notin S
  BY <1>4, <1>8, <1>9
<1>11. node \notin S
  <2>1. CASE node = e
    BY <2>1, <1>9
  <2>2. CASE node # e
    <3>1. ns2[node].next = or_end
      BY <2>2, <1>2, <1>3
    <3> QED
      BY <3>1, <1>7, <1>10, Trapped
  <2> QED
    BY <2>1, <2>2
<1>12. \A n \in S : n \in 1..Len(nodes) /\ ns2[n] = nodes[n]
  BY <1>2, <1>3, <1>10, <1>11 DEF Untouched
<1>13. Trap(nodes, S)
  BY <1>7, <1>12 DEF Trap
<1> QED
  BY <1>13 DEF NoTrap

LEMMA TrapRxInit ==
  ASSUME NEW text \in Texts, RxInit(text)
  PROVE  EndsApart' /\ NoTrap(nodes') /\ Undone(nodes)' /\ pc' = "scan"
<1>1. /\ nodes' = <<FreshNode>> /\ node' = 1 /\ or_end' = NULL /\ groups' = <<>> /\ pc' = "scan"
  BY DEF RxInit, RxInitStart
<1>2. Len(nodes') = 1 /\ Len(groups') = 0 /\ nodes'[1] = FreshNode /\ DOMAIN groups' = {}
  BY <1>1
<1>3. PICK ns2 : ns2 = nodes'
  OBVIOUS
<1>4. NoTrap(ns2)
  <2> SUFFICES ASSUME NEW S, Trap(ns2, S) PROVE FALSE
    BY DEF NoTrap
  <2>1. S # {} /\ \A n \in S : n = 1
    BY <1>2, <1>3 DEF Trap
  <2>2. 1 \in S
    BY <2>1
  <2> QED
    BY <2>2, <1>2, <1>3, Trapped, FreshIn
<1>5. OpenEnds' = {1, NULL}
  BY <1>1, <1>2 DEF OpenEnds
<1>6. Undone(nodes)'
  BY <1>2, <1>5, FreshIn DEF Undone
<1>7. EndsApart'
  BY <1>2 DEF EndsApart
<1> QED
  BY <1>1, <1>3, <1>4, <1>6, <1>7

TrapInv ==
  /\ EndsApart
  /\ pc = "scan" => NoTrap(nodes) /\ Undone(nodes)
  /\ pc = "repeat" => /\ NoTrap(nodes) /\ Undone(nodes)
                      /\ quant.i = 0 => nodes[quant.sg_end].next = NULL
  /\ pc = "copying" => \E g : Numbered(g) /\ CopyInv(g) /\ ClearOf(g) /\ InCopy(g) /\ InTrap(g)
  /\ pc = "done" => Leads(nodes)

LEMMA ScanTraps ==
  ASSUME CompileInv, InScan, TrapInv, pc = "scan", Plain(regexp), CompileStep
  PROVE  TrapInv'
<1>1. EndsApart'
  BY EndsStep DEF InScan, TrapInv
<1>2. /\ PlacesApart(nodes) /\ NoTrap(nodes) /\ Undone(nodes) /\ EndsApart
      /\ atom_start # NULL => atom_start # node
  BY DEF InScan, TrapInv
<1>3. CASE OpenGroup \/ CloseGroup \/ Alternative \/ Star \/ Plus \/ Optional
           \/ AddAtom \/ AddAssertion \/ IgnoreCase
  <2>1. NoTrap(nodes') /\ Undone(nodes)'
    <3>1. CASE OpenGroup \/ CloseGroup \/ Alternative
      BY <3>1, <1>2, TrapOpenGroup, TrapCloseGroup, TrapAlternative
    <3>2. CASE Star \/ Plus \/ AddAtom \/ AddAssertion
      BY <3>2, <1>2, TrapStar, TrapPlus, TrapAddAtom, TrapAddAssertion
    <3>3. CASE Optional
      <4>1. atom_start # node
        BY <3>3, <1>2 DEF Optional
      <4> QED
        BY <3>3, <4>1, <1>2, TrapOptional
    <3>4. CASE IgnoreCase
      BY <3>4, <1>2 DEF IgnoreCase, Undone, OpenEnds
    <3> QED
      BY <3>1, <3>2, <3>3, <3>4, <1>3
  <2>2. pc' = "scan"
    BY <1>3 DEF OpenGroup, CloseGroup, Alternative, Star, Plus, Optional, Quantified,
                AddAtom, AddAssertion, IgnoreCase, Scanning
  <2> QED
    BY <2>1, <2>2, <1>1 DEF TrapInv
<1>4. CASE RxError
  BY <1>1, <1>4 DEF RxError, TrapInv
<1>5. CASE Finish
  <2>1. Leads(nodes')
    BY <1>2, <1>5, TrapFinish
  <2> QED
    BY <2>1, <1>1, <1>5 DEF TrapInv, Finish
<1>6. CASE Repeat
  <2>1. atom_start # node /\ pc' = "repeat"
    BY <1>2, <1>6 DEF Repeat
  <2>2. NoTrap(nodes') /\ Undone(nodes)' /\ nodes'[quant'.sg_end].next = NULL
    BY <2>1, <1>2, <1>6, TrapRepeat
  <2> QED
    BY <2>1, <2>2, <1>1 DEF TrapInv
<1>7. ~RepeatCopy /\ ~RepeatFirst /\ ~RepeatEnd /\ ~Copying /\ ~CopyReturn
  BY DEF RepeatCopy, RepeatFirst, RepeatEnd, Copying, CopyReturn
<1> QED
  BY <1>3, <1>4, <1>5, <1>6, <1>7 DEF CompileStep

LEMMA RepeatTraps ==
  ASSUME CompileInv, InRepeat, TrapInv, pc = "repeat", CopiesNumbered', CompileStep
  PROVE  TrapInv'
<1>1. EndsApart'
  BY EndsStep DEF TrapInv
<1>2. /\ NoTrap(nodes) /\ Undone(nodes)
      /\ quant.i = 0 => nodes[quant.sg_end].next = NULL
  BY DEF TrapInv
<1>3. RepeatCopy \/ RepeatFirst \/ RepeatEnd
  BY DEF CompileStep, OpenGroup, CloseGroup, Alternative, Star, Plus, Optional, AddAtom,
         AddAssertion, IgnoreCase, RxError, Finish, Repeat, Copying, CopyReturn, Scanning
<1>4. CASE RepeatCopy
  <2>1. PICK g : Numbered(g) /\ CopyInv(g)' /\ ClearOf(g)' /\ InCopy(g)' /\ InTrap(g)'
    BY <1>2, <1>4, TrapRepeatCopy
  <2>2. pc' = "copying"
    BY <1>4 DEF RepeatCopy
  <2> QED
    BY <2>1, <2>2, <1>1 DEF TrapInv
<1>5. CASE RepeatFirst
  <2>1. NoTrap(nodes') /\ Undone(nodes)' /\ (pc' = "repeat" => quant'.i # 0)
    BY <1>2, <1>5, TrapRepeatFirst
  <2>2. pc' \in {"scan", "repeat"}
    BY <1>5 DEF RepeatFirst, LinkUnbounded, LinkBounded
  <2> QED
    BY <2>1, <2>2, <1>1 DEF TrapInv
<1>6. CASE RepeatEnd
  <2>1. nodes' = nodes /\ pc' = "scan" /\ UNCHANGED <<node, or_end, groups>>
    BY <1>6 DEF RepeatEnd, scanVars
  <2>2. Undone(nodes)'
    BY <2>1, <1>2 DEF Undone, OpenEnds
  <2> QED
    BY <2>1, <2>2, <1>1, <1>2 DEF TrapInv
<1> QED
  BY <1>3, <1>4, <1>5, <1>6

LEMMA CopyTraps ==
  ASSUME CompileInv, EndsApart, pc = "copying", CompileStep,
         NEW g, Numbered(g), CopyInv(g), ClearOf(g), InCopy(g), InTrap(g)
  PROVE  TrapInv'
<1>1. EndsApart'
  BY EndsStep
<1>2. Copying \/ CopyReturn
  BY DEF CompileStep, OpenGroup, CloseGroup, Alternative, Star, Plus, Optional, AddAtom,
         AddAssertion, IgnoreCase, RxError, Finish, Repeat, RepeatCopy, RepeatFirst, RepeatEnd,
         Scanning
<1>3. CASE Copying
  <2>1. pc' = "copying" /\ CopyStep /\ UNCHANGED <<scanVars, quant>>
    BY <1>3 DEF Copying
  <2>2. CopyInv(g)' /\ ClearOf(g)' /\ InCopy(g)' /\ InTrap(g)'
    BY <2>1, TrapCopying
  <2> QED
    BY <2>1, <2>2, <1>1 DEF TrapInv
<1>4. CASE CopyReturn
  <2>1. NoTrap(nodes') /\ Undone(nodes)' /\ (pc' = "repeat" => quant'.i # 0)
    BY <1>4, TrapCopyReturn
  <2>2. (pc' = "scan" /\ InScan') \/ (pc' = "repeat" /\ InRepeat')
    BY <1>4, OpenCopyReturn
  <2> QED
    BY <2>1, <2>2, <1>1 DEF TrapInv
<1> QED
  BY <1>2, <1>3, <1>4

LEMMA StutterTraps ==
  ASSUME TrapInv, UNCHANGED compileVars
  PROVE  TrapInv'
<1>1. UNCHANGED <<nodes, regexp, rpos, start, node, atom_start, or_end, groups, quant, pc>>
  BY DEF compileVars
<1>2. UNCHANGED copyVars /\ UNCHANGED <<scanVars, quant>>
  BY DEF compileVars, copyVars, scanVars
<1>3. EndsApart'
  BY <1>1, KeptEndsApart DEF TrapInv
<1>4. CASE pc = "copying"
  <2>1. PICK g : Numbered(g) /\ CopyInv(g) /\ ClearOf(g) /\ InCopy(g) /\ InTrap(g)
    BY <1>4 DEF TrapInv
  <2>2. CopyInv(g)' /\ ClearOf(g)' /\ InCopy(g)' /\ InTrap(g)'
    BY <2>1, <1>2, TrapCopying
  <2> QED
    BY <2>2, <2>1, <1>1, <1>3, <1>4 DEF TrapInv
<1>5. CASE pc # "copying"
  <2>1. Undone(nodes)' = Undone(nodes)
    BY <1>1 DEF Undone, OpenEnds
  <2> QED
    BY <2>1, <1>1, <1>3, <1>5 DEF TrapInv
<1> QED
  BY <1>4, <1>5

LEMMA InitTraps ==
  ASSUME CompileInit
  PROVE  TrapInv
BY DEF CompileInit, TrapInv, EndsApart

LEMMA StepTraps ==
  ASSUME CompileInv, [CompileNext]_compileVars, CopiesNumbered',
         Plain(regexp) => OpenInv /\ TrapInv
  PROVE  (Plain(regexp) => OpenInv /\ TrapInv)'
<1> SUFFICES ASSUME Plain(regexp') PROVE TrapInv'
  BY StepOpen
<1>1. CASE UNCHANGED compileVars
  <2>1. regexp' = regexp
    BY <1>1 DEF compileVars
  <2> QED
    BY <2>1, <1>1, StutterTraps
<1>2. CASE \E text \in Texts : RxInit(text)
  <2>1. PICK text \in Texts : RxInit(text)
    BY <1>2
  <2> QED
    BY <2>1, TrapRxInit DEF TrapInv
<1>3. CASE PartialFree
  <2>1. pc' = "idle" /\ groups' = <<>>
    BY <1>3 DEF PartialFree
  <2> QED
    BY <2>1 DEF TrapInv, EndsApart
<1>4. CASE CompileStep
  <2>1. regexp' = regexp
    BY <1>4, SameRegexp
  <2>2. OpenInv /\ TrapInv /\ Plain(regexp)
    BY <2>1
  <2>3. CASE pc = "scan"
    BY <2>2, <2>3, <1>4, ScanTraps DEF OpenInv
  <2>4. CASE pc = "repeat"
    BY <2>2, <2>4, <1>4, RepeatTraps DEF OpenInv
  <2>5. CASE pc = "copying"
    <3>1. PICK g : Numbered(g) /\ CopyInv(g) /\ ClearOf(g) /\ InCopy(g) /\ InTrap(g)
      BY <2>2, <2>5 DEF TrapInv
    <3> QED
      BY <3>1, <2>2, <2>5, <1>4, CopyTraps DEF TrapInv
  <2>6. pc \in {"scan", "repeat", "copying"}
    BY <1>4 DEF CompileStep, OpenGroup, CloseGroup, Alternative, Star, Plus, Optional, AddAtom,
         AddAssertion, IgnoreCase, RxError, Finish, Repeat, RepeatCopy, RepeatFirst, RepeatEnd,
         Copying, CopyReturn, Scanning
  <2> QED
    BY <2>3, <2>4, <2>5, <2>6
<1> QED
  BY <1>1, <1>2, <1>3, <1>4 DEF CompileNext

-----------------------------------------------------------------------------
(* What ReachFrom computes: the least set that holds the nodes of from and *)
(* the successors of its own that are not to be avoided.                   *)
Onto(S, In) == {n \in S \cup UNION {Successors(nodes[m]) : m \in S} : n \in In}

Hull(S, In) == {n \in In : \A C \in SUBSET In : S \subseteq C /\ Onto(C, In) \subseteq C => n \in C}

GrowsTo(f, In) ==
  f = [S \in SUBSET In |-> LET T == Onto(S, In) IN IF T = S THEN S ELSE f[T]]

LEMMA OntoMore ==
  ASSUME NEW In, NEW S \in SUBSET In
  PROVE  /\ S \subseteq Onto(S, In) /\ Onto(S, In) \in SUBSET In
         /\ \A C : S \subseteq C => Onto(S, In) \subseteq Onto(C, In)
BY DEF Onto

LEMMA HullIs ==
  ASSUME NEW In, NEW S \in SUBSET In
  PROVE  /\ Hull(S, In) \in SUBSET In /\ S \subseteq Hull(S, In)
         /\ \A C \in SUBSET In : S \subseteq C /\ Onto(C, In) \subseteq C => Hull(S, In) \subseteq C
         /\ Onto(Hull(S, In), In) \subseteq Hull(S, In)
         /\ Hull(Onto(S, In), In) = Hull(S, In)
         /\ Onto(S, In) = S => Hull(S, In) = S
<1>1. /\ Hull(S, In) \in SUBSET In /\ S \subseteq Hull(S, In)
      /\ \A C \in SUBSET In : S \subseteq C /\ Onto(C, In) \subseteq C => Hull(S, In) \subseteq C
  BY DEF Hull
<1>2. ASSUME NEW n \in Onto(Hull(S, In), In) PROVE n \in Hull(S, In)
  <2>1. n \in In
    BY DEF Onto
  <2>2. ASSUME NEW C \in SUBSET In, S \subseteq C, Onto(C, In) \subseteq C PROVE n \in C
    BY <2>2, <1>1, OntoMore
  <2> QED
    BY <2>1, <2>2 DEF Hull
<1>3. \A C \in SUBSET In : Onto(C, In) \subseteq C =>
        (S \subseteq C <=> Onto(S, In) \subseteq C)
  BY OntoMore
<1>4. Hull(Onto(S, In), In) = Hull(S, In)
  BY <1>3 DEF Hull
<1>5. ASSUME Onto(S, In) = S PROVE Hull(S, In) = S
  BY <1>1, <1>5
<1> QED
  BY <1>1, <1>2, <1>4, <1>5

LEMMA HullGrows ==
  ASSUME NEW In
  PROVE  GrowsTo([S \in SUBSET In |-> Hull(S, In)], In)
<1> DEFINE f == [S \in SUBSET In |-> Hull(S, In)]
<1>1. ASSUME NEW S \in SUBSET In
      PROVE  f[S] = IF Onto(S, In) = S THEN S ELSE f[Onto(S, In)]
  <2>1. Onto(S, In) \in SUBSET In
    BY OntoMore
  <2> QED
    BY <2>1, HullIs
<1>2. f = [S \in SUBSET In |-> f[S]]
  OBVIOUS
<1> HIDE DEF f
<1>3. f = [S \in SUBSET In |-> IF Onto(S, In) = S THEN S ELSE f[Onto(S, In)]]
  BY <1>1, <1>2
<1> QED
  BY <1>3 DEF GrowsTo, f

(* A set that is not what its hull is has fewer nodes left to grow.        *)
LEMMA GrowsToHull ==
  ASSUME NEW In, IsFiniteSet(In), NEW f, GrowsTo(f, In), NEW S \in SUBSET In
  PROVE  f[S] = Hull(S, In)
<1>1. \A U \in SUBSET In : f[U] = IF Onto(U, In) = U THEN U ELSE f[Onto(U, In)]
  BY DEF GrowsTo
<1> SUFFICES ASSUME f[S] # Hull(S, In) PROVE FALSE
  OBVIOUS
<1>2. PICK Bad : Bad = {U \in SUBSET In : f[U] # Hull(U, In)}
  OBVIOUS
<1>3. PICK Sizes : Sizes = {Cardinality(U) : U \in Bad}
  OBVIOUS
<1>4. Cardinality(In) \in Nat
      /\ \A U \in SUBSET In : /\ IsFiniteSet(U) /\ Cardinality(U) \in Nat
                              /\ Cardinality(U) <= Cardinality(In)
  BY FS_Subset, FS_CardinalityType
<1>5. Sizes \subseteq 0..Cardinality(In) /\ Sizes # {}
  <2>1. Cardinality(S) \in Sizes
    BY <1>2, <1>3
  <2> QED
    BY <2>1, <1>2, <1>3, <1>4
<1>6. PICK k \in Sizes : \A j \in Sizes : j <= k
  BY <1>4, <1>5, GreatestNat
<1>7. PICK U \in Bad : k = Cardinality(U)
  BY <1>3
<1>8. U \in SUBSET In /\ f[U] # Hull(U, In)
  BY <1>2, <1>7
<1>9. Onto(U, In) # U
  BY <1>1, <1>8, HullIs
<1>10. PICK T \in SUBSET In : T = Onto(U, In) /\ U \subseteq T
  BY <1>8, OntoMore
<1>11. f[T] # Hull(T, In)
  BY <1>1, <1>8, <1>9, <1>10, HullIs
<1>12. Cardinality(T) \in Sizes
  BY <1>2, <1>3, <1>11
<1>13. IsFiniteSet(T) /\ Cardinality(T) \in Nat /\ Cardinality(U) \in Nat
  BY <1>4, <1>8
<1>14. Cardinality(U) <= Cardinality(T) /\ Cardinality(U) # Cardinality(T)
  BY <1>9, <1>10, <1>13, FS_Subset
<1> QED
  BY <1>6, <1>7, <1>12, <1>13, <1>14

LEMMA ReachHull ==
  ASSUME NEW from, NEW avoid, IsFiniteSet(DOMAIN nodes)
  PROVE  ReachFrom(from, avoid) = Hull(from \cap (DOMAIN nodes \ avoid), DOMAIN nodes \ avoid)
<1>1. PICK In : In = DOMAIN nodes \ avoid
  OBVIOUS
<1>2. IsFiniteSet(In)
  BY <1>1, FS_Subset
<1>3. PICK f : f = CHOOSE h : GrowsTo(h, In)
  OBVIOUS
<1>4. GrowsTo(f, In)
  BY <1>3, HullGrows
<1>5. ReachFrom(from, avoid) = f[from \cap In]
  BY <1>1, <1>3 DEF ReachFrom, GrowsTo, Onto
<1> QED
  BY <1>1, <1>2, <1>4, <1>5, GrowsToHull

(* All that is needed of it. *)
LEMMA Reached ==
  ASSUME NEW from \in SUBSET DOMAIN nodes, IsFiniteSet(DOMAIN nodes)
  PROVE  /\ from \subseteq ReachFrom(from, {}) /\ ReachFrom(from, {}) \subseteq DOMAIN nodes
         /\ \A n \in ReachFrom(from, {}) :
              Successors(nodes[n]) \cap DOMAIN nodes \subseteq ReachFrom(from, {})
<1>1. PICK In : In = DOMAIN nodes
  OBVIOUS
<1>2. ReachFrom(from, {}) = Hull(from, In)
  <2>1. DOMAIN nodes \ {} = In /\ from \cap In = from
    BY <1>1
  <2> QED
    BY <2>1, ReachHull
<1>3. /\ Hull(from, In) \in SUBSET In /\ from \subseteq Hull(from, In)
      /\ Onto(Hull(from, In), In) \subseteq Hull(from, In)
  BY <1>1, HullIs
<1> QED
  BY <1>1, <1>2, <1>3 DEF Onto

LEMMA EndPaths ==
  ASSUME CompileInv, LabelInv, OpenInv, TrapInv, pc = "done"
  PROVE  EveryPathMatches
<1>1. Places /\ GraphOK(nodes) /\ Len(nodes) \in Nat /\ Counters /\ visited = {}
  BY NotIdle DEF CompileInv, CopiesInv
<1>2. DOMAIN nodes = 1..Len(nodes) /\ \A n \in 1..Len(nodes) : NodeIn(nodes[n], Len(nodes))
  BY <1>1 DEF GraphOK
<1>3. IsFiniteSet(DOMAIN nodes)
  BY <1>1, <1>2, FS_Interval
<1>4. start \in DOMAIN nodes
  BY <1>1, <1>2 DEF Places
<1>5. PICK R : R = ReachFrom({start}, {}) /\ R \subseteq DOMAIN nodes
  BY <1>3, <1>4, Reached
<1>6. \A n \in DOMAIN nodes : Successors(nodes[n]) \subseteq DOMAIN nodes /\ NULL \notin Successors(nodes[n])
  <2> SUFFICES ASSUME NEW n \in DOMAIN nodes
               PROVE  Successors(nodes[n]) \subseteq DOMAIN nodes /\ NULL \notin Successors(nodes[n])
    OBVIOUS
  <2>1. PICK nd : nd = nodes[n] /\ NodeIn(nd, Len(nodes))
    BY <1>2
  <2>2. nd.next = NULL => nd.type = "MATCH_END"
    BY <2>1, <1>2 DEF OpenInv, Ended
  <2>3. Successors(nd) \subseteq 1..Len(nodes)
    BY <2>1, <2>2, <1>1 DEF NodeIn, Successors, NULL
  <2> QED
    BY <2>1, <2>3, <1>2 DEF NULL
<1>7. ASSUME NEW n \in R PROVE ReachFrom({n}, {}) \cap OfType({"MATCH_END"}) # {}
  <2>1. PICK S : S = ReachFrom({n}, {})
    OBVIOUS
  <2>2. n \in S /\ S \subseteq DOMAIN nodes /\ \A m \in S : Successors(nodes[m]) \cap DOMAIN nodes \subseteq S
    <3>1. {n} \in SUBSET DOMAIN nodes
      BY <1>5
    <3> QED
      BY <3>1, <2>1, <1>3, Reached
  <2>3. \A m \in S : Successors(nodes[m]) \subseteq S
    BY <2>2, <1>6
  <2>4. PICK m \in S : nodes[m].type = "MATCH_END"
    BY <2>2, <2>3, <1>2 DEF TrapInv, Leads
  <2> QED
    BY <2>1, <2>2, <2>4 DEF OfType
<1>8. ASSUME NEW n \in R, nodes[n].type \in {"CAPTURE_START", "CAPTURE_END"}
      PROVE  nodes[n].u \in 1..rx_cap_count
  <2>1. n \in 1..Len(nodes)
    BY <1>2, <1>5
  <2>2. nodes[n].u \in 1..cap_count
    BY <2>1, <1>8 DEF LabelInv, Labels, Labelled
  <2>3. cap_count \in Nat /\ rx_cap_count \in Nat /\ cap_count <= rx_cap_count
    BY <1>1 DEF Counters, LabelInv
  <2> QED
    BY <2>2, <2>3
<1> QED
  BY <1>1, <1>5, <1>6, <1>7, <1>8 DEF EveryPathMatches

(* Whatever the plain text: the graph it is compiled to can be walked from *)
(* its first node without meeting NULL, a capture without a slot or a node *)
(* still marked, and from everywhere on such a walk MATCH_END can be       *)
(* reached: no loop of a quantifier and no join of alternatives is a place *)
(* the matcher cannot leave.                                               *)
THEOREM PathsMatch ==
  CompileSpec /\ []CopiesNumbered => [](Plain(regexp) => EveryPathMatches)
<1>1. CompileInit => CompileInv /\ LabelInv /\ (Plain(regexp) => OpenInv /\ TrapInv)
  BY InitInv, InitLabels, InitOpen, InitTraps
<1>2. /\ CompileInv /\ LabelInv /\ (Plain(regexp) => OpenInv /\ TrapInv)
      /\ [CompileNext]_compileVars /\ CopiesNumbered'
      => CompileInv' /\ LabelInv' /\ (Plain(regexp) => OpenInv /\ TrapInv)'
  BY StepCompile, StepLabels, StepTraps
<1>3. CompileInv /\ LabelInv /\ (Plain(regexp) => OpenInv /\ TrapInv)
      => (Plain(regexp) => EveryPathMatches)
  BY EndPaths DEF EveryPathMatches
<1> QED
  BY <1>1, <1>2, <1>3, PTL DEF CompileSpec
=============================================================================
