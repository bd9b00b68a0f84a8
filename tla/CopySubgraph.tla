---------------------------- MODULE CopySubgraph ----------------------------
(***************************************************************************)
(* copy_subgraph (rx.c): a counted quantifier repeats its atom by copying  *)
(* the part of the graph between the atom's first node and the node after  *)
(* it.  The copy is a depth first search with an explicit stack; dfs_map   *)
(* takes a node to its copy; the 0x80 bit of a node's type, here the set   *)
(* visited, marks the nodes already copied.  Copying a node copies its     *)
(* type, and so its mark.                                                  *)
(***************************************************************************)
EXTENDS Nfa, FiniteSets

CONSTANT DfsAllocated   \* the room rx_alloc makes on the stack

ASSUME DfsAllocatedAssumption == DfsAllocated \in Nat \ {0, 1}

VARIABLES
  nodes,      \* rx->nodes
  visited,    \* the nodes whose type has the 0x80 bit
  dfs_stack, dfs_allocated, dfs_map,
  copy        \* the arguments, new_end, and whether a copy is under way

dfsVars == <<visited, dfs_stack, dfs_allocated, dfs_map, copy>>
copyVars == <<nodes, dfsVars>>

NoCopy == [active |-> FALSE, sg_start |-> NULL, sg_end |-> NULL,
           new_start |-> NULL, new_end |-> NULL]

EmptyMap == [n \in {} |-> NULL]
Lookup(m, n) == IF n \in DOMAIN m THEN m[n] ELSE NULL
Insert(m, n, v) == [x \in DOMAIN m \cup {n} |-> IF x = n THEN v ELSE m[x]]

CopyInit == /\ visited = {} /\ dfs_stack = <<>> /\ dfs_allocated = DfsAllocated
            /\ dfs_map = EmptyMap /\ copy = NoCopy

(* The stack is emptied and has room for one node, so its growth here      *)
(* never happens.  ns are the nodes at the time of the call: the caller may just have      *)
(* created new_start.                                                      *)
CopyBegin(ns, sg_start, sg_end, new_start) ==
  /\ ~copy.active
  /\ nodes' = ns
  /\ dfs_stack' = <<sg_start>>
  /\ dfs_map' = Insert(EmptyMap, sg_start, new_start)
  /\ copy' = [active |-> TRUE, sg_start |-> sg_start, sg_end |-> sg_end,
              new_start |-> new_start, new_end |-> NULL]
  /\ UNCHANGED <<visited, dfs_allocated>>

Top == dfs_stack[Len(dfs_stack)]
Popped == SubSeq(dfs_stack, 1, Len(dfs_stack) - 1)

(* The end of the subgraph is mapped, and neither copied nor left. *)
CopyReachEnd ==
  /\ copy.active /\ dfs_stack # <<>> /\ Top = copy.sg_end
  /\ copy' = [copy EXCEPT !.new_end = Lookup(dfs_map, Top)]
  /\ visited' = visited \cup {Top}
  /\ dfs_stack' = Popped
  /\ UNCHANGED <<nodes, dfs_allocated, dfs_map>>

(* The copy's edge to what n is copied to: the copy n already has if n is  *)
(* visited, otherwise a new node that waits on the stack for its content.  *)
(* w = [ns, map, stack] is the work in progress, edge the resulting copy.  *)
Follow(w, seen, n) ==
  IF n \in seen
  THEN [w EXCEPT !.edge = Lookup(w.map, n)]
  ELSE [ns |-> Append(w.ns, FreshNode),
        map |-> Insert(w.map, n, Len(w.ns) + 1),
        stack |-> Append(w.stack, n),
        edge |-> Len(w.ns) + 1]

(* Mutant: the second edge of a BRANCH is not followed. *)
NoSecondEdge(old, marked) == FALSE

(* A copy whose type came with the mark is no BRANCH to the code, and      *)
(* keeps the next2 of its original.                                        *)
HasSecondEdge(old, marked) == old.type = "BRANCH" /\ ~marked

(* The stack must have room for the two nodes a BRANCH may push.  Mutant:  *)
(* for one.                                                                *)
RoomForOne(n) == IF n >= dfs_allocated THEN 2 * dfs_allocated ELSE dfs_allocated
RoomForTwo(n) == IF n + 1 >= dfs_allocated THEN 2 * dfs_allocated ELSE dfs_allocated

(* One turn of the loop for a node inside the subgraph. *)
CopyNode ==
  /\ copy.active /\ dfs_stack # <<>> /\ Top # copy.sg_end
  /\ LET old == nodes[Top]
         new == dfs_map[Top]
         marked == (visited \ {new}) \cup (IF Top \in visited THEN {new} ELSE {})
         seen == marked \cup {Top}
         isBranch == HasSecondEdge(old, Top \in visited)
         start == [ns |-> nodes, map |-> dfs_map, stack |-> Popped, edge |-> NULL]
         left == Follow(start, seen, old.next)
         right == IF isBranch THEN Follow(left, seen, old.u) ELSE left
     IN  /\ NULL \notin Successors(old)
         /\ nodes' = [right.ns EXCEPT ![new] =
                        [old EXCEPT !.next = left.edge,
                                    !.u = IF isBranch THEN right.edge ELSE old.u]]
         /\ visited' = seen
         /\ dfs_map' = right.map
         /\ dfs_stack' = right.stack
  /\ dfs_allocated' = RoomForTwo(Len(Popped))
  /\ UNCHANGED copy

CopyDone == copy.active /\ dfs_stack = <<>>

(* The marks of the nodes that were keys of the map are taken away. *)
Unmarked == visited \ DOMAIN dfs_map

CopyStep == CopyReachEnd \/ CopyNode

-----------------------------------------------------------------------------
(* What the comment above copy_subgraph promises: when the search is over, *)
(* the map is one-to-one, leads from the old ends to the new ones, and     *)
(* each copied node is its original with the edges taken along, so no edge *)
(* of the copy leads back into the original or nowhere.                    *)
CopyFaithful ==
  CopyDone =>
    /\ dfs_map[copy.sg_start] = copy.new_start
    /\ copy.sg_end \in DOMAIN dfs_map /\ dfs_map[copy.sg_end] = copy.new_end
    /\ \A m, n \in DOMAIN dfs_map : dfs_map[m] = dfs_map[n] => m = n
    /\ Unmarked = {}
    /\ \A n \in DOMAIN dfs_map \ {copy.sg_end} :
         LET old == nodes[n]
             new == nodes[dfs_map[n]]
         IN  /\ new.type = old.type
             /\ new.next = Lookup(dfs_map, old.next)
             /\ new.u = IF old.type = "BRANCH" THEN Lookup(dfs_map, old.u) ELSE old.u
=============================================================================
