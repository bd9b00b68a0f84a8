-------------------------------- MODULE Nfa --------------------------------
(***************************************************************************)
(* The data of rx.h: the graph of nodes that rx_init_start builds and that *)
(* rx_match walks, and the compiled regular expression that holds it.      *)
(*                                                                         *)
(* A node is known by its index in rx->nodes.  The union of node_t is the  *)
(* field u: the value of a TAKE, CAPTURE_*, ASSERTION, CHAR_SET or         *)
(* MATCH_END node, the second successor of a BRANCH, the index of the      *)
(* character class of a CHAR_CLASS.  A type with the 0x80 bit left on by   *)
(* copy_subgraph is no member of the enum: it is "VISITED" here, and no    *)
(* case of rx_match's switch takes it.                                     *)
(***************************************************************************)
EXTENDS Integers, Sequences

NULL == 0

Byte == 0..255

NodeType == {"EMPTY", "TAKE", "BRANCH", "CAPTURE_START", "CAPTURE_END",
             "MATCH_END", "ASSERTION", "CHAR_CLASS", "CHAR_SET",
             "GROUP_START", "GROUP_END", "VISITED"}

(* The kinds of an ASSERTION node. *)
ASSERT_SOS == 0   \* start of string
ASSERT_SOL == 1   \* start of line
ASSERT_EOS == 2   \* end of string
ASSERT_EOL == 3   \* end of line
ASSERT_SOP == 4   \* start of position
ASSERT_SOW == 5   \* start of word
ASSERT_EOW == 6   \* end of word

(* The kinds of a CHAR_SET node, and of the sets inside a character class. *)
CS_ANY == 0
CS_NOTNL == 1
CS_DIGIT == 2
CS_NOTDIGIT == 3
CS_WORD == 4
CS_NOTWORD == 5
CS_SPACE == 6
CS_NOTSPACE == 7

Node == [type : NodeType, next : Nat, u : Int]

(* What rx_node_create returns; malloc leaves the union unset, and nothing *)
(* reads it before the node gets a type that uses it.                      *)
FreshNode == [type |-> "EMPTY", next |-> NULL, u |-> 0]

CharClass == [negated : BOOLEAN, values : Seq(Byte), ranges : Seq(Byte),
              char_sets : Seq(CS_ANY..CS_NOTSPACE)]

(* rx_t after a successful rx_init, as rx_match reads it. *)
Rx == [start : Nat, nodes : Seq(Node), ignorecase : BOOLEAN, cap_count : Nat,
       char_classes : Seq(CharClass)]

(* rx_alloc's object before any rx_init. *)
NoRx == [start |-> NULL, nodes |-> <<>>, ignorecase |-> FALSE, cap_count |-> 0,
         char_classes |-> <<>>]

(* The successors of a node: none of a MATCH_END, two of a BRANCH. *)
Successors(nd) ==
  IF nd.type \in {"MATCH_END", "VISITED"} THEN {}
  ELSE IF nd.type = "BRANCH" THEN {nd.next, nd.u}
  ELSE {nd.next}

(* A graph rx_match can walk: every edge leads to a node of the graph,     *)
(* every capture has its slot, every character class exists.               *)
WellFormed(g) ==
  /\ g \in Rx
  /\ g.start \in DOMAIN g.nodes
  /\ \A n \in DOMAIN g.nodes :
       LET nd == g.nodes[n] IN
       /\ Successors(nd) \subseteq DOMAIN g.nodes
       /\ nd.type \in {"CAPTURE_START", "CAPTURE_END"} => nd.u \in 1..g.cap_count
       /\ nd.type = "CHAR_CLASS" => nd.u \in DOMAIN g.char_classes
=============================================================================
