------------------------------- MODULE Lexer -------------------------------
(***************************************************************************)
(* The scanner generator example6.c and the scanner it generates.  The     *)
(* generator compiles the rules of a .lx file into one graph: each start   *)
(* state has a start node, and each further rule of the state is branched  *)
(* off it before rx_init_start compiles the rule's text there.  The graph  *)
(* is printed as C tables in which an edge is an index; lex_init of the    *)
(* generated program makes pointers of them again.  Its lex() matches that *)
(* graph again and again, from where the last token ended; the code of a   *)
(* rule may enter another start state.                                     *)
(*                                                                         *)
(* The rules have no captures: the generated rx_t comes from calloc and    *)
(* has cap_count 0, so rx_match would write their slots unasked.           *)
(***************************************************************************)
EXTENDS Library, Chars

CONSTANTS
  Scanners,      \* the .lx files: sequences of rules [states, text, begin]
  Inputs(_)      \* the strings that the scanner of some rules is given

VARIABLES
  rules,         \* the rules of the .lx file
  rules_count,   \* how many of them have been compiled, in all their states
  states_count,  \* in how many states the next rule has been compiled
  start_nodes,   \* start state -> [first, second], its two nodes
  tables,        \* nodes[] and start_nodes[] of the generated program
  state,         \* the start state of the last BEGIN
  input,
  lex_pos, lex_pos2, line2, column2,
  phase          \* "idle", "make", "file", "lex", "match" or "end"

makeVars == <<rules, rules_count, states_count, start_nodes>>
textVars == <<input, lex_pos, lex_pos2, line2, column2>>
lexVars == <<makeVars, tables, state, textVars, phase>>
allVars == <<compileVars, matchVars, lexVars>>

NoStates == [s \in {} |-> NULL]
NoTables == [nodes |-> <<>>, start_nodes |-> NoStates]

(* The states of a rule are those of its @ list, INITIAL without one.      *)
StatesOf(rule) == IF rule.states = <<>> THEN <<"INITIAL">> ELSE rule.states

(* What a .lx file holds: rules without captures, and BEGIN only of states *)
(* that some rule has.                                                     *)
CaptureFree(text) ==
  \A i \in DOMAIN text :
    text[i] = "(" => i + 2 <= Len(text) /\ text[i + 1] = "?" /\ text[i + 2] = ":"
HasState(rule, name) == \E i \in DOMAIN StatesOf(rule) : StatesOf(rule)[i] = name

ASSUME ScannersAssumption ==
  \A sc \in Scanners :
    /\ sc \in Seq({sc[r] : r \in DOMAIN sc})
    /\ \A r \in DOMAIN sc :
         /\ sc[r].states \in Seq(STRING)
         /\ sc[r].text \in Seq(STRING) /\ CaptureFree(sc[r].text)
         /\ sc[r].begin # "" => \E q \in DOMAIN sc : HasState(sc[q], sc[r].begin)
ASSUME InputsAssumption == \A sc \in Scanners : Inputs(sc) \subseteq Seq(Byte)

(* What process_file compiles next: a rule, for one of its states. *)
Rule == rules[rules_count + 1]
StateName == StatesOf(Rule)[states_count + 1]
AllCompiled == rules_count = Len(rules)

LexInit ==
  /\ CompileInit /\ M!Init
  /\ rules = <<>> /\ rules_count = 0 /\ states_count = 0 /\ start_nodes = NoStates
  /\ tables = NoTables /\ state = "INITIAL" /\ input = <<>>
  /\ lex_pos = 0 /\ lex_pos2 = 0 /\ line2 = 1 /\ column2 = 1
  /\ phase = "idle"

ReadRules(sc) ==
  /\ phase = "idle"
  /\ rules' = sc
  /\ phase' = "make"
  /\ UNCHANGED <<compileVars, matchVars, rules_count, states_count, start_nodes, tables, state, textVars>>

(* Between two rules; lex_rx is fresh from rx_alloc before the first.      *)
Ready == phase = "make" /\ pc \in {"idle", "done"}

(* The rule's number is its value in MATCH_END. *)
Compiling(ns, s) ==
  /\ RxInitStart(ns, s, Rule.text, rules_count)
  /\ IF states_count + 1 < Len(StatesOf(Rule))
     THEN states_count' = states_count + 1 /\ UNCHANGED rules_count
     ELSE states_count' = 0 /\ rules_count' = rules_count + 1
  /\ UNCHANGED <<rx_cap_count, ignorecase, matchVars, rules, tables, state, textVars, phase>>

(* create_start_node for a new state, then rx_init_start. *)
NewState ==
  /\ Ready /\ ~AllCompiled /\ StateName \notin DOMAIN start_nodes
  /\ Compiling([Grow(nodes, 2) EXCEPT ![New(1)] =
                  [type |-> "ASSERTION", next |-> New(2), u |-> ASSERT_SOP]], New(2))
  /\ start_nodes' = [s \in DOMAIN start_nodes \cup {StateName} |->
                       IF s = StateName THEN [first |-> New(1), second |-> New(2)]
                       ELSE start_nodes[s]]

(* The first of the two nodes has what old had, the second is for the new  *)
(* rule.  Mutant: the new rule is not linked.                              *)
NewRuleUnlinked(moved, new) == Branch(TRUE, moved, moved)
OldRulesFirst(moved, new) == Branch(TRUE, moved, new)

(* create_start_node for a state with rules, then rx_init_start. *)
AnotherRule ==
  /\ Ready /\ ~AllCompiled /\ StateName \in DOMAIN start_nodes
  /\ LET second == start_nodes[StateName].second IN
     Compiling([Grow(nodes, 2) EXCEPT ![New(1)] = nodes[second],
                                      ![second] = OldRulesFirst(New(1), New(2))], New(2))
  /\ UNCHANGED start_nodes

CompileRule == phase = "make" /\ CompileStep /\ UNCHANGED <<matchVars, lexVars>>

(* output_file: an edge is printed as the index of its node, and NULL as   *)
(* the 0 that hash_lookup returns for it; the byte of a TAKE is printed as *)
(* a character constant, which is negative from \x80 on.                   *)
Index(n) == IF n = NULL THEN 0 ELSE n - 1
Constant(b) == IF b < 128 THEN b ELSE b - 256
Printed(nd) ==
  [type |-> nd.type, next |-> Index(nd.next),
   u |-> IF nd.type = "TAKE" THEN Constant(nd.u)
         ELSE IF nd.type \in {"BRANCH", "CHAR_CLASS"} THEN Index(nd.u) ELSE nd.u]

(* A node_types entry is printed for the type, so no visited bit may be on. *)
OutputFile ==
  /\ Ready /\ AllCompiled /\ visited = {}
  /\ tables' = [nodes |-> [n \in DOMAIN nodes |-> Printed(nodes[n])],
                start_nodes |-> [s \in DOMAIN start_nodes |-> Index(start_nodes[s].first)]]
  /\ start_nodes' = NoStates
  /\ PartialFree
  /\ phase' = "file"
  /\ UNCHANGED <<matchVars, rules, rules_count, states_count, state, textVars>>

(* rx_init_start returned 0: the error is printed, exit(1), no file. *)
GeneratorFails ==
  /\ phase = "make" /\ pc = "error"
  /\ PartialFree
  /\ rules' = <<>> /\ rules_count' = 0 /\ states_count' = 0 /\ start_nodes' = NoStates
  /\ phase' = "idle"
  /\ UNCHANGED <<matchVars, tables, state, textVars>>

(* lex_init: the indices are made pointers, all but the next of MATCH_END. *)
(* Mutant: the other edge of a BRANCH is left as it is.                    *)
LinkedNextOnly(nd) == IF nd.type = "MATCH_END" THEN nd ELSE [nd EXCEPT !.next = @ + 1]
Linked(nd) ==
  [type |-> nd.type,
   next |-> IF nd.type = "MATCH_END" THEN nd.next ELSE nd.next + 1,
   u |-> IF nd.type \in {"BRANCH", "CHAR_CLASS"} THEN nd.u + 1 ELSE nd.u]

(* The generated program reads its input, calls lex_init, which ends with  *)
(* BEGIN(INITIAL), and then lex(); input stays empty if it has no file.    *)
LexStart(s) ==
  /\ phase = "file" /\ "INITIAL" \in DOMAIN tables.start_nodes
  /\ tables' = [tables EXCEPT !.nodes = [n \in DOMAIN @ |-> Linked(@[n])]]
  /\ state' = "INITIAL" /\ input' = s
  /\ lex_pos' = 0 /\ lex_pos2' = 0 /\ line2' = 1 /\ column2' = 1
  /\ phase' = "lex"
  /\ UNCHANGED <<compileVars, matchVars, makeVars>>

(* The rx_t of lex_init, with the start of the last BEGIN. *)
LexRx == [start |-> tables.start_nodes[state] + 1, ignorecase |-> FALSE, cap_count |-> 0,
          char_classes |-> Classes, nodes |-> tables.nodes]

(* One turn of lex(): the match, ... *)
LexMatch ==
  /\ phase = "lex"
  /\ lex_pos' = lex_pos2
  /\ M!Call(LexRx, input, lex_pos2)
  /\ phase' = "match"
  /\ UNCHANGED <<compileVars, makeVars, tables, state, input, lex_pos2, line2, column2>>

LexMatchTurn == phase = "match" /\ M!Step /\ UNCHANGED <<compileVars, lexVars>>

(* ... its result: pos2 moves by the size of the text, the line and the    *)
(* column are counted on, and the code of the rule is run.                 *)
Newlines(from, to) == {i \in from..(to - 1) : input[i + 1] = NEWLINE}
LastOf(S) == CHOOSE i \in S : \A j \in S : j <= i

(* Mutant: only the line is counted. *)
ColumnAfterNewline(seen, to) == column2 + (to - lex_pos)
ColumnAfter(seen, to) == IF seen = {} THEN column2 + (to - lex_pos) ELSE to - LastOf(seen)

Matched == rules[value + 1]

(* Mutant: pos2 is set to the size of the text. *)
SizeOfText == caps[0].size
AfterText == lex_pos2 + caps[0].size

Token ==
  /\ phase = "match" /\ status = "matched"
  /\ lex_pos2' = AfterText
  /\ LET seen == Newlines(lex_pos, AfterText) IN
     /\ line2' = line2 + Cardinality(seen)
     /\ column2' = ColumnAfter(seen, AfterText)
  /\ state' = IF Matched.begin = "" THEN state ELSE Matched.begin
  /\ phase' = "lex"
  /\ Idle
  /\ UNCHANGED <<compileVars, makeVars, tables, input, lex_pos>>

(* ... or no match: lex() returns, at the end of the input or before it.   *)
LexEnd ==
  /\ phase = "match" /\ status = "failed"
  /\ phase' = "end"
  /\ Idle
  /\ UNCHANGED <<compileVars, makeVars, tables, state, textVars>>

(* The program ends; another .lx file may be converted. *)
LexExit ==
  /\ phase = "end"
  /\ rules' = <<>> /\ rules_count' = 0 /\ tables' = NoTables
  /\ state' = "INITIAL" /\ input' = <<>>
  /\ lex_pos' = 0 /\ lex_pos2' = 0 /\ line2' = 1 /\ column2' = 1
  /\ phase' = "idle"
  /\ UNCHANGED <<compileVars, matchVars, states_count, start_nodes>>

LexTurn == LexMatch \/ LexMatchTurn \/ Token \/ LexEnd
MakeTurn == NewState \/ AnotherRule \/ CompileRule \/ OutputFile \/ GeneratorFails

LexNext ==
  \/ \E sc \in Scanners : ReadRules(sc)
  \/ MakeTurn
  \/ \E s \in Inputs(rules) : LexStart(s)
  \/ LexTurn
  \/ LexExit

LexSpec == LexInit /\ [][LexNext]_allVars /\ WF_allVars(MakeTurn) /\ WF_allVars(LexTurn)

-----------------------------------------------------------------------------
(* Types of the generator and of the generated program. *)
LexTypeOK ==
  /\ phase \in {"idle", "make", "file", "lex", "match", "end"}
  /\ phase # "idle" => rules \in Scanners
  /\ rules_count \in 0..Len(rules)
  /\ ~AllCompiled => states_count \in 0..(Len(StatesOf(Rule)) - 1)
  /\ \A s \in DOMAIN start_nodes :
       start_nodes[s].first \in DOMAIN nodes /\ start_nodes[s].second \in DOMAIN nodes
  /\ \A s \in DOMAIN tables.start_nodes : tables.start_nodes[s] + 1 \in DOMAIN tables.nodes
  /\ phase \in {"lex", "match"} =>
       input \in Inputs(rules) /\ state \in DOMAIN tables.start_nodes /\ WellFormed(LexRx)
  /\ status = "matched" => value \in 0..(Len(rules) - 1)
  /\ 0 <= lex_pos /\ lex_pos <= lex_pos2 /\ lex_pos2 <= Len(input)
  /\ line2 \in Nat /\ column2 \in Nat

(* "These are exclusive start states" (example6.c): from the start node of *)
(* a state the ends of exactly that state's rules can be reached, although *)
(* all rules are in one graph and a start node's content moves with every  *)
(* rule that is added (create_start_node).                                 *)
Active(s) == {r \in DOMAIN rules : HasState(rules[r], s)}

StatesExclusive ==
  Ready /\ AllCompiled =>
    \A s \in DOMAIN start_nodes :
      {nodes[n].u + 1 : n \in ReachFrom({start_nodes[s].first}, {}) \cap OfType({"MATCH_END"})}
        = Active(s)

(* line2 and column2 are those of pos2, through tokens that hold newlines  *)
(* and tokens that follow them.                                            *)
PositionsAgree ==
  phase = "lex" =>
    LET before == Newlines(0, lex_pos2) IN
    /\ line2 = 1 + Cardinality(before)
    /\ column2 = IF before = {} THEN 1 + lex_pos2 ELSE lex_pos2 - LastOf(before)

(* lex() comes to an end of the input or to a text no rule matches.        *)
LexEnds == phase = "lex" ~> phase = "end"
=============================================================================
