# librx in TLA+

librx is a small regular expression library in C: `rx.c` compiles the text of a
regular expression into a graph of nodes (an NFA) and walks the graph over a string
with backtracking; `hash.c` is a hash table that the compiler and one of the example
programs use. This directory holds TLA+ modules of the library, TLC configurations
that check them on small instances, and TLAPS proofs: about the walk for every graph
and every string, about the compiler and its copies for every text, about the bracket
and brace parsers for every text and table of symbols, and about the hash table for
every hash function. Two programs built on the library are modelled with it: the scanner
generator `example6.c` and the grep program `example5.c`, whose global search, and the
order, the numbers and the choice of the lines it prints, are proved about as well, as
are the lines and columns that the generated scanner counts.

## 1. The system

| part | where | state | operations | modelled in |
|---|---|---|---|---|
| graph data | `rx.h` | `rx_t`: nodes, start, cap_count, ignorecase, char_classes | none of its own | `Nfa` |
| character tests | `rx.c` 16-42, 1024-1166, 1306-1358 | none | `rx_utf8_char_size`, `flip_case`, `rx_match_char_class`, `rx_match_assertion` | `Chars` |
| matching | `rx.c` 555-566, 1168-1389 | `matcher_t`: path, captures, value, success; the locals start_pos, pos, node | `rx_matcher_alloc`, `rx_match` | `Matcher` |
| copying of subgraphs | `rx.c` 568-635 | dfs_stack and its room, dfs_map, the 0x80 mark of a node's type | `copy_subgraph` | `CopySubgraph` |
| compilation | `rx.c` 511-553, 637-1022 | the graph, and the locals node, atom_start, or_end, and the stack of open groups | `rx_alloc`, `rx_init`, `rx_init_start`, `rx_partial_free` | `Compile` |
| the library | the above together | the above together | compile, match, free | `Rx` |
| hash table | `hash.c` | defined, hashes, keys, values, count, allocated | insert, resize, lookup, clear | `HashTable` |
| class parser, hex and UTF-8 encoding | `rx.c` 44-86, 227-448 | the class and its counts, locals | `rx_char_class_init`, `rx_char_class_parse`, `rx_int_to_utf8`, `rx_hex_to_int` | `ClassParser`, `Utf8` |
| quantifier parser | `rx.c` 450-509 | locals | `rx_quantifier_init` | `QuantifierParser` |
| scanner generator | `example6.c` | start nodes, rules, the printed tables; state, pos, pos2, line, column | `create_start_node`, the rules of `process_file`, `output_file`, generated `lex_init()` and `lex()` | `Lexer` |
| grep program | `example5.c` | the buffer, pos, end, old_line, line, line_byte, the counts | `main`, `find`, `read_file`, `process_file`, `find_line`, the `show_` functions | `Grep` |
| printing, test driver, small examples, build files | rest | none that another part reads | output | not modelled |

**How the parts interact.** Everything is called synchronously in one thread. The
caller owns an `rx_t` and a `matcher_t`. `rx_init` frees what an earlier text left,
then grows the graph symbol by symbol; a counted quantifier calls `copy_subgraph`,
which keeps its map in a hash table of the `rx_t`. `rx_match` reads the graph and
writes the matcher; both objects may be used again, the matcher with another graph
too. `example6.c` compiles many texts into one `rx_t` with `rx_init_start`, prints the
graph as C tables, and the printed program makes a graph of them again and walks it for
each token. `example5.c` calls `rx_match` again and again over one buffer, each call
starting where the last match ended, and prints what lies between the matches. So the parts share three things: the graph (written by the compiler, with edges
back into nodes that a later symbol rewrites, read by the walk), the matcher (its
capture arrays outlive a call and have the size the largest graph needed), and the
position a caller passes from one match to the next.

**What is hard here.** There are no threads and no persistence. What a test hardly
reaches is: the long sequences of pushes and truncations of the backtracking path;
rewriting a node that other edges already lead to; the copy of a graph with shared
nodes and loops; the reuse of objects between calls; termination of loops that consume
nothing; the half moved state of a growing hash table; two passes over one text of
which the second trusts the counts of the first; rules compiled one after the other
into one graph whose start nodes change their content; and, in the grep program, three
positions and two line numbers kept in step by functions that each scan the buffer with
their own bounds. `PROJECT.json` lists the
hazards, each at its line, with the properties aimed at it.

## 2. Modules

| module | what it is |
|---|---|
| `Nfa` | node types, nodes, graphs; `WellFormed`, what the walk needs of a graph |
| `Chars` | the tests of bytes, characters, classes and assertions, as operators |
| `Matcher` | `rx_match`: one action per kind of turn of its `while (1)` loop |
| `MatchContract` | what `rx_match` promises, without a walk |
| `MatcherProofs` | TLAPS proofs about `Matcher` |
| `CopySubgraph` | `copy_subgraph`: one action per turn of its loop |
| `Compile` | `rx_init`/`rx_init_start`: one action per kind of symbol, and the steps of a counted quantifier; extends `CopySubgraph` |
| `CompileProofs` | TLAPS proofs about `CopySubgraph`, and on them those about `Compile`, to the walks through a finished graph |
| `WalkProofs` | TLAPS proofs about the parts of the graph that `Compile` makes, and the captures on a walk through it |
| `RegexSemantics` | the meaning of regular expressions as ordered outcomes, without graph or walk; its `RECURSIVE` operators stay out of the modules proved about |
| `Library` | `Compile` and `Matcher` (an instance) side by side, for the two modules that use both |
| `Rx` | the library in one system: a text is compiled, and the graph matched; extends `Library` |
| `HashTable` | `hash.c`; a resize is one action per slot moved |
| `Dictionary` | the map that `HashTable` implements |
| `HashTableProofs` | TLAPS proofs about `HashTable` |
| `NatFacts` | lemmas about natural numbers that several proofs use |
| `ClassParser` | `rx_char_class_init` and its two passes, one action per symbol |
| `Utf8` | `rx_hex_to_int` and `rx_int_to_utf8`, and the code point of a character as reference |
| `QuantifierParser` | `rx_quantifier_init`, one action per character |
| `Parsers` | the two parsers as `rx_init_start` calls them |
| `ClassMeaning` | what a bracket text means and which texts are classes, without the passes; its `RECURSIVE` operators stay out of the modules proved about |
| `ParserProofs` | TLAPS proofs about `Parsers` |
| `Lexer` | `example6.c`: rules and start nodes on top of `Compile`, and the generated `lex()` on top of `Matcher`; extends `Library` |
| `LexerProofs` | TLAPS proof about `Lexer` |
| `TokenStream` | the tokens a scanner is to give, from `RegexSemantics`; `Lexer` implements it |
| `Grep` | `example5.c` from the command line to the printed lines; what `rx_match` finds is the constant `Find` |
| `GrepProofs` | TLAPS proofs about `Grep` |
| `MCMatcher`, `MCCompile`, `MCRx`, `MCHashTable`, `MCParsers`, `MCLexer`, `MCGrep` | small instances for TLC |

### State and actions against the code

*Numbers.* A node is its index in `rx->nodes` from 1; `NULL` is 0. Positions in
strings count from 0 as in the code, so byte p of `s` is `s[p + 1]`. The union of
`node_t` is one field `u`. A node type that still carries the 0x80 mark is `"VISITED"`:
no case of the switch takes it and the walk falls back, as in the code.

*Matcher.* `Call` is the entry of `rx_match`. `Consume` is a TAKE, CHAR_CLASS or
CHAR_SET node that matches, `Remember` a BRANCH or CAPTURE node that goes on the path,
`Pass` a GROUP or EMPTY node or an assertion that holds, `AnchorFail` the `goto out` of
a failing `^` or `\G`, `Backtrack` the fall back to the last BRANCH, `NextStart` and
`Exhausted` the two ends of the turn when there is none, `MatchEnd` the reading of the
captures off the path. `Return` stands for the caller: it has read the result, and the
variables of the finished call, which are dead, are reset so that the states of
different histories coincide; the capture slots are kept, as the object keeps them.
The path and capture arrays are sequences and functions without a limit; that the
capture arrays grow to `cap_count` is in `Slots`.

*Compile.* A text is a sequence of symbols. The characters the parser looks ahead at
are symbols of their own. A literal, an escape, a bracket expression or a quantifier in
braces is one symbol with what its own parser returns in a table (`Atoms`, `Escapes`,
`Counts`); a symbol in no table is one that is rejected. `node` is the open end of the
graph, and `groups` merges the arrays `rx->cap_start` and `rx->or_end`. A counted
quantifier is `Repeat`, then for each repetition `RepeatCopy`, `Copying` (the turns of
`copy_subgraph`), `CopyReturn`, or `RepeatFirst` where no copy is needed, then
`RepeatEnd`. `RxError` leaves the half built graph, and `PartialFree` clears it at the
next `rx_init`. `dfs_allocated` is the room of the stack, which `CopyNode` doubles before
it pushes; `CompileTypeOK` asks that the stack never exceeds it. An edge that `copy_subgraph` would follow to NULL disables `CopyNode`:
the program crashes there, the model stops.

*HashTable.* The four arrays are one array of records. `hash_insert` is `Update`, `Put`,
or `Grow`, `Move` (once per old slot) and `PutAfterResize`. The two hash functions are
the constant `Hash`; TLC's integers have 31 bits, so the largest hash checked is
2^31 - 1 and not 2^32 - 1: only its remainder and equality are used. `hash_free` frees
memory that no other state depends on.

*ClassParser.* A text is what follows the `[`; a character or an escape is one symbol,
with its bytes or the digits of its `\u` in a table, so the reading of an escape is
`Bytes`. Each pass starts with `StartPass`; `Allocate` is the end of the first pass, the
two `malloc`s and the start of the second, `ClassDone` the end of the second. An array
slot that `malloc` left unwritten holds -1, and a write beyond an array would extend it,
so that `SecondPassFits` sees both. `ClassEnd` and `QuantEnd` are the returns to
`rx_init_start`, which then reads the next symbol.

*QuantifierParser.* `min` and `max` are sums in an `int`; C leaves an overflow
undefined, the build wraps (`ToInt`). The run has 8 bits, so that three digits overflow.

*Lexer.* `ReadRules` stands for the matches of `process_file` that cut a `.lx` file into
rules; `rules_count` is the code's, and `states_count` says in how many of its states the
next rule (`Rule`) has been compiled. `NewState` and `AnotherRule` are the two branches of `create_start_node` with the
call of `rx_init_start` that follows, `CompileRule` its loop, `GeneratorFails` its error.
`OutputFile` prints the tables: an edge becomes an index, NULL becomes 0 as does the
first node, a byte becomes a character constant. After it the graph of the generator is
gone. `LexStart` is the generated program up to its first match: the input is read, and
`lex_init` makes pointers of the indices. `LexMatch`, `LexMatchTurn` and `Token` or
`LexEnd` are a turn of `lex()`. `BEGIN(n)` in a rule's code is the rule's field `begin`.

*Grep.* `find` is a recursion over directories; `todo` is what it has still to visit, in
the order of the calls, with the entries of a directory put in front in any order that
`readdir` may give (`FindDirectory`). `ReadChunk` is a turn of `read_file`, with any
number of bytes up to the chunk; `ReadEnd` is the last turn and the start of
`process_file`. `ShowMatch` is a whole turn of its loop: the match, the next position,
`find_line` to the start, the rest of the last match's line, the lines after it, the
lines before this one, its label and text, `find_line` to the end. `LastMatch` is the
turn without a match and what follows the loop. What is printed is a sequence of pieces:
a part of the data, from one position to another, with the number printed before it. The
loops of the `show_` functions are described by the set of the line ends they stop at.
When a file is done the variables that belong to it are reset, as they are dead; the
size of the buffer stays.

The graph that `Compile` builds was compared with the C library's own for 7808 texts:
the 5402 of `MCCompile` and 2406 of the families it leaves out. They are identical node
by node.

## 3. What TLC checks

| run | what it shows |
|---|---|
| `matcher_search` | on 12 graphs of 0 and 2 captures and 6 strings, every start position, one call after another with the same matcher in every order: types, the path in order, no revisit, no alternative lost, leftmost, no match missed, matches real, captures those of this match; every call returns; `Matcher` implements `MatchContract` |
| `compile_texts` | 5402 texts: every sequence of up to four symbols of nine, and quantified and nested groups: types, no edge left unset, every walk can reach MATCH_END, captures open and close in pairs, no atom dropped, copies faithful, what is copied can be numbered as the proofs need it, the stack of the copies within its room, compilation ends |
| `compile_lazy_copy` | **violation**: `(a??){2}b` is not copied faithfully |
| `compile_stale_atom` | **violation**: `a\|{2}` is not rejected, and follows NULL |
| `rx_meaning` | 576 expressions and their texts, compiled and matched against two strings from every position: the result, its leftmost start, its end and every capture are what `RegexSemantics` says |
| `rx_plus_alternative` | **violation**: `a+\|b` matches the whole of "ab" |
| `parsers` | every bracket text of up to two symbols of sixteen, closed and open, and families with ranges of up to eight; every brace text of up to four symbols of seven: which texts are taken, that the two passes agree, what the class matches on 24 characters and bytes, what the counts are |
| `utf8_two_bytes` | **violation**: `[\u00e9]` does not match that character |
| `lexer` | five scanners of three to five rules and up to two start states, over every string of up to four bytes of three, and one with a rule that is rejected: each start state reaches exactly its rules, the tokens are those the rules describe, line and column agree with the position, `lex()` ends |
| `hash_dictionary` | four keys, two with equal hashes, one meeting them only in small tables, one probing around the end: a map through two resizes and clears |
| `grep` | four expressions, with matches within a line, over several lines and of no size, on every file of up to four lines of four kinds, on files of six lines, and on a tree with a directory, a missing, a locked and an unreadable entry; five pairs of context sizes: numbers true, nothing printed twice, exactly the context shown, no match and no file passed over, every turn moves on |
| `grep_past_end` | **violation**: with `a*` a search starts beyond the data |

**Bounds and why they are enough.** The graphs of `MCMatcher` are those that `rx_init`
builds for the expressions in the comments: between them they have every node type,
both orders of a BRANCH, loops, a loop in a loop, captures inside loops, copies, all
seven assertions, a class with ranges of two byte characters, and the ignore case flag.
The strings are up to four bytes: enough for a fall back over two loops, for an attempt
to fail and the next start to match, and for a character of two bytes.
A matcher object remembers only the capture slots, and with two graphs that set
different slots every stale value occurs. `CapAllocated` is 1 where the code has
10, so that the arrays must grow, and `DfsAllocated` is 2 in the compile runs where the
code has 10, so that the stack must grow several times. Four symbols (`RawLen`) suffice for each pair of
adjacent constructs in a group; the longer families add what they leave out. The hash
table starts with 2 slots where the code has 10, so that four keys need two resizes.

`MCParsers` has symbols of one, three and four bytes as escapes and of two bytes as
characters, a byte that is no character, the two symbols with a meaning of their own
(`-`, `^`), a set and its negation, an escape that is too large and one that is
malformed: a class remembers one character and two flags between symbols, and the
families put every symbol before and after a range. In `MCLexer` the keyword comes
before and after the names it begins, so that the order of rules decides; a start node
is branched up to four times; a rule is in two states; tokens hold newlines.

In `MCGrep` the chunk is two bytes, so that every file is read in several ways and the
buffer of one file is met by the next. Six lines with and without a match give gaps
between two contexts that are shorter, as long and longer than both together; the
context sizes are different before and after, and zero.

**Deadlock** is checked in every passing run. In `compile_stale_atom` it is off: there
the system stops, and that is what the run is about.

**Left out of the compile runs, and why.** `MCCompile` names the families of texts that
the compiler gets wrong in ways that the properties of this run are not meant to
report one by one:

- `EmptyFirst`: an empty first alternative, `(|a)b`. The BRANCH replaces the node that
  is also the end of the group, and an alternative is lost. `a{0}|c` is the same.
- `StaleAtom`: a quantifier directly after `|`; run `compile_stale_atom` has it.
- `LazyCopied`: a counted quantifier on a group with a lazy quantifier; run
  `compile_lazy_copy` has it.
- `Stacked`: a counted quantifier on a quantifier, `a+{0,2}`: the loop of the `+` leads
  to the node where the atom was, which is another one by then. This is also what run
  `rx_plus_alternative` shows with `|`.
- `{0}` is used only at the end and before a literal, for the first reason.

`MCRx` leaves out the same families, expressions with a repeated body that can match
the empty string (see below), and `^` inside an alternative, whose failure
ends the whole call on purpose (`rx.c` 1273).

`MCLexer` leaves out a rule that can match nothing (`lex()` would find it for ever), a
first rule that begins with a `+` (the next rule moves its node, as `|` does in
`rx_plus_alternative`), and states in which no rule matches at a position but one does
further on: `\G` moves with the search, `pos2` is then only moved by the size of the
text, and position and text part. A scanner of each of the last two kinds violates
`IsTokenStream`. Rules with captures are left out as well: the generated `rx_t` comes
from `calloc` and has `cap_count` 0 and no `ignorecase`, whatever the rules had.

The bytes of the rules are ASCII: a byte from 128 on in a rule is a negative constant in
the tables (`Constant`) and never equals the byte of the input.

`MCParsers` leaves `\u` escapes of two bytes to the run `utf8_two_bytes`, and leaves out bytes that would join to one character when the class is matched
(`[\xc3\xa9]`). Of a range whose ends differ in size (`[a-é]`), `ClassMeans` says
nothing about bytes that are no character: the comment above `rx_char_class_init` says
that invalid bytes are not matched by a range, and this one matches them. `QuantMeans`
speaks of sums that fit into an `int`; one that wraps to -1 is no maximum at all.

`MCGrep` leaves out files whose last line has no newline (as a line of context it is not
shown), carriage returns (`show_post_text` stops at one, and `show_after_context` then
takes the newline after it for a line of its own), and expressions that match at the end
of the data, which run `grep_past_end` has. `-A` and `-B` are not negative, and a
directory that is found can be opened (`opendir` is not checked, `example5.c` 276).

**Fairness.** `WF_vars(Step)` for the matcher, `WF(CompileStep)` for the compiler, both
for the library, `WF(MakeTurn)` and `WF(LexTurn)` for the scanner, `WF(GrepTurn)` for the
grep program: the code is sequential, so once a call has begun, its loop takes its
next turn until it returns. There is no fairness on `Call`, `RxInit`, `Return`,
`PartialFree`, `ReadRules`, `LexStart`, `Main` or the frees: a caller may never make another
call. `HashTable` and the parsers have no fairness; of the table, that its searches end is the invariant `EverySearchEnds`.

**The violations**, each a disagreement between the code and what the repository says:

1. *Copies with lazy quantifiers.* `copy_subgraph` marks a node when it leaves the stack
   and not when it gets its copy. A lazy BRANCH leads first to the node after the atom,
   which waits on the stack while the atom is copied; it gets a second copy, and the
   first stays empty. The copied graph crashes the walk.
2. *A quantifier after `|`* applies to an atom of the alternative before.
3. *`+` before `|`.* The loop of `+` goes back to the node the atom began with; `|` moves
   the atom and puts its BRANCH there, so the other alternatives are in the loop.

4. *Characters of two bytes.* `rx_int_to_utf8` (`rx.c` 49) gives their first byte the
   leading bits of a continuation and masks away the bits it should hold, so `\u00e9` is
   the bytes 81 a9 instead of c3 a9. A class with it does not match that character, but either
   of the two bytes alone, the second byte of the character too. `README.md` lists `\u2603` as a code point.
5. *Searching beyond the data.* After an empty match at the end `example5.c` 205 passes
   `data_size + 1`. `rx_match` compares its start with the size only for equality
   (`rx.c` 1379): `a*` matches there and at every position after it, and `$` is searched
   for through memory without end.

Other disagreements met while modelling, which the runs' instances leave out:

- A loop whose body can match nothing, `(a*)*b`, pushes the same BRANCH at the same
  position again and again and the call does not return: with such a graph `NoRevisit`
  and `Returns` are violated. `testdata.txt` 48 has one commented out with "this is an
  infinite loop".
- `rx_match` tests `\G` against `start_pos`, which the search advances, so `\Ga` finds the
  "a" of "ba" from 0. `README.md` and `rx.h` say "start of position".
- An escaped byte above 127 is a negative `char` and never equals a byte of the string
  (`rx.c` 948). `[^a]\c` matches "a", as either case may match. `{3,2}` is taken as `{3}`.
  A dot takes one byte of a longer character.
- The code of `%LEXPOST` is printed after a loop that is only left by `return 0`, so it
  never runs, although `example6.c` 43-57 shows it run after the last token. A special
  rule is recognised by any prefix of its name, so that `%` is `%ALLRULESPRE`.
- The grep program finds an empty match twice when it found it by searching on: with `\<`
  at a word that follows a blank, say. It prints "--" between two groups of lines only
  when lines before a match are asked for and the first group did not end in line 1.

## 4. What is proved

`MatcherProofs` proves, for **every** set of well formed graphs and every set of byte
strings, as theorems of `Spec`:

| theorem | property |
|---|---|
| `TypeCorrect` | `TypeOK`: the walk stays in the graph, the string and the slots |
| `PathOrdered` | `PathInOrder`: positions never go back along the path |
| `MatchesAreReal` | `MatchIsReal`: where the walk is, and every place it can fall back to, is reachable in this attempt |
| `AlternativesKept` | `NothingLost`: if the attempt can succeed, what is left to explore still holds a way to |
| `LeftmostFirst` | `Leftmost`: no earlier start could have matched |
| `NoMatchMissed` | `NoMissedMatch`: 0 is returned only when no start can match, for graphs whose `^` and `\G` come first |
| `KeepsContract` | `Spec => Contract!Safety`: the safety part of the refinement |
| `CapturesOfMatch` | `CapturesWithin`: each capture lies in the match, is as long as its ends say, and is unset if its group took no part; for graphs with `CapturesInPairs` |
| `PathNeverRevisits` | `NoRevisit`: no BRANCH or CAPTURE node is twice on the path at one position; for graphs with `NoEmptyLoop` |

**Assumptions.** `ProgramsAssumption` (graphs are `WellFormed`), `StringsAssumption`
(strings are sequences of bytes), `CapAllocatedAssumption`, and two about the constants
`Viable` and `Reached`. "Can match" and "can be reached" are fixpoints over the graph;
the proofs do not need the fixpoints, only that `Viable(g, s, t)` is a set each of whose
configurations accepts or has a successor in the set, and that `Reached(g, s, t)` holds
the start and is closed under successors. The exact sets satisfy both, `MCMatcher`
computes them, and TLC checks all the assumptions with them on every run.

**Arguments.** `TypeOK` is inductive by itself. `PathInOrder` is inductive together with
it. For `MatchIsReal` the invariant is `RealInv`, which speaks of all pending
configurations rather than of those in `Configs`. The search properties need each other:
`SearchInv` is `TypeOK`, `NothingLost`, `Leftmost`, `NoMissedMatch` and `StartFresh`.
The argument is that a turn replaces the current configuration by its successors: one of
them is viable if it was; when a node fails it was not viable, so the witness is on the
path, and the last BRANCH is a witness or is irrelevant; when there is no BRANCH left
nothing is pending, hence the start was not viable, which is what `Leftmost` needs at
`NextStart` and `NoMissedMatch` at `Exhausted`. `StartFresh` is needed at `AnchorFail`:
with the anchor first and no edge back to it, the walk at the anchor is at the start of
the attempt with nothing on the path, so its failure says that this attempt has no match;
a later attempt fails in the same way (`AnchorNever`). `KeepsContract` follows from both
invariants: `MatchEnd` is `ReplyMatch`, `AnchorFail` and `Exhausted` are `ReplyNoMatch`,
the other turns stutter.

`CapturesInPairs` says of each capture that the nodes of the graph fall into three sets:
those that a walk comes to before the capture is opened, while it is open, and after it
(a capture in a loop goes from the last back to the second), with the opening and closing
nodes leading from one to the next and MATCH_END in none where it is open. The invariant
`PhaseInv` says that the walk, and every place on its path, is in the set that the
openings and closings before it on the path make; so the last closing that `MatchEnd`
finds is after the last opening, and `PathInOrder` puts its position no earlier.
`NoEmptyLoop` says that the nodes have ranks that fall along every edge of a node that
consumes nothing; two equal entries of the path would have the same position, hence
nothing consumed between them, hence a lower rank (`RankInv`). These are conditions on
graphs that `rx_init` builds for every expression without a loop around something that can
be empty; `MCMatcher` checks both for its graphs (`HypothesesOfProofs`), and
`CapturesPaired` checks the first, in another form, for what is compiled in `MCCompile`.

`CompileProofs` proves first about `copy_subgraph`, for every graph:

| theorem | property | condition |
|---|---|---|
| `CopiesFaithfully` | `CopyFaithful` after a call, and no mark is left | `Numbered` |

A call that starts with `Started(g)` and goes on with turns of the loop keeps the
invariant. `Numbered(g)` is what the subgraph must be: its nodes can be numbered as a depth
first search finds them that takes the second edge of a BRANCH first, where **an edge leads
to a node numbered before, or to the next number**. It may have loops, shared nodes and any
size. This is what the stack needs: `copy_subgraph` marks a node when it leaves the stack, so
nothing may lead to a node that waits there. The invariant says that the nodes marked are
those numbered below the top of the stack, that those on the stack are numbered in turn,
each where what is found from the one above it ends, and that the map is one-to-one, has
every node marked or waiting, and gives the edges of every copy. A lazy BRANCH has no such
numbering, and run `compile_lazy_copy` shows the copy fail.

and then, with `WalkProofs`, about `Compile`, for **every** set of texts and every table of
atoms, escapes and counts, as theorems of `CompileSpec /\ []CopiesNumbered`:

| theorem | property |
|---|---|
| `CompileTypes` | `CompileTypeOK`: edges, groups and locals are nodes or NULL, the stack of a copy has room |
| `EveryCopyFaithful` | `CopyFaithful`: every copy of every quantifier, the later ones of a repetition too |
| `NothingDangles` | `OnlyOpenEndsDangle`, for texts that are `Plain`: no rewrite of the graph by a quantifier, a copy or a `\|` leaves an edge unset |
| `CompiledWellFormed` | the graph of a `Plain` text, once compiled, is `WellFormed` |
| `PathsMatch` | `EveryPathMatches`, for texts that are `Plain`: from everywhere on a walk MATCH_END can be reached |
| `CapturesArePaired` | `CapturesPaired` and `NothingDropped`, for texts that are `Plain` |

and as theorems of `CompileSpec` alone, for texts that are `Tame`, whatever texts were
compiled before:

| theorem | property |
|---|---|
| `CopiesAreNumbered` | `CopiesNumbered`: the hypothesis of the theorems above |
| `CopyableCompiles` | `CompileTypeOK`, `CopyFaithful`, `OnlyOpenEndsDangle`, `EveryPathMatches`, and once compiled the graph is `WellFormed` |
| `CopyableCaptures` | `CapturesPaired`: on a walk a capture is opened, then closed, before it is opened again or MATCH_END comes; `NothingDropped`: every atom of the text can be walked to |

`CompiledWellFormed` is the link between the two halves of the library: what it concludes is
`ProgramsAssumption` of `Matcher`. A text is `Plain` when no group, nor the text itself,
begins with an empty alternative, and no quantifier has max = 0. In the other texts an edge
may be left unset for good: the first node of an empty alternative is also where its end is
(`src/rx.c:710`), and `{0}` empties its atom and leaves the end of it behind. Run `compile_texts`
shows that the unset edges of `{0}` cannot be reached; that is out of the prover's reach, and
so `OnlyOpenEndsDangle` of those texts stays with TLC.

**Assumptions.** `AtomsAssumption` (an atom is one or more nodes), `ClassesAssumption` (its
classes are in the list of the `rx_t`), `EscapesAssumption`,
`CountsAssumption`, `TextsAssumption`, `DfsAllocatedAssumption`, `SymbolsAssumption` (what the
code takes for a group, a quantifier, an assertion or a `\c` is no atom). The hypothesis
`CopiesNumbered` says that what `copy_subgraph` is called with has a numbering. It is not
implied by the code: a lazy quantifier in what is copied is a counterexample, which run
`compile_lazy_copy` shows. `CopiesAreNumbered` proves it for the texts that are `Tame`:
`Plain` and `Copyable`. A text is `Copyable` when no quantifier before its last quantifier
in braces is lazy, or comes right after another quantifier, an
assertion, a `|` or a `\c`; such a quantifier applies to what `atom_start` was before, which
need not be a part of the graph with one end. Every text without braces is `Copyable`. For the
other texts the hypothesis stays; `CopiesCanBeNumbered` is the check of it: it computes the
numbering of each call, and asks that the numbered graph is `Numbered`, on all texts of
`MCCompile`. Of these 5402 texts 5350 are `Tame`, and 1635 of the 1687 with braces.

**Arguments.** Every edge leads to a node or is open (`GraphOK`). The nodes where the open
groups start lead somewhere, are never the open end, the atom, or the end of what is
repeated, and are distinct (`Places`, `QuantOK`): a quantifier that empties the node of its
atom (`{0}`), or a `|` that moves the first node of an alternative, thus cuts no open group
off. A copy writes only nodes that it made or the open end. During a copy the invariant of
`copy_subgraph` holds, for some call (`CopyInv`); so the stack never holds more than it
has room for when `CopyNode` pushes two at once.

For `NothingDangles` the invariant (`OpenInv`) has a part for each place the code can be at.
Between two symbols only `node` and the places where alternatives meet have no first edge,
and the first node of an alternative has one unless nothing has been read of it. In the loop
of a quantifier the end of the atom has none either, until the first repetition is linked.
In a copy all of this holds of the graph at the call, but for the node that the copy grows
from; when it is over, every copied node leads to the copy of what its original led to, so
only the end of the copy is open (`CopyEnd`), and the link that follows sets it or goes on
from it. `PlacesApart` is what makes these writes harmless: where alternatives meet is never
the open end, the atom, or the start of a group, and a group never starts at the first node
of a group inside of it. `CompiledWellFormed` takes from the same invariant that `Finish`
closes the last open ends, and from `LabelInv` that the number in a capture node, through all
copies, is one that was counted.

For `PathsMatch` a **trap** is a set of nodes that no edge leaves and none of whose edges is
unset: a walk in it never comes to the open end. No step makes one (`NoTrap`). A symbol, a
link or a join writes only nodes that lead, some of them over others, to the new open end or to
where alternatives meet; as these are unset, they are in no trap, and so neither are the nodes
written (`StillNoTrap`). A `*`, `?`, `|` or `{0,}` also moves a node; a trap with the
moved node would be one with the old node before (`MovedNoTrap`). A copy is the hard case: a trap
of the graph after the copy holds copies or not; if it does, the originals of these would be
a trap before, unless the end of the copy is one of them, and that end is unset
(`CopyNoTrap`); if not, it was there before. `EndsApart` says that no two open groups have the
same place where their alternatives meet, so that closing one leaves the others open. When the
text ends, the last open end becomes MATCH_END, and a set that no edge leaves then holds it
(`Leads`). What can be reached from a node is such a set. That `ReachFrom` computes it is
proved as well (`ReachHull`): the function it is defined by has a solution, and any
solution gives the least closed set, or there would be a greatest set for which it does not,
and a greater one after it.

For `CopiesAreNumbered` a **part** (`Straight`) is a set of nodes with an entry and an end that
a depth first search from the entry numbers as `Numbered` asks, no node but the end leading
out of it. Parts are closed under what quantifiers do: two in series are a part, and so is one
with a fork around it (`?`), with a loop (`*`, `+`), or several behind forks that meet
(`|`); a finished copy of a part is a part (`CopyPart`), and what is repeated grows by one
copy in series at a time. The invariant `PartInv` says where the parts are. Between two
symbols (`ScanParts`) every open group is a sequence of finished alternatives behind forks, and
a part that goes up to the start of the group inside of it (`Nested`) or, in the innermost, up
to `node` (`Level`); the atom is a part at the end of it. So a closing parenthesis finds
one part to make the atom of the group outside, and a quantifier finds its atom apart from all else.
In the loop of a quantifier (`RepeatParts`) what is repeated is a part, and what the repetitions
made so far another one; during a copy (`CopyParts`) this holds of the graph at the call. All
of this is asked only while a quantifier in braces is ahead (`More`), so that a lazy
quantifier behind the last one does no harm. `Rested` is the part of the invariant that any
compilation, of whatever text, leaves to the next.

For `CapturesArePaired` a capture `j` has an **inside** (`Sided`): a set `I` of nodes that an
edge enters only from a CAPTURE_START of `j`, which is not in it, and leaves only from a
CAPTURE_END of `j`, which is. The invariant `SidesInv` says that every number has one,
for which every place of the scan (`node`, `atom_start`, `or_end`, the start of an open group
and where its alternatives meet) is on the side of the first node of its level (`Placed`).
So whatever a quantifier, a `|` or a link writes leads from one side to the same side, or
is moved from a place of that side (`OneSided`, `Rewrite`). An opening parenthesis makes the
nodes behind it the inside of its number, and the closing one ends that; a copy is
on the sides of what it is made from (`Mirrored`), so that it opens and closes what the
original does. `Whole` says that every node can be reached from the first: a node that is moved
is led to from its old place, a new node from an older one (`Carries`), and a copied node
from the copy that was mapped before it (`Sprouted`). What is cut off while a quantifier with
min = 0 is applied is tied to the node that will lead to it (`Nearly`). `Stocked` says that the
nodes of every atom read and of every capture counted are there, at whatever place
(`Kept`). When the text ends the last open end is outside of every capture: a walk from the
first node that meets no CAPTURE_START stays outside, and one from behind a CAPTURE_START that
meets no CAPTURE_END stays inside, where MATCH_END is not. That a CAPTURE_END exists follows from
`Leads`: an inside without one would be a set that no edge leaves.

`HashTableProofs` proves for **every** set of keys and values, hash function and initial
size, as theorems of `Spec`:

| theorem | property |
|---|---|
| `HashTypes` | `TypeOK`: the slot that `hash_index` returns is in the arrays |
| `KeysWhereLooked` | `FoundWhereLooked`: every key is where it is looked for, and once |
| `SearchesEnd` | `EverySearchEnds`: the loop of `hash_index` ends, also for a key that is not there |
| `ImplementsDictionary` | `IsDictionary`: `hash.c` implements `Dictionary` |

**Assumptions.** `HashAssumption` (a hash is a natural number), `InitAllocatedAssumption`
(at least 2 slots: with one, the first insertion fills the table), `NoKeyAssumption`
(NULL is no key).

**Arguments.** `HashInv`: the slot of a key is the first of its probing that is free or its
own (`Placed`), and at least one slot is free. As a slot once used is only freed by a clear,
filling a free slot shortens no other probing before its key. That a slot is free follows
from the count between calls (`2 * count <= allocated + 1`); while `hash_resize` moves, from
the old array having half the size: the new one holds exactly the old entries before `next`
(`HalfMoved`). The refinement maps the table to its contents, of which a move changes
nothing, as the contents of a half moved table are those of the old one.

`ParserProofs` proves for **every** text and every table of symbols, as theorems of
`Parsers`:

| theorem | property |
|---|---|
| `ParserTypes` | `ParsersTypeOK`: every element of a class that is returned is written, the counts of a brace are in an `int` |
| `ArraysFilled` | `SecondPassFits`: the second pass writes exactly the arrays that the first pass measured, and rejects nothing |
| `QuantifierMeans` | `QuantMeans`: the counts that a brace returns are those its text means, in an `int` of any width, and a text is rejected only if it means none |

**Assumptions.** `ClassTextsAssumption`, `LiteralsAssumption` (a character is one to four
bytes), `UnicodeAssumption` (a `\u` escape is a natural number), `NamedSetsAssumption` (the
names of sets are no characters), `IntMaxAssumption`, `QuantTextsAssumption`,
`DigitsAssumption`. `UnicodeAssumption` is about the fold in `HexToInt`; what a fold gives
for every input is an induction over data, so it is assumed here and TLC evaluates it for the
escapes of `MCParsers`.

**Arguments.** The invariant of the bracket parser holds a trace: the locals before each
symbol, from the first to the one read. In the first pass it is the pass so far; in the second it is that of the
whole first pass, and the locals of the second are those of the trace at its position
(`SecondPass`). A turn is a function of the symbol and the locals, so the second pass takes
the turn that the first took, and what it may write ends with the first pass's counts.
`Filled` says that what is below the counts is written and the rest is not.
`rx_char_class_parse` may only reject in the first pass.

The invariant for `QuantMeans` (`ReadInv`) says which part of the text has been read as digits,
and that the number read is the sum of its digits, or has wrapped where that does
not fit in an `int`. `Number`, the value of a text of digits, is a recursive function. That it
satisfies its equation for every text, the prover does not get from the definition;
it is proved (`NumberEquation`) by taking the shortest text for which it would not. That the text has
one comma, at most, and where, decides what it means; `RejectedRightly` shows of each
place where the parser gives up that no reading of the text as a count is left.

`GrepProofs` proves, for **every** tree of files, chunk size, context size and `Find`, as
theorems of `GrepSpec`:

| theorem | property | condition |
|---|---|---|
| `GrepTypes` | `GrepTypeOK`: the positions stay in the data, what is read in the buffer | `NeverEmptyAtEnd` |
| `SearchesStartInData` | `StartsInData`: `rx_match` is called with positions of the data | `NeverEmptyAtEnd` |
| `EveryMatchAdvances` | `SearchAdvances`: every match moves the search on | `NeverEmptyAtEnd` |
| `GlobalSearch` | `NoMatchSkipped`: no place where a match begins is passed over | `NeverEmptyAtEnd`, `FindsFirst` |
| `PrintedOnce` | `NothingTwice`: all that is printed is in the order of the file, and nothing twice | `NeverEmptyAtEnd` |
| `NumbersTrue` | `LabelsTrue`: every number is that of its line, and no line is begun without one, in files without carriage returns | `NeverEmptyAtEnd` |
| `ContextTrue` | `ContextShown`: the lines from `-B` before a match to `-A` after it are shown, each whole, and no others, in files without carriage returns whose last line ends with a newline | `NeverEmptyAtEnd` |

**Assumptions.** `ChunkAssumption` (a chunk is at least a byte), `ContextsAssumption` (the
sizes of the contexts are not negative), `EntriesAssumption` (files hold bytes, and
directories finitely many entries), `FindAssumption` (what is found lies between the
position asked for and the end). The two conditions are hypotheses of the theorems; that
the data has no carriage return (`NoReturns`), and that it is empty or ends with a newline
(`WholeLines`), are premises in what `NumbersTrue` and `ContextTrue` state, file by file.
`NeverEmptyAtEnd` says that no match at the end of the data is empty: this is what
`process_file` relies on, and the run `grep_past_end` shows that without it the program
fails. `FindsFirst` says that `rx_match` finds something if a match begins at or after
the position it is given, and nothing that begins later than that match; this is what
`LeftmostFirst` and `NoMatchMissed` prove of `Matcher`, for expressions without `\G` and
with `^` first. `MCGrep` checks both for its four expressions (`HypothesesOfProofs`).
`NoReturns` is needed: with `-A 1`, after a match on the first line of "a\r\nb\n", the
newline at 2 is printed as a line of its own with the number 2. So is `WholeLines`: with
`-A 1`, after a match on the first line of "a\nb", `show_after_context` looks for a newline
at the end of the second line and does not show it.

**Arguments.** `GrepInv` adds to the types that a buffer, once there, has room for a
chunk, so that doubling it makes room for the next; that what has been read is what the
file begins with; and that the positions are 0 between files. With `NeverEmptyAtEnd` the
next position is never beyond the data: an empty match at `pos` is then before the end.
`SearchedInv` is `NoMatchSkipped` up to `pos`: a match that is found begins no later than
any other from `pos` on, so it covers every place before the next position, and when
none is found there is none left. It also needs that what is printed is a sequence, so
that what was printed before stays in it.

`OrderInv` is `NothingTwice` with its reason: all that is printed lies before `end`. It is
kept because a turn prints pieces that follow each other between the old `end` and the new
one: the rest of the line, the lines after it, which end at the newlines of
`AfterStops` one after the other, the lines before the match, which begin at or after
where those ended and end before the line of the match begins, and what precedes the match
on its own line. This last needs that the lines after a match never reach into the line of
the next one, which holds as they are printed only when that begins on a later line
(`OnNewLine`).

`LabelInv` adds to `LabelsTrue` that `line` is the line of `end`, and that the last piece is
the match that ended there. `find_line` then gives the line of the next match
(`LineOfFurther`). The stops of the lines after a match are the first newlines from `end`
on, so the `j`-th of these lines has the number `old_line + j` (`AfterCount`). The
beginnings of lines before a match and the newlines between them are equally many
(`LinesBetween`), so the numbers counted back from the match are true. A piece without a
number that begins a line follows a label, or the match that ended there: `show_pre_text`
starts at the beginning of the line only when a label was printed, and at `end` otherwise.

`ShownInv` is `ContextShown` for the part of the file before `end`: `Shows(P, p, q, a, b, W)`
says of a set of pieces that of the data between the positions `p` and `q` it shows what is
on the lines of `W`, that of the lines from `a` to `b - 1` it begins those of `W`, and that
both is all it does. What is printed one after the other then composes (`ShowsBoth`), and each part
of a turn is looked at by itself: the rest of the line and the lines after a match
(`AfterShows`, `RestShows`), the lines before (`BeforeShows`), the label, the rest of the
line before the match, and the match. `W` changes with every match, but not for what is
already printed: the lines around a new match that are not beyond the last match's end
were around the last one (`WantedBefore`), and from that line on the old ones are just the
`-A` next (`WantedAfter`). So of the lines between two matches those are wanted that the two
contexts print, and the second one looks only at what the first has left.

`LexerProofs` proves for **every** set of `.lx` files and inputs, as a theorem of `LexSpec`:

| theorem | property |
|---|---|
| `PositionsTrue` | `PositionsAgree`: `line2` and `column2` are those of the position `pos2`, whatever the tokens hold |

**Assumptions.** `ScannersAssumption` (a `.lx` file is a sequence of rules, without captures,
that enter only states which some rule has) and `InputsAssumption` (inputs are sequences of
bytes), beside those of `Compile`. Nothing is assumed of the graph: the theorem holds for the
tables of any rules, those that the compiler gets wrong included, as far as the walk through
them goes.

**Arguments.** `PosInv` says that the walk of `rx_match`, and every place on its path, lies
between the start of the attempt and the end of the input, and that this start is at or
after the position `lex()` asked for; so the text of a token is no longer than what is left,
and `pos2` stays in the input. `LineInv` is `PositionsAgree` between two turns, and during a
match for the position before it: the newlines before the new position are those before
the old one and those of the text (`CountedOn`), and the last of them is the last of the
text's if it has one.

**Only model-checked.** Liveness (`Returns`, `CompilationEnds`, `LexEnds` and the fairness
part of `ImplementsContract`) is out of the prover's reach. `OnlyOpenEndsDangle`,
`EveryPathMatches`, `CapturesPaired` and `NothingDropped` for texts that are not `Plain` stay
with TLC. The meaning of expressions and of classes is written with `RECURSIVE` operators,
which no module with a theorem can use, so `ResultIsMeaning`,
`IsTokenStream` and `ClassMeans` stay with TLC as well. Of `Lexer`, `StatesExclusive` is about
what can be reached, and `LexTypeOK` is not proved yet. Of `Grep`, that every file is named
(`FilesNamed`) is about all that is below a directory, which is recursive as well.

## 5. Not modelled

The printing functions of `rx.c`, the test driver and its data, the small examples and
the build files have no state that another part reads. Of `example6.c`: how the `.lx`
file is cut into sections and rules, its comments and special rules (they change what is
printed, not the tables), the printing of the strings of a character class (a `"`, a
backslash, or a `\x` escape followed by a hexadecimal digit would not be read back as it
was), and the limit of ten start states. Of `rx.c`: failing allocations, which the code
does not check, and the growth of the path, capture and group arrays. Of `hash.c`: the
string hash, and `hash_free`.

## 6. Plan

Done: every component that keeps state is modelled and checked; the proofs are those of
section 4. Left is the type correctness of `Lexer`: the graph that the rules of a file make
together, printed and linked again, can be walked (`WellFormed`), when what is copied can be
numbered. The proofs about `Compile` are about a text that begins an empty graph, and that
of a rule grows from a node of the graph of the rules before it.
