-------------------------------- MODULE Grep --------------------------------
(***************************************************************************)
(* The grep program example5.c: it finds every match of one expression in  *)
(* each file, and prints the lines the matches are on, with the lines      *)
(* before and after that were asked for.  A match may span lines, and      *)
(* several may share one.                                                  *)
(*                                                                         *)
(* What is printed for a file is a sequence of pieces of its data, from    *)
(* position from up to position to, with the number printed before it as   *)
(* its label (0 for none).  C positions: byte p of the data is data[p + 1].*)
(***************************************************************************)
EXTENDS Integers, Sequences, FiniteSets

CONSTANTS
  Patterns,          \* the expressions that may be searched for
  Find(_, _, _),     \* what rx_match(expression, data, position) finds
  Entries,           \* the files, directories and names that lead to none
  Arguments,         \* the command lines: sequences of entries
  Contexts,          \* the values of -B and -A: records [before, after]
  ChunkSize          \* the bytes read at once

Byte == 0..255
IsFile(e) == e.kind \in {"file", "stdin", "bad"}

ASSUME ChunkAssumption == ChunkSize \in Nat \ {0}
ASSUME ContextsAssumption == Contexts \subseteq [before : Nat, after : Nat]
ASSUME EntriesAssumption ==
  /\ Arguments \subseteq Seq(Entries)
  /\ \A e \in Entries :
       /\ IsFile(e) => e.content \in Seq(Byte)
       /\ e.kind = "dir" => e.entries \subseteq Entries /\ IsFiniteSet(e.entries)

(* rx_match finds nothing, or a match that does not begin before p.        *)
ASSUME FindAssumption ==
  \A x \in Patterns, e \in Entries : IsFile(e) =>
    \A p \in 0..Len(e.content) : \A r \in Find(x, e.content, p) :
      r.start \in p..Len(e.content) /\ r.end \in r.start..Len(e.content)

VARIABLES
  expr, before, after, argv, \* the command line
  todo,                      \* the entries that find() has still to visit
  file,                      \* the file being read or searched
  data, data_allocated,      \* the buffer, which all files share
  pos, end,                  \* where to search on; the end of what was printed
  line, line_byte, old_line, \* find_line's count, and the line of end
  match_count, file_match_count,
  output,                    \* what was printed for the file
  names,                     \* the names printed, each with the blank line before it
  pc

options == <<expr, before, after, argv>>
locals == <<pos, end, line, line_byte, old_line, file_match_count>>
grepVars == <<options, todo, file, data, data_allocated, locals, match_count, output, names, pc>>

NoFile == [kind |-> "none", name |-> "", content |-> <<>>]
NEWLINE == 10
RETURN == 13
IsNewline(i) == data[i + 1] = NEWLINE

GrepInit ==
  /\ expr = "" /\ before = 0 /\ after = 0 /\ argv = <<>>
  /\ todo = <<>> /\ file = NoFile
  /\ data = <<>> /\ data_allocated = 0
  /\ pos = 0 /\ end = 0 /\ line = 1 /\ line_byte = 0 /\ old_line = 1 /\ file_match_count = 0
  /\ match_count = 0 /\ output = <<>> /\ names = <<>>
  /\ pc = "idle"

(* What process_file sets before its loop. *)
ResetLocals == /\ pos' = 0 /\ end' = 0 /\ line' = 1 /\ line_byte' = 0 /\ old_line' = 1
               /\ file_match_count' = 0

(* main: the options and the entries; stdin, which comes first, is one.    *)
Main ==
  /\ pc = "idle"
  /\ expr' \in Patterns
  /\ \E c \in Contexts : before' = c.before /\ after' = c.after
  /\ argv' \in Arguments /\ todo' = argv'
  /\ pc' = "find"
  /\ UNCHANGED <<file, data, data_allocated, locals, match_count, output, names>>

-----------------------------------------------------------------------------
(* find: an entry that is not there or cannot be opened is reported and    *)
(* passed over; a directory is visited in the order readdir gives.         *)
Entry == Head(todo)

Orders(S) == {s \in [1..Cardinality(S) -> S] : \A i, j \in DOMAIN s : s[i] = s[j] => i = j}

FindNothing ==
  /\ pc = "find" /\ todo # <<>> /\ Entry.kind \in {"missing", "locked"}
  /\ todo' = Tail(todo)
  /\ UNCHANGED <<options, file, data, data_allocated, locals, match_count, output, names, pc>>

(* Mutant: what is left of the command line is forgotten. *)
ForgetTheRest(order) == order
BeforeTheRest(order) == order \o Tail(todo)

FindDirectory ==
  /\ pc = "find" /\ todo # <<>> /\ Entry.kind = "dir"
  /\ \E order \in Orders(Entry.entries) : todo' = BeforeTheRest(order)
  /\ UNCHANGED <<options, file, data, data_allocated, locals, match_count, output, names, pc>>

FindFile ==
  /\ pc = "find" /\ todo # <<>> /\ IsFile(Entry)
  /\ file' = Entry /\ todo' = Tail(todo)
  /\ data' = <<>>
  /\ data_allocated' = IF data_allocated = 0 THEN 2 * ChunkSize ELSE data_allocated
  /\ pc' = "read"
  /\ UNCHANGED <<options, locals, match_count, output, names>>

(* read_file: read() may give less than was asked for.  Mutant: the buffer *)
(* grows only when it is full.                                             *)
GrowWhenFull == IF Len(data) >= data_allocated THEN 2 * data_allocated ELSE data_allocated
GrowForChunk ==
  IF Len(data) + ChunkSize > data_allocated THEN 2 * data_allocated ELSE data_allocated

ReadChunk ==
  /\ pc = "read" /\ Len(data) < Len(file.content)
  /\ \E n \in 1..ChunkSize :
       /\ Len(data) + n <= Len(file.content)
       /\ data' = SubSeq(file.content, 1, Len(data) + n)
  /\ data_allocated' = GrowForChunk
  /\ UNCHANGED <<options, todo, file, locals, match_count, output, names, pc>>

(* The end of the file: process_file starts its search. *)
ReadEnd ==
  /\ pc = "read" /\ file.kind # "bad" /\ Len(data) = Len(file.content)
  /\ data_allocated' = GrowForChunk
  /\ ResetLocals
  /\ output' = <<>>
  /\ pc' = "search"
  /\ UNCHANGED <<options, todo, file, data, match_count, names>>

(* A read that fails ends the program. *)
ReadError ==
  /\ pc = "read" /\ file.kind = "bad"
  /\ pc' = "exit"
  /\ UNCHANGED <<options, todo, file, data, data_allocated, locals, match_count, output, names>>

-----------------------------------------------------------------------------
(* find_line: the newlines on the way from line_byte, where it last        *)
(* stopped.  Mutant: one that the match begins with is counted as well.    *)
NewlinesThrough(from, to) == Cardinality({i \in from..to : i < Len(data) /\ IsNewline(i)})
Newlines(from, to) == Cardinality({i \in from..(to - 1) : IsNewline(i)})

LineStart(p) == CHOOSE i \in 0..p : /\ i = 0 \/ IsNewline(i - 1)
                                    /\ \A j \in i..(p - 1) : ~IsNewline(j)
LineEnd(p) == CHOOSE i \in p..Len(data) : /\ i = Len(data) \/ IsNewline(i)
                                          /\ \A j \in p..(i - 1) : ~IsNewline(j)

Piece(kind, label, from, to) == [kind |-> kind, label |-> label, from |-> from, to |-> to]

(* The n-th of a set of positions. *)
Nth(S, n) == CHOOSE i \in S : Cardinality({k \in S : k <= i}) = n

(* show_pre_text: from the line's start, or from end when it is in between.*)
PreText(e, start) ==
  LET from == IF e \in LineStart(start)..start THEN e ELSE LineStart(start) IN
  IF from < start THEN <<Piece("pre", 0, from, start)>> ELSE <<>>

(* show_post_text: the rest of the line up to a newline or a carriage      *)
(* return; it returns the position after that.                             *)
PostStop(e) ==
  IF e >= Len(data) THEN e
  ELSE CHOOSE i \in e..Len(data) :
         /\ i = Len(data) \/ data[i + 1] \in {NEWLINE, RETURN}
         /\ \A j \in e..(i - 1) : data[j + 1] \notin {NEWLINE, RETURN}
PostText(e) == <<Piece("post", 0, e, PostStop(e))>>

(* show_after_context: the lines that end at a newline in e..start-1, as   *)
(* many as -A allows; it returns where the next line starts.               *)
(* Mutant: one line too many.                                              *)
AfterStopsOneMore(e, start) ==
  LET S == {i \in e..(start - 1) : IsNewline(i)} IN
  {i \in S : Cardinality({k \in S : k < i}) <= after}
AfterStops(e, start) ==
  LET S == {i \in e..(start - 1) : IsNewline(i)} IN
  {i \in S : Cardinality({k \in S : k < i}) < after}

AfterLabel(j) == old_line + j

AfterContext(e, start) ==
  LET S == AfterStops(e, start) IN
  [j \in 1..Cardinality(S) |->
     Piece("line", AfterLabel(j), IF j = 1 THEN e ELSE Nth(S, j - 1) + 1, Nth(S, j))]
AfterEnd(e, start) ==
  LET S == AfterStops(e, start) IN IF S = {} THEN e ELSE Nth(S, Cardinality(S)) + 1

(* show_before_context: the lines that start before the match's and not    *)
(* before e, as many as -B allows.  Mutant: what was printed is not looked *)
(* at.                                                                     *)
AnyLineBefore(e, start) == {i \in 0..(LineStart(start) - 1) : i = LineStart(i)}
BeforeStarts(e, start) == {i \in 0..(LineStart(start) - 1) : i >= e /\ i = LineStart(i)}

BeforeContext(e, start, at) ==
  LET S == BeforeStarts(e, start)
      n == IF Cardinality(S) < before THEN Cardinality(S) ELSE before
      skipped == Cardinality(S) - n
      gap == at - before > old_line + after /\ old_line # 1
  IN  IF n = 0 THEN <<>>
      ELSE (IF gap THEN <<Piece("gap", 0, e, e)>> ELSE <<>>)
           \o [j \in 1..n |-> LET from == Nth(S, skipped + j) IN
                              Piece("line", at - n + j - 1, from, LineEnd(from))]

(* Where the search goes on: one further after an empty match at pos.      *)
(* Mutants: one further after every match; the end of every match.         *)
OnePastEnd(p, e) == e + 1
EndOfMatch(p, e) == e
NextPos(p, e) == IF p = e THEN p + 1 ELSE e

(* What a match prints: when it begins on a later line than the last one   *)
(* ended, the rest of that line, the contexts and the label.               *)
NewLine(at) == at > old_line \/ file_match_count = 0

Rest(start) ==
  LET e == PostStop(end) + 1 IN
  IF file_match_count = 0 THEN [pieces |-> <<>>, end |-> end]
  ELSE IF after = 0 THEN [pieces |-> PostText(end), end |-> e]
  ELSE [pieces |-> PostText(end) \o AfterContext(e, start), end |-> AfterEnd(e, start)]

Lead(start, at) ==
  IF ~NewLine(at) THEN [pieces |-> <<>>, end |-> end]
  ELSE [pieces |-> Rest(start).pieces \o BeforeContext(Rest(start).end, start, at)
                   \o <<Piece("label", at, start, start)>>,
        end |-> Rest(start).end]

(* A turn of process_file's loop that finds a match. *)
ShowMatch ==
  /\ pc = "search"
  /\ \E r \in Find(expr, data, pos) :
       LET at == line + Newlines(line_byte, r.start)
           lead == Lead(r.start, at)
       IN  /\ pos' = NextPos(pos, r.end)
           /\ output' = output \o lead.pieces \o PreText(lead.end, r.start)
                        \o <<Piece("match", 0, r.start, r.end)>>
           /\ end' = r.end
           /\ line' = at + Newlines(r.start, r.end)
           /\ line_byte' = r.end
           /\ old_line' = line'
  /\ names' = IF file_match_count = 0 /\ file.kind # "stdin"
              THEN Append(names, [name |-> file.name, blank |-> match_count > 0])
              ELSE names
  /\ match_count' = match_count + 1
  /\ file_match_count' = file_match_count + 1
  /\ UNCHANGED <<options, todo, file, data, data_allocated, pc>>

(* The turn that finds none.  A search that starts beyond the data never   *)
(* meets its end (rx_match compares start_pos with str_size), and rx_match *)
(* does not return from it.                                                *)
LastMatch ==
  /\ pc = "search" /\ pos <= Len(data) /\ Find(expr, data, pos) = {}
  /\ output' = output \o Rest(Len(data)).pieces
  /\ pc' = "shown"
  /\ UNCHANGED <<options, todo, file, data, data_allocated, locals, match_count, names>>

(* process_file returns, find closes the file. *)
CloseFile ==
  /\ pc = "shown"
  /\ file' = NoFile /\ data' = <<>> /\ ResetLocals /\ output' = <<>>
  /\ pc' = "find"
  /\ UNCHANGED <<options, todo, data_allocated, match_count, names>>

GrepEnd ==
  /\ pc = "find" /\ todo = <<>>
  /\ pc' = "done"
  /\ UNCHANGED <<options, todo, file, data, data_allocated, locals, match_count, output, names>>

(* Another run of the program. *)
Again ==
  /\ pc \in {"done", "exit"}
  /\ expr' = "" /\ before' = 0 /\ after' = 0 /\ argv' = <<>>
  /\ todo' = <<>> /\ file' = NoFile /\ data' = <<>> /\ data_allocated' = 0 /\ ResetLocals
  /\ match_count' = 0 /\ output' = <<>> /\ names' = <<>>
  /\ pc' = "idle"

GrepTurn == \/ FindNothing \/ FindDirectory \/ FindFile
            \/ ReadChunk \/ ReadEnd \/ ReadError
            \/ ShowMatch \/ LastMatch \/ CloseFile \/ GrepEnd

GrepNext == Main \/ GrepTurn \/ Again

GrepSpec == GrepInit /\ [][GrepNext]_grepVars /\ WF_grepVars(GrepTurn)

-----------------------------------------------------------------------------
(* Types: the positions of process_file stay within the data, but for the  *)
(* one that follows an empty match at its end, and what read() gives stays *)
(* within the buffer, whose size is that which earlier files needed.       *)
GrepTypeOK ==
  /\ pc \in {"idle", "find", "read", "search", "shown", "done", "exit"}
  /\ pc # "idle" => expr \in Patterns
  /\ before \in Nat /\ after \in Nat
  /\ todo \in Seq(Entries)
  /\ pc \in {"read", "search", "shown"} => file \in Entries /\ IsFile(file)
  /\ pc \in {"search", "shown"} => data = file.content
  /\ data \in Seq(Byte)
  /\ data_allocated \in Nat /\ Len(data) <= data_allocated
  /\ end \in 0..Len(data) /\ pos \in end..(Len(data) + 1) /\ line_byte = end
  /\ line \in Nat /\ old_line \in Nat
  /\ match_count \in Nat /\ file_match_count \in Nat

(* rx_match is called with a position of the data: "You can start the match*)
(* at a position other than 0 ... useful for doing global matches".        *)
StartsInData == pc = "search" => pos <= Len(data)

LineOf(p) == 1 + Cardinality({i \in 0..(p - 1) : IsNewline(i)})
IsText(piece) == piece.kind \in {"pre", "match", "post", "line"}
MatchPieces == {output[i] : i \in {j \in DOMAIN output : output[j].kind = "match"}}

(* Every number printed is that of the line whose beginning follows it,    *)
(* and no line is begun without its number unless a match goes over its    *)
(* beginning: find_line counts on from the last match, and the contexts    *)
(* count from it back and on from the match before.                        *)
LabelsTrue ==
  \A i \in DOMAIN output :
    LET text == IF output[i].kind = "label" THEN output[i + 1] ELSE output[i] IN
    /\ output[i].label # 0 => /\ text.from = LineStart(text.from)
                              /\ output[i].label = LineOf(text.from)
    /\ /\ IsText(output[i]) /\ output[i].label = 0
       /\ output[i].from < output[i].to /\ output[i].from = LineStart(output[i].from)
       => /\ i > 1
          /\ \/ output[i - 1].kind = "label"
             \/ output[i - 1].kind = "match" /\ output[i - 1].to = output[i].from

(* Nothing is printed twice and everything in the order of the file, when  *)
(* the lines after one match are the lines before the next, or its own.    *)
NothingTwice ==
  \A i, j \in DOMAIN output :
    i < j /\ IsText(output[i]) /\ IsText(output[j]) => output[i].to <= output[j].from

(* When a file is done, the lines shown are those from -B lines before a   *)
(* match to -A lines after it, each whole, and no others.                  *)
ContextShown ==
  pc = "shown" =>
    LET wanted == UNION {(LineOf(m.from) - before)..(LineOf(m.to) + after) : m \in MatchPieces}
        Shown(i) == \E k \in DOMAIN output :
                      IsText(output[k]) /\ output[k].from <= i /\ i < output[k].to
        Begun(i) == \/ \E k \in DOMAIN output : output[k].label = LineOf(i)
                    \/ \E m \in MatchPieces : m.from < i /\ i <= m.to
    IN  \A i \in 0..(Len(data) - 1) :
          /\ ~IsNewline(i) => (Shown(i) <=> LineOf(i) \in wanted)
          /\ i = LineStart(i) => (Begun(i) <=> LineOf(i) \in wanted)

(* The global search misses nothing: wherever a match could begin, one was *)
(* found there or one that was found goes over that place.                 *)
NoMatchSkipped ==
  pc = "shown" =>
    \A t \in 0..Len(data) :
      (\E r \in Find(expr, data, t) : r.start = t)
        => \E m \in MatchPieces : m.from = t \/ (m.from < t /\ t < m.to)

(* Every match moves the search on, also one that is empty and one that is *)
(* found a second time: a file is done after at most as many as it has     *)
(* positions.                                                              *)
SearchAdvances == [][pc = "search" /\ pc' = "search" => pos' > pos]_grepVars

(* At the end of the program every file that has a match was named, once,  *)
(* with a blank line between it and what was printed before; what could    *)
(* not be opened on the way made no difference (find).                     *)
Below[S \in SUBSET Entries] ==
  LET T == S \cup UNION {e.entries : e \in {d \in S : d.kind = "dir"}} IN
  IF T = S THEN S ELSE Below[T]

FilesNamed ==
  pc = "done" =>
    LET matching == {e \in Below[{argv[i] : i \in DOMAIN argv}] :
                       IsFile(e) /\ Find(expr, e.content, 0) # {}}
    IN  /\ {names[i].name : i \in DOMAIN names} = {e.name : e \in {f \in matching : f.kind = "file"}}
        /\ \A i, j \in DOMAIN names : names[i].name = names[j].name => i = j
        /\ \A i \in DOMAIN names :
             names[i].blank <=> i > 1 \/ \E e \in matching : e.kind = "stdin"
=============================================================================
