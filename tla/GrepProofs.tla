----------------------------- MODULE GrepProofs -----------------------------
(***************************************************************************)
(* Proofs about Grep, for every expression, every tree of files, every     *)
(* size of the chunks and of the contexts, and any rx_match that finds     *)
(* nothing that begins before the position it was given: the buffer, the   *)
(* matches found, the order of what is printed and the numbers of lines.   *)
(***************************************************************************)
EXTENDS Grep, NatFacts, SequenceTheorems, FiniteSetTheorems

(* What example5.c relies on without saying so: no match at the end of the *)
(* data is empty.  The run grep_past_end shows what happens otherwise.     *)
NeverEmptyAtEnd ==
  \A x \in Patterns, e \in Entries : IsFile(e) =>
    \A p \in 0..Len(e.content) : \A r \in Find(x, e.content, p) :
      r.start < r.end \/ r.end < Len(e.content)

(* The strengthening of GrepTypeOK: between two files the positions are    *)
(* those of an empty buffer; what has been read is what the file begins    *)
(* with; a buffer, once there, has room for a chunk, so that doubling it   *)
(* always makes room for another.                                          *)
GrepInv ==
  /\ GrepTypeOK
  /\ StartsInData
  /\ data_allocated # 0 => data_allocated >= ChunkSize
  /\ pc \notin {"search", "shown"} => pos = 0 /\ end = 0
  /\ pc = "read" => /\ data_allocated # 0
                    /\ Len(data) <= Len(file.content)
                    /\ data = SubSeq(file.content, 1, Len(data))

-----------------------------------------------------------------------------
(* Facts about the data.                                                   *)

(* find_line adds a number of lines. *)
LEMMA NewlinesNat ==
  ASSUME NEW from \in Nat, NEW to \in Nat
  PROVE  Newlines(from, to) \in Nat
<1>1. IsFiniteSet(from..(to - 1))
  BY FS_Interval
<1>2. IsFiniteSet({i \in from..(to - 1) : IsNewline(i)})
  BY <1>1, FS_Subset
<1> QED
  BY <1>2, FS_CardinalityType DEF Newlines

(* The order in which a directory is read is a sequence of its entries. *)
LEMMA OrderOfEntries ==
  ASSUME NEW e \in Entries, e.kind = "dir", NEW order \in Orders(e.entries)
  PROVE  order \in Seq(Entries)
<1>1. e.entries \subseteq Entries /\ Cardinality(e.entries) \in Nat
  BY EntriesAssumption, FS_CardinalityType
<1>2. order \in [1..Cardinality(e.entries) -> e.entries]
  BY DEF Orders
<1> QED
  BY <1>1, <1>2

(* What is found lies between the position asked for and the end. *)
LEMMA FoundWithin ==
  ASSUME NEW x \in Patterns, NEW e \in Entries, IsFile(e),
         NEW p \in 0..Len(e.content), NEW r \in Find(x, e.content, p)
  PROVE  r.start \in p..Len(e.content) /\ r.end \in r.start..Len(e.content)
BY FindAssumption

(* The loop's next position is further on, and still in the data. *)
LEMMA NextPosForward ==
  ASSUME NeverEmptyAtEnd,
         NEW x \in Patterns, NEW e \in Entries, IsFile(e),
         NEW p \in 0..Len(e.content), NEW r \in Find(x, e.content, p)
  PROVE  /\ NextPos(p, r.end) > p
         /\ NextPos(p, r.end) \in r.end..Len(e.content)
<1>1. r.start \in p..Len(e.content) /\ r.end \in r.start..Len(e.content)
  BY FoundWithin
<1>2. Len(e.content) \in Nat
  BY EntriesAssumption
<1>3. r.start < r.end \/ r.end < Len(e.content)
  BY DEF NeverEmptyAtEnd
<1> QED
  BY <1>1, <1>2, <1>3 DEF NextPos

(* What read() adds to what is there is what the file goes on with. *)
LEMMA ChunkOfFile ==
  ASSUME NEW s \in Seq(Byte), NEW k \in 0..Len(s)
  PROVE  /\ SubSeq(s, 1, k) \in Seq(Byte)
         /\ Len(SubSeq(s, 1, k)) = k
         /\ k = Len(s) => SubSeq(s, 1, k) = s
<1>1. SubSeq(s, 1, k) \in Seq(Byte) /\ Len(SubSeq(s, 1, k)) = k
      /\ \A i \in 1..k : SubSeq(s, 1, k)[i] = s[i]
  <2>1. \A i \in 1..k : s[i] \in Byte
    BY ElementOfSeq
  <2>2. k \in Int /\ 1 \in Int /\ (k < 1 => k = 0)
    OBVIOUS
  <2> QED
    BY <2>1, <2>2, SubSeqProperties
<1>2. ASSUME k = Len(s) PROVE SubSeq(s, 1, k) = s
  BY <1>1, <1>2, SeqEqual
<1> QED
  BY <1>1, <1>2

(* A buffer that has room for a chunk has it for another when doubled. *)
LEMMA RoomAfterGrowth ==
  ASSUME data_allocated \in Nat, data_allocated >= ChunkSize,
         Len(data) \in Nat, Len(data) <= data_allocated
  PROVE  /\ GrowForChunk \in Nat
         /\ GrowForChunk >= data_allocated
         /\ Len(data) + ChunkSize <= GrowForChunk
BY ChunkAssumption DEF GrowForChunk

-----------------------------------------------------------------------------
(* The invariant.                                                          *)

LEMMA InitGrepInv == GrepInit => GrepInv
<1> SUFFICES ASSUME GrepInit PROVE GrepInv
  OBVIOUS
<1>1. /\ data = <<>> /\ todo = <<>> /\ pc = "idle" /\ data_allocated = 0
      /\ before = 0 /\ after = 0 /\ pos = 0 /\ end = 0 /\ line_byte = 0
      /\ line = 1 /\ old_line = 1 /\ match_count = 0 /\ file_match_count = 0
  BY Zenon DEF GrepInit
<1>2. Len(data) = 0 /\ data \in Seq(Byte) /\ todo \in Seq(Entries)
  BY <1>1, EmptySeq
<1> QED
  BY <1>1, <1>2 DEF GrepInv, GrepTypeOK, StartsInData

LEMMA StepGrepInv ==
  ASSUME NeverEmptyAtEnd, GrepInv, [GrepNext]_grepVars
  PROVE  GrepInv'
<1> USE DEF GrepInv
<1>a. GrepTypeOK /\ StartsInData
  OBVIOUS
<1>b. data \in Seq(Byte) /\ Len(data) \in Nat
  BY <1>a DEF GrepTypeOK
<1>c. CASE Main
  <2>1. todo' \in Seq(Entries)
    BY <1>c, EntriesAssumption DEF Main
  <2>2. before' \in Nat /\ after' \in Nat
    BY <1>c, ContextsAssumption DEF Main
  <2> QED
    BY <1>a, <1>c, <2>1, <2>2 DEF Main, GrepTypeOK, StartsInData, locals
<1>d. CASE FindNothing
  <2>1. todo' \in Seq(Entries)
    BY <1>a, <1>d DEF FindNothing, GrepTypeOK
  <2> QED
    BY <1>a, <1>d, <2>1 DEF FindNothing, GrepTypeOK, StartsInData, locals, options
<1>e. CASE FindDirectory
  <2>1. PICK order \in Orders(Entry.entries) : todo' = order \o Tail(todo)
    BY <1>e DEF FindDirectory, BeforeTheRest
  <2>2. Entry \in Entries /\ Tail(todo) \in Seq(Entries)
    BY <1>a, <1>e, HeadTailProperties DEF FindDirectory, GrepTypeOK, Entry
  <2>3. order \in Seq(Entries)
    BY <1>e, <2>1, <2>2, OrderOfEntries DEF FindDirectory
  <2>4. todo' \in Seq(Entries)
    BY <2>1, <2>2, <2>3
  <2> QED
    BY <1>a, <1>e, <2>4 DEF FindDirectory, GrepTypeOK, StartsInData, locals, options
<1>f. CASE FindFile
  <2>1. Entry \in Entries /\ todo' \in Seq(Entries)
    BY <1>a, <1>f, HeadTailProperties DEF FindFile, GrepTypeOK, Entry
  <2>2. data' \in Seq(Byte) /\ Len(data') = 0
    BY <1>f DEF FindFile
  <2>3. /\ data_allocated' \in Nat /\ data_allocated' # 0 /\ data_allocated' >= ChunkSize
    BY <1>a, <1>f, ChunkAssumption DEF FindFile, GrepTypeOK
  <2>4. IsFile(file') /\ file' = Entry /\ file'.content \in Seq(Byte)
    BY <1>f, <2>1, EntriesAssumption DEF FindFile
  <2>5. data' = SubSeq(file'.content, 1, Len(data'))
    BY <1>f, <2>2, <2>4, SubSeqEmpty DEF FindFile
  <2> QED
    BY <1>a, <1>f, <2>1, <2>2, <2>3, <2>4, <2>5 DEF FindFile, GrepTypeOK, StartsInData, locals, options
<1>g. CASE ReadChunk
  <2>1. PICK n \in 1..ChunkSize : /\ Len(data) + n <= Len(file.content)
                                  /\ data' = SubSeq(file.content, 1, Len(data) + n)
    BY <1>g DEF ReadChunk
  <2>2. file.content \in Seq(Byte)
    BY <1>a, <1>g, EntriesAssumption DEF ReadChunk, GrepTypeOK
  <2>3. data' \in Seq(Byte) /\ Len(data') = Len(data) + n
    <3>1. Len(data) + n \in 0..Len(file.content)
      BY <1>b, <2>1, <2>2, ChunkAssumption
    <3> QED
      BY <2>1, <2>2, <3>1, ChunkOfFile
  <2>4. data_allocated' \in Nat /\ data_allocated' >= data_allocated /\ Len(data') <= data_allocated'
    BY <1>a, <1>b, <1>g, <2>1, <2>3, RoomAfterGrowth, ChunkAssumption DEF ReadChunk, GrepTypeOK
  <2> QED
    BY <1>a, <1>b, <1>g, <2>1, <2>3, <2>4, ChunkAssumption
    DEF ReadChunk, GrepTypeOK, StartsInData, locals, options
<1>h. CASE ReadEnd
  <2>1. file \in Entries /\ IsFile(file) /\ file.content \in Seq(Byte)
    BY <1>a, <1>h, EntriesAssumption DEF ReadEnd, GrepTypeOK
  <2>2. data = file.content
    BY <1>h, <2>1, ChunkOfFile DEF ReadEnd
  <2>3. data_allocated' \in Nat /\ data_allocated' >= data_allocated /\ data_allocated' >= ChunkSize
    BY <1>a, <1>b, <1>h, RoomAfterGrowth, ChunkAssumption DEF ReadEnd, GrepTypeOK
  <2> QED
    BY <1>a, <1>b, <1>h, <2>1, <2>2, <2>3 DEF ReadEnd, GrepTypeOK, StartsInData, ResetLocals, options
<1>i. CASE ReadError
  BY <1>a, <1>i DEF ReadError, GrepTypeOK, StartsInData, locals, options
<1>j. CASE ShowMatch
  <2>1. PICK r \in Find(expr, data, pos) :
          LET at == line + Newlines(line_byte, r.start) IN
          /\ pos' = NextPos(pos, r.end) /\ end' = r.end /\ line_byte' = r.end
          /\ line' = at + Newlines(r.start, r.end) /\ old_line' = line'
    BY <1>j DEF ShowMatch
  <2>2. expr \in Patterns /\ file \in Entries /\ IsFile(file) /\ data = file.content
    BY <1>a, <1>j DEF ShowMatch, GrepTypeOK
  <2>3. pos \in 0..Len(data)
    BY <1>a, <1>b, <1>j DEF ShowMatch, GrepTypeOK, StartsInData
  <2>4. r.start \in pos..Len(data) /\ r.end \in r.start..Len(data)
    BY <2>2, <2>3, FoundWithin
  <2>5. pos' \in r.end..Len(data)
    BY <2>1, <2>2, <2>3, NextPosForward
  <2>6. line' \in Nat
    <3>1. line_byte \in Nat /\ r.start \in Nat /\ r.end \in Nat /\ line \in Nat
      BY <1>a, <1>b, <2>3, <2>4 DEF GrepTypeOK
    <3>2. Newlines(line_byte, r.start) \in Nat /\ Newlines(r.start, r.end) \in Nat
      BY <3>1, NewlinesNat
    <3> QED
      BY <2>1, <3>1, <3>2
  <2>7. match_count' \in Nat /\ file_match_count' \in Nat
    BY <1>a, <1>j DEF ShowMatch, GrepTypeOK
  <2>8. end' \in 0..Len(data) /\ pos' \in end'..(Len(data) + 1) /\ line_byte' = end' /\ pos' <= Len(data)
    BY <1>b, <2>1, <2>3, <2>4, <2>5
  <2>9. UNCHANGED <<options, todo, file, data, data_allocated, pc>>
    BY <1>j DEF ShowMatch
  <2>10. old_line' \in Nat
    BY <2>1, <2>6
  <2>11. GrepTypeOK' /\ StartsInData'
    BY <1>a, <1>j, <2>6, <2>7, <2>8, <2>9, <2>10 DEF ShowMatch, GrepTypeOK, StartsInData, options
  <2> QED
    BY <1>j, <2>9, <2>11 DEF ShowMatch
<1>k. CASE LastMatch
  BY <1>a, <1>k DEF LastMatch, GrepTypeOK, StartsInData, locals, options
<1>l. CASE CloseFile
  <2>1. data' \in Seq(Byte) /\ Len(data') = 0
    BY <1>l DEF CloseFile
  <2> QED
    BY <1>a, <1>l, <2>1 DEF CloseFile, GrepTypeOK, StartsInData, ResetLocals, options
<1>m. CASE GrepEnd
  BY <1>a, <1>m DEF GrepEnd, GrepTypeOK, StartsInData, locals, options
<1>n. CASE Again
  <2>1. /\ data' = <<>> /\ todo' = <<>> /\ pc' = "idle" /\ data_allocated' = 0
        /\ before' = 0 /\ after' = 0 /\ pos' = 0 /\ end' = 0 /\ line_byte' = 0
        /\ line' = 1 /\ old_line' = 1 /\ match_count' = 0 /\ file_match_count' = 0
    BY <1>n, Zenon DEF Again, ResetLocals
  <2>2. Len(data') = 0 /\ data' \in Seq(Byte) /\ todo' \in Seq(Entries)
    BY <2>1, EmptySeq
  <2> QED
    BY <2>1, <2>2 DEF GrepTypeOK, StartsInData
<1>o. CASE UNCHANGED grepVars
  BY <1>a, <1>o DEF grepVars, GrepTypeOK, StartsInData, locals, options
<1> QED
  BY <1>c, <1>d, <1>e, <1>f, <1>g, <1>h, <1>i, <1>j, <1>k, <1>l, <1>m, <1>n, <1>o DEF GrepNext, GrepTurn

(* Type correctness of the grep program: its positions stay in the data    *)
(* and the data in the buffer, whatever files it reads and however little  *)
(* a read() gives (read_file, process_file).                               *)
THEOREM GrepTypes ==
  ASSUME NeverEmptyAtEnd
  PROVE  GrepSpec => []GrepTypeOK
<1>1. GrepInv /\ [GrepNext]_grepVars => GrepInv'
  BY StepGrepInv
<1>2. GrepInv => GrepTypeOK
  BY DEF GrepInv
<1> QED
  BY InitGrepInv, <1>1, <1>2, PTL DEF GrepSpec

(* rx_match is only called with positions of the data, when no match at    *)
(* its end is empty: the condition under which process_file is right.      *)
THEOREM SearchesStartInData ==
  ASSUME NeverEmptyAtEnd
  PROVE  GrepSpec => []StartsInData
<1>1. GrepInv /\ [GrepNext]_grepVars => GrepInv'
  BY StepGrepInv
<1>2. GrepInv => StartsInData
  BY DEF GrepInv
<1> QED
  BY InitGrepInv, <1>1, <1>2, PTL DEF GrepSpec

(* Every match moves the search on (process_file, pos == m->cap_end[0]).   *)
THEOREM EveryMatchAdvances ==
  ASSUME NeverEmptyAtEnd
  PROVE  GrepSpec => SearchAdvances
<1>1. GrepInv /\ [GrepNext]_grepVars => GrepInv'
  BY StepGrepInv
<1>2. ASSUME GrepInv, [GrepNext]_grepVars
      PROVE  [pc = "search" /\ pc' = "search" => pos' > pos]_grepVars
  <2> SUFFICES ASSUME pc = "search", pc' = "search", ~UNCHANGED grepVars
               PROVE  pos' > pos
    OBVIOUS
  <2>1. ShowMatch
    BY <1>2 DEF GrepNext, GrepTurn, Main, FindNothing, FindDirectory, FindFile, ReadChunk,
                ReadEnd, ReadError, LastMatch, CloseFile, GrepEnd, Again
  <2>2. PICK r \in Find(expr, data, pos) : pos' = NextPos(pos, r.end)
    BY <2>1 DEF ShowMatch
  <2>3. expr \in Patterns /\ file \in Entries /\ IsFile(file) /\ data = file.content
    BY <1>2 DEF GrepInv, GrepTypeOK
  <2>4. pos \in 0..Len(data)
    BY <1>2 DEF GrepInv, GrepTypeOK, StartsInData
  <2> QED
    BY <2>2, <2>3, <2>4, NextPosForward
<1> QED
  BY InitGrepInv, <1>1, <1>2, PTL DEF GrepSpec, SearchAdvances

-----------------------------------------------------------------------------
(* The global search.                                                      *)

(* rx_match finds the first match from the position it is given on.  With  *)
(* Matcher this is what LeftmostFirst and NoMatchMissed prove.             *)
MatchBegins(x, s, t) == \E r \in Find(x, s, t) : r.start = t

FindsFirst ==
  \A x \in Patterns, e \in Entries : IsFile(e) =>
    \A p \in 0..Len(e.content) : \A t \in p..Len(e.content) :
      MatchBegins(x, e.content, t) =>
        /\ Find(x, e.content, p) # {}
        /\ \A r \in Find(x, e.content, p) : r.start <= t

Covered(t) == \E m \in MatchPieces : m.from = t \/ (m.from < t /\ t < m.to)
IsSequence(s) == \E S : s \in Seq(S)

(* The strengthening of NoMatchSkipped: it holds up to where the search    *)
(* has come.                                                               *)
SearchedInv ==
  /\ pc = "search" => /\ IsSequence(output)
                      /\ \A t \in 0..(pos - 1) : MatchBegins(expr, data, t) => Covered(t)
  /\ NoMatchSkipped

(* What is printed stays printed. *)
LEMMA Concatenated ==
  ASSUME NEW s, NEW t, IsSequence(s), IsSequence(t)
  PROVE  /\ IsSequence(s \o t)
         /\ \A i \in DOMAIN s : i \in DOMAIN (s \o t) /\ (s \o t)[i] = s[i]
<1>1. PICK S : s \in Seq(S)
  BY DEF IsSequence
<1>2. PICK T : t \in Seq(T)
  BY DEF IsSequence
<1>3. s \in Seq(S \cup T) /\ t \in Seq(S \cup T)
  BY <1>1, <1>2
<1>4. /\ s \o t \in Seq(S \cup T)
      /\ Len(s \o t) = Len(s) + Len(t)
      /\ \A i \in 1..(Len(s) + Len(t)) :
           (s \o t)[i] = IF i <= Len(s) THEN s[i] ELSE t[i - Len(s)]
  BY <1>3, ConcatProperties
<1>5. /\ DOMAIN s = 1..Len(s) /\ DOMAIN t = 1..Len(t)
      /\ DOMAIN (s \o t) = 1..Len(s \o t)
      /\ Len(s) \in Nat /\ Len(t) \in Nat
  BY <1>3, <1>4
<1> QED
  BY <1>4, <1>5 DEF IsSequence

LEMMA OnePiece ==
  ASSUME NEW x
  PROVE  IsSequence(<<x>>)
<1>1. <<x>> \in Seq({x})
  OBVIOUS
<1> QED
  BY <1>1, Zenon DEF IsSequence

LEMMA LastPrinted ==
  ASSUME NEW s, NEW x, IsSequence(s)
  PROVE  LET all == s \o <<x>> IN Len(all) \in DOMAIN all /\ all[Len(all)] = x
<1>1. PICK S : s \in Seq(S)
  BY DEF IsSequence
<1>2. s \in Seq(S \cup {x}) /\ <<x>> \in Seq(S \cup {x}) /\ Len(<<x>>) = 1 /\ <<x>>[1] = x
  BY <1>1
<1>3. /\ s \o <<x>> \in Seq(S \cup {x})
      /\ Len(s \o <<x>>) = Len(s) + 1
      /\ \A i \in 1..(Len(s) + 1) :
           (s \o <<x>>)[i] = IF i <= Len(s) THEN s[i] ELSE <<x>>[i - Len(s)]
  BY <1>2, ConcatProperties
<1> QED
  BY <1>2, <1>3

LEMMA NoPiece == IsSequence(<<>>)
<1>1. <<>> \in Seq({})
  OBVIOUS
<1> QED
  BY <1>1 DEF IsSequence

LEMMA Listed ==
  ASSUME NEW n \in Nat, NEW f, f = [j \in 1..n |-> f[j]]
  PROVE  IsSequence(f)
<1>1. f \in Seq({f[j] : j \in 1..n})
  OBVIOUS
<1> QED
  BY <1>1 DEF IsSequence

(* Every position is in a line, and the text after it stops somewhere. *)
LEMMA LineStartInData ==
  ASSUME NEW p \in Nat
  PROVE  LineStart(p) \in 0..p
<1> DEFINE B(i) == i = 0 \/ IsNewline(i - 1)
           T == {k \in 0..p : B(p - k)}
<1>1. p \in T /\ T \subseteq Nat
  OBVIOUS
<1>2. PICK k \in T : \A y \in T : k <= y
  BY <1>1, LeastNat
<1>3. \A j \in (p - k)..(p - 1) : ~IsNewline(j)
  <2> SUFFICES ASSUME NEW j \in (p - k)..(p - 1), IsNewline(j) PROVE FALSE
    OBVIOUS
  <2>1. p - (j + 1) \in 0..p /\ p - (p - (j + 1)) = j + 1 /\ (j + 1) - 1 = j
    OBVIOUS
  <2>2. p - (j + 1) \in T
    BY <2>1
  <2> QED
    BY <1>2, <2>2
<1>4. \E i \in 0..p : B(i) /\ \A j \in i..(p - 1) : ~IsNewline(j)
  BY <1>2, <1>3
<1> QED
  BY <1>4 DEF LineStart

LEMMA PostStopNat ==
  ASSUME NEW e \in Nat, Len(data) \in Nat
  PROVE  PostStop(e) \in Nat
<1> DEFINE B(i) == i = Len(data) \/ data[i + 1] \in {NEWLINE, RETURN}
           T == {i \in e..Len(data) : B(i)}
<1>1. CASE e >= Len(data)
  BY <1>1 DEF PostStop
<1>2. CASE e < Len(data)
  <2>1. Len(data) \in T /\ T \subseteq Nat
    BY <1>2
  <2>2. PICK i \in T : \A y \in T : i <= y
    BY <2>1, LeastNat
  <2>3. \A j \in e..(i - 1) : data[j + 1] \notin {NEWLINE, RETURN}
    BY <2>2
  <2>4. \E k \in e..Len(data) :
          /\ k = Len(data) \/ data[k + 1] \in {NEWLINE, RETURN}
          /\ \A j \in e..(k - 1) : data[j + 1] \notin {NEWLINE, RETURN}
    BY <2>2, <2>3
  <2>5. ~(e >= Len(data))
    BY <1>2
  <2>6. PostStop(e) \in e..Len(data)
    BY <2>4, <2>5, Zenon DEF PostStop
  <2> QED
    BY <2>6
<1> QED
  BY <1>1, <1>2

(* Whatever of the last match's line and of the contexts is printed before *)
(* a match, it is a sequence of pieces (show_post_text and the others).    *)
LEMMA RestIsSequence ==
  ASSUME NEW start \in Nat, end \in Nat, Len(data) \in Nat
  PROVE  IsSequence(Rest(start).pieces)
<1>1. IsSequence(PostText(end))
  BY OnePiece DEF PostText
<1>2. ASSUME NEW e \in Nat PROVE IsSequence(AfterContext(e, start))
  <2> DEFINE S == AfterStops(e, start)
  <2>1. Cardinality(S) \in Nat
    <3>1. IsFiniteSet(e..(start - 1)) /\ S \subseteq e..(start - 1)
      BY FS_Interval DEF AfterStops
    <3> QED
      BY <3>1, FS_Subset, FS_CardinalityType
  <2>2. AfterContext(e, start) = [j \in 1..Cardinality(S) |-> AfterContext(e, start)[j]]
    BY DEF AfterContext
  <2> HIDE DEF S
  <2> QED
    BY <2>1, <2>2, Listed
<1>3. IsSequence(PostText(end) \o AfterContext(PostStop(end) + 1, start))
  BY <1>1, <1>2, PostStopNat, Concatenated
<1>4. \/ Rest(start) = [pieces |-> <<>>, end |-> end]
      \/ Rest(start) = [pieces |-> PostText(end), end |-> PostStop(end) + 1]
      \/ Rest(start) = [pieces |-> PostText(end) \o AfterContext(PostStop(end) + 1, start),
                        end |-> AfterEnd(PostStop(end) + 1, start)]
  BY Zenon DEF Rest
<1>5. \/ Rest(start).pieces = <<>>
      \/ Rest(start).pieces = PostText(end)
      \/ Rest(start).pieces = PostText(end) \o AfterContext(PostStop(end) + 1, start)
  BY <1>4
<1> QED
  BY <1>1, <1>3, <1>5, NoPiece

LEMMA BeforeContextIsSequence ==
  ASSUME before \in Nat, NEW e, NEW start \in Nat, NEW at
  PROVE  IsSequence(BeforeContext(e, start, at))
<1> DEFINE S == BeforeStarts(e, start)
           n == IF Cardinality(S) < before THEN Cardinality(S) ELSE before
           gap == at - before > old_line + after /\ old_line # 1
           skipped == Cardinality(S) - n
           first == IF gap THEN <<Piece("gap", 0, e, e)>> ELSE <<>>
           lines == [j \in 1..n |-> LET from == Nth(S, skipped + j) IN
                                    Piece("line", at - n + j - 1, from, LineEnd(from))]
<1>1. n \in Nat
  <2>1. IsFiniteSet(0..(LineStart(start) - 1)) /\ S \subseteq 0..(LineStart(start) - 1)
    BY LineStartInData, FS_Interval DEF BeforeStarts
  <2>2. Cardinality(S) \in Nat
    BY <2>1, FS_Subset, FS_CardinalityType
  <2> QED
    BY <2>2
<1>2. IsSequence(first)
  BY OnePiece, NoPiece
<1>3. lines = [j \in 1..n |-> lines[j]]
  OBVIOUS
<1>4. BeforeContext(e, start, at) = IF n = 0 THEN <<>> ELSE first \o lines
  BY Zenon DEF BeforeContext
<1> HIDE DEF n, first, lines
<1>5. IsSequence(lines)
  BY <1>1, <1>3, Listed
<1>6. IsSequence(first \o lines)
  BY <1>2, <1>5, Concatenated
<1> QED
  BY <1>4, <1>6, NoPiece

(* All that ShowMatch prints before the match, as one sequence. *)
LEMMA LeadIsSequence ==
  ASSUME NEW start \in Nat, NEW at, end \in Nat, before \in Nat, Len(data) \in Nat
  PROVE  IsSequence(Lead(start, at).pieces)
<1> DEFINE label == <<Piece("label", at, start, start)>>
           context == BeforeContext(Rest(start).end, start, at)
<1>1. IsSequence(Rest(start).pieces) /\ IsSequence(label) /\ IsSequence(context)
  BY RestIsSequence, BeforeContextIsSequence, OnePiece
<1>2. IsSequence(Rest(start).pieces \o context)
  BY <1>1, Concatenated
<1>3. IsSequence(Rest(start).pieces \o context \o label)
  BY <1>1, <1>2, Concatenated
<1>4. \/ Lead(start, at) = [pieces |-> <<>>, end |-> end]
      \/ Lead(start, at) = [pieces |-> Rest(start).pieces \o context \o label,
                            end |-> Rest(start).end]
  BY Zenon DEF Lead
<1>5. Lead(start, at).pieces = <<>> \/ Lead(start, at).pieces = Rest(start).pieces \o context \o label
  <2> HIDE DEF label, context
  <2> QED
    BY <1>4
<1> QED
  BY <1>3, <1>5, NoPiece

LEMMA PreTextIsSequence == \A e, start : IsSequence(PreText(e, start))
BY OnePiece, NoPiece DEF PreText

(* What is covered stays so. *)
LEMMA StillCovered ==
  ASSUME \A i \in DOMAIN output : i \in DOMAIN output' /\ output'[i] = output[i]
  PROVE  \A t : Covered(t) => Covered(t)'
<1>1. MatchPieces \subseteq MatchPieces'
  BY DEF MatchPieces
<1> QED
  BY <1>1 DEF Covered

LEMMA StepSearchedInv ==
  ASSUME NeverEmptyAtEnd, FindsFirst, GrepInv, SearchedInv, [GrepNext]_grepVars
  PROVE  SearchedInv'
<1>1. GrepTypeOK /\ StartsInData
  BY DEF GrepInv
<1>2. CASE ShowMatch
  <2>1. PICK r \in Find(expr, data, pos) :
          LET at == line + Newlines(line_byte, r.start)
              lead == Lead(r.start, at)
          IN  /\ pos' = NextPos(pos, r.end)
              /\ output' = output \o lead.pieces \o PreText(lead.end, r.start)
                           \o <<Piece("match", 0, r.start, r.end)>>
    BY <1>2 DEF ShowMatch
  <2> DEFINE at == line + Newlines(line_byte, r.start)
             lead == Lead(r.start, at)
             pre == PreText(lead.end, r.start)
             found == Piece("match", 0, r.start, r.end)
  <2>2. /\ expr \in Patterns /\ file \in Entries /\ IsFile(file) /\ data = file.content
        /\ pos \in 0..Len(data) /\ Len(data) \in Nat /\ end \in Nat /\ before \in Nat
        /\ IsSequence(output)
    BY <1>1, <1>2 DEF ShowMatch, GrepTypeOK, StartsInData, SearchedInv
  <2>3. r.start \in pos..Len(data) /\ r.end \in r.start..Len(data) /\ r.start \in Nat
    BY <2>2, FoundWithin
  <2>4. IsSequence(lead.pieces) /\ IsSequence(pre)
    BY <2>2, <2>3, LeadIsSequence, PreTextIsSequence
  <2>5. found.kind = "match" /\ found.from = r.start /\ found.to = r.end
    BY DEF Piece
  <2>6. output' = output \o lead.pieces \o pre \o <<found>>
    BY <2>1
  <2>7. UNCHANGED <<expr, data, pc>> /\ pc = "search" /\ pos' = NextPos(pos, r.end)
    BY <1>2, <2>1 DEF ShowMatch, options
  <2> HIDE DEF at, lead, pre, found
  <2>8. /\ IsSequence(output')
        /\ \A i \in DOMAIN output : i \in DOMAIN output' /\ output'[i] = output[i]
        /\ Len(output') \in DOMAIN output' /\ output'[Len(output')] = found
    <3> DEFINE b == output \o lead.pieces
               c == b \o pre
    <3>1. IsSequence(b) /\ \A i \in DOMAIN output : i \in DOMAIN b /\ b[i] = output[i]
      BY <2>2, <2>4, Concatenated
    <3>2. c = b \o pre /\ output' = c \o <<found>>
      BY <2>6
    <3> HIDE DEF b, c
    <3>3. IsSequence(c) /\ \A i \in DOMAIN b : i \in DOMAIN c /\ c[i] = b[i]
      BY <2>4, <3>1, <3>2, Concatenated
    <3>4. IsSequence(output') /\ \A i \in DOMAIN c : i \in DOMAIN output' /\ output'[i] = c[i]
      BY <3>2, <3>3, OnePiece, Concatenated
    <3>5. Len(output') \in DOMAIN output' /\ output'[Len(output')] = found
      BY <3>2, <3>3, LastPrinted
    <3>6. \A i \in DOMAIN output : i \in DOMAIN output' /\ output'[i] = output[i]
      BY <3>1, <3>3, <3>4
    <3> QED
      BY <3>4, <3>5, <3>6
  <2>9. found \in MatchPieces'
    BY <2>5, <2>8 DEF MatchPieces
  <2>10. ASSUME NEW t \in 0..(pos' - 1), MatchBegins(expr, data, t)
         PROVE  Covered(t)'
    <3>1. CASE t < pos
      <4>1. Covered(t)
        BY <2>2, <2>7, <2>10, <3>1 DEF SearchedInv
      <4> QED
        BY <2>8, <4>1, StillCovered
    <3>2. CASE t >= pos
      <4>1. t \in pos..Len(data)
        BY <2>2, <2>3, <2>7, <2>10, <3>2 DEF NextPos
      <4>2. r.start <= t
        BY <2>2, <2>10, <4>1 DEF FindsFirst
      <4>3. r.start = t \/ (r.start < t /\ t < r.end)
        BY <2>2, <2>3, <2>7, <2>10, <4>1, <4>2 DEF NextPos
      <4> QED
        BY <2>5, <2>9, <4>3 DEF Covered
    <3> QED
      BY <2>2, <2>3, <2>7, <3>1, <3>2 DEF NextPos
  <2> QED
    BY <2>7, <2>8, <2>10 DEF SearchedInv, NoMatchSkipped, MatchBegins
<1>3. CASE LastMatch
  <2>1. /\ expr \in Patterns /\ file \in Entries /\ IsFile(file) /\ data = file.content
        /\ pos \in 0..Len(data) /\ Len(data) \in Nat /\ end \in Nat
        /\ IsSequence(output) /\ pc = "search" /\ pc' = "shown"
    BY <1>1, <1>3 DEF LastMatch, GrepTypeOK, StartsInData, SearchedInv
  <2>2. IsSequence(Rest(Len(data)).pieces)
    BY <2>1, RestIsSequence
  <2>3. UNCHANGED <<expr, data>> /\ Find(expr, data, pos) = {}
        /\ output' = output \o Rest(Len(data)).pieces
    BY <1>3 DEF LastMatch, options
  <2>4. \A i \in DOMAIN output : i \in DOMAIN output' /\ output'[i] = output[i]
    BY <2>1, <2>2, <2>3, Concatenated
  <2>5. ASSUME NEW t \in 0..Len(data), MatchBegins(expr, data, t)
        PROVE  Covered(t)'
    <3>1. t < pos
      BY <2>1, <2>3, <2>5 DEF FindsFirst
    <3>2. Covered(t)
      BY <2>1, <2>5, <3>1 DEF SearchedInv
    <3> QED
      BY <2>4, <3>2, StillCovered
  <2> QED
    BY <2>1, <2>3, <2>5 DEF SearchedInv, NoMatchSkipped, MatchBegins, Covered
<1>4. CASE ReadEnd
  BY <1>4, NoPiece DEF ReadEnd, ResetLocals, SearchedInv, NoMatchSkipped
<1>5. CASE UNCHANGED grepVars
  BY <1>5 DEF grepVars, options, locals, SearchedInv, NoMatchSkipped, MatchBegins, Covered, MatchPieces
<1>6. CASE ~ShowMatch /\ ~LastMatch /\ ~ReadEnd /\ ~UNCHANGED grepVars
  <2>1. pc' \notin {"search", "shown"}
    BY <1>6 DEF GrepNext, GrepTurn, Main, FindNothing, FindDirectory, FindFile, ReadChunk,
                ReadError, CloseFile, GrepEnd, Again
  <2> QED
    BY <2>1 DEF SearchedInv, NoMatchSkipped
<1> QED
  BY <1>2, <1>3, <1>4, <1>5, <1>6

(* The global search of process_file misses nothing, when rx_match finds   *)
(* the first match from where it is called.                                *)
THEOREM GlobalSearch ==
  ASSUME NeverEmptyAtEnd, FindsFirst
  PROVE  GrepSpec => []NoMatchSkipped
<1>1. GrepInv /\ [GrepNext]_grepVars => GrepInv'
  BY StepGrepInv
<1>2. GrepInv /\ SearchedInv /\ [GrepNext]_grepVars => SearchedInv'
  BY StepSearchedInv
<1>3. GrepInit => SearchedInv
  BY DEF GrepInit, SearchedInv, NoMatchSkipped
<1>4. SearchedInv => NoMatchSkipped
  BY DEF SearchedInv
<1> QED
  BY InitGrepInv, <1>1, <1>2, <1>3, <1>4, PTL DEF GrepSpec

-----------------------------------------------------------------------------
(* Counting. *)

UpTo(S, i) == {k \in S : k <= i}

(* A finite set of positions has an n-th one, and the next is greater.     *)
LEMMA UpToFinite ==
  ASSUME NEW S, S \subseteq Nat, IsFiniteSet(S), NEW i
  PROVE  /\ UpTo(S, i) \subseteq S
         /\ IsFiniteSet(UpTo(S, i)) /\ Cardinality(UpTo(S, i)) \in Nat
         /\ Cardinality(UpTo(S, i)) <= Cardinality(S) /\ Cardinality(S) \in Nat
<1>1. UpTo(S, i) \in SUBSET S
  BY DEF UpTo
<1> QED
  BY <1>1, FS_Subset, FS_CardinalityType

LEMMA NthExists ==
  ASSUME NEW S, S \subseteq Nat, IsFiniteSet(S), NEW n \in 1..Cardinality(S)
  PROVE  \E i \in S : Cardinality(UpTo(S, i)) = n
<1> DEFINE Has(m) == \E i \in S : Cardinality(UpTo(S, i)) = m
           T == {m \in 1..Cardinality(S) : ~Has(m)}
<1>1. Cardinality(S) \in Nat
  BY FS_CardinalityType
<1>2. SUFFICES ASSUME T # {} PROVE FALSE
  OBVIOUS
<1>3. PICK m \in T : \A y \in T : m <= y
  <2>1. T \subseteq Nat
    BY <1>1
  <2> HIDE DEF T
  <2> QED
    BY <1>2, <2>1, LeastNat
<1>4. ~Has(m) /\ m \in 1..Cardinality(S) /\ (m > 1 => Has(m - 1))
  BY <1>1, <1>3
<1> HIDE DEF Has, T
<1>5. \E L \in SUBSET S : /\ Cardinality(L) = m - 1 /\ IsFiniteSet(L)
                          /\ \A k \in S, l \in L : k <= l => k \in L
  <2>1. CASE m = 1
    <3>1. Cardinality({}) = m - 1 /\ IsFiniteSet({})
      BY <2>1, FS_EmptySet
    <3> QED
      BY <3>1
  <2>2. CASE m > 1
    <3>1. PICK i \in S : Cardinality(UpTo(S, i)) = m - 1
      BY <1>4, <2>2 DEF Has
    <3>2. UpTo(S, i) \in SUBSET S /\ IsFiniteSet(UpTo(S, i))
      BY UpToFinite
    <3>3. \A k \in S, l \in UpTo(S, i) : k <= l => k \in UpTo(S, i)
      BY DEF UpTo
    <3> QED
      BY <3>1, <3>2, <3>3
  <2> QED
    BY <1>4, <2>1, <2>2
<1>6. PICK L \in SUBSET S : /\ Cardinality(L) = m - 1 /\ IsFiniteSet(L)
                            /\ \A k \in S, l \in L : k <= l => k \in L
  BY <1>5
<1>7. S \ L # {}
  <2>1. S = L => FALSE
    BY <1>1, <1>4, <1>6
  <2> QED
    BY <1>6, <2>1
<1>8. S \ L \subseteq Nat
  OBVIOUS
<1>9. PICK i \in S \ L : \A y \in S \ L : i <= y
  BY <1>7, <1>8, LeastNat
<1>10. UpTo(S, i) = L \cup {i}
  <2>1. \A k \in S : k <= i => k \in L \/ k = i
    BY <1>9
  <2>2. \A k \in L : k <= i
    BY <1>6, <1>9
  <2> QED
    BY <1>9, <2>1, <2>2 DEF UpTo
<1>11. Cardinality(L \cup {i}) = Cardinality(L) + 1
  BY <1>6, <1>9, FS_AddElement
<1>12. Cardinality(UpTo(S, i)) = m
  BY <1>1, <1>4, <1>6, <1>10, <1>11
<1> QED
  BY <1>4, <1>9, <1>12 DEF Has

LEMMA NthOf ==
  ASSUME NEW S, S \subseteq Nat, IsFiniteSet(S), NEW n \in 1..Cardinality(S)
  PROVE  Nth(S, n) \in S /\ Cardinality(UpTo(S, Nth(S, n))) = n
<1>1. \E i \in S : Cardinality({k \in S : k <= i}) = n
  BY NthExists DEF UpTo
<1> QED
  BY <1>1, Zenon DEF Nth, UpTo

LEMMA NthGrows ==
  ASSUME NEW S, S \subseteq Nat, IsFiniteSet(S),
         NEW n \in 1..Cardinality(S), NEW m \in 1..Cardinality(S), n < m
  PROVE  Nth(S, n) < Nth(S, m)
<1>1. PICK i \in S : i = Nth(S, n) /\ Cardinality(UpTo(S, i)) = n
  BY NthOf
<1>2. PICK j \in S : j = Nth(S, m) /\ Cardinality(UpTo(S, j)) = m
  BY NthOf
<1>3. Cardinality(S) \in Nat
  BY FS_CardinalityType
<1>4. ASSUME j <= i PROVE FALSE
  <2>1. UpTo(S, j) \in SUBSET UpTo(S, i)
    <3>1. \A k \in S : k \in Nat /\ (k <= j => k <= i)
      BY <1>4
    <3> QED
      BY <3>1 DEF UpTo
  <2>2. Cardinality(UpTo(S, j)) <= Cardinality(UpTo(S, i))
    BY <2>1, UpToFinite, FS_Subset
  <2> QED
    BY <1>1, <1>2, <1>3, <2>2
<1> QED
  BY <1>1, <1>2, <1>4

-----------------------------------------------------------------------------
(* Lines. *)

NewlineSet(a, b) == {i \in a..(b - 1) : IsNewline(i)}

LEMMA NewlineSetFinite ==
  ASSUME NEW a \in Nat, NEW b \in Nat
  PROVE  /\ IsFiniteSet(NewlineSet(a, b)) /\ NewlineSet(a, b) \subseteq Nat
         /\ Newlines(a, b) = Cardinality(NewlineSet(a, b)) /\ Newlines(a, b) \in Nat
<1>1. IsFiniteSet(a..(b - 1))
  BY FS_Interval
<1>2. NewlineSet(a, b) \in SUBSET (a..(b - 1)) /\ NewlineSet(a, b) \subseteq Nat
  BY DEF NewlineSet
<1>3. IsFiniteSet(NewlineSet(a, b))
  BY <1>1, <1>2, FS_Subset
<1> QED
  BY <1>2, <1>3, NewlinesNat DEF Newlines, NewlineSet

LEMMA NewlinesSplit ==
  ASSUME NEW a \in Nat, NEW b \in Nat, NEW c \in Nat, a <= b, b <= c
  PROVE  Newlines(a, c) = Newlines(a, b) + Newlines(b, c)
<1>1. NewlineSet(a, c) = NewlineSet(a, b) \cup NewlineSet(b, c)
  BY DEF NewlineSet
<1>2. NewlineSet(a, b) \cap NewlineSet(b, c) = {}
  BY DEF NewlineSet
<1>3. IsFiniteSet(NewlineSet(a, b)) /\ IsFiniteSet(NewlineSet(b, c))
  BY NewlineSetFinite
<1>4. Cardinality(NewlineSet(a, c)) =
        Cardinality(NewlineSet(a, b)) + Cardinality(NewlineSet(b, c)) - Cardinality({})
  BY <1>1, <1>2, <1>3, FS_Union
<1> QED
  BY <1>4, FS_EmptySet, NewlineSetFinite

LEMMA NoNewlines ==
  ASSUME NEW a \in Nat, NEW b \in Nat
  PROVE  Newlines(a, b) = 0 <=> \A i \in a..(b - 1) : ~IsNewline(i)
<1>1. Newlines(a, b) = 0 <=> NewlineSet(a, b) = {}
  BY NewlineSetFinite, FS_EmptySet
<1> QED
  BY <1>1 DEF NewlineSet

LEMMA OneNewline ==
  ASSUME NEW p \in Nat, IsNewline(p)
  PROVE  Newlines(p, p + 1) = 1
<1>1. NewlineSet(p, p + 1) = {p}
  BY DEF NewlineSet
<1>2. Newlines(p, p + 1) = Cardinality(NewlineSet(p, p + 1))
  BY NewlineSetFinite
<1> QED
  BY <1>1, <1>2, FS_Singleton

LEMMA LineOfFurther ==
  ASSUME NEW a \in Nat, NEW b \in Nat, a <= b
  PROVE  LineOf(b) = LineOf(a) + Newlines(a, b) /\ LineOf(a) \in Nat /\ LineOf(a) >= 1
<1>1. LineOf(a) = 1 + Newlines(0, a) /\ LineOf(b) = 1 + Newlines(0, b)
  BY DEF LineOf, Newlines
<1>2. 0 \in Nat /\ 0 <= a
  OBVIOUS
<1>3. Newlines(0, b) = Newlines(0, a) + Newlines(a, b)
  BY <1>2, NewlinesSplit
<1>4. Newlines(0, a) \in Nat /\ Newlines(a, b) \in Nat
  BY <1>2, NewlinesNat
<1> QED
  BY <1>1, <1>3, <1>4

(* The beginning of the line of a position. *)
LEMMA LineStartIs ==
  ASSUME NEW p \in Nat
  PROVE  /\ LineStart(p) \in 0..p
         /\ LineStart(p) = 0 \/ IsNewline(LineStart(p) - 1)
         /\ \A j \in LineStart(p)..(p - 1) : ~IsNewline(j)
<1> DEFINE B(i) == i = 0 \/ IsNewline(i - 1)
           T == {i \in 0..p : B(i)}
<1>1. 0 \in T /\ T \subseteq 0..p
  OBVIOUS
<1>2. PICK i \in T : \A y \in T : y <= i
  <2> HIDE DEF T
  <2> QED
    BY <1>1, GreatestNat
<1>3. \A j \in i..(p - 1) : ~IsNewline(j)
  <2> SUFFICES ASSUME NEW j \in i..(p - 1), IsNewline(j) PROVE FALSE
    OBVIOUS
  <2>1. (j + 1) - 1 = j
    OBVIOUS
  <2>2. j + 1 \in T
    BY <2>1
  <2> QED
    BY <1>2, <2>2
<1>4. \E k \in 0..p : /\ k = 0 \/ IsNewline(k - 1)
                      /\ \A j \in k..(p - 1) : ~IsNewline(j)
  BY <1>2, <1>3
<1> QED
  BY <1>4, Zenon DEF LineStart

LEMMA LineStartUnique ==
  ASSUME NEW p \in Nat, NEW i \in 0..p, i = 0 \/ IsNewline(i - 1),
         \A j \in i..(p - 1) : ~IsNewline(j)
  PROVE  LineStart(p) = i
<1>1. PICK k \in 0..p : /\ k = LineStart(p) /\ (k = 0 \/ IsNewline(k - 1))
                        /\ \A j \in k..(p - 1) : ~IsNewline(j)
  BY LineStartIs
<1>2. ~(k < i)
  <2>1. k < i => i - 1 \in k..(p - 1) /\ i # 0
    OBVIOUS
  <2> QED
    BY <1>1, <2>1
<1>3. ~(i < k)
  <2>1. i < k => k - 1 \in i..(p - 1) /\ k # 0
    OBVIOUS
  <2> QED
    BY <1>1, <2>1
<1> QED
  BY <1>1, <1>2, <1>3

(* A line begins at 0 and after each newline.                              *)
LEMMA LineBegins ==
  ASSUME NEW p \in Nat
  PROVE  p = LineStart(p) <=> (p = 0 \/ IsNewline(p - 1))
<1>1. p = LineStart(p) => (p = 0 \/ IsNewline(p - 1))
  BY LineStartIs
<1>2. (p = 0 \/ IsNewline(p - 1)) => p = LineStart(p)
  BY LineStartUnique
<1> QED
  BY <1>1, <1>2

LEMMA NewlineBefore ==
  ASSUME NEW p \in Nat, NEW j \in Nat, IsNewline(j), j < p
  PROVE  j + 1 <= LineStart(p)
BY LineStartIs

LEMMA LineOfStart ==
  ASSUME NEW p \in Nat
  PROVE  /\ LineStart(LineStart(p)) = LineStart(p)
         /\ LineOf(LineStart(p)) = LineOf(p)
<1>1. PICK k \in 0..p : /\ k = LineStart(p) /\ (k = 0 \/ IsNewline(k - 1))
                        /\ \A j \in k..(p - 1) : ~IsNewline(j)
  BY LineStartIs
<1>2. LineStart(k) = k
  BY <1>1, LineBegins
<1>3. Newlines(k, p) = 0
  BY <1>1, NoNewlines
<1>4. LineOf(p) = LineOf(k) + 0 /\ LineOf(k) \in Nat
  BY <1>1, <1>3, LineOfFurther
<1> QED
  BY <1>1, <1>2, <1>4

-----------------------------------------------------------------------------
(* The order of what is printed.                                           *)

(* A sequence of pieces of the data between a and b, in their order. *)
InOrder(s, a, b) ==
  /\ IsSequence(s)
  /\ \A i \in DOMAIN s : IsText(s[i]) =>
       /\ s[i].from \in Nat /\ s[i].to \in Nat
       /\ a <= s[i].from /\ s[i].from <= s[i].to /\ s[i].to <= b
  /\ \A i, j \in DOMAIN s : i < j /\ IsText(s[i]) /\ IsText(s[j]) => s[i].to <= s[j].from

(* Named, so that the provers take the sequence as a value. *)
Joined(u, s, t) == u = s \o t

LEMMA JoinedIs ==
  ASSUME NEW u, NEW s, NEW t, Joined(u, s, t), IsSequence(s), IsSequence(t)
  PROVE  /\ IsSequence(u) /\ Len(s) \in Nat /\ Len(t) \in Nat
         /\ DOMAIN s = 1..Len(s) /\ DOMAIN t = 1..Len(t)
         /\ Len(u) = Len(s) + Len(t)
         /\ DOMAIN u = 1..(Len(s) + Len(t))
         /\ \A i \in 1..Len(s) : u[i] = s[i]
         /\ \A i \in (Len(s) + 1)..(Len(s) + Len(t)) : u[i] = t[i - Len(s)]
<1>1. PICK S : s \in Seq(S)
  BY DEF IsSequence
<1>2. PICK T : t \in Seq(T)
  BY DEF IsSequence
<1>3. s \in Seq(S \cup T) /\ t \in Seq(S \cup T)
  BY <1>1, <1>2
<1>4. /\ u \in Seq(S \cup T)
      /\ Len(u) = Len(s) + Len(t)
      /\ \A i \in 1..(Len(s) + Len(t)) : u[i] = IF i <= Len(s) THEN s[i] ELSE t[i - Len(s)]
  BY <1>3, ConcatProperties DEF Joined
<1>5. /\ DOMAIN s = 1..Len(s) /\ DOMAIN t = 1..Len(t) /\ DOMAIN u = 1..Len(u)
      /\ Len(s) \in Nat /\ Len(t) \in Nat
  BY <1>3, <1>4
<1>6. IsSequence(u)
  BY <1>4 DEF IsSequence
<1>7. /\ \A i \in 1..Len(s) : u[i] = s[i]
      /\ \A i \in (Len(s) + 1)..(Len(s) + Len(t)) : u[i] = t[i - Len(s)]
  BY <1>4, <1>5
<1> QED
  BY <1>4, <1>5, <1>6, <1>7

LEMMA JoinOrder ==
  ASSUME NEW a \in Nat, NEW b \in Nat, NEW c \in Nat, NEW s, NEW t, NEW u,
         InOrder(s, a, b), InOrder(t, b, c), a <= b, b <= c, Joined(u, s, t)
  PROVE  InOrder(u, a, c)
<1>1. IsSequence(s) /\ IsSequence(t)
  BY DEF InOrder
<1> DEFINE n == Len(s)
           m == Len(t)
<1>2. /\ IsSequence(u) /\ n \in Nat /\ m \in Nat
      /\ DOMAIN s = 1..n /\ DOMAIN t = 1..m /\ DOMAIN u = 1..(n + m)
      /\ \A i \in 1..n : u[i] = s[i]
      /\ \A i \in (n + 1)..(n + m) : u[i] = t[i - n]
  BY <1>1, JoinedIs
<1> HIDE DEF n, m
<1>3. \A i \in 1..n : IsText(u[i]) =>
        /\ u[i].from \in Nat /\ u[i].to \in Nat
        /\ a <= u[i].from /\ u[i].from <= u[i].to /\ u[i].to <= b
  BY <1>2 DEF InOrder
<1>4. \A i \in (n + 1)..(n + m) : IsText(u[i]) =>
        /\ u[i].from \in Nat /\ u[i].to \in Nat
        /\ b <= u[i].from /\ u[i].from <= u[i].to /\ u[i].to <= c
  <2> SUFFICES ASSUME NEW i \in (n + 1)..(n + m), IsText(u[i])
               PROVE  /\ u[i].from \in Nat /\ u[i].to \in Nat
                      /\ b <= u[i].from /\ u[i].from <= u[i].to /\ u[i].to <= c
    OBVIOUS
  <2>1. PICK k \in 1..m : k = i - n
    BY <1>2
  <2>2. u[i] = t[k]
    BY <1>2, <2>1
  <2> QED
    BY <1>2, <2>2 DEF InOrder
<1>5. \A i \in 1..(n + m) : i \in 1..n \/ i \in (n + 1)..(n + m)
  BY <1>2
<1>6. \A i \in 1..(n + m) : IsText(u[i]) =>
        /\ u[i].from \in Nat /\ u[i].to \in Nat
        /\ a <= u[i].from /\ u[i].from <= u[i].to /\ u[i].to <= c
  <2> SUFFICES ASSUME NEW i \in 1..(n + m), IsText(u[i])
               PROVE  /\ u[i].from \in Nat /\ u[i].to \in Nat
                      /\ a <= u[i].from /\ u[i].from <= u[i].to /\ u[i].to <= c
    OBVIOUS
  <2>1. CASE i \in 1..n
    BY <1>3, <2>1
  <2>2. CASE i \in (n + 1)..(n + m)
    BY <1>4, <2>2
  <2> QED
    BY <1>5, <2>1, <2>2
<1>7. ASSUME NEW i \in 1..(n + m), NEW j \in 1..(n + m), i < j, IsText(u[i]), IsText(u[j])
      PROVE  u[i].to <= u[j].from
  <2>1. CASE i \in 1..n /\ j \in 1..n
    BY <1>2, <1>7, <2>1 DEF InOrder
  <2>2. CASE i \in 1..n /\ j \in (n + 1)..(n + m)
    BY <1>3, <1>4, <1>7, <2>2
  <2>3. CASE i \in (n + 1)..(n + m) /\ j \in (n + 1)..(n + m)
    <3>1. PICK k \in 1..m, l \in 1..m : k = i - n /\ l = j - n /\ k < l
      BY <1>2, <1>7, <2>3
    <3>2. u[i] = t[k] /\ u[j] = t[l]
      BY <1>2, <2>3, <3>1
    <3>3. IsText(t[k]) /\ IsText(t[l])
      BY <1>7, <3>2
    <3>4. t[k].to <= t[l].from
      BY <1>2, <3>1, <3>3 DEF InOrder
    <3> QED
      BY <3>2, <3>4
  <2>4. ~(i \in (n + 1)..(n + m) /\ j \in 1..n)
    BY <1>2, <1>7
  <2> QED
    BY <1>5, <2>1, <2>2, <2>3, <2>4
<1> QED
  BY <1>2, <1>6, <1>7 DEF InOrder

LEMMA WiderOrder ==
  ASSUME NEW a \in Nat, NEW b \in Nat, NEW c \in Nat, NEW d \in Nat, NEW s,
         InOrder(s, b, c), a <= b, c <= d
  PROVE  InOrder(s, a, d)
BY DEF InOrder

LEMMA NoOrder ==
  ASSUME NEW a, NEW b
  PROVE  InOrder(<<>>, a, b)
BY NoPiece DEF InOrder

LEMMA OneOrder ==
  ASSUME NEW x, NEW a \in Nat, NEW b \in Nat,
         IsText(x) => /\ x.from \in Nat /\ x.to \in Nat
                      /\ a <= x.from /\ x.from <= x.to /\ x.to <= b
  PROVE  InOrder(<<x>>, a, b)
<1>1. IsSequence(<<x>>) /\ DOMAIN <<x>> = {1} /\ <<x>>[1] = x
  BY OnePiece
<1> QED
  BY <1>1 DEF InOrder

LEMMA ListOrder ==
  ASSUME NEW n \in Nat, NEW s, s = [j \in 1..n |-> s[j]], NEW a \in Nat, NEW b \in Nat,
         \A j \in 1..n : /\ s[j].from \in Nat /\ s[j].to \in Nat
                         /\ a <= s[j].from /\ s[j].from <= s[j].to /\ s[j].to <= b,
         \A i, j \in 1..n : i < j => s[i].to <= s[j].from
  PROVE  InOrder(s, a, b)
<1>1. IsSequence(s)
  BY Listed
<1>2. DOMAIN s = 1..n
  OBVIOUS
<1> QED
  BY <1>1, <1>2 DEF InOrder

-----------------------------------------------------------------------------
(* show_post_text stops at the first newline or carriage return.           *)
LEMMA PostStopIs ==
  ASSUME Len(data) \in Nat, NEW e \in 0..Len(data)
  PROVE  /\ PostStop(e) \in e..Len(data)
         /\ PostStop(e) < Len(data) => data[PostStop(e) + 1] \in {NEWLINE, RETURN}
         /\ \A j \in e..(PostStop(e) - 1) : ~IsNewline(j)
<1>1. CASE e = Len(data)
  BY <1>1 DEF PostStop
<1>2. CASE e < Len(data)
  <2> DEFINE T == {i \in e..Len(data) : i = Len(data) \/ data[i + 1] \in {NEWLINE, RETURN}}
  <2>1. Len(data) \in T /\ T \subseteq Nat
    BY <1>2
  <2>2. PICK i \in T : \A y \in T : i <= y
    <3> HIDE DEF T
    <3> QED
      BY <2>1, LeastNat
  <2>3. ASSUME NEW j \in e..(i - 1), data[j + 1] \in {NEWLINE, RETURN} PROVE FALSE
    <3>1. j \in e..Len(data) /\ ~(i <= j)
      BY <2>2
    <3>2. j \in T
      BY <2>3, <3>1
    <3> QED
      BY <2>2, <3>1, <3>2
  <2>4. \E k \in e..Len(data) :
          /\ k = Len(data) \/ data[k + 1] \in {NEWLINE, RETURN}
          /\ \A j \in e..(k - 1) : data[j + 1] \notin {NEWLINE, RETURN}
    BY <2>2, <2>3
  <2>5. ~(e >= Len(data))
    BY <1>2
  <2>6. PICK k : k = PostStop(e) /\ k \in e..Len(data)
                 /\ (k = Len(data) \/ data[k + 1] \in {NEWLINE, RETURN})
                 /\ \A j \in e..(k - 1) : data[j + 1] \notin {NEWLINE, RETURN}
    BY <2>4, <2>5, Zenon DEF PostStop
  <2>7. \A j \in e..(k - 1) : ~IsNewline(j)
    BY <2>6 DEF IsNewline
  <2> QED
    BY <1>2, <2>6, <2>7
<1> QED
  BY <1>1, <1>2

LEMMA LineEndIs ==
  ASSUME Len(data) \in Nat, NEW p \in 0..Len(data)
  PROVE  /\ LineEnd(p) \in p..Len(data)
         /\ LineEnd(p) = Len(data) \/ IsNewline(LineEnd(p))
         /\ \A j \in p..(LineEnd(p) - 1) : ~IsNewline(j)
<1> DEFINE T == {i \in p..Len(data) : i = Len(data) \/ IsNewline(i)}
<1>1. Len(data) \in T /\ T \subseteq Nat
  OBVIOUS
<1>2. PICK i \in T : \A y \in T : i <= y
  <2> HIDE DEF T
  <2> QED
    BY <1>1, LeastNat
<1>3. \A j \in p..(i - 1) : ~IsNewline(j)
  BY <1>2
<1>4. \E k \in p..Len(data) : /\ k = Len(data) \/ IsNewline(k)
                              /\ \A j \in p..(k - 1) : ~IsNewline(j)
  BY <1>2, <1>3
<1> QED
  BY <1>4, Zenon DEF LineEnd

(* show_after_context. *)
LEMMA AfterStopsFacts ==
  ASSUME NEW e \in Nat, NEW start \in Nat, after \in Nat
  PROVE  /\ AfterStops(e, start) \subseteq NewlineSet(e, start)
         /\ IsFiniteSet(AfterStops(e, start)) /\ AfterStops(e, start) \subseteq Nat
         /\ Cardinality(AfterStops(e, start)) \in Nat
<1>1. AfterStops(e, start) \in SUBSET NewlineSet(e, start)
  BY DEF AfterStops, NewlineSet
<1>2. IsFiniteSet(NewlineSet(e, start)) /\ NewlineSet(e, start) \subseteq Nat
  BY NewlineSetFinite
<1>3. IsFiniteSet(AfterStops(e, start))
  BY <1>1, <1>2, FS_Subset
<1> QED
  BY <1>1, <1>2, <1>3, FS_CardinalityType

(* The lines s after a match, which end at the n stops S. *)
AfterLines(S, n, s, e, start) ==
  /\ n \in Nat /\ s = [j \in 1..n |-> s[j]]
  /\ \A j \in 1..n :
       /\ Nth(S, j) \in e..(start - 1) /\ IsNewline(Nth(S, j))
       /\ j > 1 => j - 1 \in 1..n /\ Nth(S, j - 1) < Nth(S, j)
       /\ \A i \in 1..n : i < j => Nth(S, i) < Nth(S, j)
  /\ \A j \in 1..n :
       s[j] = [kind |-> "line", label |-> old_line + j,
               from |-> IF j = 1 THEN e ELSE Nth(S, j - 1) + 1, to |-> Nth(S, j)]
  /\ AfterEnd(e, start) = IF n = 0 THEN e ELSE Nth(S, n) + 1

LEMMA AfterPieces ==
  ASSUME NEW e \in Nat, NEW start \in Nat, after \in Nat,
         NEW S, S = AfterStops(e, start), NEW n, n = Cardinality(S),
         NEW s, s = AfterContext(e, start)
  PROVE  AfterLines(S, n, s, e, start)
<1>1. S \subseteq NewlineSet(e, start) /\ IsFiniteSet(S) /\ S \subseteq Nat /\ n \in Nat
  BY AfterStopsFacts
<1>2. s = [j \in 1..n |-> Piece("line", AfterLabel(j), IF j = 1 THEN e ELSE Nth(S, j - 1) + 1, Nth(S, j))]
  BY Zenon DEF AfterContext
<1>3. AfterEnd(e, start) = IF S = {} THEN e ELSE Nth(S, n) + 1
  BY Zenon DEF AfterEnd
<1>4. S = {} <=> n = 0
  BY <1>1, FS_EmptySet
<1>5. \A j \in 1..n : Nth(S, j) \in S
  BY <1>1, NthOf
<1>6. \A i, j \in 1..n : i < j => Nth(S, i) < Nth(S, j)
  BY <1>1, NthGrows
<1>7. \A j \in 1..n : Nth(S, j) \in e..(start - 1) /\ IsNewline(Nth(S, j))
  BY <1>1, <1>5 DEF NewlineSet
<1>8. \A j \in 1..n : j > 1 => j - 1 \in 1..n /\ j - 1 < j
  BY <1>1
<1>9. \A j \in 1..n : j > 1 => j - 1 \in 1..n /\ Nth(S, j - 1) < Nth(S, j)
  BY <1>6, <1>8
<1>10. \A j \in 1..n :
         s[j] = [kind |-> "line", label |-> old_line + j,
                 from |-> IF j = 1 THEN e ELSE Nth(S, j - 1) + 1, to |-> Nth(S, j)]
  BY <1>2, Zenon DEF Piece, AfterLabel
<1>11. s = [j \in 1..n |-> s[j]]
  BY <1>2
<1> QED
  BY <1>1, <1>3, <1>4, <1>6, <1>7, <1>9, <1>10, <1>11 DEF AfterLines

LEMMA AfterOrder ==
  ASSUME NEW e \in Nat, NEW start \in Nat, after \in Nat
  PROVE  /\ InOrder(AfterContext(e, start), e, AfterEnd(e, start))
         /\ AfterEnd(e, start) \in Nat /\ e <= AfterEnd(e, start)
         /\ AfterEnd(e, start) = e \/ AfterEnd(e, start) <= LineStart(start)
<1>1. PICK S, n : S = AfterStops(e, start) /\ n = Cardinality(S)
  OBVIOUS
<1>2. PICK s : s = AfterContext(e, start)
  OBVIOUS
<1>a. AfterLines(S, n, s, e, start)
  BY <1>1, <1>2, AfterPieces
<1>3. /\ n \in Nat /\ s = [j \in 1..n |-> s[j]]
      /\ \A j \in 1..n :
           /\ Nth(S, j) \in e..(start - 1) /\ IsNewline(Nth(S, j))
           /\ j > 1 => j - 1 \in 1..n /\ Nth(S, j - 1) < Nth(S, j)
           /\ \A i \in 1..n : i < j => Nth(S, i) < Nth(S, j)
      /\ \A j \in 1..n :
           s[j] = [kind |-> "line", label |-> old_line + j,
                   from |-> IF j = 1 THEN e ELSE Nth(S, j - 1) + 1, to |-> Nth(S, j)]
      /\ AfterEnd(e, start) = IF n = 0 THEN e ELSE Nth(S, n) + 1
  BY <1>a DEF AfterLines
<1>4. PICK z : z = AfterEnd(e, start)
  OBVIOUS
<1>5. z \in Nat /\ e <= z /\ (\A j \in 1..n : Nth(S, j) < z)
  <2>1. CASE n = 0
    BY <1>3, <1>4, <2>1
  <2>2. CASE n # 0
    <3>1. n \in 1..n /\ \A j \in 1..n : j = n \/ j < n
      BY <1>3, <2>2
    <3>2. PICK x \in Nat : x = Nth(S, n) /\ e <= x /\ z = x + 1
      BY <1>3, <1>4, <2>2, <3>1
    <3>3. \A j \in 1..n : Nth(S, j) \in Nat /\ (Nth(S, j) = x \/ Nth(S, j) < x)
      BY <1>3, <3>1, <3>2
    <3> QED
      BY <3>2, <3>3
  <2> QED
    BY <2>1, <2>2
<1>6. z = e \/ z <= LineStart(start)
  <2>1. CASE n = 0
    BY <1>3, <1>4, <2>1
  <2>2. CASE n # 0
    <3>1. PICK x \in Nat : x = Nth(S, n) /\ x < start /\ IsNewline(x) /\ z = x + 1
      BY <1>3, <1>4, <2>2
    <3> QED
      BY <3>1, NewlineBefore
  <2> QED
    BY <2>1, <2>2
<1>7. \A j \in 1..n : s[j].from = (IF j = 1 THEN e ELSE Nth(S, j - 1) + 1) /\ s[j].to = Nth(S, j)
  BY <1>3
<1>8. ASSUME NEW j \in 1..n
      PROVE  /\ s[j].from \in Nat /\ s[j].to \in Nat
             /\ e <= s[j].from /\ s[j].from <= s[j].to /\ s[j].to <= z
  <2>1. CASE j = 1
    BY <1>3, <1>5, <1>7, <2>1
  <2>2. CASE j > 1
    <3>1. PICK x \in Nat, y \in Nat : /\ x = Nth(S, j - 1) /\ y = Nth(S, j) /\ x < y /\ e <= x
      BY <1>3, <2>2
    <3>2. s[j].from = x + 1 /\ s[j].to = y
      BY <1>7, <2>2, <3>1
    <3>3. y < z
      BY <1>5, <3>1
    <3> QED
      BY <1>5, <3>1, <3>2, <3>3
  <2> QED
    BY <2>1, <2>2
<1>9. ASSUME NEW i \in 1..n, NEW j \in 1..n, i < j
      PROVE  s[i].to <= s[j].from
  <2>1. j > 1 /\ j - 1 \in 1..n /\ (i = j - 1 \/ i < j - 1)
    BY <1>3, <1>9
  <2>2. PICK k \in 1..n : k = j - 1
    BY <2>1
  <2>3. PICK x \in Nat, y \in Nat : x = Nth(S, k) /\ y = Nth(S, i) /\ y <= x
    BY <1>3, <2>1, <2>2
  <2>4. s[j].from = x + 1 /\ s[i].to = y
    BY <1>7, <2>1, <2>2, <2>3
  <2> QED
    BY <2>3, <2>4
<1>10. InOrder(s, e, z)
  BY <1>3, <1>5, <1>8, <1>9, ListOrder
<1> QED
  BY <1>2, <1>4, <1>5, <1>6, <1>10

(* show_before_context: S are the starts of the lines before the one the   *)
(* match is on, and the last n of them are printed.                        *)
LEMMA BeforeStartsFacts ==
  ASSUME NEW e \in Nat, NEW start \in Nat,
         NEW S, S = BeforeStarts(e, start), NEW N, N = Cardinality(S)
  PROVE  /\ S \subseteq Nat /\ IsFiniteSet(S) /\ N \in Nat
         /\ \A i \in S : e <= i /\ i < LineStart(start) /\ i = LineStart(i)
<1>1. PICK c \in Nat : c = LineStart(start)
  BY LineStartInData
<1>2. S \in SUBSET (0..(c - 1)) /\ IsFiniteSet(0..(c - 1))
  <2>1. S = {i \in 0..(c - 1) : i >= e /\ i = LineStart(i)}
    BY <1>1 DEF BeforeStarts
  <2>2. IsFiniteSet(0..(c - 1))
    BY FS_Interval
  <2> QED
    BY <2>1, <2>2
<1>3. IsFiniteSet(S)
  BY <1>2, FS_Subset
<1>4. S \subseteq Nat /\ \A i \in S : e <= i /\ i < LineStart(start) /\ i = LineStart(i)
  BY <1>1 DEF BeforeStarts
<1> QED
  BY <1>3, <1>4, FS_CardinalityType

BeforeLines(S, n, k, s, at) ==
  /\ n \in Nat /\ k \in Nat /\ n + k = Cardinality(S)
  /\ s = [j \in 1..n |-> s[j]]
  /\ \A j \in 1..n :
       /\ Nth(S, k + j) \in S
       /\ \A i \in 1..n : i < j => Nth(S, k + i) < Nth(S, k + j)
  /\ \A j \in 1..n :
       s[j] = [kind |-> "line", label |-> at - n + j - 1,
               from |-> Nth(S, k + j), to |-> LineEnd(Nth(S, k + j))]

LEMMA BeforePieces ==
  ASSUME NEW e \in Nat, NEW start \in Nat, NEW at, before \in Nat,
         NEW S, S = BeforeStarts(e, start)
  PROVE  \E n, k, lines, first :
           /\ BeforeLines(S, n, k, lines, at)
           /\ n = (IF Cardinality(S) < before THEN Cardinality(S) ELSE before)
           /\ first = <<>> \/ first = <<Piece("gap", 0, e, e)>>
           /\ \/ n = 0 /\ BeforeContext(e, start, at) = <<>>
              \/ Joined(BeforeContext(e, start, at), first, lines)
<1>1. PICK N : N = Cardinality(S)
  OBVIOUS
<1>2. S \subseteq Nat /\ IsFiniteSet(S) /\ N \in Nat
  BY <1>1, BeforeStartsFacts
<1>3. PICK n, k : n = (IF N < before THEN N ELSE before) /\ k = N - n
  OBVIOUS
<1>4. n \in Nat /\ k \in Nat /\ n + k = N
  BY <1>2, <1>3
<1>5. PICK lines : lines = [j \in 1..n |-> Piece("line", at - n + j - 1, Nth(S, k + j),
                                                 LineEnd(Nth(S, k + j)))]
  OBVIOUS
<1> DEFINE first == IF at - before > old_line + after /\ old_line # 1
                    THEN <<Piece("gap", 0, e, e)>> ELSE <<>>
<1>6. BeforeContext(e, start, at) = IF n = 0 THEN <<>> ELSE first \o lines
  <2>1. BeforeContext(e, start, at) =
          LET S2 == BeforeStarts(e, start)
              n2 == IF Cardinality(S2) < before THEN Cardinality(S2) ELSE before
              skipped2 == Cardinality(S2) - n2
          IN  IF n2 = 0 THEN <<>>
              ELSE first \o [j \in 1..n2 |-> Piece("line", at - n2 + j - 1, Nth(S2, skipped2 + j),
                                                   LineEnd(Nth(S2, skipped2 + j)))]
    BY Zenon DEF BeforeContext
  <2> HIDE DEF first
  <2> QED
    BY <2>1, <1>1, <1>3, <1>5, Zenon
<1>7. \A j \in 1..n : k + j \in 1..Cardinality(S) /\ (\A i \in 1..n : i < j => k + i < k + j)
  BY <1>1, <1>4
<1>8. \A j \in 1..n : Nth(S, k + j) \in S
  BY <1>2, <1>7, NthOf
<1>9. \A i, j \in 1..n : i < j => Nth(S, k + i) < Nth(S, k + j)
  BY <1>2, <1>7, NthGrows
<1>10. lines = [j \in 1..n |-> lines[j]]
  BY <1>5
<1>11. \A j \in 1..n : lines[j] = [kind |-> "line", label |-> at - n + j - 1,
                                   from |-> Nth(S, k + j), to |-> LineEnd(Nth(S, k + j))]
  BY <1>5, Zenon DEF Piece
<1>12. BeforeLines(S, n, k, lines, at)
  BY <1>1, <1>4, <1>8, <1>9, <1>10, <1>11 DEF BeforeLines
<1>13. first = <<>> \/ first = <<Piece("gap", 0, e, e)>>
  OBVIOUS
<1> HIDE DEF first
<1> QED
  BY <1>1, <1>3, <1>6, <1>12, <1>13, Zenon DEF Joined

LEMMA LineEndBefore ==
  ASSUME Len(data) \in Nat, NEW p \in 0..Len(data), NEW q \in Nat, p < q, q = LineStart(q)
  PROVE  LineEnd(p) \in Nat /\ p <= LineEnd(p) /\ LineEnd(p) < q
<1>1. IsNewline(q - 1) /\ q - 1 >= p /\ q - 1 \in Nat
  BY LineBegins
<1>2. PICK x : x = LineEnd(p) /\ x \in p..Len(data) /\ \A j \in p..(x - 1) : ~IsNewline(j)
  BY LineEndIs
<1>3. ~(q - 1 \in p..(x - 1))
  BY <1>1, <1>2
<1> QED
  BY <1>1, <1>2, <1>3

LEMMA GapOrder ==
  ASSUME NEW e \in Nat, NEW s, s = <<>> \/ s = <<Piece("gap", 0, e, e)>>
  PROVE  InOrder(s, e, e)
<1>1. ~IsText(Piece("gap", 0, e, e))
  BY DEF IsText, Piece
<1>2. InOrder(<<Piece("gap", 0, e, e)>>, e, e)
  BY <1>1, OneOrder
<1> QED
  BY <1>2, NoOrder

LEMMA BeforeOrder ==
  ASSUME Len(data) \in Nat, NEW e \in Nat, NEW start \in 0..Len(data), NEW at, before \in Nat,
         e <= LineStart(start)
  PROVE  InOrder(BeforeContext(e, start, at), e, LineStart(start))
<1>1. PICK S, b, c : S = BeforeStarts(e, start) /\ b = BeforeContext(e, start, at)
                     /\ c = LineStart(start)
  OBVIOUS
<1>2. c \in Nat /\ c <= start /\ c = LineStart(c)
  BY <1>1, LineStartInData, LineOfStart
<1>3. PICK n, k, lines, first :
           /\ BeforeLines(S, n, k, lines, at)
           /\ first = <<>> \/ first = <<Piece("gap", 0, e, e)>>
           /\ b = <<>> \/ Joined(b, first, lines)
  BY <1>1, BeforePieces
<1>4. /\ n \in Nat /\ lines = [j \in 1..n |-> lines[j]]
      /\ \A j \in 1..n :
           /\ Nth(S, k + j) \in S
           /\ \A i \in 1..n : i < j => Nth(S, k + i) < Nth(S, k + j)
      /\ \A j \in 1..n : lines[j].from = Nth(S, k + j) /\ lines[j].to = LineEnd(Nth(S, k + j))
  BY <1>3 DEF BeforeLines
<1>5. \A i \in S : i \in Nat /\ e <= i /\ i < c /\ i = LineStart(i)
  BY <1>1, BeforeStartsFacts
<1>6. \A i \in S : i \in 0..Len(data)
  BY <1>2, <1>5
<1>7. ASSUME NEW j \in 1..n
      PROVE  /\ lines[j].from \in Nat /\ lines[j].to \in Nat
             /\ e <= lines[j].from /\ lines[j].from <= lines[j].to /\ lines[j].to <= c
  <2>1. PICK x \in S : x = Nth(S, k + j)
    BY <1>4
  <2>2. lines[j].from = x /\ lines[j].to = LineEnd(x)
    BY <1>4, <2>1
  <2>3. LineEnd(x) \in Nat /\ x <= LineEnd(x) /\ LineEnd(x) < c
    BY <1>2, <1>5, <1>6, LineEndBefore
  <2> QED
    BY <1>2, <1>5, <2>2, <2>3
<1>8. ASSUME NEW i \in 1..n, NEW j \in 1..n, i < j
      PROVE  lines[i].to <= lines[j].from
  <2>1. PICK x \in S, y \in S : x = Nth(S, k + i) /\ y = Nth(S, k + j) /\ x < y
    BY <1>4, <1>8
  <2>2. lines[i].to = LineEnd(x) /\ lines[j].from = y
    BY <1>4, <2>1
  <2>3. LineEnd(x) \in Nat /\ LineEnd(x) < y
    BY <1>5, <1>6, <2>1, LineEndBefore
  <2> QED
    BY <1>5, <2>2, <2>3
<1>9. InOrder(lines, e, c)
  BY <1>2, <1>4, <1>7, <1>8, ListOrder
<1>10. InOrder(first, e, e)
  BY <1>3, GapOrder
<1>11. Joined(b, first, lines) => InOrder(b, e, c)
  BY <1>1, <1>2, <1>9, <1>10, JoinOrder
<1> QED
  BY <1>1, <1>3, <1>11, NoOrder

(* show_pre_text. *)
PreFrom(e, start) == IF e \in LineStart(start)..start THEN e ELSE LineStart(start)

LEMMA PreOrder ==
  ASSUME NEW e \in Nat, NEW start \in Nat, e <= start
  PROVE  /\ PreFrom(e, start) \in Nat /\ e <= PreFrom(e, start) /\ PreFrom(e, start) <= start
         /\ InOrder(PreText(e, start), PreFrom(e, start), start)
<1>1. PICK f : f = PreFrom(e, start)
  OBVIOUS
<1>2. f \in Nat /\ e <= f /\ f <= start
  BY <1>1, LineStartInData DEF PreFrom
<1>3. PreText(e, start) = IF f < start THEN <<Piece("pre", 0, f, start)>> ELSE <<>>
  BY <1>1, Zenon DEF PreText, PreFrom
<1>4. PICK x : x = Piece("pre", 0, f, start)
  OBVIOUS
<1>5. x.from = f /\ x.to = start
  BY <1>4 DEF Piece
<1>6. InOrder(<<x>>, f, start)
  BY <1>2, <1>5, OneOrder
<1> QED
  BY <1>1, <1>2, <1>3, <1>4, <1>6, NoOrder

(* show_post_text and the context after a match. *)
LEMMA RestIs ==
  ASSUME NEW start \in Nat
  PROVE  \E e : /\ e = PostStop(end) + 1
                /\ \/ /\ file_match_count = 0
                      /\ Rest(start).pieces = <<>> /\ Rest(start).end = end
                   \/ /\ file_match_count # 0 /\ after = 0
                      /\ Rest(start).pieces = PostText(end) /\ Rest(start).end = e
                   \/ /\ file_match_count # 0
                      /\ Joined(Rest(start).pieces, PostText(end), AfterContext(e, start))
                      /\ Rest(start).end = AfterEnd(e, start)
<1>1. PICK e : e = PostStop(end) + 1
  OBVIOUS
<1>2. \/ file_match_count = 0 /\ Rest(start) = [pieces |-> <<>>, end |-> end]
      \/ file_match_count # 0 /\ after = 0 /\ Rest(start) = [pieces |-> PostText(end), end |-> e]
      \/ file_match_count # 0 /\ Rest(start) = [pieces |-> PostText(end) \o AfterContext(e, start),
                                                end |-> AfterEnd(e, start)]
  BY <1>1, Zenon DEF Rest
<1>3. \/ file_match_count = 0 /\ Rest(start).pieces = <<>> /\ Rest(start).end = end
      \/ file_match_count # 0 /\ after = 0
         /\ Rest(start).pieces = PostText(end) /\ Rest(start).end = e
      \/ file_match_count # 0 /\ Rest(start).pieces = PostText(end) \o AfterContext(e, start)
         /\ Rest(start).end = AfterEnd(e, start)
  BY <1>2
<1> QED
  BY <1>1, <1>3, Zenon DEF Joined

LEMMA PostOrder ==
  ASSUME Len(data) \in Nat, NEW e \in 0..Len(data)
  PROVE  InOrder(PostText(e), e, PostStop(e))
<1>1. PICK z \in e..Len(data) : z = PostStop(e)
  BY PostStopIs
<1>2. PICK x : x = Piece("post", 0, e, z)
  OBVIOUS
<1>3. x.from = e /\ x.to = z
  BY <1>2 DEF Piece
<1>4. InOrder(<<x>>, e, z)
  BY <1>1, <1>3, OneOrder
<1> QED
  BY <1>1, <1>2, <1>4 DEF PostText

LEMMA RestOrder ==
  ASSUME Len(data) \in Nat, end \in 0..Len(data), after \in Nat, NEW start \in Nat
  PROVE  /\ InOrder(Rest(start).pieces, end, Rest(start).end)
         /\ Rest(start).end \in Nat /\ end <= Rest(start).end
<1>1. PICK rest, x : rest = Rest(start).pieces /\ x = Rest(start).end
  OBVIOUS
<1>2. PICK e : /\ e = PostStop(end) + 1
               /\ \/ rest = <<>> /\ x = end
                  \/ rest = PostText(end) /\ x = e
                  \/ Joined(rest, PostText(end), AfterContext(e, start)) /\ x = AfterEnd(e, start)
  BY <1>1, RestIs, Zenon
<1>3. PICK z \in end..Len(data) : z = PostStop(end)
  BY PostStopIs
<1>4. z \in Nat /\ e = z + 1 /\ e \in Nat /\ end <= e /\ end \in Nat
  BY <1>2, <1>3
<1>5. InOrder(PostText(end), end, e)
  <2>1. InOrder(PostText(end), end, z)
    BY <1>3, PostOrder
  <2> QED
    BY <1>4, <2>1, WiderOrder
<1>6. PICK a, y : a = AfterContext(e, start) /\ y = AfterEnd(e, start)
  OBVIOUS
<1>7. InOrder(a, e, y) /\ y \in Nat /\ e <= y
  BY <1>4, <1>6, AfterOrder
<1>8. Joined(rest, PostText(end), a) => InOrder(rest, end, y) /\ end <= y
  BY <1>4, <1>5, <1>7, JoinOrder
<1> QED
  BY <1>1, <1>2, <1>4, <1>5, <1>6, <1>7, <1>8, NoOrder

(* What is printed after a match ends where the line of the next begins, or *)
(* before it, if that is another line.                                      *)
LEMMA RestBefore ==
  ASSUME Len(data) \in Nat, end \in 0..Len(data), after \in Nat, NEW start \in Nat,
         (file_match_count = 0 /\ end = 0) \/ Newlines(end, start) # 0
  PROVE  Rest(start).end <= LineStart(start)
<1>1. PICK x, c : x = Rest(start).end /\ c = LineStart(start)
  OBVIOUS
<1>2. c \in Nat
  BY <1>1, LineStartInData
<1>3. PICK e : /\ e = PostStop(end) + 1
               /\ \/ file_match_count = 0 /\ x = end
                  \/ file_match_count # 0 /\ (x = e \/ x = AfterEnd(e, start))
  BY <1>1, RestIs, Zenon
<1>4. CASE file_match_count = 0 /\ end = 0
  BY <1>1, <1>2, <1>3, <1>4
<1>5. CASE Newlines(end, start) # 0
  <2>1. PICK j \in end..(start - 1) : IsNewline(j)
    BY <1>5, NoNewlines
  <2>2. j + 1 <= c /\ j \in Nat
    BY <1>1, <2>1, NewlineBefore
  <2>3. PICK z \in end..Len(data) : z = PostStop(end) /\ \A i \in end..(z - 1) : ~IsNewline(i)
    BY PostStopIs
  <2>4. z <= j
    BY <2>1, <2>3
  <2>5. e \in Nat /\ e <= c
    BY <1>2, <1>3, <2>2, <2>3, <2>4
  <2>6. AfterEnd(e, start) = e \/ AfterEnd(e, start) <= c
    BY <1>1, <2>5, AfterOrder
  <2>7. end <= c
    BY <1>2, <2>1, <2>2
  <2> QED
    BY <1>1, <1>3, <2>5, <2>6, <2>7
<1> QED
  BY <1>4, <1>5

(* All that a match prints before its own text. *)
LEMMA LeadIs ==
  ASSUME NEW start, NEW at
  PROVE  \/ ~NewLine(at) /\ Lead(start, at).pieces = <<>> /\ Lead(start, at).end = end
         \/ /\ NewLine(at) /\ Lead(start, at).end = Rest(start).end
            /\ \E context, two :
                 /\ context = BeforeContext(Rest(start).end, start, at)
                 /\ Joined(two, Rest(start).pieces, context)
                 /\ Joined(Lead(start, at).pieces, two, <<Piece("label", at, start, start)>>)
<1>1. PICK context, rest, x : /\ rest = Rest(start).pieces /\ x = Rest(start).end
                              /\ context = BeforeContext(x, start, at)
  OBVIOUS
<1>2. PICK two : two = rest \o context
  OBVIOUS
<1>3. Lead(start, at) =
        IF ~NewLine(at) THEN [pieces |-> <<>>, end |-> end]
        ELSE [pieces |-> two \o <<Piece("label", at, start, start)>>, end |-> x]
  BY <1>1, <1>2, Zenon DEF Lead
<1>4. CASE ~NewLine(at)
  BY <1>3, <1>4
<1>5. CASE NewLine(at)
  <2>1. /\ Lead(start, at).pieces = two \o <<Piece("label", at, start, start)>>
        /\ Lead(start, at).end = x
    BY <1>3, <1>5
  <2> QED
    BY <1>1, <1>2, <1>5, <2>1, Zenon DEF Joined
<1> QED
  BY <1>4, <1>5

(* The state of the search: line is the line of end, nothing has been      *)
(* found as long as it is 0.                                               *)
Counting == /\ file_match_count = 0 => end = 0
            /\ line = old_line

LEMMA OnNewLine ==
  ASSUME GrepTypeOK, Counting, NEW start \in Nat, NEW at,
         at = line + Newlines(line_byte, start), NewLine(at)
  PROVE  (file_match_count = 0 /\ end = 0) \/ Newlines(end, start) # 0
<1>1. line \in Nat /\ line_byte = end /\ end \in Nat
  BY DEF GrepTypeOK
<1>2. Newlines(end, start) \in Nat
  BY <1>1, NewlinesNat
<1> QED
  BY <1>1, <1>2 DEF NewLine, Counting

LEMMA LeadOrder ==
  ASSUME GrepTypeOK, Counting, NEW start \in end..Len(data), NEW at,
         at = line + Newlines(line_byte, start)
  PROVE  /\ Lead(start, at).end \in Nat /\ end <= Lead(start, at).end
         /\ Lead(start, at).end <= start
         /\ InOrder(Lead(start, at).pieces, end, PreFrom(Lead(start, at).end, start))
<1>1. PICK pieces, x : pieces = Lead(start, at).pieces /\ x = Lead(start, at).end
  OBVIOUS
<1>2. /\ Len(data) \in Nat /\ end \in 0..Len(data) /\ after \in Nat /\ before \in Nat
      /\ end \in Nat /\ start \in Nat /\ start \in 0..Len(data) /\ end <= start
  BY DEF GrepTypeOK
<1>3. CASE ~NewLine(at)
  <2>1. pieces = <<>> /\ x = end
    BY <1>1, <1>3, LeadIs
  <2> QED
    BY <1>1, <1>2, <2>1, NoOrder
<1>4. CASE NewLine(at)
  <2>1. PICK rest, c, context, two, label :
          /\ rest = Rest(start).pieces /\ x = Rest(start).end /\ c = LineStart(start)
          /\ context = BeforeContext(x, start, at) /\ label = <<Piece("label", at, start, start)>>
          /\ Joined(two, rest, context) /\ Joined(pieces, two, label)
    BY <1>1, <1>4, LeadIs, Zenon
  <2>2. (file_match_count = 0 /\ end = 0) \/ Newlines(end, start) # 0
    BY <1>2, <1>4, OnNewLine
  <2>3. InOrder(rest, end, x) /\ x \in Nat /\ end <= x
    BY <1>2, <2>1, RestOrder
  <2>4. x <= c
    BY <1>2, <2>1, <2>2, RestBefore
  <2>5. c \in Nat /\ c <= start
    BY <1>2, <2>1, LineStartInData
  <2>6. InOrder(context, x, c)
    BY <1>2, <2>1, <2>3, <2>4, BeforeOrder
  <2>7. InOrder(two, end, c)
    BY <1>2, <2>1, <2>3, <2>4, <2>5, <2>6, JoinOrder
  <2>8. InOrder(label, c, c)
    <3>1. ~IsText(Piece("label", at, start, start))
      BY DEF IsText, Piece
    <3> QED
      BY <2>1, <2>5, <3>1, OneOrder
  <2>9. end <= c
    BY <1>2, <2>3, <2>4, <2>5
  <2>10. InOrder(pieces, end, c)
    BY <1>2, <2>1, <2>5, <2>7, <2>8, <2>9, JoinOrder
  <2>11. PreFrom(x, start) = c
    BY <1>2, <2>1, <2>3, <2>4, <2>5 DEF PreFrom
  <2> QED
    BY <1>1, <1>2, <2>3, <2>4, <2>5, <2>10, <2>11
<1> QED
  BY <1>3, <1>4

(* The strengthening of NothingTwice: while the search is on, all of what  *)
(* is printed lies before end.                                             *)
OrderInv ==
  /\ pc = "search" => Counting /\ InOrder(output, 0, end)
  /\ pc = "shown" => \E b \in Nat : InOrder(output, 0, b)
  /\ pc \notin {"search", "shown"} => output = <<>>

LEMMA InOrderOnce ==
  ASSUME NEW a, NEW b, InOrder(output, a, b)
  PROVE  NothingTwice
BY DEF InOrder, NothingTwice

LEMMA OrderedOnce ==
  ASSUME OrderInv
  PROVE  NothingTwice
<1>1. CASE pc = "search"
  BY <1>1, InOrderOnce DEF OrderInv
<1>2. CASE pc = "shown"
  <2>1. PICK b \in Nat : InOrder(output, 0, b)
    BY <1>2 DEF OrderInv
  <2> QED
    BY <2>1, InOrderOnce
<1>3. CASE pc \notin {"search", "shown"}
  BY <1>3 DEF OrderInv, NothingTwice
<1> QED
  BY <1>1, <1>2, <1>3

LEMMA StepOrderInv ==
  ASSUME NeverEmptyAtEnd, GrepInv, OrderInv, [GrepNext]_grepVars
  PROVE  OrderInv'
<1>1. GrepTypeOK /\ StartsInData
  BY DEF GrepInv
<1>2. CASE ShowMatch
  <2>1. PICK r \in Find(expr, data, pos) :
          LET at == line + Newlines(line_byte, r.start)
              lead == Lead(r.start, at)
          IN  /\ output' = output \o lead.pieces \o PreText(lead.end, r.start)
                           \o <<Piece("match", 0, r.start, r.end)>>
              /\ end' = r.end /\ old_line' = line'
    BY <1>2 DEF ShowMatch
  <2>2. /\ expr \in Patterns /\ file \in Entries /\ IsFile(file) /\ data = file.content
        /\ pos \in 0..Len(data) /\ Len(data) \in Nat /\ end \in 0..Len(data) /\ end <= pos
        /\ Counting /\ InOrder(output, 0, end)
    BY <1>1, <1>2 DEF ShowMatch, GrepTypeOK, StartsInData, OrderInv
  <2>3. r.start \in pos..Len(data) /\ r.end \in r.start..Len(data)
    BY <2>2, FoundWithin
  <2>4. PICK start, stop : start = r.start /\ stop = r.end
    OBVIOUS
  <2>5. start \in Nat /\ stop \in Nat /\ start \in end..Len(data) /\ start <= stop /\ end \in Nat
    BY <2>2, <2>3, <2>4
  <2>6. PICK at : at = line + Newlines(line_byte, start)
    OBVIOUS
  <2>7. PICK lead, x : lead = Lead(start, at).pieces /\ x = Lead(start, at).end
    OBVIOUS
  <2>8. PICK pre, f, match : pre = PreText(x, start) /\ f = PreFrom(x, start)
                             /\ match = <<Piece("match", 0, start, stop)>>
    OBVIOUS
  <2>9. output' = output \o lead \o pre \o match
    BY <2>1, <2>4, <2>6, <2>7, <2>8, Zenon
  <2>10. x \in Nat /\ end <= x /\ x <= start /\ InOrder(lead, end, f)
    BY <1>1, <2>2, <2>5, <2>6, <2>7, <2>8, LeadOrder
  <2>11. f \in Nat /\ x <= f /\ f <= start /\ InOrder(pre, f, start)
    BY <2>5, <2>8, <2>10, PreOrder
  <2>12. InOrder(match, start, stop)
    <3>1. PICK m : m = Piece("match", 0, start, stop)
      OBVIOUS
    <3>2. m.from = start /\ m.to = stop
      BY <3>1 DEF Piece
    <3> QED
      BY <2>5, <2>8, <3>1, <3>2, OneOrder
  <2>13. PICK b, c : /\ Joined(b, output, lead) /\ Joined(c, b, pre) /\ Joined(output', c, match)
    BY <2>9, Zenon DEF Joined
  <2>14. end <= f
    BY <2>5, <2>10, <2>11
  <2>15. InOrder(b, 0, f)
    BY <2>2, <2>5, <2>10, <2>11, <2>13, <2>14, JoinOrder
  <2>16. InOrder(c, 0, start)
    BY <2>5, <2>11, <2>13, <2>15, JoinOrder
  <2>17. InOrder(output', 0, stop)
    BY <2>5, <2>12, <2>13, <2>16, JoinOrder
  <2>18. file_match_count' # 0 /\ pc' = "search"
    BY <1>1, <1>2 DEF ShowMatch, GrepTypeOK
  <2>19. line' = old_line' /\ end' = stop
    BY <2>1, <2>4
  <2> QED
    BY <2>17, <2>18, <2>19 DEF OrderInv, Counting
<1>3. CASE LastMatch
  <2>1. /\ Len(data) \in Nat /\ end \in 0..Len(data) /\ end \in Nat /\ after \in Nat
        /\ InOrder(output, 0, end) /\ pc' = "shown"
    BY <1>1, <1>3 DEF LastMatch, GrepTypeOK, OrderInv
  <2>2. PICK rest, x : rest = Rest(Len(data)).pieces /\ x = Rest(Len(data)).end
    OBVIOUS
  <2>3. InOrder(rest, end, x) /\ x \in Nat /\ end <= x
    BY <2>1, <2>2, RestOrder
  <2>4. Joined(output', output, rest)
    BY <1>3, <2>2 DEF LastMatch, Joined
  <2>5. InOrder(output', 0, x)
    BY <2>1, <2>3, <2>4, JoinOrder
  <2> QED
    BY <2>1, <2>3, <2>5 DEF OrderInv
<1>4. CASE ReadEnd
  <2>1. /\ pc' = "search" /\ output' = <<>> /\ end' = 0 /\ line' = 1 /\ old_line' = 1
    BY <1>4 DEF ReadEnd, ResetLocals
  <2>2. InOrder(output', 0, end')
    BY <2>1, NoOrder
  <2> QED
    BY <2>1, <2>2 DEF OrderInv, Counting
<1>5. CASE UNCHANGED grepVars
  BY <1>5 DEF grepVars, options, locals, OrderInv, Counting, InOrder
<1>6. CASE ~ShowMatch /\ ~LastMatch /\ ~ReadEnd /\ ~UNCHANGED grepVars
  <2>1. pc' \notin {"search", "shown"} /\ (output' = <<>> \/ (pc \notin {"search", "shown"} /\ output' = output))
    BY <1>6 DEF GrepNext, GrepTurn, Main, FindNothing, FindDirectory, FindFile, ReadChunk,
                ReadError, CloseFile, GrepEnd, Again
  <2> QED
    BY <2>1 DEF OrderInv
<1> QED
  BY <1>2, <1>3, <1>4, <1>5, <1>6

(* Nothing is printed twice and everything in the order of the file: the   *)
(* rest of a match's line, the lines after it, the lines before the next   *)
(* and its own never overlap, whatever the sizes of the contexts.          *)
THEOREM PrintedOnce ==
  ASSUME NeverEmptyAtEnd
  PROVE  GrepSpec => []NothingTwice
<1>1. GrepInv /\ [GrepNext]_grepVars => GrepInv'
  BY StepGrepInv
<1>2. GrepInv /\ OrderInv /\ [GrepNext]_grepVars => OrderInv'
  BY StepOrderInv
<1>3. GrepInit => OrderInv
  BY DEF GrepInit, OrderInv
<1>4. OrderInv => NothingTwice
  BY OrderedOnce
<1> QED
  BY InitGrepInv, <1>1, <1>2, <1>3, <1>4, PTL DEF GrepSpec

-----------------------------------------------------------------------------
(* The numbers that are printed.                                           *)

(* A carriage return is the end of a line for show_post_text and not for   *)
(* find_line: in a file that has one the numbers need not be true.         *)
NoReturns == \A i \in 1..Len(data) : data[i] # RETURN

Begins(p) == p = 0 \/ IsNewline(p - 1)
TrueLabel(l, p) == Begins(p) /\ l = LineOf(p)

Preceded(s, i) ==
  /\ i > 1
  /\ \/ s[i - 1].kind = "label"
     \/ s[i - 1].kind = "match" /\ s[i - 1].to = s[i].from

PieceOK(s, i) ==
  /\ s[i].kind = "label" => /\ i < Len(s) /\ IsText(s[i + 1])
                            /\ TrueLabel(s[i].label, s[i + 1].from)
  /\ s[i].kind # "label" /\ s[i].label # 0 => IsText(s[i]) /\ TrueLabel(s[i].label, s[i].from)
  /\ IsText(s[i]) /\ s[i].label = 0 /\ s[i].from < s[i].to /\ Begins(s[i].from) => Preceded(s, i)

Labelled(s) == IsSequence(s) /\ \A i \in DOMAIN s : PieceOK(s, i)

(* Lines with their numbers, and gaps, stand on their own. *)
Numbered(x) == x.kind = "line" /\ x.label # 0 /\ TrueLabel(x.label, x.from)
IsGap(x) == x.kind = "gap" /\ x.label = 0
OwnLines(s) == IsSequence(s) /\ \A i \in DOMAIN s : Numbered(s[i]) \/ IsGap(s[i])

EndsIn(s, p) == Len(s) > 0 /\ s[Len(s)].kind = "match" /\ s[Len(s)].to = p

(* What is printed later does not touch what was printed. *)
LEMMA StillLabelled ==
  ASSUME NEW s, NEW t, NEW u, Joined(u, s, t), Labelled(s), IsSequence(t)
  PROVE  \A i \in 1..Len(s) : PieceOK(u, i)
<1> DEFINE n == Len(s)
           m == Len(t)
<1>1. /\ IsSequence(u) /\ n \in Nat /\ m \in Nat /\ Len(u) = n + m
      /\ DOMAIN s = 1..n
      /\ \A i \in 1..n : u[i] = s[i]
  BY JoinedIs DEF Labelled
<1> SUFFICES ASSUME NEW i \in 1..n PROVE PieceOK(u, i)
  OBVIOUS
<1>2. PieceOK(s, i) /\ u[i] = s[i]
  BY <1>1 DEF Labelled
<1> HIDE DEF n, m
<1>3. i < Len(s) => i < Len(u) /\ u[i + 1] = s[i + 1]
  BY <1>1 DEF n
<1>4. i > 1 => u[i - 1] = s[i - 1]
  BY <1>1
<1>5. Preceded(s, i) => Preceded(u, i)
  BY <1>2, <1>4 DEF Preceded
<1> QED
  BY <1>2, <1>3, <1>5, Zenon DEF PieceOK

LEMMA JoinLines ==
  ASSUME NEW s, NEW t, NEW u, Joined(u, s, t), Labelled(s), OwnLines(t)
  PROVE  Labelled(u)
<1> DEFINE n == Len(s)
           m == Len(t)
<1>1. /\ IsSequence(u) /\ n \in Nat /\ m \in Nat
      /\ DOMAIN u = 1..(n + m) /\ DOMAIN t = 1..m
      /\ \A i \in (n + 1)..(n + m) : u[i] = t[i - n]
  BY JoinedIs DEF Labelled, OwnLines
<1>2. \A i \in 1..n : PieceOK(u, i)
  BY StillLabelled DEF OwnLines
<1> HIDE DEF n, m
<1>3. ASSUME NEW i \in (n + 1)..(n + m) PROVE PieceOK(u, i)
  <2>1. i - n \in DOMAIN t
    BY <1>1
  <2>2. Numbered(u[i]) \/ IsGap(u[i])
    BY <1>1, <2>1 DEF OwnLines
  <2>3. Numbered(u[i]) => PieceOK(u, i)
    BY Zenon DEF Numbered, PieceOK, IsText
  <2>4. IsGap(u[i]) => PieceOK(u, i)
    BY DEF IsGap, PieceOK, IsText
  <2> QED
    BY <2>2, <2>3, <2>4
<1>4. \A i \in 1..(n + m) : i \in 1..n \/ i \in (n + 1)..(n + m)
  BY <1>1
<1> QED
  BY <1>1, <1>2, <1>3, <1>4 DEF Labelled

LEMMA JoinOne ==
  ASSUME NEW s, NEW x, NEW u, Joined(u, s, <<x>>), IsSequence(s)
  PROVE  /\ IsSequence(u) /\ IsSequence(<<x>>) /\ Len(s) \in Nat /\ Len(u) = Len(s) + 1
         /\ DOMAIN u = 1..(Len(s) + 1)
         /\ \A i \in 1..Len(s) : u[i] = s[i]
         /\ u[Len(s) + 1] = x
<1>1. IsSequence(<<x>>) /\ Len(<<x>>) = 1 /\ <<x>>[1] = x
  BY OnePiece
<1>2. PICK t : Joined(u, s, t) /\ IsSequence(t) /\ Len(t) = 1 /\ t[1] = x
  BY <1>1, Zenon
<1>3. Joined(u, s, t) /\ IsSequence(t)
  BY <1>2
<1>4. /\ IsSequence(u) /\ Len(s) \in Nat /\ Len(u) = Len(s) + Len(t)
      /\ DOMAIN u = 1..(Len(s) + Len(t))
      /\ \A i \in 1..Len(s) : u[i] = s[i]
      /\ \A i \in (Len(s) + 1)..(Len(s) + Len(t)) : u[i] = t[i - Len(s)]
  BY <1>3, JoinedIs
<1>5. u[Len(s) + 1] = t[(Len(s) + 1) - Len(s)] /\ (Len(s) + 1) - Len(s) = 1
  BY <1>2, <1>4
<1> QED
  BY <1>1, <1>2, <1>4, <1>5

LEMMA JoinText ==
  ASSUME NEW s, NEW x, NEW u, Joined(u, s, <<x>>), Labelled(s),
         IsText(x), x.label = 0,
         x.from < x.to /\ Begins(x.from) => EndsIn(s, x.from)
  PROVE  Labelled(u)
<1> DEFINE n == Len(s)
<1>1. /\ IsSequence(u) /\ n \in Nat
      /\ DOMAIN u = 1..(n + 1)
      /\ \A i \in 1..n : u[i] = s[i]
  BY JoinOne DEF Labelled
<1>2. \A i \in 1..n : PieceOK(u, i)
  BY JoinOne, StillLabelled DEF Labelled
<1>3. u[n + 1] = x /\ (n > 0 => u[n] = s[n])
  BY <1>1, JoinOne DEF Labelled
<1>4. EndsIn(s, x.from) => Preceded(u, n + 1)
  <2>1. (n + 1) - 1 = n /\ (n > 0 => n + 1 > 1)
    BY <1>1
  <2> QED
    BY <1>3, <2>1 DEF EndsIn, Preceded
<1>5. PieceOK(u, n + 1)
  <2>1. x.kind # "label"
    BY DEF IsText
  <2> HIDE DEF n
  <2> QED
    BY <1>3, <1>4, <2>1, Zenon DEF PieceOK
<1>6. \A i \in 1..(n + 1) : i \in 1..n \/ i = n + 1
  BY <1>1
<1> QED
  BY <1>1, <1>2, <1>5, <1>6 DEF Labelled

LEMMA JoinLabelled ==
  ASSUME NEW s, NEW l, NEW x, NEW u, NEW v, Joined(u, s, <<l>>), Joined(v, u, <<x>>),
         Labelled(s), l.kind = "label", IsText(x), x.label = 0, TrueLabel(l.label, x.from)
  PROVE  Labelled(v)
<1> DEFINE n == Len(s)
<1>1. /\ IsSequence(u) /\ n \in Nat /\ Len(u) = n + 1 /\ IsSequence(<<l>>)
      /\ \A i \in 1..n : u[i] = s[i]
      /\ u[n + 1] = l
  BY JoinOne DEF Labelled
<1>a. PICK k : k = Len(u)
  OBVIOUS
<1>b. /\ IsSequence(v) /\ Len(v) = k + 1 /\ DOMAIN v = 1..(k + 1)
      /\ \A i \in 1..k : v[i] = u[i]
      /\ v[k + 1] = x
  BY <1>1, <1>a, JoinOne
<1>2. /\ IsSequence(v) /\ Len(v) = n + 2 /\ DOMAIN v = 1..(n + 2)
      /\ \A i \in 1..(n + 1) : v[i] = u[i]
      /\ v[n + 2] = x
  <2>1. k = n + 1 /\ k + 1 = n + 2 /\ n \in Nat
    BY <1>1, <1>a
  <2> HIDE DEF n
  <2> QED
    BY <1>b, <2>1
<1>3. v[n + 1] = l /\ v[n + 2] = x
  BY <1>1, <1>2
<1>4. ASSUME NEW i \in 1..n PROVE PieceOK(v, i)
  <2>1. PieceOK(u, i)
    BY <1>1, StillLabelled
  <2>2. v[i] = u[i] /\ v[i + 1] = u[i + 1] /\ i < Len(v)
    BY <1>1, <1>2
  <2>3. i > 1 => v[i - 1] = u[i - 1]
    BY <1>1, <1>2
  <2>4. Preceded(u, i) => Preceded(v, i)
    BY <2>2, <2>3 DEF Preceded
  <2> QED
    BY <2>1, <2>2, <2>4, Zenon DEF PieceOK
<1>5. PieceOK(v, n + 1)
  <2>1. (n + 1) + 1 = n + 2 /\ n + 1 < Len(v)
    BY <1>1, <1>2
  <2>2. ~IsText(l)
    BY DEF IsText
  <2> HIDE DEF n
  <2> QED
    BY <1>3, <2>1, <2>2, Zenon DEF PieceOK
<1>6. PieceOK(v, n + 2)
  <2>1. (n + 2) - 1 = n + 1 /\ n + 2 > 1
    BY <1>1
  <2>2. x.kind # "label"
    BY DEF IsText
  <2>3. Preceded(v, n + 2)
    BY <1>3, <2>1 DEF Preceded
  <2> HIDE DEF n
  <2> QED
    BY <1>3, <2>2, <2>3, Zenon DEF PieceOK
<1>7. \A i \in 1..(n + 2) : i \in 1..n \/ i = n + 1 \/ i = n + 2
  BY <1>1
<1> QED
  BY <1>2, <1>4, <1>5, <1>6, <1>7 DEF Labelled

LEMMA JoinNothing ==
  ASSUME NEW s, NEW u, Joined(u, s, <<>>), IsSequence(s)
  PROVE  u = s
<1>1. PICK S : s \in Seq(S)
  BY DEF IsSequence
<1> QED
  BY <1>1 DEF Joined

LEMMA JoinOwn ==
  ASSUME NEW s, NEW t, NEW u, Joined(u, s, t), OwnLines(s), OwnLines(t)
  PROVE  OwnLines(u)
<1> DEFINE n == Len(s)
           m == Len(t)
<1>1. /\ IsSequence(u) /\ n \in Nat /\ m \in Nat
      /\ DOMAIN u = 1..(n + m) /\ DOMAIN t = 1..m /\ DOMAIN s = 1..n
      /\ \A i \in 1..n : u[i] = s[i]
      /\ \A i \in (n + 1)..(n + m) : u[i] = t[i - n]
  BY JoinedIs DEF OwnLines
<1>2. \A i \in 1..n : Numbered(u[i]) \/ IsGap(u[i])
  BY <1>1 DEF OwnLines
<1> HIDE DEF n, m
<1>3. ASSUME NEW i \in (n + 1)..(n + m) PROVE Numbered(u[i]) \/ IsGap(u[i])
  <2>1. i - n \in DOMAIN t
    BY <1>1
  <2> QED
    BY <1>1, <2>1 DEF OwnLines
<1>4. \A i \in 1..(n + m) : i \in 1..n \/ i \in (n + 1)..(n + m)
  BY <1>1
<1> QED
  BY <1>1, <1>2, <1>3, <1>4 DEF OwnLines

(* The stops after a match are the first newlines there. *)
LEMMA AfterCount ==
  ASSUME NEW e \in Nat, NEW start \in Nat, after \in Nat,
         NEW S, S = AfterStops(e, start), NEW x \in S
  PROVE  NewlineSet(e, x + 1) = UpTo(S, x)
<1> DEFINE All == NewlineSet(e, start)
           Under(y) == {l \in All : l < y}
<1>1. S = {i \in All : Cardinality(Under(i)) < after}
  BY DEF AfterStops, NewlineSet
<1>2. IsFiniteSet(All) /\ All \subseteq Nat /\ x \in All
  BY <1>1, NewlineSetFinite
<1>3. x \in Nat /\ e <= x /\ x < start
  BY <1>2 DEF NewlineSet
<1>4. ASSUME NEW k \in NewlineSet(e, x + 1) PROVE k \in UpTo(S, x)
  <2>1. k \in All /\ k \in Nat /\ k <= x
    BY <1>3, <1>4 DEF NewlineSet
  <2> HIDE DEF All
  <2>2. Under(x) \in SUBSET All /\ Under(k) \in SUBSET Under(x)
    <3>1. \A l \in All : l \in Nat /\ (l < k => l < x)
      BY <1>2, <1>3, <2>1
    <3> QED
      BY <3>1
  <2>3. IsFiniteSet(Under(x)) /\ IsFiniteSet(Under(k))
    BY <1>2, <2>2, FS_Subset
  <2>4. /\ Cardinality(Under(k)) <= Cardinality(Under(x))
        /\ Cardinality(Under(k)) \in Nat /\ Cardinality(Under(x)) \in Nat
    BY <2>2, <2>3, FS_Subset, FS_CardinalityType
  <2>5. Cardinality(Under(x)) < after
    BY <1>1
  <2>6. Cardinality(Under(k)) < after
    <3> HIDE DEF Under
    <3> QED
      BY <2>4, <2>5
  <2>7. k \in S
    BY <1>1, <2>1, <2>6
  <2> QED
    BY <2>1, <2>7 DEF UpTo
<1>5. ASSUME NEW k \in UpTo(S, x) PROVE k \in NewlineSet(e, x + 1)
  BY <1>1, <1>3, <1>5 DEF NewlineSet, UpTo
<1> QED
  BY <1>4, <1>5

LEMMA AfterNumbers ==
  ASSUME GrepTypeOK, NEW start \in 0..Len(data), old_line = LineOf(end),
         NoReturns,
         NEW e, e = PostStop(end) + 1
  PROVE  OwnLines(AfterContext(e, start))
<1>1. /\ Len(data) \in Nat /\ end \in 0..Len(data) /\ after \in Nat /\ start \in Nat /\ end \in Nat
  BY DEF GrepTypeOK
<1>2. PICK z \in end..Len(data) :
        /\ e = z + 1
        /\ z < Len(data) => data[z + 1] \in {NEWLINE, RETURN}
        /\ \A j \in end..(z - 1) : ~IsNewline(j)
  BY <1>1, PostStopIs
<1>3. z \in Nat /\ e \in Nat /\ end <= z
  BY <1>1, <1>2
<1>4. PICK S, n, s : S = AfterStops(e, start) /\ n = Cardinality(S) /\ s = AfterContext(e, start)
  OBVIOUS
<1>5. AfterLines(S, n, s, e, start)
  BY <1>1, <1>3, <1>4, AfterPieces
<1>6. /\ n \in Nat /\ s = [j \in 1..n |-> s[j]]
      /\ \A j \in 1..n : Nth(S, j) \in e..(start - 1) /\ IsNewline(Nth(S, j))
      /\ \A j \in 1..n :
           /\ s[j].kind = "line" /\ s[j].label = old_line + j
           /\ s[j].from = IF j = 1 THEN e ELSE Nth(S, j - 1) + 1
  BY <1>5 DEF AfterLines
<1>7. ASSUME n # 0 PROVE Begins(e) /\ LineOf(e) = old_line + 1 /\ old_line \in Nat
  <2>1. 1 \in 1..n
    BY <1>6, <1>7
  <2>2. z < Len(data)
    <3>1. Nth(S, 1) \in e..(start - 1)
      BY <1>6, <2>1
    <3> QED
      BY <1>1, <1>2, <1>3, <3>1
  <2>3. IsNewline(z)
    <3>1. z + 1 \in 1..Len(data)
      BY <1>1, <1>3, <2>2
    <3>2. data[z + 1] # RETURN
      BY <3>1 DEF NoReturns
    <3> QED
      BY <1>2, <2>2, <3>2 DEF IsNewline
  <2>4. Begins(e)
    <3>1. e - 1 = z
      BY <1>2, <1>3
    <3> QED
      BY <2>3, <3>1 DEF Begins
  <2>5. Newlines(end, z) = 0 /\ Newlines(z, z + 1) = 1
    BY <1>1, <1>2, <1>3, <2>3, NoNewlines, OneNewline
  <2>6. LineOf(z) = LineOf(end) + 0 /\ LineOf(end) \in Nat
    BY <1>1, <1>3, <2>5, LineOfFurther
  <2>7. z + 1 \in Nat /\ z <= z + 1
    BY <1>3
  <2>8. LineOf(z + 1) = LineOf(z) + 1
    BY <1>3, <2>5, <2>7, LineOfFurther
  <2> QED
    BY <1>2, <2>4, <2>6, <2>8
<1>8. /\ S \subseteq Nat /\ IsFiniteSet(S)
  BY <1>1, <1>3, <1>4, AfterStopsFacts
<1>9. ASSUME NEW j \in 1..n PROVE Numbered(s[j])
  <2>0. Begins(e) /\ LineOf(e) = old_line + 1 /\ old_line \in Nat
    BY <1>6, <1>7, <1>9
  <2>1. CASE j = 1
    <3>1. s[j].kind = "line" /\ s[j].label = LineOf(e) /\ s[j].from = e /\ LineOf(e) # 0
      BY <1>6, <2>0, <2>1
    <3> QED
      BY <2>0, <3>1 DEF Numbered, TrueLabel
  <2>2. CASE j > 1
    <3>1. PICK k \in 1..n : k = j - 1
      BY <1>6, <2>2
    <3>2. PICK x \in Nat : x = Nth(S, k) /\ e <= x /\ IsNewline(x)
      BY <1>3, <1>6
    <3>3. x \in S /\ Cardinality(UpTo(S, x)) = k
      BY <1>4, <1>8, <3>2, NthOf
    <3>4. Newlines(e, x + 1) = k
      <4>1. NewlineSet(e, x + 1) = UpTo(S, x)
        BY <1>1, <1>3, <1>4, <3>3, AfterCount
      <4>2. x + 1 \in Nat
        OBVIOUS
      <4> QED
        BY <1>3, <3>3, <4>1, <4>2, NewlineSetFinite
    <3>5. PICK y \in Nat : y = x + 1 /\ e <= y /\ y - 1 = x
      BY <1>3, <3>2
    <3>6. LineOf(y) = LineOf(e) + k
      BY <1>3, <3>4, <3>5, LineOfFurther
    <3>7. Begins(y)
      BY <3>2, <3>5 DEF Begins
    <3>8. s[j].kind = "line" /\ s[j].label = LineOf(y) /\ s[j].from = y /\ LineOf(y) # 0
      <4>1. s[j].kind = "line" /\ s[j].label = old_line + j /\ s[j].from = x + 1
        BY <1>6, <2>2, <3>1, <3>2
      <4>2. old_line + j = LineOf(y) /\ LineOf(y) # 0
        BY <2>0, <2>2, <3>1, <3>6
      <4> QED
        BY <3>5, <4>1, <4>2
    <3> QED
      BY <3>7, <3>8 DEF Numbered, TrueLabel
  <2> QED
    BY <1>6, <2>1, <2>2
<1>10. IsSequence(s) /\ DOMAIN s = 1..n
  BY <1>6, Listed
<1> QED
  BY <1>4, <1>9, <1>10 DEF OwnLines

(* As many lines begin after a position and up to the beginning of a later *)
(* line as there are newlines on the way.                                  *)
LEMMA LinesBetween ==
  ASSUME NEW x \in Nat, NEW c \in Nat, x < c, Begins(c),
         NEW T, T \subseteq Nat, \A y \in Nat : y \in T <=> x < y /\ y <= c /\ Begins(y)
  PROVE  Newlines(x, c) = Cardinality(T) /\ IsFiniteSet(T)
<1> DEFINE A == NewlineSet(x, c)
           f == [i \in A |-> i + 1]
<1>1. \A i \in A : i \in Nat /\ x <= i /\ i < c /\ IsNewline(i)
  BY DEF NewlineSet
<1>2. \A i \in A : i + 1 \in T
  <2> SUFFICES ASSUME NEW i \in A PROVE i + 1 \in T
    OBVIOUS
  <2>1. (i + 1) - 1 = i /\ i + 1 \in Nat /\ x < i + 1 /\ i + 1 <= c /\ IsNewline(i)
    BY <1>1
  <2>2. Begins(i + 1)
    BY <2>1 DEF Begins
  <2> QED
    BY <2>1, <2>2
<1>3. ASSUME NEW y \in T PROVE \E i \in A : f[i] = y
  <2>1. y \in Nat /\ x < y /\ y <= c /\ Begins(y)
    BY <1>3
  <2>2. IsNewline(y - 1) /\ y - 1 \in x..(c - 1) /\ (y - 1) + 1 = y
    BY <2>1 DEF Begins
  <2>3. y - 1 \in A
    BY <2>2 DEF NewlineSet
  <2> QED
    BY <2>2, <2>3
<1>4. \A i, j \in A : f[i] = f[j] => i = j
  BY <1>1
<1>5. f \in [A -> T]
  BY <1>2
<1> HIDE DEF f
<1>6. f \in Bijection(A, T)
  BY <1>3, <1>4, <1>5 DEF Bijection, Injection, Surjection, IsInjective
<1>7. ExistsBijection(A, T)
  BY <1>6 DEF ExistsBijection
<1>8. IsFiniteSet(A) /\ Newlines(x, c) = Cardinality(A)
  BY NewlineSetFinite
<1> HIDE DEF A
<1> QED
  BY <1>7, <1>8, FS_Bijection

LEMMA Associates ==
  ASSUME NEW r, NEW s, NEW t, IsSequence(r), IsSequence(s), IsSequence(t)
  PROVE  r \o (s \o t) = (r \o s) \o t
<1>1. PICK R : r \in Seq(R)
  BY DEF IsSequence
<1>2. PICK S : s \in Seq(S)
  BY DEF IsSequence
<1>3. PICK T : t \in Seq(T)
  BY DEF IsSequence
<1>4. PICK A : A = R \cup S \cup T
  OBVIOUS
<1>5. r \in Seq(A) /\ s \in Seq(A) /\ t \in Seq(A)
  BY <1>1, <1>2, <1>3, <1>4
<1> QED
  BY <1>5, ConcatAssociative

LEMMA BeforeNumbers ==
  ASSUME NEW start \in Nat, NEW e \in Nat, before \in Nat, NEW at, at = LineOf(start)
  PROVE  OwnLines(BeforeContext(e, start, at))
<1>1. PICK S, b, c : S = BeforeStarts(e, start) /\ b = BeforeContext(e, start, at)
                     /\ c = LineStart(start)
  OBVIOUS
<1>2. c \in Nat /\ Begins(c) /\ LineOf(c) = at
  <2>1. c \in Nat
    BY <1>1, LineStartInData
  <2>2. LineStart(c) = c /\ LineOf(c) = LineOf(start)
    BY <1>1, LineOfStart
  <2> QED
    BY <2>1, <2>2, LineBegins DEF Begins
<1>3. PICK n, k, lines, first :
           /\ BeforeLines(S, n, k, lines, at)
           /\ first = <<>> \/ first = <<Piece("gap", 0, e, e)>>
           /\ b = <<>> \/ Joined(b, first, lines)
  BY <1>1, BeforePieces
<1>4. /\ n \in Nat /\ k \in Nat /\ n + k = Cardinality(S) /\ lines = [j \in 1..n |-> lines[j]]
      /\ \A j \in 1..n :
           /\ lines[j].kind = "line" /\ lines[j].label = at - n + j - 1
           /\ lines[j].from = Nth(S, k + j)
  BY <1>3 DEF BeforeLines
<1>5. /\ S \subseteq Nat /\ IsFiniteSet(S) /\ Cardinality(S) \in Nat
      /\ \A i \in S : e <= i /\ i < c /\ i = LineStart(i)
  BY <1>1, BeforeStartsFacts
<1>6. \A y \in Nat : y \in S <=> e <= y /\ y < c /\ Begins(y)
  <2>1. \A y \in Nat : y = LineStart(y) <=> Begins(y)
    BY LineBegins DEF Begins
  <2>2. S = {i \in 0..(c - 1) : i >= e /\ i = LineStart(i)}
    BY <1>1 DEF BeforeStarts
  <2> QED
    BY <1>2, <2>1, <2>2
<1>7. ASSUME NEW j \in 1..n PROVE Numbered(lines[j])
  <2>1. k + j \in 1..Cardinality(S)
    BY <1>4
  <2>2. PICK x \in S : x = Nth(S, k + j) /\ Cardinality(UpTo(S, x)) = k + j
    BY <1>5, <2>1, NthOf
  <2>3. x \in Nat /\ e <= x /\ x < c /\ Begins(x)
    BY <1>5, <1>6
  <2>4. PICK U, V : U = UpTo(S, x) /\ V = S \ U
    OBVIOUS
  <2>5. IsFiniteSet(U) /\ IsFiniteSet(V) /\ Cardinality(V) \in Nat /\ U \subseteq S
    <3>1. V \in SUBSET S
      BY <2>4
    <3> QED
      BY <1>5, <2>4, <3>1, UpToFinite, FS_Subset, FS_CardinalityType
  <2>6. Cardinality(S) = Cardinality(U) + Cardinality(V)
    <3>1. S = U \cup V /\ U \cap V = {}
      BY <2>4, <2>5
    <3>2. Cardinality(S) = Cardinality(U) + Cardinality(V) - Cardinality({})
      BY <2>5, <3>1, FS_Union
    <3> QED
      BY <2>2, <2>4, <2>5, <3>2, <1>4, FS_EmptySet
  <2>7. PICK T : T = V \cup {c}
    OBVIOUS
  <2>8. Cardinality(T) = Cardinality(V) + 1
    <3>1. c \notin V
      BY <1>2, <1>5, <2>4
    <3> QED
      BY <2>5, <2>7, <3>1, FS_AddElement
  <2>9. \A y \in Nat : y \in V <=> x < y /\ y < c /\ Begins(y)
    <3>1. \A y \in Nat : y \in V <=> y \in S /\ ~(y <= x)
      BY <2>4 DEF UpTo
    <3> QED
      BY <1>2, <1>6, <2>3, <3>1
  <2>10. \A y \in Nat : y \in T <=> x < y /\ y <= c /\ Begins(y)
    BY <1>2, <2>3, <2>7, <2>9
  <2>11. T \subseteq Nat
    BY <1>2, <1>5, <2>4, <2>7
  <2>12. Newlines(x, c) = Cardinality(T)
    BY <1>2, <2>3, <2>10, <2>11, LinesBetween
  <2>13. at = LineOf(x) + Cardinality(T) /\ LineOf(x) \in Nat /\ LineOf(x) >= 1
    <3>1. x <= c
      BY <1>2, <2>3
    <3> QED
      BY <1>2, <2>3, <2>12, <3>1, LineOfFurther
  <2>14. at - n + j - 1 = LineOf(x) /\ LineOf(x) # 0
    <3>1. PICK l, v \in Nat : l = LineOf(x) /\ v = Cardinality(V) /\ l \in Nat /\ l >= 1
      BY <2>5, <2>13
    <3>2. n + k = (k + j) + v
      BY <1>4, <2>2, <2>4, <2>6, <3>1
    <3>3. at = l + (v + 1)
      BY <2>8, <2>13, <3>1
    <3>4. n \in Nat /\ k \in Nat
      BY <1>4
    <3>5. at - n + j - 1 = l /\ l # 0
      BY <3>1, <3>2, <3>3, <3>4
    <3> QED
      BY <3>1, <3>5
  <2>15. lines[j].kind = "line" /\ lines[j].label = LineOf(x) /\ lines[j].from = x
    BY <1>4, <2>2, <2>14
  <2> QED
    BY <2>3, <2>14, <2>15 DEF Numbered, TrueLabel
<1>8. OwnLines(lines)
  <2>1. IsSequence(lines) /\ DOMAIN lines = 1..n
    BY <1>4, Listed
  <2> QED
    BY <1>7, <2>1 DEF OwnLines
<1>9. OwnLines(first) /\ OwnLines(<<>>)
  <2>1. OwnLines(<<>>)
    BY NoPiece DEF OwnLines
  <2>2. IsGap(Piece("gap", 0, e, e))
    BY DEF IsGap, Piece
  <2>3. PICK g : g = Piece("gap", 0, e, e) /\ IsGap(g)
    BY <2>2
  <2>4. OwnLines(<<g>>)
    <3>1. IsSequence(<<g>>) /\ DOMAIN <<g>> = {1} /\ <<g>>[1] = g
      BY OnePiece
    <3> QED
      BY <2>3, <3>1 DEF OwnLines
  <2> QED
    BY <1>3, <2>1, <2>3, <2>4
<1>10. Joined(b, first, lines) => OwnLines(b)
  BY <1>8, <1>9, JoinOwn
<1> QED
  BY <1>1, <1>3, <1>9, <1>10

(* The strengthening of LabelsTrue: line is the line of end, the last      *)
(* piece is the match that ends there, and every number so far is true.    *)
LabelInv ==
  /\ pc = "search" => /\ line = LineOf(end) /\ Labelled(output)
                      /\ file_match_count = 0 => output = <<>>
                      /\ file_match_count # 0 => EndsIn(output, end)
  /\ pc = "shown" => Labelled(output)

(* The rest of the line of the last match, and the lines after it. *)
LEMMA RestLabelled ==
  ASSUME GrepTypeOK, OrderInv, LabelInv, pc = "search", NEW start \in 0..Len(data),
         NoReturns,
         NEW u, Joined(u, output, Rest(start).pieces)
  PROVE  Labelled(u) /\ IsSequence(Rest(start).pieces)
<1>1. PICK rest : rest = Rest(start).pieces
  OBVIOUS
<1>2. /\ old_line = LineOf(end) /\ Labelled(output)
      /\ file_match_count # 0 => EndsIn(output, end)
      /\ Len(data) \in Nat /\ end \in Nat /\ start \in Nat
  BY DEF LabelInv, OrderInv, Counting, GrepTypeOK
<1>3. IsSequence(rest) /\ Joined(u, output, rest)
  BY <1>1, <1>2, RestIsSequence
<1>a. PICK e : /\ e = PostStop(end) + 1
               /\ \/ file_match_count = 0 /\ rest = <<>>
                  \/ file_match_count # 0 /\ rest = PostText(end)
                  \/ file_match_count # 0 /\ Joined(rest, PostText(end), AfterContext(e, start))
  BY <1>1, <1>2, RestIs, Zenon
<1>4. PICK a : /\ a = AfterContext(e, start)
               /\ \/ file_match_count = 0 /\ rest = <<>>
                  \/ file_match_count # 0 /\ rest = PostText(end)
                  \/ file_match_count # 0 /\ Joined(rest, PostText(end), a)
  BY <1>a, Zenon
<1>5. PICK x : x = Piece("post", 0, end, PostStop(end)) /\ PostText(end) = <<x>>
  BY DEF PostText
<1>6. IsText(x) /\ x.label = 0 /\ x.from = end
  BY <1>5 DEF Piece, IsText
<1>7. OwnLines(a)
  BY <1>2, <1>a, <1>4, AfterNumbers
<1>8. CASE rest = <<>>
  <2>1. u = output
    BY <1>2, <1>3, <1>8, JoinNothing DEF Labelled
  <2> QED
    BY <1>1, <1>2, <1>3, <2>1
<1>9. CASE file_match_count # 0 /\ rest = <<x>>
  <2>1. Joined(u, output, <<x>>)
    BY <1>3, <1>9
  <2>2. Labelled(u)
    BY <1>2, <1>6, <1>9, <2>1, JoinText
  <2> QED
    BY <1>1, <1>3, <2>2
<1>10. CASE file_match_count # 0 /\ Joined(rest, <<x>>, a)
  <2>1. PICK v : v = output \o <<x>> /\ Joined(v, output, <<x>>)
    BY Zenon DEF Joined
  <2>2. Labelled(v)
    BY <1>2, <1>6, <1>10, <2>1, JoinText
  <2>3. Joined(u, v, a)
    <3>1. IsSequence(output) /\ IsSequence(<<x>>) /\ IsSequence(a)
      BY <1>2, <1>7, OnePiece DEF Labelled, OwnLines
    <3>2. u = output \o (<<x>> \o a)
      BY <1>3, <1>10 DEF Joined
    <3> QED
      BY <2>1, <3>1, <3>2, Associates DEF Joined
  <2>4. Labelled(u)
    BY <1>7, <2>2, <2>3, JoinLines
  <2> QED
    BY <1>1, <1>3, <2>4
<1> QED
  BY <1>4, <1>5, <1>8, <1>9, <1>10

(* The contexts, and the number of the line of the match. *)
LEMMA LeadLabelled ==
  ASSUME GrepTypeOK, OrderInv, LabelInv, pc = "search", NEW start \in end..Len(data),
         NoReturns,
         NEW at, at = LineOf(start), NewLine(at),
         NEW u, Joined(u, output, Lead(start, at).pieces)
  PROVE  \E q : Labelled(q) /\ Joined(u, q, <<Piece("label", at, start, start)>>)
<1>1. /\ Len(data) \in Nat /\ end \in 0..Len(data) /\ after \in Nat /\ before \in Nat
      /\ end \in Nat /\ start \in Nat /\ start \in 0..Len(data) /\ end <= start
  BY DEF GrepTypeOK
<1>2. PICK rest, x, context, two, label :
        /\ rest = Rest(start).pieces /\ x = Rest(start).end
        /\ context = BeforeContext(x, start, at) /\ label = <<Piece("label", at, start, start)>>
        /\ Joined(two, rest, context) /\ Joined(Lead(start, at).pieces, two, label)
  BY LeadIs, Zenon
<1>3. x \in Nat
  BY <1>1, <1>2, RestOrder
<1>4. OwnLines(context)
  BY <1>1, <1>2, <1>3, BeforeNumbers
<1>5. PICK p : Joined(p, output, rest)
  BY Zenon DEF Joined
<1>6. Labelled(p) /\ IsSequence(rest)
  BY <1>1, <1>2, <1>5, RestLabelled
<1>7. PICK q : Joined(q, p, context)
  BY Zenon DEF Joined
<1>8. Labelled(q)
  BY <1>4, <1>6, <1>7, JoinLines
<1>9. IsSequence(output) /\ IsSequence(rest) /\ IsSequence(context) /\ IsSequence(label)
  BY <1>2, <1>4, <1>6, OnePiece DEF LabelInv, Labelled, OwnLines
<1>10. Joined(u, q, label)
  <2>1. IsSequence(two)
    BY <1>2, <1>9, JoinedIs
  <2>2. u = output \o (two \o label) /\ two = rest \o context
    BY <1>2 DEF Joined
  <2>3. output \o (two \o label) = (output \o two) \o label
    BY <1>9, <2>1, Associates
  <2>4. output \o two = (output \o rest) \o context
    BY <1>9, <2>2, Associates
  <2>5. q = (output \o rest) \o context
    BY <1>5, <1>7 DEF Joined
  <2> QED
    BY <2>2, <2>3, <2>4, <2>5, Zenon DEF Joined
<1> QED
  BY <1>2, <1>8, <1>10

(* What is printed with the match is begun by a number, or goes on from    *)
(* the match before.                                                       *)
LEMMA MatchLabelled ==
  ASSUME GrepTypeOK, OrderInv, LabelInv, pc = "search", NEW start \in end..Len(data),
         NEW stop \in start..Len(data),
         NoReturns,
         NEW at, at = LineOf(start), at = line + Newlines(line_byte, start),
         NEW x, x = Lead(start, at).end,
         NEW b, Joined(b, output, Lead(start, at).pieces),
         NEW c, Joined(c, b, PreText(x, start)),
         NEW u, Joined(u, c, <<Piece("match", 0, start, stop)>>)
  PROVE  Labelled(u) /\ EndsIn(u, stop)
<1>1. /\ Len(data) \in Nat /\ end \in 0..Len(data) /\ after \in Nat /\ before \in Nat
      /\ end \in Nat /\ start \in Nat /\ start \in 0..Len(data) /\ end <= start /\ stop \in Nat
      /\ old_line \in Nat /\ line_byte = end /\ file_match_count \in Nat
  BY DEF GrepTypeOK
<1>2. /\ line = old_line /\ Labelled(output) /\ Counting
      /\ file_match_count # 0 => EndsIn(output, end)
  BY DEF LabelInv, OrderInv, Counting
<1>3. PICK f : f = PreFrom(x, start)
  OBVIOUS
<1>4. PICK m, p : /\ m = Piece("match", 0, start, stop) /\ p = Piece("pre", 0, f, start)
                  /\ Joined(u, c, <<m>>)
  OBVIOUS
<1>5. /\ IsText(m) /\ m.label = 0 /\ m.from = start /\ m.kind = "match" /\ m.to = stop
      /\ IsText(p) /\ p.label = 0 /\ p.from = f
  BY <1>4 DEF Piece, IsText
<1>6. PreText(x, start) = IF f < start THEN <<p>> ELSE <<>>
  BY <1>3, <1>4, Zenon DEF PreText, PreFrom
<1>7. PICK s : s = LineStart(start)
  OBVIOUS
<1>8. /\ s \in 0..start
      /\ s # 0 => IsNewline(s - 1)
      /\ \A j \in s..(start - 1) : ~IsNewline(j)
  BY <1>1, <1>7, LineStartIs
<1>9. Begins(start) => s = start
  BY <1>1, <1>7, LineBegins DEF Begins
<1>10. ASSUME ~NewLine(at) PROVE Labelled(u)
  <2>1. Lead(start, at).pieces = <<>> /\ x = end
    BY <1>10, LeadIs
  <2>2. b = output
    BY <1>2, <2>1, JoinNothing DEF Labelled
  <2>3. EndsIn(output, end) /\ Newlines(end, start) = 0
    <3>1. Newlines(end, start) \in Nat
      BY <1>1, NewlinesNat
    <3> QED
      BY <1>1, <1>2, <1>10, <3>1 DEF NewLine
  <2>4. \A j \in end..(start - 1) : ~IsNewline(j)
    BY <1>1, <2>3, NoNewlines
  <2>5. s <= end
    <3>1. s > end => s - 1 \in end..(start - 1) /\ s # 0
      BY <1>1, <1>8
    <3> QED
      BY <1>1, <1>8, <2>4, <3>1
  <2>6. f = end
    BY <1>1, <1>3, <1>7, <1>8, <2>1, <2>5 DEF PreFrom
  <2>7. ASSUME end = start PROVE Labelled(u)
    <3>1. Joined(c, output, <<>>)
      BY <1>6, <2>2, <2>6, <2>7
    <3>2. c = output
      BY <1>2, <3>1, JoinNothing DEF Labelled
    <3> QED
      BY <1>2, <1>4, <1>5, <2>3, <2>7, <3>2, JoinText
  <2>8. ASSUME end < start PROVE Labelled(u)
    <3>1. Joined(c, output, <<p>>)
      BY <1>6, <2>2, <2>6, <2>8
    <3>2. Labelled(c)
      BY <1>2, <1>5, <2>3, <2>6, <3>1, JoinText
    <3>3. ~Begins(start)
      BY <1>1, <1>9, <2>5, <2>8
    <3> QED
      BY <1>4, <1>5, <3>2, <3>3, JoinText
  <2> QED
    BY <1>1, <2>7, <2>8
<1>11. ASSUME NewLine(at) PROVE Labelled(u)
  <2>1. PICK l, q : l = Piece("label", at, start, start) /\ Labelled(q) /\ Joined(b, q, <<l>>)
    BY <1>11, LeadLabelled
  <2>2. l.kind = "label" /\ l.label = at
    BY <2>1 DEF Piece
  <2>3. Begins(s) /\ LineOf(s) = at
    BY <1>1, <1>7, <1>8, LineOfStart DEF Begins
  <2>4. x \in Nat /\ x <= s
    <3>1. x = Rest(start).end
      BY <1>11, LeadIs
    <3>2. (file_match_count = 0 /\ end = 0) \/ Newlines(end, start) # 0
      BY <1>1, <1>2, <1>11, OnNewLine
    <3> QED
      BY <1>1, <1>7, <3>1, <3>2, RestOrder, RestBefore
  <2>5. f = s
    BY <1>1, <1>3, <1>7, <1>8, <2>4 DEF PreFrom
  <2>6. IsSequence(b)
    BY <2>1, JoinOne DEF Labelled
  <2>7. ASSUME s = start PROVE Labelled(u)
    <3>1. Joined(c, b, <<>>)
      BY <1>1, <1>6, <2>5, <2>7
    <3>2. c = b
      BY <2>6, <3>1, JoinNothing
    <3>3. TrueLabel(l.label, m.from)
      BY <1>5, <2>2, <2>3, <2>7 DEF TrueLabel
    <3> QED
      BY <1>4, <1>5, <2>1, <2>2, <3>2, <3>3, JoinLabelled
  <2>8. ASSUME s < start PROVE Labelled(u)
    <3>1. Joined(c, b, <<p>>)
      BY <1>6, <2>5, <2>8
    <3>2. TrueLabel(l.label, p.from)
      BY <1>5, <2>2, <2>3, <2>5 DEF TrueLabel
    <3>3. Labelled(c)
      BY <1>5, <2>1, <2>2, <3>1, <3>2, JoinLabelled
    <3>4. ~Begins(start)
      BY <1>1, <1>9, <2>8
    <3> QED
      BY <1>4, <1>5, <3>3, <3>4, JoinText
  <2> QED
    BY <1>1, <1>8, <2>7, <2>8
<1>12. IsSequence(c)
  <2>1. PICK lead, pre : /\ lead = Lead(start, at).pieces /\ pre = PreText(x, start)
                         /\ IsSequence(lead) /\ IsSequence(pre)
    BY <1>1, LeadIsSequence, PreTextIsSequence
  <2>2. IsSequence(b)
    BY <1>2, <2>1, JoinedIs DEF Labelled
  <2> QED
    BY <2>1, <2>2, JoinedIs
<1>13. Len(u) = Len(c) + 1 /\ u[Len(c) + 1] = m /\ Len(c) \in Nat
  BY <1>4, <1>12, JoinOne
<1>14. EndsIn(u, stop)
  <2>1. Len(u) > 0 /\ u[Len(u)] = m
    BY <1>13
  <2> QED
    BY <1>5, <2>1 DEF EndsIn
<1> QED
  BY <1>10, <1>11, <1>14

(* The data of a file does not change while it is searched. *)
LEMMA LabelledNext ==
  ASSUME data' = data, NEW s, s = output', Labelled(s)
  PROVE  Labelled(output)'
<1>1. \A p : Begins(p)' <=> Begins(p)
  BY DEF Begins, IsNewline
<1>2. \A l, p : TrueLabel(l, p)' <=> TrueLabel(l, p)
  <2>1. \A p : LineOf(p)' = LineOf(p)
    BY DEF LineOf, IsNewline
  <2> QED
    BY <1>1, <2>1, Zenon DEF TrueLabel
<1>3. \A i : PieceOK(s, i)' <=> PieceOK(s, i)
  BY <1>1, <1>2 DEF PieceOK
<1> QED
  BY <1>3, Zenon DEF Labelled

LEMMA LineOfNext ==
  ASSUME data' = data, NEW p, p = end'
  PROVE  LineOf(end)' = LineOf(p)
BY DEF LineOf, IsNewline

LEMMA StepLabelInv ==
  ASSUME NeverEmptyAtEnd, GrepInv, OrderInv, NoReturns => LabelInv, [GrepNext]_grepVars
  PROVE  (NoReturns => LabelInv)'
<1> SUFFICES ASSUME NoReturns' PROVE LabelInv'
  OBVIOUS
<1>1. GrepTypeOK /\ StartsInData
  BY DEF GrepInv
<1>2. data' = data => LabelInv /\ NoReturns
  BY DEF NoReturns
<1>3. CASE ShowMatch
  <2>1. PICK r \in Find(expr, data, pos) :
          LET at == line + Newlines(line_byte, r.start)
              lead == Lead(r.start, at)
          IN  /\ output' = output \o lead.pieces \o PreText(lead.end, r.start)
                           \o <<Piece("match", 0, r.start, r.end)>>
              /\ end' = r.end /\ line' = at + Newlines(r.start, r.end)
    BY <1>3 DEF ShowMatch
  <2>2. /\ expr \in Patterns /\ file \in Entries /\ IsFile(file) /\ data = file.content
        /\ pos \in 0..Len(data) /\ Len(data) \in Nat /\ end \in 0..Len(data) /\ end <= pos
        /\ pc = "search" /\ line_byte = end /\ end \in Nat
    BY <1>1, <1>3 DEF ShowMatch, GrepTypeOK, StartsInData
  <2>3. r.start \in pos..Len(data) /\ r.end \in r.start..Len(data)
    BY <2>2, FoundWithin
  <2>4. PICK start, stop : start = r.start /\ stop = r.end
    OBVIOUS
  <2>5. /\ start \in Nat /\ stop \in Nat /\ start \in end..Len(data) /\ stop \in start..Len(data)
        /\ end <= start /\ start <= stop
    BY <2>2, <2>3, <2>4
  <2>6. PICK at : at = line + Newlines(line_byte, start)
    OBVIOUS
  <2>7. at = LineOf(start)
    BY <1>2, <1>3, <2>2, <2>5, <2>6, LineOfFurther DEF LabelInv, ShowMatch
  <2>8. PICK lead, x : lead = Lead(start, at).pieces /\ x = Lead(start, at).end
    OBVIOUS
  <2>9. PICK pre, match : pre = PreText(x, start) /\ match = <<Piece("match", 0, start, stop)>>
    OBVIOUS
  <2>10. output' = output \o lead \o pre \o match
    BY <2>1, <2>4, <2>6, <2>8, <2>9, Zenon
  <2>11. PICK out : out = output'
    OBVIOUS
  <2>12. PICK b, c : /\ Joined(b, output, lead) /\ Joined(c, b, pre) /\ Joined(out, c, match)
    BY <2>10, <2>11, Zenon DEF Joined
  <2>13. /\ Joined(b, output, Lead(start, at).pieces) /\ Joined(c, b, PreText(x, start))
         /\ Joined(out, c, <<Piece("match", 0, start, stop)>>)
    BY <2>8, <2>9, <2>12, Zenon
  <2>a. LabelInv /\ NoReturns
    BY <1>2, <1>3 DEF ShowMatch
  <2>14. Labelled(out) /\ EndsIn(out, stop)
    BY <1>1, <2>2, <2>5, <2>6, <2>7, <2>8, <2>13, <2>a, MatchLabelled
  <2>15. data' = data /\ pc' = pc /\ end' = stop /\ file_match_count' # 0
    BY <1>1, <1>3, <2>1, <2>4 DEF ShowMatch, GrepTypeOK
  <2>16. Labelled(output)' /\ EndsIn(output', end')
    BY <2>11, <2>14, <2>15, LabelledNext, Zenon
  <2>17. line' = LineOf(stop)
    BY <2>1, <2>4, <2>5, <2>6, <2>7, LineOfFurther
  <2>18. LineOf(end)' = LineOf(stop)
    BY <2>15, LineOfNext
  <2> QED
    BY <2>2, <2>15, <2>16, <2>17, <2>18 DEF LabelInv, EndsIn
<1>4. CASE LastMatch
  <2>1. pc = "search" /\ pc' = "shown" /\ data' = data /\ Len(data) \in 0..Len(data)
    BY <1>1, <1>4 DEF LastMatch, GrepTypeOK
  <2>2. PICK out : out = output'
    OBVIOUS
  <2>3. Joined(out, output, Rest(Len(data)).pieces)
    BY <1>4, <2>2 DEF LastMatch, Joined
  <2>4. Labelled(out)
    BY <1>1, <1>2, <2>1, <2>3, RestLabelled
  <2>5. Labelled(output)'
    BY <2>1, <2>2, <2>4, LabelledNext
  <2> QED
    BY <2>1, <2>5 DEF LabelInv
<1>5. CASE ReadEnd
  <2>1. /\ pc' = "search" /\ output' = <<>> /\ end' = 0 /\ line' = 1 /\ file_match_count' = 0
        /\ data' = data
    BY <1>5 DEF ReadEnd, ResetLocals
  <2>2. Labelled(<<>>)
    BY NoPiece DEF Labelled
  <2>3. Labelled(output)'
    BY <2>1, <2>2, LabelledNext
  <2>4. LineOf(0) = 1
    <3>1. Newlines(0, 0) = 0
      BY NoNewlines
    <3> QED
      BY <3>1 DEF LineOf, Newlines
  <2>5. LineOf(end)' = LineOf(0)
    BY <2>1, LineOfNext
  <2> QED
    BY <2>1, <2>3, <2>4, <2>5 DEF LabelInv
<1>6. CASE UNCHANGED grepVars
  <2>1. /\ data' = data /\ output' = output /\ end' = end /\ line' = line /\ pc' = pc
        /\ file_match_count' = file_match_count
    BY <1>6 DEF grepVars, options, locals
  <2>2. Labelled(output) => Labelled(output)'
    BY <2>1, LabelledNext
  <2>3. LineOf(end)' = LineOf(end)
    BY <2>1, LineOfNext
  <2> QED
    BY <1>2, <2>1, <2>2, <2>3 DEF LabelInv, EndsIn
<1>7. CASE ~ShowMatch /\ ~LastMatch /\ ~ReadEnd /\ ~UNCHANGED grepVars
  <2>1. pc' \notin {"search", "shown"}
    BY <1>7 DEF GrepNext, GrepTurn, Main, FindNothing, FindDirectory, FindFile, ReadChunk,
                ReadError, CloseFile, GrepEnd, Again
  <2> QED
    BY <2>1 DEF LabelInv
<1> QED
  BY <1>3, <1>4, <1>5, <1>6, <1>7

(* What the invariants say of the pieces, said of lines. *)
LEMMA LabelledTrue ==
  ASSUME Labelled(output),
         \A i \in DOMAIN output : IsText(output[i]) => output[i].from \in Nat
  PROVE  LabelsTrue
<1>1. ASSUME NEW i \in DOMAIN output,
             NEW text, text = IF output[i].kind = "label" THEN output[i + 1] ELSE output[i],
             output[i].label # 0
      PROVE  text.from = LineStart(text.from) /\ output[i].label = LineOf(text.from)
  <2>1. IsText(text) /\ TrueLabel(output[i].label, text.from)
    BY <1>1 DEF Labelled, PieceOK
  <2>2. text.from \in Nat
    <3>1. CASE output[i].kind = "label"
      <4>1. i + 1 \in DOMAIN output
        <5>1. PICK S : output \in Seq(S)
          BY DEF Labelled, IsSequence
        <5>2. DOMAIN output = 1..Len(output) /\ Len(output) \in Nat
          BY <5>1
        <5>3. i < Len(output)
          BY <1>1, <3>1 DEF Labelled, PieceOK
        <5> QED
          BY <1>1, <5>2, <5>3
      <4> QED
        BY <1>1, <2>1, <3>1, <4>1
    <3>2. CASE output[i].kind # "label"
      BY <1>1, <2>1, <3>2
    <3> QED
      BY <3>1, <3>2
  <2> QED
    BY <2>1, <2>2, LineBegins DEF TrueLabel, Begins
<1>2. ASSUME NEW i \in DOMAIN output, IsText(output[i]), output[i].label = 0,
             output[i].from < output[i].to, output[i].from = LineStart(output[i].from)
      PROVE  /\ i > 1
             /\ \/ output[i - 1].kind = "label"
                \/ output[i - 1].kind = "match" /\ output[i - 1].to = output[i].from
  <2>1. Begins(output[i].from)
    BY <1>2, LineBegins DEF Begins
  <2>2. Preceded(output, i)
    BY <1>2, <2>1 DEF Labelled, PieceOK
  <2> QED
    BY <2>2 DEF Preceded
<1> QED
  BY <1>1, <1>2, Zenon DEF LabelsTrue

(* Every number printed is that of the line that follows it, and no line   *)
(* is begun without its number: the lines counted by find_line, those      *)
(* shown after a match counted on, those shown before one counted back.    *)
THEOREM NumbersTrue ==
  ASSUME NeverEmptyAtEnd
  PROVE  GrepSpec => [](NoReturns => LabelsTrue)
<1>1. GrepInv /\ [GrepNext]_grepVars => GrepInv'
  BY StepGrepInv
<1>2. GrepInv /\ OrderInv /\ [GrepNext]_grepVars => OrderInv'
  BY StepOrderInv
<1>3. GrepInv /\ OrderInv /\ (NoReturns => LabelInv) /\ [GrepNext]_grepVars => (NoReturns => LabelInv)'
  BY StepLabelInv
<1>4. GrepInit => OrderInv /\ LabelInv
  BY DEF GrepInit, OrderInv, LabelInv
<1>5. OrderInv /\ LabelInv => LabelsTrue
  <2> SUFFICES ASSUME OrderInv, LabelInv PROVE LabelsTrue
    OBVIOUS
  <2>1. CASE pc = "search"
    BY <2>1, LabelledTrue DEF OrderInv, LabelInv, InOrder
  <2>2. CASE pc = "shown"
    BY <2>2, LabelledTrue DEF OrderInv, LabelInv, InOrder
  <2>3. CASE pc \notin {"search", "shown"}
    BY <2>3 DEF OrderInv, LabelsTrue
  <2> QED
    BY <2>1, <2>2, <2>3
<1> QED
  BY InitGrepInv, <1>1, <1>2, <1>3, <1>4, <1>5, PTL DEF GrepSpec

-----------------------------------------------------------------------------
(* Grep shows the context that was asked for: the lines from -B before a   *)
(* match to -A after it, and no others, in files whose lines all end with  *)
(* a newline and hold no carriage return.                                  *)

(* As a line of context, a last line without a newline is not shown. *)
WholeLines == Len(data) = 0 \/ IsNewline(Len(data) - 1)

Pieces(s) == {s[k] : k \in DOMAIN s}

(* A set of pieces shows the data at i, and begins line l: with its number *)
(* or with a match that goes over its beginning.                           *)
Covers(P, i) == \E x \in P : IsText(x) /\ x.from <= i /\ i < x.to
Crosses(x, l) == x.kind = "match" /\ LineOf(x.from) < l /\ l <= LineOf(x.to)
Starts(P, l) == \E x \in P : x.label = l \/ Crosses(x, l)

(* The lines asked for with a match. *)
Around(x) == {l \in Nat : LineOf(x.from) - before <= l /\ l <= LineOf(x.to) + after}
Wanted(P) == {l \in Nat : \E x \in P : x.kind = "match" /\ l \in Around(x)}

(* Of the data from p to q, and of the lines from a to b, these pieces     *)
(* show what is on the lines of W, and nothing else.                       *)
Shows(P, p, q, a, b, W) ==
  /\ \A x \in P : IsText(x) => /\ x.from \in Nat /\ x.to \in Nat
                               /\ p <= x.from /\ x.from <= x.to /\ x.to <= q
  /\ \A i \in p..(q - 1) : ~IsNewline(i) => (Covers(P, i) <=> LineOf(i) \in W)
  /\ \A l \in Nat \ {0} : Starts(P, l) <=> a <= l /\ l < b /\ l \in W
  /\ \A x \in P : x.kind = "match" => Around(x) \subseteq W

-----------------------------------------------------------------------------
(* Lines and positions. *)

LEMMA LineNat ==
  ASSUME NEW i \in Nat
  PROVE  LineOf(i) \in Nat /\ LineOf(i) >= 1
BY LineOfFurther

LEMMA LineGrows ==
  ASSUME NEW i \in Nat, NEW j \in Nat, i <= j
  PROVE  LineOf(i) <= LineOf(j)
<1>1. Newlines(i, j) \in Nat
  BY NewlinesNat
<1> QED
  BY <1>1, LineOfFurther

(* The positions before the beginning of a line are on earlier lines. *)
LEMMA LineBegun ==
  ASSUME NEW i \in Nat, NEW j \in Nat, Begins(j)
  PROVE  i < j <=> LineOf(i) < LineOf(j)
<1>1. LineOf(i) \in Nat /\ LineOf(j) \in Nat
  BY LineNat
<1>2. ASSUME i < j PROVE LineOf(i) < LineOf(j)
  <2>1. IsNewline(j - 1) /\ j - 1 \in Nat /\ i <= j - 1
    BY <1>2 DEF Begins
  <2>2. Newlines(i, j) \in Nat /\ Newlines(i, j) # 0
    <3>1. j - 1 \in i..(j - 1)
      BY <2>1
    <3> QED
      BY <2>1, <3>1, NewlinesNat, NoNewlines
  <2> QED
    BY <1>1, <1>2, <2>2, LineOfFurther
<1>3. ASSUME j <= i PROVE LineOf(j) <= LineOf(i)
  BY <1>3, LineGrows
<1> QED
  BY <1>1, <1>2, <1>3

(* And those up to a newline are not on later ones. *)
LEMMA LineEnded ==
  ASSUME NEW i \in Nat, NEW j \in Nat, IsNewline(j)
  PROVE  /\ i <= j <=> LineOf(i) <= LineOf(j)
         /\ LineOf(j + 1) = LineOf(j) + 1 /\ Begins(j + 1)
<1>1. LineOf(i) \in Nat /\ LineOf(j) \in Nat
  BY LineNat
<1>2. LineOf(j + 1) = LineOf(j) + 1
  <2>1. Newlines(j, j + 1) = 1
    BY OneNewline
  <2> QED
    BY <2>1, LineOfFurther
<1>3. Begins(j + 1)
  BY DEF Begins
<1>4. i < j + 1 <=> LineOf(i) < LineOf(j + 1)
  BY <1>3, LineBegun
<1> QED
  BY <1>1, <1>2, <1>3, <1>4

(* Between two positions without a newline the line is the same. *)
LEMMA SameLine ==
  ASSUME NEW i \in Nat, NEW j \in Nat, i <= j, \A k \in i..(j - 1) : ~IsNewline(k)
  PROVE  LineOf(i) = LineOf(j)
<1>1. Newlines(i, j) = 0
  BY NoNewlines
<1> QED
  BY <1>1, LineOfFurther

-----------------------------------------------------------------------------
(* Pieces put together.                                                    *)

LEMMA JoinPieces ==
  ASSUME NEW u, NEW s, NEW t, Joined(u, s, t), IsSequence(s), IsSequence(t)
  PROVE  Pieces(u) = Pieces(s) \cup Pieces(t) /\ IsSequence(u)
<1>1. /\ IsSequence(u) /\ Len(s) \in Nat /\ Len(t) \in Nat
      /\ DOMAIN s = 1..Len(s) /\ DOMAIN t = 1..Len(t)
      /\ DOMAIN u = 1..(Len(s) + Len(t))
      /\ \A i \in 1..Len(s) : u[i] = s[i]
      /\ \A i \in (Len(s) + 1)..(Len(s) + Len(t)) : u[i] = t[i - Len(s)]
  BY JoinedIs
<1>2. PICK n \in Nat, m \in Nat : n = Len(s) /\ m = Len(t)
  BY <1>1
<1>3. ASSUME NEW k \in DOMAIN u PROVE u[k] \in Pieces(s) \cup Pieces(t)
  <2>1. k \in 1..n \/ (k \in (n + 1)..(n + m) /\ k - n \in 1..m)
    BY <1>1, <1>2, <1>3
  <2> QED
    BY <1>1, <1>2, <2>1 DEF Pieces
<1>4. ASSUME NEW k \in DOMAIN s PROVE s[k] \in Pieces(u)
  <2>1. k \in 1..n /\ k \in 1..(n + m)
    BY <1>1, <1>2, <1>4
  <2> QED
    BY <1>1, <1>2, <2>1 DEF Pieces
<1>5. ASSUME NEW k \in DOMAIN t PROVE t[k] \in Pieces(u)
  <2>1. PICK j \in Nat : j = k + n
    BY <1>1, <1>2, <1>5
  <2>2. j \in (n + 1)..(n + m) /\ j \in 1..(n + m) /\ j - n = k
    BY <1>1, <1>2, <1>5, <2>1
  <2>3. u[j] = t[k]
    BY <1>1, <1>2, <2>2
  <2> QED
    BY <1>1, <1>2, <2>2, <2>3 DEF Pieces
<1> QED
  BY <1>1, <1>3, <1>4, <1>5 DEF Pieces

LEMMA OnePieces == \A x : Pieces(<<x>>) = {x}
BY DEF Pieces

LEMMA NoPieces == Pieces(<<>>) = {}
BY DEF Pieces

(* What two sets of pieces show one after the other. *)
LEMMA ShowsBoth ==
  ASSUME NEW p \in Nat, NEW q \in Nat, NEW r \in Nat, p <= q, q <= r,
         NEW a \in Nat, NEW b \in Nat, NEW c \in Nat, a <= b, b <= c,
         NEW P, NEW Q, NEW W, Shows(P, p, q, a, b, W), Shows(Q, q, r, b, c, W)
  PROVE  Shows(P \cup Q, p, r, a, c, W)
<1> DEFINE R == P \cup Q
<1>1. /\ \A x \in P : IsText(x) => /\ x.from \in Nat /\ x.to \in Nat
                                   /\ p <= x.from /\ x.from <= x.to /\ x.to <= q
      /\ \A x \in Q : IsText(x) => /\ x.from \in Nat /\ x.to \in Nat
                                   /\ q <= x.from /\ x.from <= x.to /\ x.to <= r
  BY DEF Shows
<1>2. \A x \in R : IsText(x) => /\ x.from \in Nat /\ x.to \in Nat
                                /\ p <= x.from /\ x.from <= x.to /\ x.to <= r
  BY <1>1
<1>3. ASSUME NEW i \in p..(r - 1), ~IsNewline(i) PROVE Covers(R, i) <=> LineOf(i) \in W
  <2>1. Covers(R, i) <=> Covers(P, i) \/ Covers(Q, i)
    BY DEF Covers
  <2>2. CASE i < q
    <3>1. ~Covers(Q, i)
      BY <1>1, <2>2 DEF Covers
    <3>2. Covers(P, i) <=> LineOf(i) \in W
      <4>1. i \in p..(q - 1)
        BY <2>2
      <4> QED
        BY <1>3, <4>1 DEF Shows
    <3> QED
      BY <2>1, <3>1, <3>2
  <2>3. CASE i >= q
    <3>1. ~Covers(P, i)
      BY <1>1, <2>3 DEF Covers
    <3>2. Covers(Q, i) <=> LineOf(i) \in W
      <4>1. i \in q..(r - 1)
        BY <2>3
      <4> QED
        BY <1>3, <4>1 DEF Shows
    <3> QED
      BY <2>1, <3>1, <3>2
  <2> QED
    BY <2>2, <2>3
<1>4. ASSUME NEW l \in Nat \ {0} PROVE Starts(R, l) <=> a <= l /\ l < c /\ l \in W
  <2>1. Starts(R, l) <=> Starts(P, l) \/ Starts(Q, l)
    BY DEF Starts
  <2>2. Starts(P, l) <=> a <= l /\ l < b /\ l \in W
    BY DEF Shows
  <2>3. Starts(Q, l) <=> b <= l /\ l < c /\ l \in W
    BY DEF Shows
  <2>4. (a <= l /\ l < c) <=> (a <= l /\ l < b) \/ (b <= l /\ l < c)
    OBVIOUS
  <2> QED
    BY <2>1, <2>2, <2>3, <2>4
<1>5. \A x \in R : x.kind = "match" => Around(x) \subseteq W
  BY DEF Shows
<1> HIDE DEF R
<1>6. Shows(R, p, r, a, c, W)
  BY <1>2, <1>3, <1>4, <1>5 DEF Shows
<1> QED
  BY <1>6 DEF R

(* A text without number, that shows all between p and q. *)
LEMMA TextShows ==
  ASSUME NEW p \in Nat, NEW q \in Nat, NEW a \in Nat, NEW W,
         NEW x, IsText(x), x.kind # "match", x.label = 0,
         x.from = p, x.to \in Nat, p <= x.to, x.to <= q,
         \A i \in p..(q - 1) : ~IsNewline(i) => i < x.to /\ LineOf(i) \in W
  PROVE  Shows({x}, p, q, a, a, W)
<1>1. ASSUME NEW i \in p..(q - 1), ~IsNewline(i) PROVE Covers({x}, i) /\ LineOf(i) \in W
  BY <1>1 DEF Covers
<1>2. \A l \in Nat \ {0} : ~Starts({x}, l)
  BY DEF Starts, Crosses
<1>3. \A l \in Nat : ~(a <= l /\ l < a)
  OBVIOUS
<1> QED
  BY <1>1, <1>2, <1>3 DEF Shows

(* Nothing, where there is nothing to be shown. *)
LEMMA NothingShows ==
  ASSUME NEW p \in Nat, NEW q \in Nat, NEW a \in Nat, NEW b \in Nat, NEW W,
         \A i \in p..(q - 1) : ~IsNewline(i) => LineOf(i) \notin W,
         \A l \in Nat : a <= l /\ l < b => l \notin W
  PROVE  Shows({}, p, q, a, b, W)
<1>1. \A i : ~Covers({}, i)
  BY DEF Covers
<1>2. \A l : ~Starts({}, l)
  BY DEF Starts
<1> QED
  BY <1>1, <1>2 DEF Shows

(* A match. *)
LEMMA MatchShows ==
  ASSUME NEW start \in Nat, NEW stop \in Nat, start <= stop, NEW W,
         NEW x, x = Piece("match", 0, start, stop),
         before \in Nat, after \in Nat,
         Around(x) \subseteq W
  PROVE  Shows({x}, start, stop, LineOf(start) + 1, LineOf(stop) + 1, W)
<1>1. IsText(x) /\ x.kind = "match" /\ x.label = 0 /\ x.from = start /\ x.to = stop
  BY DEF Piece, IsText
<1>2. LineOf(start) \in Nat /\ LineOf(stop) \in Nat
  BY LineNat
<1>3. \A l \in Nat : LineOf(start) <= l /\ l <= LineOf(stop) => l \in W
  BY <1>1, <1>2 DEF Around
<1>4. ASSUME NEW i \in start..(stop - 1) PROVE Covers({x}, i) /\ LineOf(i) \in W
  <2>1. LineOf(i) \in Nat /\ LineOf(start) <= LineOf(i) /\ LineOf(i) <= LineOf(stop)
    BY LineNat, LineGrows
  <2> QED
    BY <1>1, <1>3, <2>1 DEF Covers
<1>5. ASSUME NEW l \in Nat \ {0}
      PROVE  Starts({x}, l) <=> LineOf(start) + 1 <= l /\ l < LineOf(stop) + 1 /\ l \in W
  <2>1. Starts({x}, l) <=> LineOf(start) < l /\ l <= LineOf(stop)
    BY <1>1 DEF Starts, Crosses
  <2> QED
    BY <1>2, <1>3, <2>1
<1> QED
  BY <1>1, <1>4, <1>5 DEF Shows

-----------------------------------------------------------------------------
(* The lines of context.                                                   *)

WholeLine(x) ==
  /\ x.kind = "line" /\ x.from \in Nat /\ x.to \in Nat /\ x.from <= x.to
  /\ Begins(x.from) /\ LineOf(x.from) = x.label
  /\ IsNewline(x.to) /\ LineOf(x.to) = x.label

(* The lines from c to b, each whole, with a gap or without.               *)
LEMMA LinesShow ==
  ASSUME NEW p \in Nat, NEW q \in Nat, Begins(p), Begins(q),
         NEW a, a = LineOf(p), NEW b, b = LineOf(q),
         NEW c \in Nat, a <= c, c <= b,
         NEW W, \A l \in a..(b - 1) : l \in W <=> c <= l,
         NEW P, \A x \in P : (WholeLine(x) /\ x.label \in c..(b - 1)) \/ IsGap(x),
         \A l \in c..(b - 1) : \E x \in P : WholeLine(x) /\ x.label = l
  PROVE  Shows(P, p, q, a, b, W)
<1>1. a \in Nat /\ b \in Nat /\ a >= 1
  BY LineNat
<1>2. \A x \in P : IsText(x) => WholeLine(x) /\ c <= x.label /\ x.label < b
  <2>1. \A x : IsGap(x) => ~IsText(x)
    BY DEF IsGap, IsText
  <2> QED
    BY <1>1, <2>1
<1>3. ASSUME NEW x \in P, IsText(x)
      PROVE  /\ x.from \in Nat /\ x.to \in Nat
             /\ p <= x.from /\ x.from <= x.to /\ x.to <= q
  <2>1. WholeLine(x) /\ c <= x.label /\ x.label < b
    BY <1>2, <1>3
  <2>2. PICK f \in Nat, t \in Nat, l \in Nat :
          /\ f = x.from /\ t = x.to /\ l = x.label /\ f <= t /\ LineOf(f) = l /\ LineOf(t) = l
    BY <2>1, LineNat DEF WholeLine
  <2>3. p <= f
    BY <1>1, <2>1, <2>2, LineBegun
  <2>4. t < q
    BY <1>1, <2>1, <2>2, LineBegun
  <2> QED
    BY <2>2, <2>3, <2>4
<1>4. ASSUME NEW i \in p..(q - 1), ~IsNewline(i) PROVE Covers(P, i) <=> LineOf(i) \in W
  <2>1. PICK m \in Nat : m = LineOf(i) /\ a <= m /\ m < b
    BY LineNat, LineGrows, LineBegun
  <2>2. LineOf(i) \in W <=> c <= m
    BY <1>1, <2>1
  <2>3. ASSUME NEW x \in P, WholeLine(x)
        PROVE  x.from <= i /\ i < x.to <=> x.label = m
    <3>1. PICK f \in Nat, t \in Nat, l \in Nat :
            /\ f = x.from /\ t = x.to /\ l = x.label /\ LineOf(f) = l /\ LineOf(t) = l
            /\ Begins(f) /\ IsNewline(t)
      BY <2>3, LineNat DEF WholeLine
    <3>2. i < f <=> m < l
      BY <2>1, <3>1, LineBegun
    <3>3. i <= t <=> m <= l
      BY <2>1, <3>1, LineEnded
    <3>4. i # t
      BY <1>4, <3>1
    <3> QED
      BY <3>1, <3>2, <3>3, <3>4
  <2>4. ASSUME Covers(P, i) PROVE c <= m
    <3>1. PICK x \in P : IsText(x) /\ x.from <= i /\ i < x.to
      BY <2>4 DEF Covers
    <3> QED
      BY <1>2, <2>3, <3>1
  <2>5. ASSUME c <= m PROVE Covers(P, i)
    <3>1. PICK x \in P : WholeLine(x) /\ x.label = m
      BY <1>1, <2>1, <2>5
    <3>2. IsText(x)
      BY <3>1 DEF WholeLine, IsText
    <3> QED
      BY <2>3, <3>1, <3>2 DEF Covers
  <2> QED
    BY <2>2, <2>4, <2>5
<1>5. \A x \in P : x.kind # "match"
  BY DEF WholeLine, IsGap
<1>6. ASSUME NEW l \in Nat \ {0} PROVE Starts(P, l) <=> a <= l /\ l < b /\ l \in W
  <2>1. Starts(P, l) <=> \E x \in P : x.label = l
    BY <1>5 DEF Starts, Crosses
  <2>2. (\E x \in P : x.label = l) <=> c <= l /\ l < b
    <3>1. ASSUME NEW x \in P, x.label = l PROVE c <= l /\ l < b
      <4>1. ~IsGap(x)
        BY <3>1 DEF IsGap
      <4> QED
        BY <1>1, <3>1, <4>1
    <3>2. ASSUME c <= l, l < b PROVE \E x \in P : x.label = l
      BY <1>1, <3>2
    <3> QED
      BY <3>1, <3>2
  <2>3. (a <= l /\ l < b) => (l \in W <=> c <= l)
    BY <1>1
  <2> QED
    BY <1>1, <2>1, <2>2, <2>3
<1> QED
  BY <1>3, <1>4, <1>5, <1>6 DEF Shows

(* show_after_context shows as many lines as -A allows, or as there are.   *)
LEMMA AfterAll ==
  ASSUME NEW e \in Nat, NEW start \in Nat, after \in Nat,
         NEW S, S = AfterStops(e, start), NEW n, n = Cardinality(S)
  PROVE  /\ n \in Nat /\ n <= after
         /\ n < after => S = NewlineSet(e, start)
<1> DEFINE All == NewlineSet(e, start)
           Under(y) == {l \in All : l < y}
<1>1. S = {i \in All : Cardinality(Under(i)) < after}
  BY DEF AfterStops, NewlineSet
<1>2. IsFiniteSet(All) /\ All \subseteq Nat
  BY NewlineSetFinite
<1>3. IsFiniteSet(S) /\ S \subseteq Nat /\ n \in Nat
  BY AfterStopsFacts
<1> HIDE DEF All
<1>4. ASSUME n # 0 PROVE n <= after
  <2>1. PICK x \in S : Cardinality(UpTo(S, x)) = n
    BY <1>3, <1>4, NthExists
  <2>2. Cardinality(Under(x)) < after
    BY <1>1
  <2>3. UpTo(S, x) = Under(x) \cup {x} /\ x \notin Under(x)
    <3>1. NewlineSet(e, x + 1) = UpTo(S, x)
      BY AfterCount
    <3>2. x \in All /\ x \in Nat
      BY <1>1, <1>2
    <3>3. NewlineSet(e, x + 1) = Under(x) \cup {x}
      BY <3>2 DEF All, NewlineSet
    <3> QED
      BY <3>1, <3>2, <3>3
  <2>4. IsFiniteSet(Under(x)) /\ Cardinality(Under(x)) \in Nat
    <3>1. Under(x) \in SUBSET All
      OBVIOUS
    <3> QED
      BY <1>2, <3>1, FS_Subset, FS_CardinalityType
  <2>5. n = Cardinality(Under(x)) + 1
    BY <2>1, <2>3, <2>4, FS_AddElement
  <2> QED
    BY <2>2, <2>4, <2>5
<1>5. ASSUME n < after PROVE S = All
  <2> SUFFICES ASSUME S # All PROVE FALSE
    OBVIOUS
  <2>1. PICK T : T = All \ S /\ T \subseteq Nat /\ T # {}
    BY <1>1, <1>2
  <2>2. PICK i \in T : \A y \in T : i <= y
    BY <2>1, LeastNat
  <2>3. Under(i) \in SUBSET S
    BY <1>2, <2>1, <2>2
  <2>4. Cardinality(Under(i)) <= n /\ IsFiniteSet(Under(i)) /\ Cardinality(Under(i)) \in Nat
    BY <1>3, <2>3, FS_Subset, FS_CardinalityType
  <2>5. ~(Cardinality(Under(i)) < after)
    BY <1>1, <2>1
  <2> HIDE DEF Under
  <2> QED
    BY <1>3, <1>5, <2>4, <2>5
<1> QED
  BY <1>3, <1>4, <1>5 DEF All

(* The lines from a to b, each once and whole. *)
LinesOnce(P, a, b) ==
  /\ \A y \in P : WholeLine(y) /\ y.label \in a..(b - 1)
  /\ \A l \in a..(b - 1) : \E y \in P : WholeLine(y) /\ y.label = l

LEMMA AfterWhole ==
  ASSUME GrepTypeOK, NoReturns, NEW start \in 0..Len(data), old_line = LineOf(end),
         NEW e \in Nat, e = PostStop(end) + 1, Begins(e), LineOf(e) = old_line + 1,
         NEW n, n = Cardinality(AfterStops(e, start)),
         NEW x, x = AfterEnd(e, start)
  PROVE  /\ n \in Nat /\ x \in Nat /\ e <= x /\ Begins(x) /\ LineOf(x) = old_line + 1 + n
         /\ LinesOnce(Pieces(AfterContext(e, start)), old_line + 1, old_line + 1 + n)
<1>1. /\ Len(data) \in Nat /\ after \in Nat /\ start \in Nat /\ old_line \in Nat
  BY DEF GrepTypeOK
<1>2. PICK S, s : S = AfterStops(e, start) /\ s = AfterContext(e, start)
  OBVIOUS
<1>3. AfterLines(S, n, s, e, start)
  BY <1>1, <1>2, AfterPieces
<1>4. /\ n \in Nat /\ s = [j \in 1..n |-> s[j]]
      /\ \A j \in 1..n : Nth(S, j) \in e..(start - 1) /\ IsNewline(Nth(S, j))
      /\ \A j \in 1..n :
           /\ s[j].kind = "line" /\ s[j].label = old_line + j
           /\ s[j].from = (IF j = 1 THEN e ELSE Nth(S, j - 1) + 1) /\ s[j].to = Nth(S, j)
      /\ x = IF n = 0 THEN e ELSE Nth(S, n) + 1
  BY <1>3 DEF AfterLines
<1>a. x = IF n = 0 THEN e ELSE Nth(S, n) + 1
  BY <1>4
<1>b. n \in Nat
  BY <1>4
<1>5. S \subseteq Nat /\ IsFiniteSet(S)
  BY <1>1, <1>2, AfterStopsFacts
<1>6. OwnLines(s)
  BY <1>2, AfterNumbers
<1>7. DOMAIN s = 1..n
  BY <1>4, Listed
<1>8. \A j \in 1..n : Numbered(s[j])
  <2> SUFFICES ASSUME NEW j \in 1..n PROVE Numbered(s[j])
    OBVIOUS
  <2>1. Numbered(s[j]) \/ IsGap(s[j])
    BY <1>6, <1>7 DEF OwnLines
  <2> QED
    BY <1>4, <2>1 DEF IsGap
<1>9. \A j \in 1..n : LineOf(Nth(S, j)) = old_line + j
  <2> SUFFICES ASSUME NEW j \in 1..n PROVE LineOf(Nth(S, j)) = old_line + j
    OBVIOUS
  <2>1. PICK t \in Nat : t = Nth(S, j) /\ e <= t /\ IsNewline(t)
    BY <1>4
  <2>2. t \in S /\ Cardinality(UpTo(S, t)) = j
    BY <1>2, <1>5, <2>1, NthOf
  <2>3. NewlineSet(e, t + 1) = UpTo(S, t)
    BY <1>1, <1>2, <2>2, AfterCount
  <2>4. PICK u \in Nat : u = t + 1 /\ e <= u
    BY <2>1
  <2>5. Newlines(e, u) = j
    BY <2>2, <2>3, <2>4, NewlineSetFinite
  <2>6. LineOf(u) = old_line + 1 + j
    BY <2>4, <2>5, LineOfFurther
  <2>7. LineOf(u) = LineOf(t) + 1 /\ LineOf(t) \in Nat
    BY <2>1, <2>4, LineEnded, LineNat
  <2>8. j \in Nat
    BY <1>b
  <2>9. LineOf(t) = old_line + j
    BY <1>1, <2>4, <2>6, <2>7, <2>8
  <2> QED
    BY <2>1, <2>9
<1>10. x \in Nat /\ e <= x /\ Begins(x) /\ LineOf(x) = old_line + 1 + n
  <2>1. CASE n = 0
    <3>1. x = e
      BY <1>a, <2>1, Zenon
    <3>2. old_line + 1 + n = old_line + 1 /\ e <= e
      BY <1>1, <2>1
    <3> QED
      BY <3>1, <3>2, Zenon
  <2>2. CASE n # 0
    <3>1. n \in 1..n
      BY <1>4, <2>2
    <3>2. PICK t \in Nat : t = Nth(S, n) /\ e <= t /\ IsNewline(t) /\ LineOf(t) = old_line + n
      BY <1>4, <1>9, <3>1
    <3>a. x = t + 1
      BY <1>a, <2>2, <3>2, Zenon
    <3>3. x = t + 1 /\ LineOf(t + 1) = LineOf(t) + 1 /\ Begins(t + 1)
      BY <3>2, <3>a, LineEnded
    <3>4. LineOf(t + 1) = old_line + 1 + n /\ t + 1 \in Nat /\ e <= t + 1
      <4>1. PICK m \in Nat : m = LineOf(t) /\ LineOf(t + 1) = m + 1
        BY <3>2, <3>3, LineNat
      <4>2. m = old_line + n
        BY <3>2, <4>1
      <4>3. m + 1 = old_line + 1 + n
        BY <1>1, <1>b, <4>2
      <4>4. t + 1 \in Nat /\ e <= t + 1
        BY <3>2
      <4> QED
        BY <4>1, <4>3, <4>4, Zenon
    <3> QED
      BY <3>3, <3>4, Zenon
  <2> QED
    BY <2>1, <2>2
<1>11. PICK P, a, b : /\ P = Pieces(s) /\ a = old_line + 1 /\ b = old_line + 1 + n
                      /\ a \in Nat /\ b \in Nat
  BY <1>1, <1>b
<1>12. ASSUME NEW j \in 1..n
       PROVE  WholeLine(s[j]) /\ s[j].label \in a..(b - 1)
  <2>1. PICK f, t, l : f = s[j].from /\ t = s[j].to /\ l = s[j].label
    OBVIOUS
  <2>2. t \in Nat /\ IsNewline(t) /\ LineOf(t) = l /\ l = old_line + j
    BY <1>4, <1>9, <2>1
  <2>3. f \in Nat
    <3>1. CASE j = 1
      BY <1>4, <2>1, <3>1
    <3>2. CASE j # 1
      <4>1. j - 1 \in 1..n
        BY <1>4, <3>2
      <4> QED
        BY <1>4, <2>1, <3>2, <4>1
    <3> QED
      BY <3>1, <3>2
  <2>4. Begins(f) /\ LineOf(f) = l
    BY <1>8, <2>1 DEF Numbered, TrueLabel
  <2>5. f <= t
    <3>1. ~(t < f)
      BY <2>2, <2>3, <2>4, LineBegun, LineNat
    <3> QED
      BY <2>2, <2>3, <3>1
  <2>6. s[j].kind = "line"
    BY <1>4
  <2>7. l \in a..(b - 1)
    <3>1. l = old_line + j /\ a = old_line + 1 /\ b = old_line + 1 + n /\ b \in Nat
      BY <1>11, <2>2
    <3>2. PICK m \in Nat, k \in 1..n : m = old_line /\ k = j
      BY <1>1
    <3>3. l = m + k /\ a = m + 1 /\ b = m + 1 + n /\ k <= n /\ 1 <= k /\ k \in Nat
      BY <1>b, <3>1, <3>2
    <3> QED
      BY <1>b, <3>1, <3>3
  <2> QED
    BY <2>1, <2>2, <2>3, <2>4, <2>5, <2>6, <2>7 DEF WholeLine
<1>13. \A y \in P : WholeLine(y) /\ y.label \in a..(b - 1)
  BY <1>7, <1>12, <1>11, Zenon DEF Pieces
<1>14. ASSUME NEW l \in a..(b - 1) PROVE \E y \in P : WholeLine(y) /\ y.label = l
  <2>1. PICK j \in 1..n : l = old_line + j
    <3>1. PICK m \in Nat : m = old_line /\ a = m + 1 /\ b = m + 1 + n /\ a \in Nat /\ b \in Nat
      BY <1>1, <1>11
    <3>2. PICK i \in Int : i = l - m
      BY <1>11, <3>1
    <3>3. i \in 1..n /\ l = m + i
      <4>1. l \in Nat /\ m + 1 <= l /\ l < m + 1 + n
        BY <3>1
      <4> QED
        BY <1>b, <3>2, <4>1
    <3> QED
      BY <3>1, <3>3
  <2>2. s[j] \in P /\ WholeLine(s[j]) /\ s[j].label = l
    BY <1>4, <1>7, <1>12, <1>11, <2>1 DEF Pieces
  <2> QED
    BY <2>2
<1> QED
  BY <1>2, <1>b, <1>10, <1>11, <1>13, <1>14 DEF LinesOnce

LEMMA AfterShows ==
  ASSUME GrepTypeOK, NoReturns, NEW start \in 0..Len(data), old_line = LineOf(end),
         NEW e \in Nat, e = PostStop(end) + 1, Begins(e), LineOf(e) = old_line + 1,
         NEW x, x = AfterEnd(e, start),
         NEW a \in Nat, NEW b \in Nat, a = LineOf(e), b = LineOf(x),
         NEW W, \A l \in a..(b - 1) : l \in W
  PROVE  Shows(Pieces(AfterContext(e, start)), e, x, a, b, W)
<1>1. PICK n, P : n = Cardinality(AfterStops(e, start)) /\ P = Pieces(AfterContext(e, start))
  OBVIOUS
<1>2. /\ n \in Nat /\ x \in Nat /\ e <= x /\ Begins(x) /\ LineOf(x) = old_line + 1 + n
      /\ LinesOnce(P, old_line + 1, old_line + 1 + n)
  BY <1>1, AfterWhole
<1>3. LinesOnce(P, a, b)
  BY <1>2, Zenon
<1>4. a <= b
  BY <1>2, LineGrows
<1>5. \A l \in a..(b - 1) : l \in W <=> a <= l
  OBVIOUS
<1>6. PICK z \in Nat : z = x /\ Begins(z) /\ b = LineOf(z)
  BY <1>2, Zenon
<1>7. /\ \A y \in P : (WholeLine(y) /\ y.label \in a..(b - 1)) \/ IsGap(y)
      /\ \A l \in a..(b - 1) : \E y \in P : WholeLine(y) /\ y.label = l
  BY <1>3, Zenon DEF LinesOnce
<1>8. a <= a
  OBVIOUS
<1>9. Shows(P, e, z, a, b, W)
  BY <1>4, <1>5, <1>6, <1>7, <1>8, LinesShow, Zenon
<1> QED
  BY <1>1, <1>6, <1>9, Zenon

(* show_before_context can go back over as many lines as there are.        *)
LEMMA StartsCount ==
  ASSUME NEW x \in Nat, NEW start \in Nat, Begins(x), x <= LineStart(start)
  PROVE  Cardinality(BeforeStarts(x, start)) = LineOf(start) - LineOf(x)
<1>1. PICK S, c : S = BeforeStarts(x, start) /\ c = LineStart(start)
  OBVIOUS
<1>2. c \in Nat /\ Begins(c) /\ LineOf(c) = LineOf(start) /\ x <= c
  <2>1. c \in Nat
    BY <1>1, LineStartInData
  <2>2. LineStart(c) = c /\ LineOf(c) = LineOf(start)
    BY <1>1, LineOfStart
  <2> QED
    BY <1>1, <2>1, <2>2, LineBegins DEF Begins
<1>3. /\ S \subseteq Nat /\ IsFiniteSet(S) /\ Cardinality(S) \in Nat
      /\ \A y \in Nat : y \in S <=> x <= y /\ y < c /\ Begins(y)
  <2>1. \A y \in Nat : y = LineStart(y) <=> Begins(y)
    BY LineBegins DEF Begins
  <2>2. S = {i \in 0..(c - 1) : i >= x /\ i = LineStart(i)}
    BY <1>1 DEF BeforeStarts
  <2>3. S \subseteq Nat /\ IsFiniteSet(S) /\ Cardinality(S) \in Nat
    BY <1>1, BeforeStartsFacts
  <2> QED
    BY <1>2, <2>1, <2>2, <2>3
<1>4. LineOf(x) \in Nat /\ LineOf(c) \in Nat
  BY <1>2, LineNat
<1>5. CASE x = c
  <2>1. S = {}
    BY <1>2, <1>3, <1>5
  <2>2. Cardinality(S) = 0
    BY <2>1, FS_EmptySet
  <2> QED
    BY <1>1, <1>2, <1>4, <1>5, <2>2
<1>6. CASE x < c
  <2>1. PICK V, T : V = S \ {x} /\ T = V \cup {c}
    OBVIOUS
  <2>2. x \in S
    BY <1>3, <1>6
  <2>3. IsFiniteSet(V) /\ Cardinality(V) = Cardinality(S) - 1 /\ Cardinality(V) \in Nat
    BY <1>3, <2>1, <2>2, FS_RemoveElement, FS_CardinalityType
  <2>4. c \notin V
    BY <1>2, <1>3, <2>1
  <2>5. Cardinality(T) = Cardinality(V) + 1
    BY <2>1, <2>3, <2>4, FS_AddElement
  <2>6. T \subseteq Nat /\ \A y \in Nat : y \in T <=> x < y /\ y <= c /\ Begins(y)
    <3>1. T \subseteq Nat
      BY <1>2, <1>3, <2>1
    <3>2. \A y \in Nat : y \in T <=> (y \in S /\ y # x) \/ y = c
      BY <2>1
    <3> QED
      BY <1>2, <1>3, <1>6, <3>1, <3>2
  <2>7. Newlines(x, c) = Cardinality(T)
    BY <1>2, <1>6, <2>6, LinesBetween
  <2>8. LineOf(c) = LineOf(x) + Newlines(x, c)
    BY <1>2, LineOfFurther
  <2> QED
    BY <1>1, <1>2, <1>3, <1>4, <2>3, <2>5, <2>7, <2>8
<1> QED
  BY <1>2, <1>5, <1>6

LEMMA BeforeShows ==
  ASSUME Len(data) \in Nat, before \in Nat, NEW start \in 0..Len(data), NEW at, at = LineOf(start),
         NEW x \in Nat, Begins(x), x <= LineStart(start), NEW a, a = LineOf(x),
         NEW W, \A l \in a..(at - 1) : l \in W <=> at - before <= l
  PROVE  Shows(Pieces(BeforeContext(x, start, at)), x, LineStart(start), a, at, W)
<1>1. PICK S, b, q : S = BeforeStarts(x, start) /\ b = BeforeContext(x, start, at)
                     /\ q = LineStart(start)
  OBVIOUS
<1>2. /\ start \in Nat /\ q \in Nat /\ q <= start /\ q <= Len(data) /\ Begins(q)
      /\ q = LineStart(q) /\ LineOf(q) = at
  <2>1. q \in 0..start /\ q = LineStart(q) /\ LineOf(q) = at
    BY <1>1, LineStartInData, LineOfStart
  <2> QED
    BY <2>1, LineBegins DEF Begins
<1>3. a \in Nat /\ at \in Nat /\ a <= at
  BY <1>1, <1>2, LineNat, LineGrows
<1>4. Cardinality(S) = at - a
  BY <1>1, <1>2, StartsCount
<1>5. PICK n, k, lines, first :
           /\ BeforeLines(S, n, k, lines, at)
           /\ n = (IF Cardinality(S) < before THEN Cardinality(S) ELSE before)
           /\ first = <<>> \/ first = <<Piece("gap", 0, x, x)>>
           /\ (n = 0 /\ b = <<>>) \/ Joined(b, first, lines)
  <2>1. \E n, k, lines, first :
           /\ BeforeLines(S, n, k, lines, at)
           /\ n = (IF Cardinality(S) < before THEN Cardinality(S) ELSE before)
           /\ first = <<>> \/ first = <<Piece("gap", 0, x, x)>>
           /\ \/ n = 0 /\ BeforeContext(x, start, at) = <<>>
              \/ Joined(BeforeContext(x, start, at), first, lines)
    BY <1>1, <1>2, BeforePieces, Zenon
  <2> QED
    BY <1>1, <2>1, Zenon
<1>6. n \in Nat /\ n <= at - a /\ \A l \in a..(at - 1) : l \in W <=> at - n <= l
  BY <1>3, <1>4, <1>5
<1>b. BeforeLines(S, n, k, lines, at)
  BY <1>5
<1>c. n \in Nat
  BY <1>6
<1>7. /\ k \in Nat /\ lines = [j \in 1..n |-> lines[j]]
      /\ \A j \in 1..n : Nth(S, k + j) \in S
      /\ \A j \in 1..n :
           /\ lines[j].kind = "line" /\ lines[j].label = at - n + j - 1
           /\ lines[j].from = Nth(S, k + j) /\ lines[j].to = LineEnd(Nth(S, k + j))
  BY <1>b DEF BeforeLines
<1>8. IsSequence(lines) /\ DOMAIN lines = 1..n
  BY <1>6, <1>7, Listed
<1>9. OwnLines(b)
  BY <1>1, <1>2, BeforeNumbers
<1>10. PICK P, F : P = Pieces(b) /\ F = Pieces(first)
  OBVIOUS
<1>11. IsSequence(first) /\ \A g \in F : IsGap(g)
  <2>1. CASE first = <<>>
    BY <1>10, <2>1, NoPieces, NoPiece
  <2>2. CASE first = <<Piece("gap", 0, x, x)>>
    <3>a. IsGap(Piece("gap", 0, x, x))
      BY DEF Piece, IsGap
    <3>1. PICK g : g = Piece("gap", 0, x, x) /\ IsGap(g)
      BY <3>a, Zenon
    <3>2. F = {g}
      BY <1>10, <2>2, <3>1, OnePieces
    <3>3. IsSequence(first)
      BY <2>2, OnePiece
    <3> QED
      BY <3>1, <3>2, <3>3
  <2> QED
    BY <1>5, <2>1, <2>2
<1>12. (n = 0 /\ P = {}) \/ P = F \cup Pieces(lines)
  BY <1>5, <1>8, <1>10, <1>11, JoinPieces, NoPieces
<1>13. ASSUME NEW j \in 1..n, P = F \cup Pieces(lines)
       PROVE  /\ WholeLine(lines[j]) /\ lines[j].label = at - n + j - 1 /\ lines[j] \in P
  <2>1. lines[j] \in P
    BY <1>8, <1>13 DEF Pieces
  <2>2. Numbered(lines[j])
    <3>1. Numbered(lines[j]) \/ IsGap(lines[j])
      BY <1>9, <1>10, <2>1 DEF OwnLines, Pieces
    <3> QED
      BY <1>7, <3>1 DEF IsGap
  <2>3. PICK f \in S : f = lines[j].from /\ lines[j].to = LineEnd(f)
    BY <1>7
  <2>4. f \in Nat /\ f < q
    BY <1>1, <1>2, <2>3, BeforeStartsFacts
  <2>5. f \in 0..Len(data)
    BY <1>2, <2>4
  <2>6. PICK t \in Nat : t = LineEnd(f) /\ f <= t /\ t < q
    BY <1>2, <2>4, <2>5, LineEndBefore
  <2>7. IsNewline(t) /\ \A i \in f..(t - 1) : ~IsNewline(i)
    <3>1. t # Len(data)
      BY <1>2, <2>6
    <3>2. /\ LineEnd(f) = Len(data) \/ IsNewline(LineEnd(f))
          /\ \A i \in f..(LineEnd(f) - 1) : ~IsNewline(i)
      BY <2>5, LineEndIs
    <3> QED
      BY <2>6, <3>1, <3>2, Zenon
  <2>8. LineOf(f) = LineOf(t)
    BY <2>4, <2>6, <2>7, SameLine
  <2>9. lines[j].kind = "line" /\ Begins(f) /\ lines[j].label = LineOf(f)
    BY <1>7, <2>2, <2>3 DEF Numbered, TrueLabel
  <2> QED
    BY <1>7, <2>1, <2>3, <2>4, <2>6, <2>7, <2>8, <2>9 DEF WholeLine
<1>14. PICK c \in Nat : c = at - n /\ a <= c /\ c <= at /\ n = at - c
  <2>1. PICK m \in Nat, d \in Nat : m = at /\ d = a
    BY <1>3
  <2>2. m - n \in Nat /\ d <= m - n /\ m - n <= m /\ n = m - (m - n)
    BY <1>6, <2>1
  <2> QED
    BY <2>1, <2>2, Zenon
<1>15. \A y \in P : (WholeLine(y) /\ y.label \in c..(at - 1)) \/ IsGap(y)
  <2> SUFFICES ASSUME NEW y \in P, ~IsGap(y) PROVE WholeLine(y) /\ y.label \in c..(at - 1)
    OBVIOUS
  <2>1. PICK j \in 1..n : y = lines[j] /\ P = F \cup Pieces(lines)
    BY <1>8, <1>11, <1>12 DEF Pieces
  <2>2. WholeLine(y) /\ y.label = at - n + j - 1
    BY <1>13, <2>1
  <2>3. PICK m \in Nat : m = at
    BY <1>3
  <2>4. m - n + j - 1 \in c..(m - 1)
    <3>1. c = m - n
      BY <1>14, <2>3
    <3> QED
      BY <1>c, <2>3, <3>1
  <2> QED
    BY <2>2, <2>3, <2>4, Zenon
<1>16. ASSUME NEW l \in c..(at - 1) PROVE \E y \in P : WholeLine(y) /\ y.label = l
  <2>1. PICK j \in 1..n : l = at - n + j - 1
    <3>1. PICK m \in Nat : m = at
      BY <1>3
    <3>a. l \in c..(m - 1) /\ c = m - n
      BY <1>14, <3>1
    <3>2. PICK i \in Int : i = l - c + 1
      BY <3>a
    <3>3. i \in 1..n /\ l = m - n + i - 1
      BY <1>c, <3>a, <3>2
    <3> QED
      BY <3>1, <3>3, Zenon
  <2>2. P = F \cup Pieces(lines)
    BY <1>6, <1>12
  <2> QED
    BY <1>13, <2>1, <2>2
<1>17. \A l \in a..(at - 1) : l \in W <=> c <= l
  BY <1>6, <1>14
<1>18. Shows(P, x, q, a, at, W)
  BY <1>2, <1>14, <1>15, <1>16, <1>17, LinesShow
<1> QED
  BY <1>1, <1>10, <1>18

-----------------------------------------------------------------------------
(* A turn of the loop.                                                     *)

(* The newline that show_post_text stops at. *)
LEMMA PostNewline ==
  ASSUME GrepTypeOK, NoReturns, NEW z, z = PostStop(end)
  PROVE  /\ z \in Nat /\ end <= z /\ z <= Len(data)
         /\ LineOf(z) = LineOf(end)
         /\ z < Len(data) => /\ IsNewline(z) /\ z + 1 \in Nat /\ Begins(z + 1)
                             /\ LineOf(z + 1) = LineOf(end) + 1
<1>1. Len(data) \in Nat /\ end \in 0..Len(data) /\ end \in Nat
  BY DEF GrepTypeOK
<1>2. /\ PostStop(end) \in end..Len(data)
      /\ PostStop(end) < Len(data) => data[PostStop(end) + 1] \in {NEWLINE, RETURN}
      /\ \A j \in end..(PostStop(end) - 1) : ~IsNewline(j)
  BY <1>1, PostStopIs
<1>3. PICK y \in end..Len(data) :
        /\ y = z
        /\ y < Len(data) => data[y + 1] \in {NEWLINE, RETURN}
        /\ \A j \in end..(y - 1) : ~IsNewline(j)
  BY <1>2
<1>4. y \in Nat /\ end <= y /\ y <= Len(data)
  BY <1>1, <1>3
<1>5. LineOf(y) = LineOf(end)
  BY <1>1, <1>3, <1>4, SameLine
<1>6. ASSUME y < Len(data) PROVE IsNewline(y)
  <2>1. y + 1 \in 1..Len(data)
    BY <1>1, <1>4, <1>6
  <2>2. data[y + 1] # RETURN
    BY <2>1 DEF NoReturns
  <2> QED
    BY <1>3, <1>6, <2>2 DEF IsNewline
<1>7. IsNewline(y) => Begins(y + 1) /\ LineOf(y + 1) = LineOf(y) + 1
  BY <1>4, LineEnded
<1> QED
  BY <1>3, <1>4, <1>5, <1>6, <1>7

(* The rest of the line of a match, up to the newline. *)
LEMMA PostShows ==
  ASSUME GrepTypeOK, NoReturns, NEW z, z = PostStop(end), NEW e \in Nat,
         e = z \/ (z < Len(data) /\ e = z + 1),
         NEW a \in Nat, NEW W, LineOf(end) \in W
  PROVE  Shows(Pieces(PostText(end)), end, e, a, a, W)
<1>1. /\ z \in Nat /\ end <= z /\ end \in Nat
      /\ LineOf(z) = LineOf(end)
      /\ z < Len(data) => IsNewline(z)
  BY PostNewline DEF GrepTypeOK
<1>2. PICK x : x = Piece("post", 0, end, z) /\ PostText(end) = <<x>>
  BY Zenon DEF PostText
<1>3. IsText(x) /\ x.kind # "match" /\ x.label = 0 /\ x.from = end /\ x.to = z
  BY <1>2 DEF Piece, IsText
<1>4. z <= e
  BY <1>1
<1>5. ASSUME NEW i \in end..(e - 1), ~IsNewline(i) PROVE i < z /\ LineOf(i) \in W
  <2>1. i \in Nat /\ end <= i /\ i <= z
    BY <1>1, <1>5
  <2>2. i # z
    BY <1>1, <1>5
  <2>3. LineOf(i) = LineOf(end)
    <3>1. LineOf(end) <= LineOf(i) /\ LineOf(i) <= LineOf(z)
      BY <1>1, <2>1, LineGrows
    <3>2. LineOf(i) \in Nat /\ LineOf(end) \in Nat
      BY <1>1, <2>1, LineNat
    <3> QED
      BY <1>1, <3>1, <3>2
  <2> QED
    BY <1>1, <2>1, <2>2, <2>3
<1>6. Shows({x}, end, e, a, a, W)
  BY <1>1, <1>3, <1>4, <1>5, TextShows
<1> QED
  BY <1>2, <1>6, OnePieces

(* The text before a match on its line. *)
LEMMA PreShows ==
  ASSUME NEW x \in Nat, NEW start \in Nat, NEW p, p = PreFrom(x, start), x <= start,
         NEW a \in Nat, NEW W, LineOf(start) \in W
  PROVE  Shows(Pieces(PreText(x, start)), p, start, a, a, W)
<1>1. PICK ls \in Nat : /\ ls = LineStart(start) /\ ls <= start
                        /\ \A j \in ls..(start - 1) : ~IsNewline(j)
  BY LineStartIs
<1>2. p \in Nat /\ ls <= p /\ p <= start
  BY <1>1 DEF PreFrom
<1>3. \A i \in p..(start - 1) : LineOf(i) = LineOf(start)
  <2> SUFFICES ASSUME NEW i \in p..(start - 1) PROVE LineOf(i) = LineOf(start)
    OBVIOUS
  <2>1. i \in Nat /\ i <= start /\ \A j \in i..(start - 1) : ~IsNewline(j)
    BY <1>1, <1>2
  <2> QED
    BY <2>1, SameLine
<1>4. PICK y : y = Piece("pre", 0, p, start)
  OBVIOUS
<1>5. IsText(y) /\ y.kind # "match" /\ y.label = 0 /\ y.from = p /\ y.to = start
  BY <1>4 DEF Piece, IsText
<1>6. PreText(x, start) = IF p < start THEN <<y>> ELSE <<>>
  BY <1>4, Zenon DEF PreText, PreFrom
<1>7. CASE p < start
  <2>1. \A i \in p..(start - 1) : ~IsNewline(i) => i < start /\ LineOf(i) \in W
    BY <1>2, <1>3
  <2>2. Shows({y}, p, start, a, a, W)
    BY <1>2, <1>5, <2>1, TextShows
  <2> QED
    BY <1>6, <1>7, <2>2, OnePieces
<1>8. CASE p = start
  <2>1. Shows({}, p, start, a, a, W)
    BY <1>2, <1>8, NothingShows
  <2>2. PreText(x, start) = <<>>
    BY <1>2, <1>6, <1>8
  <2> QED
    BY <2>1, <2>2, NoPieces
<1> QED
  BY <1>2, <1>7, <1>8

(* The number of the line of a match. *)
LEMMA LabelShows ==
  ASSUME NEW at \in Nat, at # 0, NEW start, NEW p \in Nat, NEW W, at \in W
  PROVE  Shows({Piece("label", at, start, start)}, p, p, at, at + 1, W)
<1>1. PICK x : x = Piece("label", at, start, start)
  OBVIOUS
<1>2. ~IsText(x) /\ x.kind # "match" /\ x.label = at
  BY <1>1 DEF Piece, IsText
<1>3. ASSUME NEW l \in Nat \ {0} PROVE Starts({x}, l) <=> at <= l /\ l < at + 1 /\ l \in W
  <2>1. Starts({x}, l) <=> l = at
    BY <1>2 DEF Starts, Crosses
  <2>2. at <= l /\ l < at + 1 <=> l = at
    OBVIOUS
  <2> QED
    BY <2>1, <2>2
<1>4. Shows({x}, p, p, at, at + 1, W)
  BY <1>2, <1>3 DEF Shows
<1> QED
  BY <1>1, <1>4

(* The rest of the line and the lines after it, whatever -A is. *)
LEMMA RestPieces ==
  ASSUME GrepTypeOK, file_match_count # 0, NEW start \in 0..Len(data),
         NEW e, e = PostStop(end) + 1
  PROVE  /\ Pieces(Rest(start).pieces) = Pieces(PostText(end)) \cup Pieces(AfterContext(e, start))
         /\ Rest(start).end = AfterEnd(e, start) /\ IsSequence(Rest(start).pieces)
<1>1. Len(data) \in Nat /\ end \in 0..Len(data) /\ end \in Nat /\ after \in Nat /\ start \in Nat
  BY DEF GrepTypeOK
<1>2. e \in Nat
  <2>1. PostStop(end) \in Nat
    BY <1>1, PostStopNat
  <2> QED
    BY <2>1
<1>3. PICK s, n, S : s = AfterContext(e, start) /\ S = AfterStops(e, start) /\ n = Cardinality(S)
  OBVIOUS
<1>4. AfterLines(S, n, s, e, start)
  BY <1>1, <1>2, <1>3, AfterPieces
<1>5. /\ n \in Nat /\ s = [j \in 1..n |-> s[j]]
      /\ AfterEnd(e, start) = IF n = 0 THEN e ELSE Nth(S, n) + 1
  BY <1>4 DEF AfterLines
<1>6. IsSequence(s) /\ DOMAIN s = 1..n
  BY <1>5, Listed
<1>7. PICK rest, x : rest = Rest(start).pieces /\ x = Rest(start).end
  OBVIOUS
<1>8. IsSequence(rest)
  BY <1>1, <1>7, RestIsSequence
<1>9. \/ after = 0 /\ rest = PostText(end) /\ x = e
      \/ Joined(rest, PostText(end), s) /\ x = AfterEnd(e, start)
  BY <1>1, <1>3, <1>7, RestIs, Zenon
<1>10. CASE after = 0 /\ rest = PostText(end) /\ x = e
  <2>1. n = 0
    BY <1>1, <1>2, <1>3, <1>5, <1>10, AfterAll
  <2>2. Pieces(s) = {}
    BY <1>6, <2>1 DEF Pieces
  <2>3. AfterEnd(e, start) = e
    BY <1>5, <2>1
  <2> QED
    BY <1>3, <1>7, <1>8, <1>10, <2>2, <2>3
<1>11. CASE Joined(rest, PostText(end), s) /\ x = AfterEnd(e, start)
  <2>1. IsSequence(PostText(end))
    BY OnePiece DEF PostText
  <2> QED
    BY <1>3, <1>6, <1>7, <1>8, <1>11, <2>1, JoinPieces
<1> QED
  BY <1>9, <1>10, <1>11

(* The lines after a match: as many as -A asks for, or all there are       *)
(* before the line of start.                                               *)
AfterAsked(W, start) ==
  \A l \in Nat : old_line < l /\ l < LineOf(start) /\ l <= old_line + after => l \in W

AfterGood(e, x, start, W) ==
  /\ x \in Nat /\ e <= x /\ Begins(x)
  /\ x <= start /\ LineOf(x) <= LineOf(start) /\ LineOf(e) = old_line + 1
  /\ LineOf(e) <= LineOf(x)
  /\ Shows(Pieces(AfterContext(e, start)), e, x, LineOf(e), LineOf(x), W)
  /\ \A l \in LineOf(x)..(LineOf(start) - 1) : old_line + after < l

LEMMA AfterFacts ==
  ASSUME GrepTypeOK, NoReturns, NEW start \in 0..Len(data), old_line = LineOf(end),
         NEW z, z = PostStop(end), z < Len(data), NEW e, e = z + 1, e <= start,
         NEW x, x = AfterEnd(e, start), NEW W, AfterAsked(W, start)
  PROVE  AfterGood(e, x, start, W)
<1>1. /\ Len(data) \in Nat /\ after \in Nat /\ start \in Nat /\ old_line \in Nat
  BY DEF GrepTypeOK
<1>2. e \in Nat /\ Begins(e) /\ LineOf(e) = old_line + 1
  BY PostNewline
<1>3. PICK n, S : S = AfterStops(e, start) /\ n = Cardinality(S)
  OBVIOUS
<1>4. n \in Nat /\ x \in Nat /\ e <= x /\ Begins(x) /\ LineOf(x) = old_line + 1 + n
  BY <1>2, <1>3, AfterWhole
<1>5. x <= start
  <2>1. x = e \/ x <= LineStart(start)
    BY <1>1, <1>2, AfterOrder
  <2>2. LineStart(start) \in 0..start
    BY <1>1, LineStartInData
  <2> QED
    BY <1>1, <1>4, <2>1, <2>2
<1>6. PICK a \in Nat, b \in Nat, at \in Nat :
        /\ a = LineOf(e) /\ b = LineOf(x) /\ at = LineOf(start)
        /\ a = old_line + 1 /\ b = old_line + 1 + n /\ a <= b /\ b <= at
  BY <1>1, <1>2, <1>4, <1>5, LineNat, LineGrows
<1>7. n <= after /\ (n < after => S = NewlineSet(e, start))
  BY <1>1, <1>2, <1>3, AfterAll
<1>8. ASSUME NEW l \in a..(b - 1) PROVE l \in W
  <2>1. l \in Nat /\ old_line < l /\ l < at /\ l <= old_line + after
    <3>1. l \in Nat /\ a <= l /\ l < b
      BY <1>6
    <3>2. PICK m \in Nat, k \in Nat : m = old_line /\ k = n /\ k <= after
      BY <1>1, <1>4, <1>7
    <3>3. a = m + 1 /\ b = m + 1 + k /\ b <= at
      BY <1>6, <3>2
    <3>5. /\ a \in Nat /\ b \in Nat /\ at \in Nat
          /\ after \in Nat /\ m \in Nat /\ k \in Nat /\ k <= after
      BY <1>1, <1>6, <3>2
    <3>4. m < l /\ l < at /\ l <= m + after
      <4> HIDE <3>2
      <4> QED
        BY <3>1, <3>3, <3>5
    <3> QED
      BY <3>1, <3>2, <3>4, Zenon
  <2> QED
    BY <1>6, <2>1, Zenon DEF AfterAsked
<1>9. Shows(Pieces(AfterContext(e, start)), e, x, a, b, W)
  BY <1>2, <1>6, <1>8, AfterShows
<1>10. ASSUME NEW l \in b..(at - 1) PROVE old_line + after < l
  <2>1. CASE n = after
    BY <1>1, <1>6, <2>1
  <2>2. CASE n < after
    <3>1. Newlines(e, start) = n
      BY <1>1, <1>2, <1>3, <1>7, <2>2, NewlineSetFinite
    <3>2. at = a + n
      BY <1>1, <1>2, <1>6, <3>1, LineOfFurther
    <3>3. b = a + n
      BY <1>1, <1>4, <1>6
    <3> QED
      BY <1>4, <1>6, <3>2, <3>3
  <2> QED
    BY <1>1, <1>4, <1>7, <2>1, <2>2
<1> QED
  BY <1>2, <1>4, <1>5, <1>6, <1>9, <1>10 DEF AfterGood

(* What is printed between the line of the last match and that of the next.*)
RestWanted(W, at) ==
  \A l \in Nat : old_line <= l /\ l < at
                 => (l \in W <=> l <= old_line + after \/ at - before <= l)

LEMMA RestShows ==
  ASSUME GrepTypeOK, NoReturns, file_match_count # 0, old_line = LineOf(end),
         NEW start \in 0..Len(data), NEW at, at = LineOf(start), old_line < at,
         NEW x, x = Rest(start).end, NEW W, RestWanted(W, at)
  PROVE  /\ x \in Nat /\ end <= x /\ Begins(x) /\ x <= LineStart(start)
         /\ old_line + 1 <= LineOf(x) /\ LineOf(x) <= at
         /\ Shows(Pieces(Rest(start).pieces), end, x, old_line + 1, LineOf(x), W)
         /\ \A l \in LineOf(x)..(at - 1) : l \in W <=> at - before <= l
<1>1. /\ Len(data) \in Nat /\ after \in Nat /\ before \in Nat /\ start \in Nat /\ old_line \in Nat
      /\ end \in Nat /\ end \in 0..Len(data) /\ at \in Nat
  BY LineNat DEF GrepTypeOK
<1>2. PICK z \in Nat : /\ z = PostStop(end) /\ end <= z /\ z <= Len(data)
                       /\ LineOf(z) = LineOf(end)
  BY PostNewline
<1>3. z < start
  <2>1. start <= z => LineOf(start) <= LineOf(z)
    BY <1>1, <1>2, LineGrows
  <2> QED
    BY <1>1, <1>2, <2>1
<1>4. PICK e \in Nat : e = z + 1 /\ z < Len(data) /\ e <= start
  BY <1>1, <1>2, <1>3
<1>5. Rest(start).end = AfterEnd(e, start)
      /\ Pieces(Rest(start).pieces) = Pieces(PostText(end)) \cup Pieces(AfterContext(e, start))
  BY <1>2, <1>4, RestPieces
<1>6. AfterAsked(W, start)
  BY <1>1 DEF AfterAsked, RestWanted
<1>7. /\ x \in Nat /\ e <= x /\ Begins(x)
      /\ x <= start /\ LineOf(x) <= LineOf(start) /\ LineOf(e) = old_line + 1
      /\ LineOf(e) <= LineOf(x)
      /\ Shows(Pieces(AfterContext(e, start)), e, x, LineOf(e), LineOf(x), W)
      /\ \A l \in LineOf(x)..(LineOf(start) - 1) : old_line + after < l
  <2>1. PICK y : y = AfterEnd(e, start) /\ y = x
    BY <1>5
  <2>2. start \in 0..Len(data) /\ z = PostStop(end) /\ z < Len(data) /\ e = z + 1 /\ e <= start
    BY <1>2, <1>4
  <2>3. AfterGood(e, y, start, W)
    BY <1>6, <2>1, <2>2, AfterFacts
  <2> QED
    BY <2>1, <2>3, Zenon DEF AfterGood
<1>8. PICK a \in Nat, b \in Nat : /\ a = LineOf(e) /\ b = LineOf(x)
                                   /\ a = old_line + 1 /\ a <= b /\ b <= at
  BY <1>1, <1>4, <1>7, LineNat
<1>9. LineOf(end) \in W
  <2>1. old_line <= old_line /\ old_line <= old_line + after
    BY <1>1
  <2> QED
    BY <1>1, <2>1 DEF RestWanted
<1>10. Shows(Pieces(PostText(end)), end, e, a, a, W)
  BY <1>2, <1>4, <1>8, <1>9, PostShows
<1>11. Shows(Pieces(AfterContext(e, start)), e, x, a, b, W)
  BY <1>7, <1>8
<1>12. end <= e /\ a <= a
  BY <1>1, <1>2, <1>4, <1>8
<1>13. Shows(Pieces(Rest(start).pieces), end, x, a, b, W)
  <2>1. PICK P, Q : P = Pieces(PostText(end)) /\ Q = Pieces(AfterContext(e, start))
    OBVIOUS
  <2>2. Shows(P \cup Q, end, x, a, b, W)
    BY <1>1, <1>4, <1>7, <1>8, <1>10, <1>11, <1>12, <2>1, ShowsBoth
  <2> QED
    BY <1>5, <2>1, <2>2
<1>14. x <= LineStart(start)
  <2>1. PICK q \in Nat : /\ q = LineStart(start) /\ q <= start
                         /\ \A j \in q..(start - 1) : ~IsNewline(j)
    BY <1>1, LineStartIs
  <2>2. x # 0 /\ (IsNewline(x - 1))
    BY <1>7, <1>4 DEF Begins
  <2>3. ~(x - 1 \in q..(start - 1))
    BY <2>1, <2>2
  <2> QED
    BY <1>1, <1>7, <2>1, <2>3
<1>15. ASSUME NEW l \in b..(at - 1) PROVE l \in W <=> at - before <= l
  <2>1. l \in Nat /\ old_line <= l /\ l < at
    BY <1>1, <1>8
  <2>2. ~(l <= old_line + after)
    <3>1. old_line + after < l
      BY <1>7, <1>8
    <3> QED
      BY <1>1, <2>1, <3>1
  <2> QED
    BY <2>1, <2>2 DEF RestWanted
<1> QED
  BY <1>1, <1>4, <1>2, <1>7, <1>8, <1>13, <1>14, <1>15

-----------------------------------------------------------------------------
(* What is wanted.                                                         *)

(* The pieces so far, of which the last match ends at p.                   *)
MatchesUpTo(P, p) ==
  /\ \A y \in P : y.kind = "match" => /\ y.from \in Nat /\ y.to \in Nat
                                      /\ y.from <= y.to /\ y.to <= p
  /\ \E y \in P : y.kind = "match" /\ y.to = p

(* From the line on where the last match ends, only -A lines are wanted.   *)
LEMMA WantedAfter ==
  ASSUME before \in Nat, after \in Nat, NEW p \in Nat, NEW P, MatchesUpTo(P, p),
         NEW l \in Nat, LineOf(p) <= l
  PROVE  l \in Wanted(P) <=> l <= LineOf(p) + after
<1>1. PICK k \in Nat, b \in Nat, a \in Nat : k = LineOf(p) /\ b = before /\ a = after
  BY LineNat
<1>2. ASSUME NEW y \in P, y.kind = "match", l \in Around(y) PROVE l <= k + a
  <2>1. y.to \in Nat /\ y.to <= p
    BY <1>2 DEF MatchesUpTo
  <2>2. LineOf(y.to) \in Nat /\ LineOf(y.to) <= k
    BY <1>1, <2>1, LineNat, LineGrows
  <2>3. l <= LineOf(y.to) + a
    BY <1>1, <1>2 DEF Around
  <2> QED
    BY <1>1, <2>2, <2>3
<1>3. ASSUME l <= k + a PROVE \E y \in P : y.kind = "match" /\ l \in Around(y)
  <2>1. PICK y \in P : y.kind = "match" /\ y.to = p /\ y.from \in Nat /\ y.from <= p
    BY DEF MatchesUpTo
  <2>2. LineOf(y.from) \in Nat /\ LineOf(y.from) <= k
    BY <1>1, <2>1, LineNat, LineGrows
  <2>3. LineOf(y.from) - b <= l
    BY <1>1, <2>2
  <2>4. l \in Around(y)
    BY <1>1, <1>3, <2>1, <2>3 DEF Around
  <2> QED
    BY <2>1, <2>4
<1> QED
  BY <1>1, <1>2, <1>3 DEF Wanted

(* A further match adds nothing to the lines up to there.                  *)
LEMMA WantedBefore ==
  ASSUME before \in Nat, after \in Nat, NEW p \in Nat, NEW P, MatchesUpTo(P, p),
         NEW x, x.from \in Nat, p <= x.from,
         NEW l \in Nat, l <= LineOf(p), l \in Around(x)
  PROVE  l \in Wanted(P)
<1>1. PICK y \in P : y.kind = "match" /\ y.to = p /\ y.from \in Nat /\ y.from <= p
  BY DEF MatchesUpTo
<1>2. PICK f \in Nat, g \in Nat : f = LineOf(y.from) /\ g = LineOf(x.from) /\ f <= g
  <2>1. LineOf(y.from) \in Nat /\ LineOf(x.from) \in Nat
    BY <1>1, LineNat
  <2>2. y.from <= x.from
    BY <1>1
  <2> QED
    BY <1>1, <2>1, <2>2, LineGrows
<1>3. g - before <= l
  BY <1>2 DEF Around
<1>4. f - before <= l
  BY <1>2, <1>3
<1>5. l <= LineOf(p) + after
  BY LineNat
<1>6. l \in Around(y)
  BY <1>1, <1>2, <1>4, <1>5 DEF Around
<1> QED
  BY <1>1, <1>6 DEF Wanted

(* What is shown up to q is right whatever is wanted beyond.               *)
LEMMA ShowsSame ==
  ASSUME NEW p \in Nat, NEW q \in Nat, NEW a \in Nat, NEW b \in Nat, b <= LineOf(q) + 1,
         NEW P, NEW V, Shows(P, p, q, a, b, V), NEW W, V \subseteq W,
         \A l \in Nat : l <= LineOf(q) /\ l \in W => l \in V
  PROVE  Shows(P, p, q, a, b, W)
<1>1. LineOf(q) \in Nat
  BY LineNat
<1>2. ASSUME NEW i \in p..(q - 1) PROVE LineOf(i) \in V <=> LineOf(i) \in W
  <2>1. LineOf(i) \in Nat /\ LineOf(i) <= LineOf(q)
    BY LineNat, LineGrows
  <2> QED
    BY <2>1
<1>3. ASSUME NEW l \in Nat, l < b PROVE l \in V <=> l \in W
  BY <1>1, <1>3
<1> QED
  BY <1>2, <1>3 DEF Shows

-----------------------------------------------------------------------------
(* What a match prints before its own text.                                *)

FromLine == IF file_match_count = 0 THEN 1 ELSE LineOf(end) + 1

LeadWanted(W, at) ==
  /\ at \in W
  /\ file_match_count = 0 => \A l \in Nat : l < at => (l \in W <=> at - before <= l)
  /\ file_match_count # 0 => RestWanted(W, at)

(* The lines before it and its number, after what comes before them.       *)
LEMMA NumberShows ==
  ASSUME Len(data) \in Nat, before \in Nat, NEW start \in 0..Len(data), NEW at, at = LineOf(start),
         NEW x \in Nat, Begins(x), x <= LineStart(start), NEW k \in Nat, k = LineOf(x),
         NEW W, at \in W, \A l \in k..(at - 1) : l \in W <=> at - before <= l,
         NEW p \in Nat, p <= x, NEW j \in Nat, j <= k,
         NEW rest, IsSequence(rest), Shows(Pieces(rest), p, x, j, k, W),
         NEW context, context = BeforeContext(x, start, at),
         NEW two, Joined(two, rest, context),
         NEW u, Joined(u, two, <<Piece("label", at, start, start)>>)
  PROVE  Shows(Pieces(u), p, LineStart(start), j, at + 1, W)
<1>1. PICK q \in Nat : q = LineStart(start) /\ x <= q
  BY LineStartInData
<1>2. at \in Nat /\ at # 0 /\ k <= at
  <2>1. start \in Nat /\ LineStart(start) \in 0..start
    BY LineStartInData
  <2>2. x <= start
    BY <1>1, <2>1
  <2> QED
    BY <2>1, <2>2, LineNat, LineGrows
<1>3. Shows(Pieces(context), x, q, k, at, W)
  BY <1>1, BeforeShows
<1>4. IsSequence(context)
  BY BeforeContextIsSequence
<1>5. Pieces(two) = Pieces(rest) \cup Pieces(context) /\ IsSequence(two)
  BY <1>4, JoinPieces
<1>6. Shows(Pieces(two), p, q, j, at, W)
  <2>1. PICK P, Q : P = Pieces(rest) /\ Q = Pieces(context)
    OBVIOUS
  <2>2. Shows(P \cup Q, p, q, j, at, W)
    BY <1>1, <1>2, <1>3, <2>1, ShowsBoth
  <2> QED
    BY <1>5, <2>1, <2>2
<1>7. PICK m : m = Piece("label", at, start, start) /\ Joined(u, two, <<m>>)
  OBVIOUS
<1>8. Shows({m}, q, q, at, at + 1, W)
  BY <1>2, <1>7, LabelShows
<1>9. Pieces(u) = Pieces(two) \cup {m}
  <2>1. IsSequence(<<m>>)
    BY OnePiece
  <2> QED
    BY <1>5, <1>7, <2>1, JoinPieces, OnePieces
<1>10. Shows(Pieces(u), p, q, j, at + 1, W)
  <2>1. PICK P, Q : P = Pieces(two) /\ Q = {m}
    OBVIOUS
  <2>2. j <= at /\ at <= at + 1 /\ at + 1 \in Nat /\ p <= q /\ q <= q
    BY <1>1, <1>2
  <2>3. Shows(P \cup Q, p, q, j, at + 1, W)
    BY <1>1, <1>2, <1>6, <1>8, <2>1, <2>2, ShowsBoth
  <2> QED
    BY <1>9, <2>1, <2>3
<1> QED
  BY <1>1, <1>10

LEMMA LeadShows ==
  ASSUME GrepTypeOK, OrderInv, LabelInv, pc = "search", NoReturns, NEW start \in end..Len(data),
         NEW at, at = LineOf(start), at = line + Newlines(line_byte, start),
         NEW x, x = Lead(start, at).end, NEW p, p = PreFrom(x, start),
         NEW W, LeadWanted(W, at)
  PROVE  /\ Shows(Pieces(Lead(start, at).pieces), end, p, FromLine, at + 1, W)
         /\ x \in Nat /\ x <= start
<1>1. /\ Len(data) \in Nat /\ end \in 0..Len(data) /\ after \in Nat /\ before \in Nat
      /\ end \in Nat /\ start \in Nat /\ start \in 0..Len(data) /\ end <= start
      /\ old_line \in Nat /\ line_byte = end /\ file_match_count \in Nat
  BY DEF GrepTypeOK
<1>2. line = old_line /\ Counting /\ line = LineOf(end)
  BY DEF LabelInv, OrderInv, Counting
<1>3. x \in Nat /\ end <= x /\ x <= start
  BY <1>1, <1>2, LeadOrder
<1>4. PICK s : s = LineStart(start) /\ s \in 0..start
  BY <1>1, LineStartInData
<1>5. at \in Nat
  BY <1>1, LineNat
<1>6. PICK lead : lead = Lead(start, at).pieces
  OBVIOUS
<1>7. ASSUME ~NewLine(at) PROVE Shows(Pieces(lead), end, p, FromLine, at + 1, W)
  <2>1. lead = <<>> /\ x = end
    BY <1>6, <1>7, LeadIs
  <2>2. Newlines(end, start) = 0 /\ file_match_count # 0 /\ at = LineOf(end)
    <3>1. Newlines(end, start) \in Nat
      BY <1>1, NewlinesNat
    <3> QED
      BY <1>1, <1>2, <1>7, <3>1 DEF NewLine
  <2>3. \A j \in end..(start - 1) : ~IsNewline(j)
    BY <1>1, <2>2, NoNewlines
  <2>4. s <= end
    <3>1. s # 0 => IsNewline(s - 1)
      BY <1>1, <1>4, LineStartIs
    <3>2. s > end => s - 1 \in end..(start - 1) /\ s # 0
      BY <1>1, <1>4
    <3> QED
      BY <1>1, <1>4, <2>3, <3>1, <3>2
  <2>5. p = end
    BY <1>1, <1>4, <2>1, <2>4 DEF PreFrom
  <2>6. FromLine = at + 1
    BY <2>2 DEF FromLine
  <2>7. PICK k \in Nat : k = at + 1
    BY <1>5
  <2>8. Shows({}, end, end, k, k, W)
    <3>1. \A l \in Nat : ~(k <= l /\ l < k)
      OBVIOUS
    <3>2. \A i \in end..(end - 1) : FALSE
      BY <1>1
    <3> QED
      BY <1>1, <3>1, <3>2, NothingShows
  <2> QED
    BY <2>1, <2>5, <2>6, <2>7, <2>8, NoPieces
<1>8. ASSUME NewLine(at) PROVE Shows(Pieces(lead), end, p, FromLine, at + 1, W)
  <2>1. PICK rest, context, two :
          /\ rest = Rest(start).pieces /\ x = Rest(start).end
          /\ context = BeforeContext(x, start, at)
          /\ Joined(two, rest, context) /\ Joined(lead, two, <<Piece("label", at, start, start)>>)
    BY <1>6, <1>8, LeadIs, Zenon
  <2>2. IsSequence(rest)
    BY <1>1, <2>1, RestIsSequence
  <2>3. /\ Begins(x) /\ x <= s
        /\ FromLine \in Nat /\ FromLine <= LineOf(x)
        /\ Shows(Pieces(rest), end, x, FromLine, LineOf(x), W)
        /\ \A l \in LineOf(x)..(at - 1) : l \in W <=> at - before <= l
    <3>1. CASE file_match_count = 0
      <4>1. rest = <<>> /\ x = 0 /\ end = 0
        BY <1>1, <1>2, <2>1, <3>1, RestIs DEF Counting
      <4>2. LineOf(0) = 1 /\ FromLine = 1
        <5>1. Newlines(0, 0) = 0
          BY NoNewlines
        <5> QED
          BY <3>1, <5>1 DEF LineOf, Newlines, FromLine
      <4>3. Shows({}, 0, 0, 1, 1, W)
        <5>1. \A l \in Nat : ~(1 <= l /\ l < 1)
          OBVIOUS
        <5>2. \A i \in 0..(0 - 1) : FALSE
          OBVIOUS
        <5> QED
          BY <5>1, <5>2, NothingShows
      <4>4. Pieces(rest) = {}
        BY <4>1, NoPieces
      <4>5. \A l \in 1..(at - 1) : l \in W <=> at - before <= l
        <5>1. \A l \in 1..(at - 1) : l \in Nat /\ l < at
          BY <1>5
        <5> QED
          BY <3>1, <5>1, Zenon DEF LeadWanted
      <4>6. Begins(x)
        BY <4>1 DEF Begins
      <4>7. x <= s /\ FromLine \in Nat /\ FromLine <= LineOf(x)
        BY <1>4, <4>1, <4>2
      <4>8. Shows(Pieces(rest), end, x, FromLine, LineOf(x), W)
        BY <4>1, <4>2, <4>3, <4>4, Zenon
      <4> QED
        BY <4>1, <4>2, <4>5, <4>6, <4>7, <4>8, Zenon
    <3>2. CASE file_match_count # 0
      <4>1. old_line < at
        BY <1>1, <1>2, <1>5, <1>8, <3>2 DEF NewLine
      <4>2. RestWanted(W, at)
        BY <3>2, Zenon DEF LeadWanted
      <4>3. /\ Begins(x) /\ x <= LineStart(start) /\ old_line + 1 <= LineOf(x)
            /\ Shows(Pieces(Rest(start).pieces), end, x, old_line + 1, LineOf(x), W)
            /\ \A l \in LineOf(x)..(at - 1) : l \in W <=> at - before <= l
        <5>1. old_line = LineOf(end) /\ x = Rest(start).end
          BY <1>2, <2>1
        <5> QED
          BY <1>1, <3>2, <4>1, <4>2, <5>1, RestShows
      <4>4. FromLine = old_line + 1 /\ old_line + 1 \in Nat
        BY <1>1, <1>2, <3>2 DEF FromLine
      <4> QED
        BY <1>4, <2>1, <4>3, <4>4
    <3> QED
      BY <3>1, <3>2
  <2>4. p = s
    BY <1>1, <1>3, <1>4, <2>3 DEF PreFrom
  <2>5. PICK k \in Nat, j \in Nat : k = LineOf(x) /\ j = FromLine
    BY <1>3, <2>3, LineNat
  <2>6. \A l \in k..(at - 1) : l \in W <=> at - before <= l
    BY <2>3, <2>5
  <2>7. at \in W
    BY DEF LeadWanted
  <2>8. Shows(Pieces(rest), end, x, j, k, W) /\ j <= k /\ Begins(x) /\ x <= LineStart(start)
    BY <1>4, <2>3, <2>5
  <2>9. Shows(Pieces(lead), end, LineStart(start), j, at + 1, W)
    BY <1>1, <1>3, <2>1, <2>2, <2>5, <2>6, <2>7, <2>8, NumberShows
  <2> QED
    BY <1>4, <2>4, <2>5, <2>9
<1> QED
  BY <1>3, <1>6, <1>7, <1>8

-----------------------------------------------------------------------------
(* A turn of the loop.                                                     *)

Before == Wanted(Pieces(output))
OutputShows == Shows(Pieces(output), 0, end, 1, FromLine, Before)

LEMMA OutputMatches ==
  ASSUME LabelInv, pc = "search", file_match_count # 0, OutputShows, IsSequence(output)
  PROVE  MatchesUpTo(Pieces(output), end)
<1>1. EndsIn(output, end)
  BY DEF LabelInv
<1>2. output[Len(output)] \in Pieces(output)
  <2>1. PICK S : output \in Seq(S)
    BY DEF IsSequence
  <2>2. Len(output) \in DOMAIN output
    BY <1>1, <2>1 DEF EndsIn
  <2> QED
    BY <2>2 DEF Pieces
<1>3. \A y \in Pieces(output) : y.kind = "match" => IsText(y)
  BY DEF IsText
<1>4. \A y \in Pieces(output) :
        y.kind = "match" => y.from \in Nat /\ y.to \in Nat /\ y.from <= y.to /\ y.to <= end
  BY <1>3 DEF OutputShows, Shows
<1> QED
  BY <1>1, <1>2, <1>4 DEF MatchesUpTo, EndsIn

(* With the next match the lines around it are wanted as well: none before *)
(* the end of the last one that was not already.                           *)
LEMMA NewlyWanted ==
  ASSUME GrepTypeOK, OrderInv, LabelInv, pc = "search", OutputShows,
         NEW start \in end..Len(data), NEW stop \in start..Len(data), NEW at, at = LineOf(start),
         NEW m, m.from = start, m.to = stop,
         NEW W, W = Before \cup Around(m)
  PROVE  /\ Shows(Pieces(output), 0, end, 1, FromLine, W)
         /\ LeadWanted(W, at)
<1>1. /\ Len(data) \in Nat /\ after \in Nat /\ before \in Nat
      /\ end \in Nat /\ start \in Nat /\ end <= start /\ stop \in Nat /\ start <= stop
      /\ old_line \in Nat /\ file_match_count \in Nat
  BY DEF GrepTypeOK
<1>2. old_line = LineOf(end) /\ (file_match_count = 0 => end = 0 /\ output = <<>>)
  BY DEF LabelInv, OrderInv, Counting
<1>3. PICK h \in Nat : h = LineOf(stop) /\ at \in Nat /\ at <= h
  BY <1>1, LineNat, LineGrows
<1>4. \A l \in Nat : l \in Around(m) <=> at - before <= l /\ l <= h + after
  BY <1>3 DEF Around
<1>5. at \in W
  BY <1>1, <1>3, <1>4
<1>6. \A l \in Nat : l < at => (l \in Around(m) <=> at - before <= l)
  BY <1>1, <1>3, <1>4
<1>7. CASE file_match_count = 0
  <2>1. Pieces(output) = {} /\ Before = {} /\ end = 0 /\ FromLine = 1
    BY <1>2, <1>7, NoPieces DEF Before, Wanted, FromLine
  <2>2. Shows({}, 0, 0, 1, 1, W)
    <3>1. \A l \in Nat : ~(1 <= l /\ l < 1)
      OBVIOUS
    <3>2. \A i \in 0..(0 - 1) : FALSE
      OBVIOUS
    <3> QED
      BY <3>1, <3>2, NothingShows
  <2>3. LeadWanted(W, at)
    BY <1>5, <1>6, <1>7, <2>1 DEF LeadWanted
  <2> QED
    BY <2>1, <2>2, <2>3
<1>8. CASE file_match_count # 0
  <2>1. MatchesUpTo(Pieces(output), end)
    BY <1>8, OutputMatches DEF OrderInv, InOrder
  <2>2. Shows(Pieces(output), 0, end, 1, FromLine, W)
    <3>0. PICK P : P = Pieces(output)
      OBVIOUS
    <3>5. LineOf(end) \in Nat /\ FromLine = LineOf(end) + 1
      BY <1>1, <1>8, LineNat DEF FromLine
    <3>1. PICK j \in Nat : P = Pieces(output) /\ j = FromLine /\ j <= LineOf(end) + 1
      BY <3>0, <3>5
    <3>2. \A l \in Nat : l <= LineOf(end) /\ l \in W => l \in Before
      BY <1>1, <2>1, WantedBefore DEF Before
    <3>3. Shows(P, 0, end, 1, j, Before)
      BY <3>1 DEF OutputShows
    <3>4. Shows(P, 0, end, 1, j, W)
      BY <1>1, <3>1, <3>2, <3>3, ShowsSame
    <3> QED
      BY <3>1, <3>4
  <2>3. RestWanted(W, at)
    <3>1. ASSUME NEW l \in Nat, old_line <= l, l < at
          PROVE  l \in W <=> l <= old_line + after \/ at - before <= l
      <4>1. l \in Before <=> l <= old_line + after
        BY <1>1, <1>2, <2>1, <3>1, WantedAfter DEF Before
      <4>2. l \in Around(m) <=> at - before <= l
        BY <1>6, <3>1
      <4> QED
        BY <4>1, <4>2
    <3> QED
      BY <3>1 DEF RestWanted
  <2> QED
    BY <1>5, <1>8, <2>2, <2>3 DEF LeadWanted
<1> QED
  BY <1>1, <1>7, <1>8

LEMMA TurnShows ==
  ASSUME GrepTypeOK, OrderInv, LabelInv, pc = "search", NoReturns, OutputShows,
         NEW start \in end..Len(data), NEW stop \in start..Len(data),
         NEW at, at = LineOf(start), at = line + Newlines(line_byte, start),
         NEW x, x = Lead(start, at).end,
         NEW b, Joined(b, output, Lead(start, at).pieces),
         NEW c, Joined(c, b, PreText(x, start)),
         NEW u, Joined(u, c, <<Piece("match", 0, start, stop)>>)
  PROVE  Shows(Pieces(u), 0, stop, 1, LineOf(stop) + 1, Wanted(Pieces(u)))
<1>1. /\ Len(data) \in Nat /\ after \in Nat /\ before \in Nat /\ 0 \in Nat /\ 0 <= end
      /\ end \in Nat /\ start \in Nat /\ end <= start /\ stop \in Nat /\ start <= stop
  BY DEF GrepTypeOK
<1>2. PICK m : m = Piece("match", 0, start, stop)
  OBVIOUS
<1>3. m.from = start /\ m.to = stop /\ m.kind = "match"
  BY <1>2 DEF Piece
<1>4. PICK W : W = Before \cup Around(m)
  OBVIOUS
<1>5. Shows(Pieces(output), 0, end, 1, FromLine, W) /\ LeadWanted(W, at)
  BY <1>3, <1>4, NewlyWanted
<1>6. PICK lead, pre, p : lead = Lead(start, at).pieces /\ pre = PreText(x, start)
                          /\ p = PreFrom(x, start)
  OBVIOUS
<1>7. Shows(Pieces(lead), end, p, FromLine, at + 1, W) /\ x \in Nat /\ x <= start
  BY <1>5, <1>6, LeadShows
<1>8. p \in Nat /\ p <= start /\ end <= p
  <2>1. x <= p /\ p \in Nat /\ p <= start
    BY <1>1, <1>6, <1>7, PreOrder
  <2>2. end <= x
    BY <1>1, LeadOrder DEF OrderInv
  <2> QED
    BY <1>1, <1>7, <2>1, <2>2
<1>9. PICK k \in Nat, j \in Nat, h \in Nat : /\ k = at /\ j = FromLine /\ h = LineOf(stop)
                                            /\ 1 <= j /\ j <= k + 1 /\ k <= h
  <2>1. at \in Nat /\ LineOf(stop) \in Nat /\ at <= LineOf(stop) /\ at >= 1
    BY <1>1, LineNat, LineGrows
  <2>2. FromLine \in Nat /\ 1 <= FromLine /\ FromLine <= at + 1
    <3>1. LineOf(end) \in Nat /\ LineOf(end) <= at
      BY <1>1, LineNat, LineGrows
    <3>2. FromLine = 1 \/ FromLine = LineOf(end) + 1
      BY DEF FromLine
    <3> QED
      BY <2>1, <3>1, <3>2
  <2> QED
    BY <2>1, <2>2
<1>10. at \in W /\ LineOf(start) \in W
  BY <1>5 DEF LeadWanted
<1>11. Shows(Pieces(pre), p, start, k + 1, k + 1, W)
  <2>1. k + 1 \in Nat
    OBVIOUS
  <2> QED
    BY <1>1, <1>6, <1>7, <1>10, <2>1, PreShows
<1>12. Shows({m}, start, stop, k + 1, h + 1, W)
  <2>1. Around(m) \subseteq W
    BY <1>4
  <2>2. Shows({m}, start, stop, LineOf(start) + 1, LineOf(stop) + 1, W)
    BY <1>1, <1>2, <2>1, MatchShows
  <2> QED
    BY <1>9, <2>2
<1>13. IsSequence(output) /\ IsSequence(lead) /\ IsSequence(pre) /\ IsSequence(<<m>>)
  BY <1>1, <1>6, LeadIsSequence, PreTextIsSequence, OnePiece DEF OrderInv, InOrder
<1>14. /\ Pieces(b) = Pieces(output) \cup Pieces(lead)
       /\ Pieces(c) = Pieces(b) \cup Pieces(pre) /\ Pieces(u) = Pieces(c) \cup {m}
  <2>1. Pieces(b) = Pieces(output) \cup Pieces(lead) /\ IsSequence(b)
    BY <1>6, <1>13, JoinPieces
  <2>2. Pieces(c) = Pieces(b) \cup Pieces(pre) /\ IsSequence(c)
    BY <1>6, <1>13, <2>1, JoinPieces
  <2>3. Pieces(u) = Pieces(c) \cup Pieces(<<m>>)
    BY <1>2, <1>13, <2>2, JoinPieces
  <2> QED
    BY <2>1, <2>2, <2>3, OnePieces
<1>15. Shows(Pieces(u), 0, stop, 1, h + 1, W)
  <2>1. PICK P, Q, R : P = Pieces(output) /\ Q = Pieces(lead) /\ R = Pieces(pre)
    OBVIOUS
  <2>2. /\ Shows(P, 0, end, 1, j, W) /\ Shows(Q, end, p, j, k + 1, W)
        /\ Shows(R, p, start, k + 1, k + 1, W)
    BY <1>5, <1>7, <1>9, <1>11, <2>1
  <2>3. /\ k + 1 \in Nat /\ h + 1 \in Nat /\ 1 \in Nat
        /\ 1 <= k + 1 /\ k + 1 <= h + 1 /\ k + 1 <= k + 1
    BY <1>9
  <2>4. Shows(P \cup Q, 0, p, 1, k + 1, W)
    BY <1>1, <1>8, <1>9, <2>2, <2>3, ShowsBoth
  <2>5. 0 <= p
    BY <1>8
  <2>6. Shows((P \cup Q) \cup R, 0, start, 1, k + 1, W)
    BY <1>1, <1>8, <2>2, <2>3, <2>4, <2>5, ShowsBoth
  <2>7. 0 <= start
    BY <1>1
  <2>8. Shows(((P \cup Q) \cup R) \cup {m}, 0, stop, 1, h + 1, W)
    BY <1>1, <1>12, <2>3, <2>6, <2>7, ShowsBoth
  <2>9. Pieces(u) = ((P \cup Q) \cup R) \cup {m}
    BY <1>14, <2>1
  <2> QED
    BY <2>8, <2>9
<1>16. Wanted(Pieces(u)) = W
  <2>1. Wanted(Pieces(u)) \subseteq W
    BY <1>15 DEF Shows, Wanted
  <2>2. Before \subseteq Wanted(Pieces(u))
    BY <1>14 DEF Before, Wanted
  <2>3. Around(m) \subseteq Wanted(Pieces(u))
    <3>1. Around(m) \subseteq Nat /\ m \in Pieces(u)
      BY <1>14 DEF Around
    <3> QED
      BY <1>3, <3>1 DEF Wanted
  <2> QED
    BY <1>4, <2>1, <2>2, <2>3
<1> QED
  BY <1>9, <1>15, <1>16

-----------------------------------------------------------------------------
(* The end of a file.                                                      *)

(* What is printed after the last match, up to the end of the data. *)
LEMMA TailShows ==
  ASSUME GrepTypeOK, NoReturns, WholeLines, file_match_count # 0, old_line = LineOf(end),
         NEW stop, stop = Len(data),
         NEW W, \A l \in Nat : LineOf(end) <= l => (l \in W <=> l <= LineOf(end) + after)
  PROVE  \E k \in Nat : /\ LineOf(end) + 1 <= k /\ LineOf(stop) <= k
                        /\ Shows(Pieces(Rest(stop).pieces), end, stop, LineOf(end) + 1, k, W)
<1>1. /\ stop \in Nat /\ after \in Nat /\ stop \in 0..Len(data)
      /\ end \in Nat /\ end \in 0..Len(data) /\ end <= stop
  BY DEF GrepTypeOK
<1>2. PICK z : z = PostStop(end)
  OBVIOUS
<1>3. /\ z \in Nat /\ end <= z /\ z <= stop /\ LineOf(z) = LineOf(end)
      /\ z < stop => /\ IsNewline(z) /\ z + 1 \in Nat /\ Begins(z + 1)
                     /\ LineOf(z + 1) = LineOf(end) + 1
  BY <1>2, PostNewline
<1>4. PICK e \in Nat : e = z + 1
  BY <1>3
<1>5. PICK k \in Nat : k = LineOf(end)
  BY <1>1, LineNat
<1>6. LineOf(end) \in W
  BY <1>1, <1>5
<1>7. Pieces(Rest(stop).pieces) = Pieces(PostText(end)) \cup Pieces(AfterContext(e, stop))
  BY <1>1, <1>2, <1>4, RestPieces
<1>8. PICK P, Q : P = Pieces(PostText(end)) /\ Q = Pieces(AfterContext(e, stop))
  OBVIOUS
<1>9. k + 1 \in Nat /\ k + 1 <= k + 1
  BY <1>5
<1>10. ASSUME z = stop
       PROVE  Shows(P \cup Q, end, stop, k + 1, k + 1, W) /\ LineOf(stop) <= k + 1
  <2>1. Q = {}
    <3>1. PICK S, n, s : S = AfterStops(e, stop) /\ n = Cardinality(S) /\ s = AfterContext(e, stop)
      OBVIOUS
    <3>2. S = {}
      <4>1. S \subseteq NewlineSet(e, stop)
        BY <1>1, <3>1, AfterStopsFacts
      <4>2. NewlineSet(e, stop) = {}
        BY <1>1, <1>4, <1>10 DEF NewlineSet
      <4> QED
        BY <4>1, <4>2
    <3>3. n = 0
      BY <3>1, <3>2, FS_EmptySet
    <3>4. AfterLines(S, n, s, e, stop)
      BY <1>1, <3>1, AfterPieces
    <3>5. s = [i \in 1..n |-> s[i]]
      BY <3>4, Zenon DEF AfterLines
    <3> QED
      BY <1>8, <3>1, <3>3, <3>5 DEF Pieces
  <2>2. Shows(P, end, stop, k + 1, k + 1, W)
    BY <1>1, <1>2, <1>6, <1>8, <1>9, <1>10, PostShows
  <2>3. P \cup Q = P
    BY <2>1
  <2>4. LineOf(stop) = k
    BY <1>3, <1>5, <1>10
  <2>5. LineOf(stop) <= k + 1
    BY <2>4
  <2> QED
    BY <2>2, <2>3, <2>5
<1>11. ASSUME z < stop
       PROVE  \E h \in Nat : /\ k + 1 <= h /\ h = LineOf(stop)
                             /\ Shows(P \cup Q, end, stop, k + 1, h, W)
  <2>1. AfterAsked(W, stop)
    <3>1. ASSUME NEW l \in Nat, old_line < l, l <= old_line + after PROVE l \in W
      BY <1>1, <1>5, <3>1
    <3> QED
      BY <3>1 DEF AfterAsked
  <2>2. e <= stop /\ end <= e
    BY <1>1, <1>3, <1>4, <1>11
  <2>3. PICK x : x = AfterEnd(e, stop)
    OBVIOUS
  <2>15. AfterGood(e, x, stop, W)
    BY <1>1, <1>2, <1>4, <1>11, <2>1, <2>2, <2>3, AfterFacts
  <2>4. /\ x \in Nat /\ e <= x /\ x <= stop /\ LineOf(x) <= LineOf(stop)
        /\ LineOf(e) = old_line + 1 /\ LineOf(e) <= LineOf(x)
        /\ Shows(Pieces(AfterContext(e, stop)), e, x, LineOf(e), LineOf(x), W)
        /\ \A l \in LineOf(x)..(LineOf(stop) - 1) : old_line + after < l
    BY <2>15, Zenon DEF AfterGood
  <2>5. PICK j \in Nat : j = LineOf(x)
    BY <2>4, LineNat
  <2>6. PICK h \in Nat : h = LineOf(stop)
    BY <1>1, LineNat
  <2>7. k + 1 <= j /\ j <= h /\ k + 1 <= h /\ LineOf(e) = k + 1
    BY <1>5, <2>4, <2>5, <2>6
  <2>8. Shows(P, end, e, k + 1, k + 1, W)
    BY <1>1, <1>2, <1>4, <1>6, <1>8, <1>9, <1>11, PostShows
  <2>9. Shows(Q, e, x, k + 1, j, W)
    BY <1>8, <2>4, <2>5, <2>7
  <2>10. Shows({}, x, stop, j, h, W)
    <3>1. ASSUME NEW l \in Nat, j <= l, l < h PROVE l \notin W
      <4>1. l \in j..(h - 1)
        BY <3>1
      <4>2. old_line + after < l
        BY <2>4, <2>5, <2>6, <4>1
      <4>3. LineOf(end) <= l /\ ~(l <= LineOf(end) + after)
        BY <1>1, <1>5, <4>2
      <4> QED
        BY <4>3
    <3>2. ASSUME NEW i \in x..(stop - 1), ~IsNewline(i) PROVE LineOf(i) \notin W
      <4>1. i \in Nat /\ x <= i /\ i <= stop - 1
        BY <1>1, <2>4
      <4>2. IsNewline(stop - 1) /\ stop - 1 \in Nat
        BY <1>1, <4>1 DEF WholeLines
      <4>3. /\ LineOf(i) <= LineOf(stop - 1)
            /\ LineOf((stop - 1) + 1) = LineOf(stop - 1) + 1
        BY <4>1, <4>2, LineEnded
      <4>4. LineOf(stop - 1) \in Nat /\ LineOf(i) \in Nat /\ j <= LineOf(i)
        BY <2>4, <2>5, <4>1, <4>2, LineNat, LineGrows
      <4>5. (stop - 1) + 1 = stop
        BY <1>1
      <4>6. LineOf(i) < h
        BY <2>6, <4>3, <4>4, <4>5
      <4> QED
        BY <3>1, <4>4, <4>6
    <3> QED
      BY <1>1, <2>4, <3>1, <3>2, NothingShows
  <2>11. Shows(P \cup Q, end, x, k + 1, j, W)
    BY <1>1, <1>9, <2>2, <2>4, <2>7, <2>8, <2>9, ShowsBoth
  <2>12. end <= x
    BY <1>1, <2>2, <2>4
  <2>13. Shows((P \cup Q) \cup {}, end, stop, k + 1, h, W)
    BY <1>1, <1>9, <2>4, <2>7, <2>10, <2>11, <2>12, ShowsBoth
  <2>14. (P \cup Q) \cup {} = P \cup Q
    OBVIOUS
  <2> QED
    BY <2>6, <2>7, <2>13, <2>14
<1>12. Pieces(Rest(stop).pieces) = P \cup Q
  BY <1>7, <1>8
<1>13. z = stop \/ z < stop
  BY <1>1, <1>3
<1>14. LineOf(end) + 1 = k + 1
  BY <1>5
<1>15. CASE z = stop
  BY <1>9, <1>10, <1>12, <1>14, <1>15, Zenon
<1>16. CASE z < stop
  <2>1. PICK h \in Nat : k + 1 <= h /\ h = LineOf(stop) /\ Shows(P \cup Q, end, stop, k + 1, h, W)
    BY <1>11, <1>16
  <2>2. LineOf(stop) <= h
    BY <2>1
  <2> QED
    BY <1>12, <1>14, <2>1, <2>2, Zenon
<1> QED
  BY <1>13, <1>15, <1>16

FileShows(s) ==
  \E k \in Nat : /\ LineOf(Len(data)) <= k
                 /\ Shows(Pieces(s), 0, Len(data), 1, k, Wanted(Pieces(s)))

LEMMA LastShows ==
  ASSUME GrepTypeOK, OrderInv, LabelInv, pc = "search", NoReturns, WholeLines, OutputShows,
         NEW u, Joined(u, output, Rest(Len(data)).pieces)
  PROVE  FileShows(u)
<1>1. PICK stop \in Nat : stop = Len(data) /\ end \in Nat /\ end <= stop /\ stop \in 0..Len(data)
  BY DEF GrepTypeOK
<1>2. /\ end \in 0..Len(data) /\ after \in Nat /\ before \in Nat
  BY DEF GrepTypeOK
<1>3. old_line = LineOf(end) /\ (file_match_count = 0 => end = 0 /\ output = <<>>)
  BY DEF LabelInv, OrderInv, Counting
<1>4. PICK rest : rest = Rest(stop).pieces
  OBVIOUS
<1>5. IsSequence(output) /\ IsSequence(rest)
  BY <1>1, <1>2, <1>4, RestIsSequence DEF OrderInv, InOrder
<1>6. Pieces(u) = Pieces(output) \cup Pieces(rest)
  BY <1>1, <1>4, <1>5, JoinPieces
<1>7. PICK h \in Nat : h = LineOf(stop)
  BY <1>1, LineNat
<1>8. CASE file_match_count = 0
  <2>1. rest = <<>>
    BY <1>1, <1>4, <1>8, RestIs
  <2>2. Pieces(u) = {} /\ Wanted({}) = {}
    BY <1>3, <1>6, <1>8, <2>1, NoPieces DEF Wanted
  <2>3. Shows({}, 0, stop, 1, h, {})
    BY <1>1, <1>7, NothingShows
  <2>4. Wanted(Pieces(u)) = {}
    BY <2>2, Zenon
  <2>5. Shows(Pieces(u), 0, stop, 1, h, Wanted(Pieces(u)))
    BY <2>2, <2>3, <2>4, Zenon
  <2>6. LineOf(stop) <= h
    BY <1>7
  <2> QED
    BY <1>1, <2>5, <2>6 DEF FileShows
<1>9. CASE file_match_count # 0
  <2>1. MatchesUpTo(Pieces(output), end)
    BY <1>5, <1>9, OutputMatches
  <2>2. \A l \in Nat : LineOf(end) <= l => (l \in Before <=> l <= LineOf(end) + after)
    BY <1>1, <1>2, <2>1, WantedAfter DEF Before
  <2>3. PICK k \in Nat : /\ LineOf(end) + 1 <= k /\ LineOf(stop) <= k
                         /\ Shows(Pieces(Rest(stop).pieces), end, stop, LineOf(end) + 1, k, Before)
    BY <1>1, <1>3, <1>9, <2>2, TailShows
  <2>4. PICK j \in Nat : j = LineOf(end) + 1 /\ j = FromLine /\ 1 <= j
    <3>1. LineOf(end) \in Nat
      BY <1>1, LineNat
    <3> QED
      BY <1>9, <3>1 DEF FromLine
  <2>5. PICK P, Q : P = Pieces(output) /\ Q = Pieces(rest)
    OBVIOUS
  <2>6. Shows(P, 0, end, 1, j, Before) /\ Shows(Q, end, stop, j, k, Before)
    BY <1>4, <2>3, <2>4, <2>5 DEF OutputShows
  <2>7. 0 <= end /\ j <= k /\ 1 \in Nat /\ 0 \in Nat
    BY <1>1, <2>3, <2>4
  <2>8. Shows(P \cup Q, 0, stop, 1, k, Before)
    BY <1>1, <2>4, <2>6, <2>7, ShowsBoth
  <2>9. Pieces(u) = P \cup Q
    BY <1>6, <2>5
  <2>10. Wanted(Pieces(u)) = Before
    <3>1. Before \subseteq Wanted(Pieces(u))
      BY <2>5, <2>9 DEF Before, Wanted
    <3>2. Wanted(Pieces(u)) \subseteq Before
      BY <2>8, <2>9 DEF Shows, Wanted
    <3> QED
      BY <3>1, <3>2
  <2>11. Shows(Pieces(u), 0, stop, 1, k, Wanted(Pieces(u))) /\ LineOf(stop) <= k
    BY <2>3, <2>8, <2>9, <2>10
  <2> QED
    BY <1>1, <2>11 DEF FileShows
<1> QED
  BY <1>8, <1>9

-----------------------------------------------------------------------------
(* The strengthening of ContextShown: up to the end of the last match, the *)
(* lines around the matches so far are shown, and no others.               *)
ShownInv ==
  /\ pc = "search" => OutputShows
  /\ pc = "shown" => (WholeLines => FileShows(output))

(* What is shown does not change while a file is searched. *)
LEMMA ShowsNext ==
  ASSUME data' = data, before' = before, after' = after,
         NEW P, NEW p, NEW q, NEW a, NEW b, NEW W
  PROVE  /\ Shows(P, p, q, a, b, W)' <=> Shows(P, p, q, a, b, W)
         /\ Wanted(P)' = Wanted(P) /\ LineOf(p)' = LineOf(p)
<1>1. \A i : LineOf(i)' = LineOf(i) /\ (IsNewline(i)' <=> IsNewline(i))
  BY DEF LineOf, IsNewline
<1>2. \A x : Around(x)' = Around(x)
  BY <1>1, Zenon DEF Around
<1>3. \A l : Starts(P, l)' <=> Starts(P, l)
  BY <1>1, Zenon DEF Starts, Crosses
<1>4. \A i : Covers(P, i)' <=> Covers(P, i)
  BY Zenon DEF Covers, IsText
<1>5. Wanted(P)' = Wanted(P)
  BY <1>2, Zenon DEF Wanted
<1>6. Shows(P, p, q, a, b, W)' <=> Shows(P, p, q, a, b, W)
  BY <1>1, <1>2, <1>3, <1>4, Zenon DEF Shows, IsText
<1> QED
  BY <1>1, <1>5, <1>6

LEMMA OutputShowsNext ==
  ASSUME data' = data, before' = before, after' = after,
         NEW s, s = output', NEW q, q = end', NEW k, k = FromLine',
         Shows(Pieces(s), 0, q, 1, k, Wanted(Pieces(s)))
  PROVE  OutputShows'
<1>1. PICK P, W : P = Pieces(s) /\ W = Wanted(P)
  OBVIOUS
<1>2. Pieces(output)' = P
  BY <1>1, Zenon DEF Pieces
<1>3. Wanted(P)' = W
  BY <1>1, ShowsNext
<1>4. Before' = W
  BY <1>2, <1>3, Zenon DEF Before
<1>5. Shows(P, 0, q, 1, k, W)'
  BY <1>1, ShowsNext
<1> QED
  BY <1>2, <1>4, <1>5, Zenon DEF OutputShows

LEMMA FileShowsNext ==
  ASSUME data' = data, before' = before, after' = after, NEW s, s = output', FileShows(s)
  PROVE  FileShows(output)'
<1>1. PICK P, W, q : P = Pieces(s) /\ W = Wanted(P) /\ q = Len(data)
  OBVIOUS
<1>2. PICK k \in Nat : LineOf(q) <= k /\ Shows(P, 0, q, 1, k, W)
  BY <1>1 DEF FileShows
<1>3. Pieces(output)' = P
  BY <1>1, Zenon DEF Pieces
<1>4. Wanted(P)' = W /\ LineOf(q)' = LineOf(q)
  BY <1>1, ShowsNext
<1>5. Shows(P, 0, q, 1, k, W)'
  BY <1>2, ShowsNext
<1>6. Len(data)' = q
  BY <1>1
<1> QED
  BY <1>2, <1>3, <1>4, <1>5, <1>6, Zenon DEF FileShows

LEMMA StepShownInv ==
  ASSUME NeverEmptyAtEnd, GrepInv, OrderInv, NoReturns => LabelInv, NoReturns => ShownInv,
         [GrepNext]_grepVars
  PROVE  (NoReturns => ShownInv)'
<1> SUFFICES ASSUME NoReturns' PROVE ShownInv'
  OBVIOUS
<1>1. GrepTypeOK /\ StartsInData
  BY DEF GrepInv
<1>2. data' = data => LabelInv /\ ShownInv /\ NoReturns
  BY DEF NoReturns
<1>3. CASE ShowMatch
  <2>1. PICK r \in Find(expr, data, pos) :
          LET at == line + Newlines(line_byte, r.start)
              lead == Lead(r.start, at)
          IN  /\ output' = output \o lead.pieces \o PreText(lead.end, r.start)
                           \o <<Piece("match", 0, r.start, r.end)>>
              /\ end' = r.end
    BY <1>3 DEF ShowMatch
  <2>2. /\ expr \in Patterns /\ file \in Entries /\ IsFile(file) /\ data = file.content
        /\ pos \in 0..Len(data) /\ Len(data) \in Nat /\ end \in 0..Len(data) /\ end <= pos
        /\ pc = "search" /\ line_byte = end /\ end \in Nat
    BY <1>1, <1>3 DEF ShowMatch, GrepTypeOK, StartsInData
  <2>3. r.start \in pos..Len(data) /\ r.end \in r.start..Len(data)
    BY <2>2, FoundWithin
  <2>4. PICK start, stop : start = r.start /\ stop = r.end
    OBVIOUS
  <2>5. /\ start \in Nat /\ stop \in Nat /\ start \in end..Len(data) /\ stop \in start..Len(data)
        /\ end <= start /\ start <= stop
    BY <2>2, <2>3, <2>4
  <2>6. PICK at : at = line + Newlines(line_byte, start)
    OBVIOUS
  <2>7. LabelInv /\ NoReturns /\ OutputShows
    BY <1>2, <1>3 DEF ShowMatch, ShownInv
  <2>8. at = LineOf(start)
    BY <2>2, <2>5, <2>6, <2>7, LineOfFurther DEF LabelInv
  <2>9. PICK lead, x : lead = Lead(start, at).pieces /\ x = Lead(start, at).end
    OBVIOUS
  <2>10. PICK pre, match : pre = PreText(x, start) /\ match = <<Piece("match", 0, start, stop)>>
    OBVIOUS
  <2>11. output' = output \o lead \o pre \o match
    BY <2>1, <2>4, <2>6, <2>9, <2>10, Zenon
  <2>12. PICK out : out = output'
    OBVIOUS
  <2>13. PICK b, c : /\ Joined(b, output, lead) /\ Joined(c, b, pre) /\ Joined(out, c, match)
    BY <2>11, <2>12, Zenon DEF Joined
  <2>14. /\ Joined(b, output, Lead(start, at).pieces) /\ Joined(c, b, PreText(x, start))
         /\ Joined(out, c, <<Piece("match", 0, start, stop)>>)
    BY <2>9, <2>10, <2>13, Zenon
  <2>15. Shows(Pieces(out), 0, stop, 1, LineOf(stop) + 1, Wanted(Pieces(out)))
    BY <1>1, <2>2, <2>5, <2>6, <2>7, <2>8, <2>9, <2>14, TurnShows
  <2>16. /\ data' = data /\ pc' = pc /\ end' = stop /\ file_match_count' # 0
         /\ before' = before /\ after' = after
    BY <1>1, <1>3, <2>1, <2>4 DEF ShowMatch, GrepTypeOK, options
  <2>17. FromLine' = LineOf(stop) + 1
    <3>1. LineOf(end)' = LineOf(stop)
      BY <2>16, LineOfNext
    <3> QED
      BY <2>16, <3>1 DEF FromLine
  <2>18. OutputShows'
    BY <2>12, <2>15, <2>16, <2>17, OutputShowsNext
  <2> QED
    BY <2>2, <2>16, <2>18 DEF ShownInv
<1>4. CASE LastMatch
  <2>1. /\ pc = "search" /\ pc' = "shown" /\ data' = data
        /\ before' = before /\ after' = after
    BY <1>4 DEF LastMatch, options
  <2>2. PICK out : out = output'
    OBVIOUS
  <2>3. Joined(out, output, Rest(Len(data)).pieces)
    BY <1>4, <2>2 DEF LastMatch, Joined
  <2>4. LabelInv /\ NoReturns /\ OutputShows
    BY <1>2, <2>1 DEF ShownInv
  <2>5. ASSUME WholeLines' PROVE FileShows(output)'
    <3>1. WholeLines
      BY <2>1, <2>5 DEF WholeLines, IsNewline
    <3>2. FileShows(out)
      BY <1>1, <2>1, <2>3, <2>4, <3>1, LastShows
    <3> QED
      BY <2>1, <2>2, <3>2, FileShowsNext
  <2> QED
    BY <2>1, <2>5 DEF ShownInv
<1>5. CASE ReadEnd
  <2>1. /\ pc' = "search" /\ output' = <<>> /\ end' = 0 /\ file_match_count' = 0
        /\ data' = data /\ before' = before /\ after' = after
    BY <1>5 DEF ReadEnd, ResetLocals, options
  <2>2. FromLine' = 1
    BY <2>1 DEF FromLine
  <2>3. PICK s, q, k : s = output' /\ q = end' /\ k = FromLine'
    OBVIOUS
  <2>4. Pieces(s) = {} /\ q = 0 /\ k = 1
    BY <2>1, <2>2, <2>3, NoPieces
  <2>5. Shows({}, 0, 0, 1, 1, Wanted({}))
    <3>1. \A l \in Nat : ~(1 <= l /\ l < 1)
      OBVIOUS
    <3>2. \A i \in 0..(0 - 1) : FALSE
      OBVIOUS
    <3> QED
      BY <3>1, <3>2, NothingShows
  <2>6. Shows(Pieces(s), 0, q, 1, k, Wanted(Pieces(s)))
    BY <2>4, <2>5, Zenon
  <2>7. OutputShows'
    BY <2>1, <2>3, <2>6, OutputShowsNext
  <2> QED
    BY <2>1, <2>7 DEF ShownInv
<1>6. CASE UNCHANGED grepVars
  <2>1. /\ data' = data /\ output' = output /\ end' = end /\ pc' = pc
        /\ file_match_count' = file_match_count /\ before' = before /\ after' = after
    BY <1>6 DEF grepVars, options, locals
  <2>2. ASSUME OutputShows PROVE OutputShows'
    <3>1. FromLine' = FromLine
      BY <2>1 DEF FromLine, LineOf, IsNewline
    <3>2. PICK s, q, k : s = output' /\ q = end' /\ k = FromLine'
      OBVIOUS
    <3>3. Shows(Pieces(s), 0, q, 1, k, Wanted(Pieces(s)))
      BY <2>1, <2>2, <3>1, <3>2, Zenon DEF OutputShows, Before
    <3> QED
      BY <2>1, <3>2, <3>3, OutputShowsNext
  <2>3. ASSUME FileShows(output) PROVE FileShows(output)'
    BY <2>1, <2>3, FileShowsNext
  <2>4. WholeLines' => WholeLines
    BY <2>1 DEF WholeLines, IsNewline
  <2> QED
    BY <1>2, <2>1, <2>2, <2>3, <2>4 DEF ShownInv
<1>7. CASE ~ShowMatch /\ ~LastMatch /\ ~ReadEnd /\ ~UNCHANGED grepVars
  <2>1. pc' \notin {"search", "shown"}
    BY <1>7 DEF GrepNext, GrepTurn, Main, FindNothing, FindDirectory, FindFile, ReadChunk,
                ReadError, CloseFile, GrepEnd, Again
  <2> QED
    BY <2>1 DEF ShownInv
<1> QED
  BY <1>3, <1>4, <1>5, <1>6, <1>7

(* What the invariant says of lines, said of positions. *)
LEMMA ShownTrue ==
  ASSUME GrepTypeOK, WholeLines, FileShows(output)
  PROVE  ContextShown
<1> DEFINE P == Pieces(output)
           wanted == UNION {(LineOf(m.from) - before)..(LineOf(m.to) + after) : m \in MatchPieces}
           Shown(i) == \E k \in DOMAIN output :
                         IsText(output[k]) /\ output[k].from <= i /\ i < output[k].to
           Begun(i) == \/ \E k \in DOMAIN output : output[k].label = LineOf(i)
                       \/ \E m \in MatchPieces : m.from < i /\ i <= m.to
<1>1. PICK stop \in Nat : stop = Len(data) /\ before \in Nat /\ after \in Nat
  BY DEF GrepTypeOK
<1>2. PICK k \in Nat : LineOf(stop) <= k /\ Shows(P, 0, stop, 1, k, Wanted(P))
  BY <1>1 DEF FileShows
<1>3. \A m : m \in MatchPieces <=> m \in P /\ m.kind = "match"
  BY DEF MatchPieces, Pieces
<1>4. \A m \in MatchPieces : m.from \in Nat /\ m.to \in Nat
  <2>1. \A m \in P : m.kind = "match" => IsText(m)
    BY DEF IsText
  <2> QED
    BY <1>2, <1>3, <2>1 DEF Shows
<1>5. ASSUME NEW l \in Nat PROVE l \in wanted <=> l \in Wanted(P)
  <2>1. ASSUME NEW m \in MatchPieces
        PROVE  l \in (LineOf(m.from) - before)..(LineOf(m.to) + after) <=> l \in Around(m)
    <3>1. LineOf(m.from) \in Nat /\ LineOf(m.to) \in Nat
      BY <1>4, LineNat
    <3> QED
      BY <1>1, <3>1 DEF Around
  <2>2. l \in Wanted(P) <=> \E m \in MatchPieces : l \in Around(m)
    BY <1>3 DEF Wanted
  <2> QED
    BY <2>1, <2>2
<1>6. ASSUME NEW i \in 0..(stop - 1)
      PROVE  /\ ~IsNewline(i) => (Shown(i) <=> LineOf(i) \in wanted)
             /\ i = LineStart(i) => (Begun(i) <=> LineOf(i) \in wanted)
  <2>1. i \in Nat /\ i < stop /\ LineOf(i) \in Nat /\ LineOf(i) >= 1
    BY <1>6, LineNat
  <2>2. LineOf(i) \in wanted <=> LineOf(i) \in Wanted(P)
    BY <1>5, <2>1
  <2>3. Shown(i) <=> Covers(P, i)
    BY DEF Covers, Pieces
  <2>4. ~IsNewline(i) => (Covers(P, i) <=> LineOf(i) \in Wanted(P))
    BY <1>2, <1>6 DEF Shows
  <2>5. ASSUME i = LineStart(i) PROVE Begun(i) <=> LineOf(i) \in Wanted(P)
    <3>1. Begins(i)
      BY <2>1, <2>5, LineBegins DEF Begins
    <3>2. ASSUME NEW m \in MatchPieces PROVE m.from < i /\ i <= m.to <=> Crosses(m, LineOf(i))
      <4>1. m.from \in Nat /\ m.to \in Nat /\ m.kind = "match"
        BY <1>3, <1>4
      <4>2. m.from < i <=> LineOf(m.from) < LineOf(i)
        BY <2>1, <3>1, <4>1, LineBegun
      <4>3. m.to < i <=> LineOf(m.to) < LineOf(i)
        BY <2>1, <3>1, <4>1, LineBegun
      <4>4. LineOf(m.from) \in Nat /\ LineOf(m.to) \in Nat
        BY <4>1, LineNat
      <4>5. i <= m.to <=> LineOf(i) <= LineOf(m.to)
        BY <2>1, <4>1, <4>3, <4>4
      <4> QED
        BY <4>1, <4>2, <4>5 DEF Crosses
    <3>3. Starts(P, LineOf(i)) <=> \/ \E x \in P : x.label = LineOf(i)
                                  \/ \E m \in MatchPieces : Crosses(m, LineOf(i))
      BY <1>3 DEF Starts, Crosses
    <3>4. (\E x \in P : x.label = LineOf(i))
          <=> (\E j \in DOMAIN output : output[j].label = LineOf(i))
      BY DEF Pieces
    <3>5. Begun(i) <=> Starts(P, LineOf(i))
      BY <3>2, <3>3, <3>4
    <3>6. LineOf(i) < k
      <4>1. IsNewline(stop - 1) /\ stop - 1 \in Nat /\ i <= stop - 1
        BY <1>1, <2>1 DEF WholeLines
      <4>2. LineOf(i) <= LineOf(stop - 1) /\ LineOf((stop - 1) + 1) = LineOf(stop - 1) + 1
        BY <2>1, <4>1, LineEnded
      <4>3. LineOf(stop - 1) \in Nat
        BY <4>1, LineNat
      <4>4. (stop - 1) + 1 = stop
        OBVIOUS
      <4>5. LineOf(stop) = LineOf(stop - 1) + 1
        BY <4>2, <4>4
      <4> QED
        BY <1>2, <2>1, <4>2, <4>3, <4>5
    <3>7. Starts(P, LineOf(i)) <=> 1 <= LineOf(i) /\ LineOf(i) < k /\ LineOf(i) \in Wanted(P)
      <4>1. LineOf(i) \in Nat \ {0}
        BY <2>1
      <4> QED
        BY <1>2, <4>1 DEF Shows
    <3> QED
      BY <2>1, <3>5, <3>6, <3>7
  <2> QED
    BY <2>2, <2>3, <2>4, <2>5
<1> QED
  BY <1>1, <1>6, Zenon DEF ContextShown

(* When a file is done, of one whose lines all end with a newline and hold *)
(* no carriage return, the lines around its matches are shown, each whole, *)
(* and no others: those after a match as far as the next one lets them be, *)
(* those before the next that are not printed yet.                         *)
THEOREM ContextTrue ==
  ASSUME NeverEmptyAtEnd
  PROVE  GrepSpec => [](NoReturns /\ WholeLines => ContextShown)
<1>1. GrepInv /\ [GrepNext]_grepVars => GrepInv'
  BY StepGrepInv
<1>2. GrepInv /\ OrderInv /\ [GrepNext]_grepVars => OrderInv'
  BY StepOrderInv
<1>3. GrepInv /\ OrderInv /\ (NoReturns => LabelInv) /\ [GrepNext]_grepVars
      => (NoReturns => LabelInv)'
  BY StepLabelInv
<1>4. /\ GrepInv /\ OrderInv /\ (NoReturns => LabelInv) /\ (NoReturns => ShownInv)
      /\ [GrepNext]_grepVars
      => (NoReturns => ShownInv)'
  BY StepShownInv
<1>5. GrepInit => OrderInv /\ LabelInv /\ ShownInv
  BY DEF GrepInit, OrderInv, LabelInv, ShownInv
<1>6. GrepInv /\ ShownInv => (WholeLines => ContextShown)
  <2> SUFFICES ASSUME GrepInv, ShownInv, WholeLines PROVE ContextShown
    OBVIOUS
  <2>1. CASE pc = "shown"
    BY <2>1, ShownTrue DEF GrepInv, ShownInv
  <2>2. CASE pc # "shown"
    BY <2>2 DEF ContextShown
  <2> QED
    BY <2>1, <2>2
<1> QED
  BY InitGrepInv, <1>1, <1>2, <1>3, <1>4, <1>5, <1>6, PTL DEF GrepSpec
=============================================================================
