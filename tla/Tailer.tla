------------------------------- MODULE Tailer -------------------------------
(***************************************************************************)
(* The tailer of one append-only session file (tailer.go, line mode) and   *)
(* what watcher.go's readAndEmit does when a read fails.                   *)
(*                                                                         *)
(* The agent writes the file in pieces that know nothing of lines.  Each   *)
(* ReadNewLines takes all there is from the offset, returns the lines that *)
(* are complete and keeps the rest; lines longer than MaxLine are dropped, *)
(* even when they are read in several pieces.  The file may be truncated   *)
(* (log rotation), deleted and created again, and a read may fail.         *)
(***************************************************************************)
EXTENDS Integers, Sequences, FiniteSets

CONSTANTS
    Char,          \* the bytes of a line other than the newline
    NL,            \* the newline
    MaxLine,       \* maxLineSize (1 MB in the code)
    MaxFile,       \* bound: size of the file
    MaxStart,      \* bound: size of the file when the daemon starts
    MaxGen,        \* bound: how often the file is truncated or created again
    Absent, NoTailer,
    Environment    \* which of these happen: "truncate", "delete", "read_error"

ASSUME TailerAssumption ==
    /\ NL \notin Char
    /\ MaxLine \in Nat \ {0}
    /\ MaxFile \in Nat /\ MaxStart \in 0..MaxFile /\ MaxGen \in Nat
    /\ Absent \notin Seq(Char \cup {NL})
    /\ NoTailer \notin [offset : Nat, buf : Seq(Char), skip : BOOLEAN]
    /\ Environment \subseteq {"truncate", "delete", "read_error"}

VARIABLES
    file,      \* the bytes of the file, or Absent
    gen,       \* how often the content was thrown away
    tail,      \* Tailer: offset, buf, skipToNewline; or NoTailer
    pc,        \* "idle", or "read": ReadNewLines has stat'ed the file and reads it
    since,     \* from where on, in which content, and whether from a clean start,
               \* the tailer has read what is in delivered
    delivered  \* the lines ReadNewLines returned since then

vars == <<file, gen, tail, pc, since, delivered>>

Byte == Char \cup {NL}

\* Every variable has its type; a tailer keeps at most MaxLine bytes of a file
\* in memory, however long a line the agent writes.
TypeOK ==
    /\ file = Absent \/ (file \in Seq(Byte) /\ Len(file) <= MaxFile)
    /\ gen \in 0..MaxGen
    /\ tail = NoTailer \/ (/\ tail.offset \in 0..MaxFile
                           /\ tail.buf \in Seq(Char) /\ Len(tail.buf) <= MaxLine
                           /\ tail.skip \in BOOLEAN)
    /\ pc \in {"idle", "read"}
    /\ since \in [gen : 0..MaxGen, at : 0..MaxFile, clean : BOOLEAN]
    /\ delivered \in Seq(Seq(Byte))

----------------------------------------------------------------------------
(* The agent and its file.                                                 *)

Append1(b) ==
    /\ file # Absent /\ Len(file) < MaxFile
    /\ file' = Append(file, b)
    /\ UNCHANGED <<gen, tail, pc, since, delivered>>

Truncate ==
    /\ "truncate" \in Environment /\ gen < MaxGen
    /\ file \notin {Absent, <<>>}
    /\ file' = <<>> /\ gen' = gen + 1
    /\ UNCHANGED <<tail, pc, since, delivered>>

\* A file deleted during a read is read to its end all the same: that is the
\* deletion that comes after the read.
Delete ==
    /\ "delete" \in Environment /\ pc = "idle" /\ file # Absent
    /\ file' = Absent
    /\ UNCHANGED <<gen, tail, pc, since, delivered>>

Create ==
    /\ file = Absent /\ gen < MaxGen
    /\ file' = <<>> /\ gen' = gen + 1
    /\ UNCHANGED <<tail, pc, since, delivered>>

----------------------------------------------------------------------------
(* ReadNewLines.                                                           *)

\* The loop over ReadBytes('\n'), one byte at a time.  What matters happens at
\* a newline: the line is skipped, too long or returned.
ReadByte(s, b) ==
    LET line == Append(s.current, b)
    IN  IF b # NL THEN [s EXCEPT !.current = line]
        ELSE IF s.skip THEN [s EXCEPT !.current = <<>>, !.skip = FALSE]
        ELSE IF Len(line) > MaxLine THEN [s EXCEPT !.current = <<>>]
        ELSE [s EXCEPT !.current = <<>>, !.lines = Append(@, line)]

\* (A recursive function, which unlike FoldLeft can be reasoned about.)
Scan(buf, bytes) ==
    LET after[n \in 0..Len(bytes)] ==
          IF n = 0 THEN [current |-> buf, skip |-> tail.skip, lines |-> <<>>]
          ELSE ReadByte(after[n - 1], bytes[n])
    IN  after[Len(bytes)]

\* Mutant: a partial line of exactly MaxLine bytes is dropped without a skip.
AtEOF_OffByOne(s) ==
    [offset |-> IF Len(file) > tail.offset THEN Len(file) ELSE tail.offset,
     buf    |-> IF Len(s.current) < MaxLine THEN s.current ELSE <<>>,
     skip   |-> s.skip \/ Len(s.current) > MaxLine]

\* Mutant: a partial line is kept however long it is.
AtEOF_KeepsAll(s) ==
    [offset |-> IF Len(file) > tail.offset THEN Len(file) ELSE tail.offset,
     buf    |-> s.current,
     skip   |-> s.skip]

\* io.EOF: keep a partial line, or start to skip one that is too long already.
AtEOF(s) ==
    [offset |-> IF Len(file) > tail.offset THEN Len(file) ELSE tail.offset,
     buf    |-> IF Len(s.current) <= MaxLine THEN s.current ELSE <<>>,
     skip   |-> s.skip \/ Len(s.current) > MaxLine]

Rest == SubSeq(file, tail.offset + 1, Len(file))

\* Open fails: the file is gone, and readAndEmit forgets the tailer.
OpenFails ==
    /\ pc = "idle" /\ tail # NoTailer /\ file = Absent
    /\ tail' = NoTailer
    /\ UNCHANGED <<file, gen, pc, since, delivered>>

\* Open, Stat, and the return when nothing is new and nothing is buffered.
Stat ==
    /\ pc = "idle" /\ tail # NoTailer /\ file # Absent
    /\ Len(file) >= tail.offset
    /\ pc' = IF Len(file) = tail.offset /\ tail.buf = <<>> THEN "idle" ELSE "read"
    /\ UNCHANGED <<file, gen, tail, since, delivered>>

\* The same on a file that is shorter than what was read of it.
StatTruncated ==
    /\ pc = "idle" /\ tail # NoTailer /\ file # Absent
    /\ Len(file) < tail.offset
    /\ tail' = [tail EXCEPT !.offset = 0, !.buf = <<>>]
    /\ pc' = IF file = <<>> THEN "idle" ELSE "read"
    /\ since' = [gen |-> gen, at |-> 0, clean |-> ~tail.skip]
    /\ delivered' = <<>>
    /\ UNCHANGED <<file, gen>>

\* Mutant: the bytes kept of a partial line are not put in front of the rest.
Read_WithoutBuffer ==
    /\ pc = "read" /\ pc' = "idle"
    /\ LET s == Scan(<<>>, Rest)
       IN  /\ tail' = AtEOF(s)
           /\ delivered' = delivered \o s.lines
    /\ UNCHANGED <<file, gen, since>>

Read ==
    /\ pc = "read" /\ pc' = "idle"
    /\ LET s == Scan(tail.buf, Rest)
       IN  /\ tail' = AtEOF(s)
           /\ delivered' = delivered \o s.lines
    /\ UNCHANGED <<file, gen, since>>

\* An I/O error after n bytes: the offset stays, so that what was read is read
\* again (readAndEmit drops the lines), but buf has been emptied, and a newline
\* among the n bytes has ended the skipping.
ReadFails ==
    /\ "read_error" \in Environment
    /\ pc = "read" /\ pc' = "idle"
    /\ \E n \in 0..Len(Rest) :
         tail' = [tail EXCEPT !.buf = <<>>, !.skip = Scan(tail.buf, SubSeq(Rest, 1, n)).skip]
    /\ since' = [since EXCEPT !.at = tail.offset, !.clean = FALSE]
    /\ delivered' = <<>>
    /\ UNCHANGED <<file, gen>>

\* readAndEmit on a path without a tailer: it reads from the beginning.
NewTailer ==
    /\ pc = "idle" /\ tail = NoTailer /\ file # Absent
    /\ tail' = [offset |-> 0, buf |-> <<>>, skip |-> FALSE]
    /\ since' = [gen |-> gen, at |-> 0, clean |-> TRUE]
    /\ delivered' = <<>>
    /\ UNCHANGED <<file, gen, pc>>

----------------------------------------------------------------------------
\* AddFile with seekEnd: the daemon starts while the agent is in the middle of
\* its log, perhaps of a line.
Init ==
    /\ \E n \in 0..MaxStart : file \in [1..n -> Byte]
    /\ tail = [offset |-> Len(file), buf |-> <<>>, skip |-> FALSE]
    /\ since = [gen |-> 0, at |-> Len(file),
                clean |-> file = <<>> \/ file[Len(file)] = NL]
    /\ gen = 0 /\ pc = "idle" /\ delivered = <<>>

Next ==
    \/ \E b \in Byte : Append1(b)
    \/ Truncate \/ Delete \/ Create
    \/ OpenFails \/ Stat \/ StatTruncated \/ Read \/ ReadFails \/ NewTailer

Spec == Init /\ [][Next]_vars

----------------------------------------------------------------------------
(* Properties.  A reader that had all bytes at once would cut them at the  *)
(* newlines and drop the lines that are too long.                          *)

\* Where lines end, and where the line that ends at i, or would, starts.
Ends(bytes) == {i \in DOMAIN bytes : bytes[i] = NL}
Starts(bytes, i) ==
    {p \in 1..i : /\ p = 1 \/ bytes[p - 1] = NL
                  /\ \A j \in p..(i - 1) : bytes[j] # NL}
StartOf(bytes, i) == CHOOSE p \in Starts(bytes, i) : TRUE

LineTo(bytes, i) == SubSeq(bytes, StartOf(bytes, i), i)
Fitting(bytes)   == {i \in Ends(bytes) : Len(LineTo(bytes, i)) <= MaxLine}
Later(bytes)     == {i \in Fitting(bytes) : \E j \in Ends(bytes) : j < i}

\* The lines that end at the places in S, each in its turn.
AreLines(lines, bytes, S) ==
    /\ Len(lines) = Cardinality(S)
    /\ \A i \in S : lines[Cardinality({j \in S : j <= i})] = LineTo(bytes, i)

Watching == tail # NoTailer /\ file # Absent /\ since.gen = gen
Consumed == SubSeq(file, since.at + 1, tail.offset)

\* However the bytes of a file arrive in pieces, once the tailer has made a
\* clean start on it, it returns exactly the lines that fit, each once, in
\* order: a line read in pieces, a partial line at the limit and a dropped line
\* make no difference.  A clean start is one at a line's beginning, with no
\* skipping left over and no failed read since.
LinesAreExact ==
    Watching /\ since.clean => AreLines(delivered, Consumed, Fitting(Consumed))

\* Whatever start the tailer has made, in the middle of a line, after a failed
\* read or while skipping, at most the first line is wrong or missing.
OnlyFirstLineSuffers ==
    Watching =>
      IF Ends(Consumed) = {} THEN delivered = <<>>
      ELSE \/ AreLines(delivered, Consumed, Later(Consumed))
           \/ delivered # <<>> /\ AreLines(Tail(delivered), Consumed, Later(Consumed))
=============================================================================
