------------------------------- MODULE Lines --------------------------------
(***************************************************************************)
(* How TorCtl puts the lines of Tor together (receiveLines in              *)
(* src/src/oniontrace-torctl.c): recv() returns the text in chunks that    *)
(* may end anywhere, each chunk is split at CR LF, and what follows the    *)
(* last CR LF stays in a buffer until the next chunk.                      *)
(***************************************************************************)
EXTENDS Integers, Sequences, SequencesExt, FiniteSetsExt, Splitting

CONSTANTS
    CR, LF,     \* the two bytes that end a line
    MaxLength,  \* the length of a line
    ChunkSize   \* how many bytes recv() is asked for (10000)

ASSUME LinesAssumption ==
    /\ MaxLength \in Nat \ {0} /\ ChunkSize \in Nat \ {0}
    /\ CR # LF /\ CR \notin Nat /\ LF \notin Nat

VARIABLES
    written,  \* the lines that Tor has written, without their ends
    taken,    \* how many bytes recv() has returned
    buffer,   \* receiveLineBuffer: the line that is not complete yet
    lines,    \* the lines given to processLine
    cut       \* history: whether a chunk ended between CR and LF

vars == <<written, taken, buffer, lines, cut>>

CRLF == <<CR, LF>>

\* The bytes of a line are told apart by the line they belong to.
Byte == Nat \union {CR, LF}
Line(n, length) == [i \in 1..length |-> n]

Stream(s) == FlattenSeq([i \in DOMAIN s |-> s[i] \o CRLF])

\* A buffer that is NULL and an empty one are treated alike, both are <<>>.
Init == written = <<>> /\ taken = 0 /\ buffer = <<>> /\ lines = <<>> /\ cut = FALSE

-----------------------------------------------------------------------------
(* receiveLines                                                            *)

\* Mutation of Waits: a chunk that begins with CR LF is not special.
WaitsAtStart(chunk, pieces, i) ==
    \/ pieces[i] = <<>>
    \/ i = Len(pieces) /\ ~IsSuffix(CRLF, chunk)

\* Mutation of Waits: an empty piece is a line.
WaitsIfIncomplete(chunk, pieces, i) == i = Len(pieces) /\ ~IsSuffix(CRLF, chunk)

\* Mutation of Waits: the last line is taken to be complete.
WaitsIfEmpty(chunk, pieces, i) ==
    /\ ~(i = 1 /\ IsPrefix(CRLF, chunk))
    /\ pieces[i] = <<>>

\* After the i-th piece the buffer waits for more: the piece is empty, or it is
\* the last one and the chunk does not end the line.  When the chunk begins with
\* CR LF, its first piece is empty and completes what is in the buffer.
Waits(chunk, pieces, i) ==
    /\ ~(i = 1 /\ IsPrefix(CRLF, chunk))
    /\ \/ pieces[i] = <<>>
       \/ i = Len(pieces) /\ ~IsSuffix(CRLF, chunk)

\* The body of the loop over the pieces of a chunk.
Take(chunk, pieces, s, i) ==
    LET joined == s.buffer \o pieces[i]
    IN IF Waits(chunk, pieces, i)
       THEN [s EXCEPT !.buffer = joined]
       ELSE [buffer |-> <<>>, lines |-> Append(s.lines, joined)]

Received(chunk) ==
    LET pieces == Split(chunk, CRLF)
    IN FoldLeftDomain(LAMBDA s, i : Take(chunk, pieces, s, i),
                      [buffer |-> buffer, lines |-> lines], pieces)

\* One recv() and what is done with its result.
ReceiveLines ==
    \E n \in 1..Min({ChunkSize, Len(Stream(written)) - taken}) :
        LET chunk == SubSeq(Stream(written), taken + 1, taken + n)
        IN /\ taken' = taken + n
           /\ buffer' = Received(chunk).buffer
           /\ lines' = Received(chunk).lines
           /\ cut' = (cut \/ Last(chunk) = CR)
           /\ UNCHANGED written

\* Tor writes one line of a reply or an event, none of which is empty.
TorWrites ==
    /\ \E length \in 1..MaxLength :
        written' = Append(written, Line(Len(written) + 1, length))
    /\ UNCHANGED <<taken, buffer, lines, cut>>

Next == ReceiveLines \/ TorWrites

Spec == Init /\ [][Next]_vars

-----------------------------------------------------------------------------
(* What the parser may rely on                                             *)

\* Type correctness; no empty line is processed.
TypeOK ==
    /\ written \in Seq(Seq(Byte) \ {<<>>})
    /\ taken \in 0..Len(Stream(written))
    /\ buffer \in Seq(Byte)
    /\ lines \in Seq(Seq(Byte) \ {<<>>})
    /\ cut \in BOOLEAN

\* torctl.c:474-500, however the text is cut: what was processed and what is in
\* the buffer is what was received.  No byte is lost, doubled or moved, and no
\* line is processed before its end has come.
NothingLost == Stream(lines) \o buffer = SubSeq(Stream(written), 1, taken)

\* torctl.c:496 "we have a full line in our buffer": the lines that were
\* processed are the lines that Tor wrote, as many of them as have been received
\* completely.
LinesAreWhole ==
    LET complete == {n \in DOMAIN written : Len(Stream(SubSeq(written, 1, n))) <= taken}
    IN lines = SubSeq(written, 1, Cardinality(complete))

\* torctl.c:467-495, the incomplete last line and the chunk that begins with
\* CR LF: wherever else the chunks end, the lines are whole.
WholeUnlessCut == ~cut => LinesAreWhole
=============================================================================
