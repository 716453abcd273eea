----------------------------- MODULE TraceFile ------------------------------
(***************************************************************************)
(* The trace file (src/src/oniontrace-file.c, with the CSV functions of    *)
(* oniontrace-circuit.c): the Recorder writes one line per circuit, with   *)
(* the time that had elapsed when it was launched; the Player reads the    *)
(* file in chunks, puts the lines together, and sorts the circuits by the  *)
(* time at which they are to be launched again.                            *)
(*                                                                         *)
(* A byte of a line stands for that line; what the line says of session    *)
(* and path is the line itself, and only its time is told apart.           *)
(***************************************************************************)
EXTENDS Integers, Sequences, SequencesExt, FiniteSetsExt, Splitting, Timespec

CONSTANTS
    NL,             \* the byte that ends a line
    FileChunk,      \* how many bytes fread() is asked for (1023)
    MaxText,        \* the longest text of a line
    LaunchTimes,    \* when circuits are launched
    RecorderStart,  \* when the Recorder started
    PlayerStart     \* when the Player started

ASSUME TraceFileAssumption ==
    /\ NL \notin Nat
    /\ MaxText \in Nat \ {0}
    /\ FileChunk \in Nat /\ FileChunk > MaxText
    /\ LaunchTimes \subseteq Time /\ RecorderStart \in Time /\ PlayerStart \in Time
    /\ \A t \in LaunchTimes : ~Before(t, RecorderStart)

VARIABLES
    stage,     \* recording, reading, parsing, parsed
    content,   \* the bytes of the file
    elapsed,   \* the time that the n-th line says
    launched,  \* history: when the n-th circuit was launched
    position,  \* how many bytes fread() has returned
    partial,   \* partialLastLine, empty when it is NULL
    lineQueue, \* lines that were read and not parsed
    circuits   \* the circuits that were parsed

fileVars == <<stage, content, elapsed, launched, position, partial, lineQueue, circuits>>

Text(n, length) == [i \in 1..length |-> n]

FileInit ==
    /\ stage = "recording"
    /\ content = <<>> /\ elapsed = <<>> /\ launched = <<>>
    /\ position = 0 /\ partial = <<>> /\ lineQueue = <<>> /\ circuits = <<>>

-----------------------------------------------------------------------------
(* The Recorder                                                            *)

\* toCSV
Elapsed(time) == Subtract(RecorderStart, time)

Writes(time, bytes) ==
    /\ stage = "recording"
    /\ content' = content \o bytes
    /\ elapsed' = Append(elapsed, Elapsed(time))
    /\ launched' = Append(launched, time)
    /\ UNCHANGED <<position, partial, lineQueue, circuits>>

WriteCircuit ==
    /\ \E time \in LaunchTimes : \E length \in 1..MaxText :
          Writes(time, Append(Text(Len(elapsed) + 1, length), NL))
    /\ UNCHANGED stage

\* fwrite() may fail in the middle of a line, when the disk is full, and its
\* result is ignored: no line that follows fits either.
WriteTorn ==
    /\ \E time \in LaunchTimes : \E length \in 1..MaxText :
          Writes(time, Text(Len(elapsed) + 1, length))
    /\ stage' = "reading"

CloseFile ==
    /\ stage = "recording"
    /\ stage' = "reading"
    /\ UNCHANGED <<content, elapsed, launched, position, partial, lineQueue, circuits>>

-----------------------------------------------------------------------------
(* The Player: getLines                                                    *)

\* Mutation of TakePiece: the partial line is not put in front of its rest.
TakeUnjoined(pieces, lastIsPartial, s, i) ==
    IF pieces[i] = <<>> THEN s
    ELSE IF i = Len(pieces) /\ lastIsPartial THEN [s EXCEPT !.partial = pieces[i]]
    ELSE [s EXCEPT !.lines = Append(@, pieces[i])]

\* The loop over the pieces of a chunk: empty ones are skipped, the last one
\* waits if its line is not complete, and the first one completes what waits.
TakePiece(pieces, lastIsPartial, s, i) ==
    IF pieces[i] = <<>> THEN s
    ELSE IF i = Len(pieces) /\ lastIsPartial THEN [s EXCEPT !.partial = pieces[i]]
    ELSE IF i = 1 /\ s.partial # <<>>
    THEN [partial |-> <<>>, lines |-> Append(s.lines, s.partial \o pieces[i])]
    ELSE [s EXCEPT !.lines = Append(@, pieces[i])]

ReadChunk ==
    /\ stage = "reading" /\ position < Len(content)
    /\ LET n == Min({FileChunk, Len(content) - position})
           chunk == SubSeq(content, position + 1, position + n)
           pieces == Split(chunk, <<NL>>)
           read == FoldLeftDomain(LAMBDA s, i : TakePiece(pieces, Last(chunk) # NL, s, i),
                                  [partial |-> partial, lines |-> lineQueue], pieces)
       IN /\ position' = position + n
          /\ partial' = read.partial
          /\ lineQueue' = read.lines
    /\ UNCHANGED <<stage, content, elapsed, launched, circuits>>

\* A line that is still partial is dropped.
EndOfFile ==
    /\ stage = "reading" /\ position = Len(content)
    /\ stage' = "parsing"
    /\ UNCHANGED <<content, elapsed, launched, position, partial, lineQueue, circuits>>

-----------------------------------------------------------------------------
(* The Player: parseCircuits                                               *)

\* fromCSV: what stands at the beginning of the line is its time.
FromCSV(line) == [text |-> line, launch |-> Add(PlayerStart, elapsed[Head(line)])]

\* g_queue_insert_sorted: in front of the first that is not before it.
InsertSorted(q, c) ==
    InsertAt(q, Min({i \in DOMAIN q : ~Before(q[i].launch, c.launch)} \cup {Len(q) + 1}), c)

ParseLine ==
    /\ stage = "parsing" /\ lineQueue # <<>>
    /\ circuits' = InsertSorted(circuits, FromCSV(Head(lineQueue)))
    /\ lineQueue' = Tail(lineQueue)
    /\ UNCHANGED <<stage, content, elapsed, launched, position, partial>>

Parsed ==
    /\ stage = "parsing" /\ lineQueue = <<>>
    /\ stage' = "parsed"
    /\ UNCHANGED <<content, elapsed, launched, position, partial, lineQueue, circuits>>

FileNext ==
    \/ WriteCircuit \/ WriteTorn \/ CloseFile
    \/ ReadChunk \/ EndOfFile \/ ParseLine \/ Parsed

FileSpec == FileInit /\ [][FileNext]_fileVars

-----------------------------------------------------------------------------
(* What a replay may rely on                                               *)

\* Type correctness; in particular all times are normalised.
FileTypeOK ==
    /\ stage \in {"recording", "reading", "parsing", "parsed"}
    /\ content \in Seq(Nat \cup {NL})
    /\ elapsed \in Seq(Time) /\ launched \in Seq(Time)
    /\ position \in 0..Len(content)
    /\ partial \in Seq(Nat)
    /\ lineQueue \in Seq(Seq(Nat) \ {<<>>})
    /\ circuits \in Seq([text : Seq(Nat) \ {<<>>}, launch : Time])

\* The lines of the file that have an end.
Complete == 1..Cardinality({i \in DOMAIN content : content[i] = NL})

TextOf(n) == Text(n, Cardinality({i \in DOMAIN content : content[i] = n}))

\* As much after the start of the Player as it was after that of the Recorder.
Shifted(time) ==
    LET nsec == time.nsec - RecorderStart.nsec + PlayerStart.nsec
    IN [sec |-> time.sec - RecorderStart.sec + PlayerStart.sec + nsec \div Second,
        nsec |-> nsec % Second]

Chronological(q) ==
    \A i, j \in DOMAIN q : i < j => ~Before(q[j].launch, q[i].launch)

\* file.c:143 "helper to get the file contents as a queue of lines", 156 "if
\* parsing succeeded, store the circuits in chronological order": every complete
\* line becomes one circuit, which is launched as long after the start of the
\* replay as it was after the start of the recording.
TraceRestored ==
    stage = "parsed" =>
        /\ Chronological(circuits)
        /\ Len(circuits) = Cardinality(Complete)
        /\ \A n \in Complete : \E i \in DOMAIN circuits :
              circuits[i] = [text |-> TextOf(n), launch |-> Shifted(launched[n])]

\* A chunk ends with the last byte of a line, before its newline.
CutBeforeNewline ==
    \E i \in 1..(Len(content) - 1) :
        i % FileChunk = 0 /\ content[i] # NL /\ content[i + 1] = NL

\* file.c:97-112, the partial last line: wherever else the chunks end, and
\* although the last line may be torn, the trace is restored.
RestoredUnlessCut == ~CutBeforeNewline => TraceRestored
=============================================================================
