----------------------------- MODULE MCReaders ------------------------------
(* Small instances of the two readers of text in chunks, side by side: one *)
(* of them is idle in each behaviour.                                      *)
EXTENDS Lines, TraceFile

CONSTANTS MaxLines, MaxCircuits

T(sec, nsec) == [sec |-> sec, nsec |-> nsec]

Start == T(1, 999999999)
Restart == T(7, 1)
Times == {T(1, 999999999), T(2, 0), T(2, 999999998), T(3, 500000000)}

MCInit == Init /\ FileInit

MCLinesNext ==
    /\ \/ ReceiveLines
       \/ Len(written) < MaxLines /\ TorWrites
    /\ FileInit /\ UNCHANGED fileVars

MCFileNext ==
    /\ \/ Len(elapsed) < MaxCircuits /\ (WriteCircuit \/ WriteTorn)
       \/ CloseFile \/ ReadChunk \/ EndOfFile \/ ParseLine \/ Parsed
    /\ Init /\ UNCHANGED vars

MCSpec == MCInit /\ [][MCLinesNext \/ MCFileNext]_<<vars, fileVars>>

\* Type correctness of both.
ReadersTypeOK == TypeOK /\ FileTypeOK
=============================================================================
