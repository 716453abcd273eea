------------------------------ MODULE Timespec ------------------------------
(***************************************************************************)
(* Times as struct timespec (src/src/oniontrace-timer.c): seconds and      *)
(* nanoseconds.  The clock returns nanoseconds below one second, and the   *)
(* operators below only ever see such times.                               *)
(***************************************************************************)
EXTENDS Integers

Second == 1000000000

Time == [sec : Int, nsec : 0..(Second - 1)]

\* What is left of a when the nanoseconds of b are fewer: a second, or as many as
\* it takes, is moved from its nanoseconds to its seconds.
Borrow(a, b) ==
    LET n == (a.nsec - b.nsec) \div Second + 1
    IN IF b.nsec < a.nsec THEN [sec |-> a.sec + n, nsec |-> a.nsec - n * Second] ELSE a

\* And when they are too many, they are moved back.
Return(a, b) ==
    LET n == (b.nsec - a.nsec) \div Second
    IN IF b.nsec - a.nsec > Second THEN [sec |-> a.sec - n, nsec |-> a.nsec + n * Second] ELSE a

\* b - a.
Subtract(a, b) ==
    LET subtrahend == Return(Borrow(a, b), b)
    IN [sec |-> b.sec - subtrahend.sec, nsec |-> b.nsec - subtrahend.nsec]

\* The loop moves one second after the other from the nanoseconds.
Add(a, b) ==
    LET n == (a.nsec + b.nsec) \div Second
    IN [sec |-> a.sec + b.sec + n, nsec |-> (a.nsec + b.nsec) - n * Second]

\* The comparison of launch times.
Before(a, b) == a.sec < b.sec \/ (a.sec = b.sec /\ a.nsec < b.nsec)
=============================================================================
