--------------------------- MODULE TimespecProofs ---------------------------
(***************************************************************************)
(* The arithmetic of struct timespec is that of nanoseconds, for all times *)
(* that the clock can return, and what the replay of a trace takes from    *)
(* it: its timer is always armed for the future, and each circuit is       *)
(* launched as long after the start of the replay as it was after the      *)
(* start of the recording.                                                 *)
(***************************************************************************)
EXTENDS Timespec, TLAPS

\* What a time stands for.
Nanoseconds(t) == t.sec * Second + t.nsec

\* The two parts of a time are those of a number of nanoseconds.
LEMMA TimeParts ==
    ASSUME NEW t \in Time
    PROVE  /\ t = [sec |-> t.sec, nsec |-> t.nsec]
           /\ t.sec \in Int /\ t.nsec \in Int
           /\ 0 <= t.nsec /\ t.nsec < 1000000000
           /\ Nanoseconds(t) = 1000000000 * t.sec + t.nsec
<1>1. t.sec \in Int /\ t.nsec \in 0..(Second - 1) /\ t = [sec |-> t.sec, nsec |-> t.nsec]
    BY SMT DEF Time
<1>2. Second \in Int
    BY SMT DEF Second
<1>3. t.sec \in Int /\ t.nsec \in Int /\ 0 <= t.nsec /\ t.nsec < Second
    BY <1>1, <1>2, SMT
<1>4. t.nsec < 1000000000
    BY <1>3, SMT DEF Second
<1>5. Nanoseconds(t) = 1000000000 * t.sec + t.nsec
    BY <1>3, SMT DEF Nanoseconds, Second
<1> QED
    BY <1>1, <1>3, <1>4, <1>5, SMT

\* And a time can be made of such parts.
LEMMA TimeOfParts ==
    ASSUME NEW sec \in Int, NEW nsec \in Int, 0 <= nsec, nsec < 1000000000
    PROVE  /\ [sec |-> sec, nsec |-> nsec] \in Time
           /\ Nanoseconds([sec |-> sec, nsec |-> nsec]) = 1000000000 * sec + nsec
<1>1. Second \in Int /\ nsec < Second
    BY SMT DEF Second
<1>2. nsec \in 0..(Second - 1)
    BY <1>1, SMT
<1>3. [sec |-> sec, nsec |-> nsec] \in Time
    BY <1>2, SMT DEF Time
<1>4. Nanoseconds([sec |-> sec, nsec |-> nsec]) = 1000000000 * sec + nsec
    BY SMT DEF Nanoseconds, Second
<1> QED
    BY <1>3, <1>4, SMT

\* Of a time of the clock, at most one second is borrowed.
LEMMA BorrowOfTimes ==
    ASSUME NEW a \in Time, NEW b \in Time
    PROVE  Borrow(a, b) = IF b.nsec < a.nsec
                          THEN [sec |-> a.sec + 1, nsec |-> a.nsec - 1000000000]
                          ELSE a
<1>1. CASE b.nsec < a.nsec
    <2>1. (a.nsec - b.nsec) \div 1000000000 = 0
        BY <1>1, TimeParts, SMT
    <2>2. Borrow(a, b) = [sec |-> a.sec + 1, nsec |-> a.nsec - 1000000000]
        BY <1>1, <2>1, TimeParts, SMT DEF Borrow, Second
    <2> QED
        BY <1>1, <2>2
<1>2. CASE ~(b.nsec < a.nsec)
    BY <1>2 DEF Borrow
<1> QED
    BY <1>1, <1>2

\* And nothing has to be returned, although a difference of exactly one second
\* of nanoseconds would not be (timer.c:126).
LEMMA NothingReturned ==
    ASSUME NEW a \in Time, NEW b \in Time
    PROVE  Return(Borrow(a, b), b) = Borrow(a, b)
<1>1. ~(b.nsec - Borrow(a, b).nsec > 1000000000)
    BY BorrowOfTimes, TimeParts, SMT
<1> QED
    BY <1>1, SMT DEF Return, Second

\* timer.c:107-135: the difference is a time again, the one of the nanoseconds.
THEOREM SubtractIsExact ==
    ASSUME NEW a \in Time, NEW b \in Time
    PROVE  /\ Subtract(a, b) \in Time
           /\ Nanoseconds(Subtract(a, b)) = Nanoseconds(b) - Nanoseconds(a)
<1>1. CASE b.nsec < a.nsec
    <2>1. Subtract(a, b) = [sec |-> b.sec - (a.sec + 1), nsec |-> b.nsec - (a.nsec - 1000000000)]
        BY <1>1, BorrowOfTimes, NothingReturned DEF Subtract
    <2>2. /\ b.sec - (a.sec + 1) \in Int /\ b.nsec - (a.nsec - 1000000000) \in Int
          /\ 0 <= b.nsec - (a.nsec - 1000000000) /\ b.nsec - (a.nsec - 1000000000) < 1000000000
        BY <1>1, TimeParts, SMT
    <2>3. /\ Subtract(a, b) \in Time
          /\ Nanoseconds(Subtract(a, b))
               = 1000000000 * (b.sec - (a.sec + 1)) + (b.nsec - (a.nsec - 1000000000))
        BY <2>1, <2>2, TimeOfParts, SMT
    <2> QED
        BY <2>3, TimeParts, SMT
<1>2. CASE ~(b.nsec < a.nsec)
    <2>1. Subtract(a, b) = [sec |-> b.sec - a.sec, nsec |-> b.nsec - a.nsec]
        BY <1>2, BorrowOfTimes, NothingReturned DEF Subtract
    <2>2. /\ b.sec - a.sec \in Int /\ b.nsec - a.nsec \in Int
          /\ 0 <= b.nsec - a.nsec /\ b.nsec - a.nsec < 1000000000
        BY <1>2, TimeParts, SMT
    <2>3. /\ Subtract(a, b) \in Time
          /\ Nanoseconds(Subtract(a, b)) = 1000000000 * (b.sec - a.sec) + (b.nsec - a.nsec)
        BY <2>1, <2>2, TimeOfParts, SMT
    <2> QED
        BY <2>3, TimeParts, SMT
<1> QED
    BY <1>1, <1>2

\* timer.c:137-148: so is the sum.
THEOREM AddIsExact ==
    ASSUME NEW a \in Time, NEW b \in Time
    PROVE  /\ Add(a, b) \in Time
           /\ Nanoseconds(Add(a, b)) = Nanoseconds(a) + Nanoseconds(b)
<1> DEFINE n == (a.nsec + b.nsec) \div 1000000000
<1>1. /\ n \in Int
      /\ 0 <= a.nsec + b.nsec - n * 1000000000
      /\ a.nsec + b.nsec - n * 1000000000 < 1000000000
    BY TimeParts, SMT
<1>2. Add(a, b) = [sec |-> a.sec + b.sec + n, nsec |-> (a.nsec + b.nsec) - n * 1000000000]
    BY SMT DEF Add, Second
<1> HIDE DEF n
<1>3. a.sec + b.sec + n \in Int /\ (a.nsec + b.nsec) - n * 1000000000 \in Int
    BY <1>1, TimeParts, SMT
<1> DEFINE s == a.sec + b.sec + n
           r == (a.nsec + b.nsec) - n * 1000000000
<1>4. s \in Int /\ r \in Int /\ 0 <= r /\ r < 1000000000
    BY <1>1, <1>3, TimeParts, SMT
<1>5. Add(a, b) = [sec |-> s, nsec |-> r]
    BY <1>2, SMT
<1>6. 1000000000 * s + r = (1000000000 * a.sec + a.nsec) + (1000000000 * b.sec + b.nsec)
    BY <1>1, TimeParts, SMT
<1> HIDE DEF s, r
<1>7. Add(a, b) \in Time /\ Nanoseconds(Add(a, b)) = 1000000000 * s + r
    BY <1>4, <1>5, TimeOfParts, SMT
<1> QED
    BY <1>6, <1>7, TimeParts, SMT

\* circuit.c:190-209: times are compared as their nanoseconds are.
LEMMA BeforeIsLess ==
    ASSUME NEW a \in Time, NEW b \in Time
    PROVE  Before(a, b) <=> Nanoseconds(a) < Nanoseconds(b)
BY TimeParts, SMT DEF Before

\* player.c:429-434, driver.c:74: when the next launch is not due yet, the delay
\* to it is positive, so that the timer is armed and the replay goes on.
THEOREM DelayIsPositive ==
    ASSUME NEW now \in Time, NEW launch \in Time, Before(now, launch)
    PROVE  LET delay == Subtract(now, launch)
           IN  delay.sec >= 0 /\ (delay.sec > 0 \/ delay.nsec > 0)
<1> DEFINE delay == Subtract(now, launch)
<1>1. /\ delay \in Time
      /\ Nanoseconds(delay) = Nanoseconds(launch) - Nanoseconds(now)
    BY SubtractIsExact
<1>2. Nanoseconds(now) < Nanoseconds(launch)
    BY BeforeIsLess
<1> HIDE DEF delay
<1>3. delay.sec >= 0 /\ (delay.sec > 0 \/ delay.nsec > 0)
    BY <1>1, <1>2, TimeParts, SMT
<1> QED
    BY <1>3 DEF delay

\* circuit.c:52-56, 80-91: what the Recorder writes and the Player reads moves a
\* time by the distance of the two starts.
THEOREM ReplayKeepsOffsets ==
    ASSUME NEW recorderStart \in Time, NEW playerStart \in Time, NEW launched \in Time
    PROVE  LET replayed == Add(playerStart, Subtract(recorderStart, launched))
           IN  /\ replayed \in Time
               /\ Nanoseconds(replayed) - Nanoseconds(playerStart)
                    = Nanoseconds(launched) - Nanoseconds(recorderStart)
<1> DEFINE elapsed == Subtract(recorderStart, launched)
           replayed == Add(playerStart, elapsed)
<1>1. /\ elapsed \in Time
      /\ Nanoseconds(elapsed) = Nanoseconds(launched) - Nanoseconds(recorderStart)
    BY SubtractIsExact
<1>2. /\ replayed \in Time
      /\ Nanoseconds(replayed) = Nanoseconds(playerStart) + Nanoseconds(elapsed)
    BY <1>1, AddIsExact
<1>3. /\ Nanoseconds(playerStart) \in Int /\ Nanoseconds(launched) \in Int
      /\ Nanoseconds(recorderStart) \in Int
    BY TimeParts, SMT
<1> HIDE DEF elapsed, replayed
<1>4. Nanoseconds(replayed) - Nanoseconds(playerStart)
        = Nanoseconds(launched) - Nanoseconds(recorderStart)
    BY <1>1, <1>2, <1>3, SMT
<1> QED
    BY <1>2, <1>4 DEF elapsed, replayed

\* So the circuits are launched in the order in which they were recorded.
THEOREM ReplayKeepsOrder ==
    ASSUME NEW recorderStart \in Time, NEW playerStart \in Time,
           NEW first \in Time, NEW second \in Time
    PROVE  Before(first, second) <=>
               Before(Add(playerStart, Subtract(recorderStart, first)),
                      Add(playerStart, Subtract(recorderStart, second)))
<1> DEFINE replayed(t) == Add(playerStart, Subtract(recorderStart, t))
<1>1. \A t \in Time : /\ replayed(t) \in Time
                      /\ Nanoseconds(replayed(t)) - Nanoseconds(playerStart)
                           = Nanoseconds(t) - Nanoseconds(recorderStart)
    BY ReplayKeepsOffsets
<1>2. \A t \in Time : Nanoseconds(t) \in Int
    BY TimeParts, SMT
<1> HIDE DEF replayed
<1>3. Nanoseconds(first) < Nanoseconds(second)
        <=> Nanoseconds(replayed(first)) < Nanoseconds(replayed(second))
    BY <1>1, <1>2, SMT
<1>4. Before(first, second) <=> Before(replayed(first), replayed(second))
    BY <1>1, <1>3, BeforeIsLess
<1> QED
    BY <1>4 DEF replayed
=============================================================================
