----------------------------- MODULE Splitting ------------------------------
(* g_strsplit of GLib: the pieces of a text between its separators.        *)
EXTENDS Integers, Sequences, FiniteSets, FiniteSetsExt

\* Where the separator, which does not overlap itself, begins in the text.
Separators(s, separator) ==
    {i \in 1..(Len(s) - Len(separator) + 1) : SubSeq(s, i, i + Len(separator) - 1) = separator}

\* strstr: the first separator from the i-th byte on, or the end of the text.
NextSeparator(s, separator, i) ==
    Min({j \in Separators(s, separator) : j >= i} \cup {Len(s) + 1})

\* Each piece begins behind the separator that ends the piece before it.  A
\* separator at the end leaves an empty piece after it.
Split(s, separator) ==
    LET count == Cardinality(Separators(s, separator))
        start[n \in 0..count] ==
            IF n = 0 THEN 1 ELSE NextSeparator(s, separator, start[n - 1]) + Len(separator)
    IN [n \in 1..(count + 1) |->
            SubSeq(s, start[n - 1], NextSeparator(s, separator, start[n - 1]) - 1)]
=============================================================================
