-------------------------------- MODULE Splits --------------------------------
\* How a range is shared among threads: _split_threads (executor.py) and its C
\* twin SPLIT_THREADS, by quotient and remainder.
EXTENDS Integers

Slice(n, nt) == n \div nt
Rest(n, nt) == n % nt

\* The first threads take one more, as many as the remainder.
SplitStart(n, nt, ti) ==
    ti * Slice(n, nt) + (IF ti < Rest(n, nt) THEN ti ELSE Rest(n, nt))

\* Variant with a bug: the rest is left out.
SplitEndNoRest(n, nt, ti) == SplitStart(n, nt, ti) + Slice(n, nt)

SplitEnd(n, nt, ti) ==
    SplitStart(n, nt, ti) + Slice(n, nt) + (IF ti < Rest(n, nt) THEN 1 ELSE 0)

Split(n, nt, ti) == SplitStart(n, nt, ti)..(SplitEnd(n, nt, ti) - 1)
===============================================================================
