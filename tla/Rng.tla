--------------------------------- MODULE Rng ---------------------------------
(***************************************************************************)
(* The algorithms of askew.core.rng and askew.core.scheduler, as functions *)
(* of the values drawn: Fisher-Yates, sample, and the orders that the      *)
(* schedulers make of a batch.                                             *)
(*                                                                         *)
(* A draw stands for the float random() gives, in steps of 1 / Resolution; *)
(* the code's are in steps of 2 ^ -53.  A Resolution that all the bounds   *)
(* divide takes the truncation bias away, so "uniform" can be counted.     *)
(***************************************************************************)
EXTENDS Integers, Sequences

CONSTANTS
    Resolution,  \* how many values a draw can have
    Intensity    \* 1 / intensity of PartialScheduler, a whole number here

ASSUME RngAssumption == {Resolution, Intensity} \subseteq Nat \ {0}

Draws(n) == [1 .. n -> 0 .. Resolution - 1]

below(draw, bound) == (draw * bound) \div Resolution

Swap(s, i, j) == [s EXCEPT ![i] = s[j], ![j] = s[i]]

\* s after swaps of two places each, one after the other.
Swapped(s, swaps) ==
    LET after[k \in 0 .. Len(swaps)] ==
            IF k = 0 THEN s ELSE Swap(after[k - 1], swaps[k][1], swaps[k][2])
    IN  after[Len(swaps)]

\* Variant: an item never stays where it is.
ShuffleMoves(items, draws) ==
    Swapped(items, [k \in 1 .. Len(items) - 1 |->
                       LET i == Len(items) - k + 1
                       IN  <<i, below(draws[k], i - 1) + 1>>])

\* The last place first; each takes an item of those up to its own.
shuffle(items, draws) ==
    Swapped(items, [k \in 1 .. Len(items) - 1 |->
                       LET i == Len(items) - k + 1
                       IN  <<i, below(draws[k], i) + 1>>])

\* The first places first; each takes an item of those from its own on.
sample(items, count, draws) ==
    SubSeq(Swapped(items, [i \in 1 .. count |->
                              <<i, i + below(draws[i], Len(items) - i + 1)>>]),
           1, count)

\* order of PartialScheduler: so many swaps of two places drawn from all.
Swaps(size) == size \div Intensity

partial(batch, draws) ==
    Swapped(batch, [k \in 1 .. Swaps(Len(batch)) |->
                       <<below(draws[2 * k - 1], Len(batch)) + 1,
                         below(draws[2 * k], Len(batch)) + 1>>])

reverse(batch) == [i \in 1 .. Len(batch) |-> batch[Len(batch) - i + 1]]

\* What the scheduler named makes of a batch.
Order(scheduler, batch, draws) ==
    CASE scheduler = "Fifo"    -> batch
      [] scheduler = "Random"  -> shuffle(batch, draws)
      [] scheduler = "Reverse" -> reverse(batch)
      [] scheduler = "Partial" -> partial(batch, draws)
=============================================================================
