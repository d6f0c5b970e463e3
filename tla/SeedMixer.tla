------------------------------ MODULE SeedMixer ------------------------------
(***************************************************************************)
(* SeedMixer of askew.core.rng, which derives the seeds of a run.  The     *)
(* arithmetic keeps its shape at a smaller width.                          *)
(***************************************************************************)
EXTENDS Integers, Sequences

CONSTANTS
    Width,            \* bits of a seed; 64 in the code
    Gamma,            \* GAMMA, ...
    Multiply, Shift   \* ... and the two factors and three shifts of mix

\* 2 ^ n, as a function, which the provers can look into.
Power[n \in 0 .. Width] == IF n = 0 THEN 1 ELSE 2 * Power[n - 1]

\* GAMMA and the factors of the code are odd.
ASSUME SeedMixerAssumption ==
    /\ Width \in Nat \ {0}
    /\ Gamma \in 0 .. Power[Width] - 1 /\ Gamma % 2 = 1
    /\ Multiply \in Seq(0 .. Power[Width] - 1) /\ Len(Multiply) = 2
    /\ \A k \in 1 .. 2 : Multiply[k] % 2 = 1
    /\ Shift \in Seq(1 .. Width - 1) /\ Len(Shift) = 3

\* The operators >> and ^ of non-negative integers, which have as many bits as it
\* takes; it is the masks of mix that keep a seed to Width of them.
shr(z, s) == z \div Power[s]

xor[a \in Nat] ==
    [b \in Nat |->
        IF a = 0 THEN b ELSE 2 * xor[a \div 2][b \div 2] + ((a + b) % 2)]

\* Variant: the shifted value takes the place of z, and is not mixed into it.
MixShifts(base, index) ==
    LET M  == Power[Width]
        z0 == (base + (index + 1) * Gamma) % M
        z1 == (shr(z0, Shift[1]) * Multiply[1]) % M
        z2 == (xor[z1][shr(z1, Shift[2])] * Multiply[2]) % M
    IN  xor[z2][shr(z2, Shift[3])]

\* SeedMixer.mix.
mix(base, index) ==
    LET M  == Power[Width]
        z0 == (base + (index + 1) * Gamma) % M
        z1 == (xor[z0][shr(z0, Shift[1])] * Multiply[1]) % M
        z2 == (xor[z1][shr(z1, Shift[2])] * Multiply[2]) % M
    IN  xor[z2][shr(z2, Shift[3])]
=============================================================================
