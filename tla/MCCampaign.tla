----------------------------- MODULE MCCampaign -----------------------------
(* Seeds of eight bits.  Gamma and the factors are the last eight bits of the *)
(* code's, the shifts are its own at an eighth.  Next to the behaviours of a  *)
(* campaign, there is a state for each size of a batch, in which the          *)
(* algorithms of Rng are counted out.                                         *)
EXTENDS Campaign, Rng, SeedMixer, FiniteSets

VARIABLE size   \* the size of the batch, 0 in a campaign

Seeds == 0 .. Power[Width] - 1

ASSUME SeedsAssumption == Bases \subseteq Seeds

MCMultiply == <<185, 235>>
MCShift    == <<4, 3, 4>>

Idle == config.iterations = 0 /\ scenario = [fails |-> {}, flaky |-> {}, events |-> 0]

MCInit == size \in {0} \cup 2 .. 4 /\ Init /\ (size # 0 => Idle)

MCNext == size = 0 /\ Next /\ UNCHANGED size

MCSpec == MCInit /\ [][MCNext]_<<size, vars>>

-----------------------------------------------------------------------------

Batch == SubSeq(<<1, 2, 3, 4>>, 1, size)
Orders == {s \in [1 .. size -> 1 .. size] : \A a, b \in 1 .. size : s[a] = s[b] => a = b}

\* Each member of S comes of the same number of draws, and nothing else does.
Fair(f, S) ==
    \A s \in S : Cardinality({d \in DOMAIN f : f[d] = s}) * Cardinality(S)
                    = Cardinality(DOMAIN f)

\* The orders RandomScheduler makes of a batch are all orders there are, each as
\* likely as the other; the other schedulers lose and double no callback; and a
\* sample of two is any two, in any order, equally likely.
DrawsAreFair ==
    size # 0 =>
        /\ Fair([d \in Draws(size - 1) |-> Order("Random", Batch, d)], Orders)
        /\ \A kind \in {"Fifo", "Reverse", "Partial"}, d \in Draws(2 * Swaps(size)) :
              Order(kind, Batch, d) \in Orders
        /\ Fair([d \in Draws(2) |-> sample(Batch, 2, d)],
                {p \in (1 .. size) \X (1 .. size) : p[1] # p[2]})

\* The seeds of a run are all the seeds there are, each in one iteration: no two
\* iterations share one, and none has more bits than a seed.
SeedsAreUnique == size # 0 => {seed_for(i) : i \in Seeds} = Seeds
=============================================================================
