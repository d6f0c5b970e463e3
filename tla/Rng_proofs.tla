----------------------------- MODULE Rng_proofs -----------------------------
(***************************************************************************)
(* What TLAPS proves of the algorithms of Rng and SeedMixer.               *)
(*                                                                         *)
(* For batches of any size: the schedulers rearrange a batch and nothing   *)
(* else, and random draws can make every order of it, each in one way and  *)
(* as likely as the other.                                                 *)
(* For seeds of any width: the mixer maps the indices of a base seed to    *)
(* seeds one to one, and reaches each of them.                             *)
(*                                                                         *)
(* A row of swaps, the powers of two and an exclusive-or are made by       *)
(* recursion.  The induction about them is from a least counterexample     *)
(* (LeastMember).                                                          *)
(***************************************************************************)
EXTENDS Rng, SeedMixer, FiniteSetTheorems, WellFoundedInduction, TLAPS

\* A set of numbers has a least one: induction, for sets.
LEMMA LeastMember ==
    ASSUME NEW S \in SUBSET Nat, S # {}
    PROVE  \E m \in S : \A k \in S : m <= k
<1> DEFINE R == OpToRel(<, Nat)
<1>1. IsWellFoundedOn(R, Nat)
  BY NatLessThanWellFounded
<1>2. \A j, k \in Nat : j < k => <<j, k>> \in R
  BY DEF OpToRel
<1> HIDE DEF R
<1>3. PICK m \in S : \A k \in S : ~(<<k, m>> \in R)
  BY <1>1, WFMin
<1>4. \A k \in S : ~(k < m)
  BY <1>2, <1>3
<1> QED
  BY <1>3, <1>4

-----------------------------------------------------------------------------
(* The orders of a batch.                                                  *)

\* The rearrangements of n places: each place is taken once.
Rearrangements(n) ==
    {p \in [1 .. n -> 1 .. n] :
        /\ \A a, b \in 1 .. n : p[a] = p[b] => a = b
        /\ \A c \in 1 .. n : \E a \in 1 .. n : p[a] = c}

\* The items of s, rearranged.
Rearranged(s, p) == [i \in 1 .. Len(s) |-> s[p[i]]]

\* What a swap does, place by place.
LEMMA SwapDefinition ==
    ASSUME NEW n \in Nat, NEW s, s = [k \in 1 .. n |-> s[k]],
           NEW i \in 1 .. n, NEW j \in 1 .. n
    PROVE  Swap(s, i, j) = [k \in 1 .. n |-> IF k = j THEN s[i]
                                             ELSE IF k = i THEN s[j] ELSE s[k]]
<1>1. DOMAIN s = 1 .. n
  OBVIOUS
<1> QED
  BY <1>1 DEF Swap

LEMMA SwapRearranges ==
    ASSUME NEW n \in Nat, NEW p \in Rearrangements(n),
           NEW i \in 1 .. n, NEW j \in 1 .. n
    PROVE  Swap(p, i, j) \in Rearrangements(n)
<1> DEFINE q == Swap(p, i, j)
<1>1. q = [k \in 1 .. n |-> IF k = j THEN p[i] ELSE IF k = i THEN p[j] ELSE p[k]]
  <2>1. DOMAIN p = 1 .. n /\ p = [k \in 1 .. n |-> p[k]]
    BY DEF Rearrangements
  <2> QED
    BY <2>1 DEF Swap
<1> HIDE DEF q
<1>2. q \in [1 .. n -> 1 .. n]
  BY <1>1 DEF Rearrangements
<1>3. ASSUME NEW a \in 1 .. n, NEW b \in 1 .. n, q[a] = q[b]
      PROVE  a = b
  BY <1>1, <1>3 DEF Rearrangements
<1>4. ASSUME NEW c \in 1 .. n
      PROVE  \E a \in 1 .. n : q[a] = c
  <2>1. PICK a \in 1 .. n : p[a] = c
    BY DEF Rearrangements
  <2>2. a = i => q[j] = c
    BY <1>1, <2>1
  <2>3. a = j => q[i] = c
    BY <1>1, <2>1
  <2>4. a # i /\ a # j => q[a] = c
    BY <1>1, <2>1
  <2> QED
    BY <2>2, <2>3, <2>4
<1> QED
  BY <1>2, <1>3, <1>4 DEF Rearrangements, q

LEMMA SwapOfRearranged ==
    ASSUME NEW T, NEW s \in Seq(T), NEW p \in Rearrangements(Len(s)),
           NEW i \in 1 .. Len(s), NEW j \in 1 .. Len(s)
    PROVE  Swap(Rearranged(s, p), i, j) = Rearranged(s, Swap(p, i, j))
<1> DEFINE n == Len(s)
<1>0. n \in Nat /\ i \in 1 .. n /\ j \in 1 .. n
  OBVIOUS
<1>1. Swap(p, i, j) = [k \in 1 .. n |-> IF k = j THEN p[i]
                                        ELSE IF k = i THEN p[j] ELSE p[k]]
  <2>1. p = [k \in 1 .. n |-> p[k]]
    BY DEF Rearrangements
  <2> HIDE DEF n
  <2> QED
    BY <1>0, <2>1, SwapDefinition
<1>2. Swap(Rearranged(s, p), i, j)
        = [k \in 1 .. n |-> IF k = j THEN Rearranged(s, p)[i]
                            ELSE IF k = i THEN Rearranged(s, p)[j] ELSE Rearranged(s, p)[k]]
  <2> DEFINE r == Rearranged(s, p)
  <2>1. DOMAIN r = 1 .. n /\ r = [k \in 1 .. n |-> r[k]]
    BY DEF Rearranged
  <2> HIDE DEF n, r
  <2>2. Swap(r, i, j) = [k \in 1 .. n |-> IF k = j THEN r[i] ELSE IF k = i THEN r[j] ELSE r[k]]
    BY <1>0, <2>1 DEF Swap
  <2> QED
    BY <2>2 DEF r
<1>3. p \in [1 .. n -> 1 .. n] /\ Swap(p, i, j) \in [1 .. n -> 1 .. n]
  BY <1>0, SwapRearranges DEF Rearrangements
<1> QED
  BY <1>0, <1>1, <1>2, <1>3 DEF Rearranged

\* The recursion of Swapped has a solution, step by step.
LEMMA SwappedDefinition ==
    ASSUME NEW s, NEW swaps, Len(swaps) \in Nat
    PROVE  \E f : /\ Swapped(s, swaps) = f[Len(swaps)]
                  /\ f[0] = s
                  /\ \A k \in 1 .. Len(swaps) :
                        f[k] = Swap(f[k - 1], swaps[k][1], swaps[k][2])
<1> DEFINE n == Len(swaps)
           Solves(f) == f = [k \in 0 .. n |->
                               IF k = 0 THEN s ELSE Swap(f[k - 1], swaps[k][1], swaps[k][2])]
           Upto(f, m) == /\ f[0] = s
                         /\ \A k \in 1 .. m : f[k] = Swap(f[k - 1], swaps[k][1], swaps[k][2])
           Open == {m \in 0 .. n : ~\E f : Upto(f, m)}
<1>0. n \in Nat
  OBVIOUS
<1>1. Open = {}
  <2> SUFFICES ASSUME Open # {} PROVE FALSE
    OBVIOUS
  <2>0. Open \in SUBSET Nat
    BY <1>0
  <2>1. PICK m \in Open : \A k \in Open : m <= k
    <3> HIDE DEF Open
    <3> QED
      BY <2>0, LeastMember
  <2>2. m # 0
    <3>1. Upto([k \in 0 .. n |-> s], 0)
      OBVIOUS
    <3> QED
      BY <2>1, <3>1
  <2>3. m - 1 \in 0 .. n /\ m - 1 \notin Open /\ m \in 1 .. n
    <3>1. m \in 0 .. n
      BY <2>1
    <3>2. m - 1 \in Open => m <= m - 1
      BY <2>1
    <3> HIDE DEF Open
    <3> QED
      BY <1>0, <2>2, <3>1, <3>2
  <2>4. PICK f : Upto(f, m - 1)
    BY <2>3
  <2> DEFINE g == [k \in 0 .. n |-> IF k = m THEN Swap(f[m - 1], swaps[m][1], swaps[m][2])
                                    ELSE f[k]]
  <2>5. g[m] = Swap(f[m - 1], swaps[m][1], swaps[m][2]) /\ g[0] = s
        /\ \A k \in 0 .. m - 1 : g[k] = f[k]
    BY <2>2, <2>3, <2>4
  <2> HIDE DEF g
  <2>6. ASSUME NEW k \in 1 .. m
        PROVE  g[k] = Swap(g[k - 1], swaps[k][1], swaps[k][2])
    <3>1. CASE k = m
      BY <2>3, <2>5, <3>1
    <3>2. CASE k # m
      <4>1. k \in 1 .. m - 1 /\ k \in 0 .. m - 1 /\ k - 1 \in 0 .. m - 1
        BY <2>3, <3>2
      <4> QED
        BY <2>4, <2>5, <4>1
    <3> QED
      BY <3>1, <3>2
  <2>7. Upto(g, m)
    BY <2>5, <2>6
  <2> QED
    BY <2>1, <2>7
<1>2. PICK f : Upto(f, n)
  BY <1>0, <1>1
<1>3. \E g : Solves(g)
  <2> DEFINE g == [k \in 0 .. n |-> f[k]]
  <2>1. ASSUME NEW k \in 0 .. n
        PROVE  f[k] = IF k = 0 THEN s ELSE Swap(g[k - 1], swaps[k][1], swaps[k][2])
    <3>1. k # 0 => k \in 1 .. n /\ g[k - 1] = f[k - 1]
      OBVIOUS
    <3> HIDE DEF g
    <3> QED
      BY <1>2, <3>1
  <2>2. Solves(g)
    BY <2>1
  <2> QED
    BY <2>2
<1>4. Swapped(s, swaps) = (CHOOSE g : Solves(g))[n]
  BY DEF Swapped
<1> DEFINE after == CHOOSE g : Solves(g)
<1> HIDE DEF Solves
<1>5. Solves(after)
  BY <1>3
<1> HIDE DEF after
<1>6. after = [k \in 0 .. n |-> IF k = 0 THEN s
                                ELSE Swap(after[k - 1], swaps[k][1], swaps[k][2])]
  BY <1>5 DEF Solves
<1>7. after[0] = s /\ \A k \in 1 .. n : after[k] = Swap(after[k - 1], swaps[k][1], swaps[k][2])
  BY <1>0, <1>6
<1>8. Swapped(s, swaps) = after[n]
  BY <1>4 DEF after
<1> QED
  BY <1>7, <1>8

\* What follows the recursion is what Swapped gives.
LEMMA SwappedIs ==
    ASSUME NEW s, NEW swaps, Len(swaps) \in Nat, NEW f, f[0] = s,
           \A k \in 1 .. Len(swaps) : f[k] = Swap(f[k - 1], swaps[k][1], swaps[k][2])
    PROVE  Swapped(s, swaps) = f[Len(swaps)]
<1> DEFINE n == Len(swaps)
<1>0. n \in Nat
  OBVIOUS
<1>1. PICK g : /\ Swapped(s, swaps) = g[n] /\ g[0] = s
               /\ \A k \in 1 .. n : g[k] = Swap(g[k - 1], swaps[k][1], swaps[k][2])
  BY SwappedDefinition
<1> DEFINE Others == {k \in 0 .. n : g[k] # f[k]}
<1>2. Others = {}
  <2> SUFFICES ASSUME Others # {} PROVE FALSE
    OBVIOUS
  <2>0. Others \in SUBSET Nat
    BY <1>0
  <2>1. PICK k \in Others : \A j \in Others : k <= j
    <3> HIDE DEF Others
    <3> QED
      BY <2>0, LeastMember
  <2>2. k \in 1 .. n
    BY <1>0, <1>1, <2>1
  <2>3. k - 1 \in 0 .. n /\ ~(k <= k - 1)
    BY <1>0, <2>2
  <2>4. g[k - 1] = f[k - 1]
    BY <2>1, <2>3
  <2>5. g[k] = f[k]
    BY <1>1, <2>2, <2>4
  <2> QED
    BY <2>1, <2>5
<1> QED
  BY <1>0, <1>1, <1>2

LEMMA SwappedOnce ==
    ASSUME NEW s, NEW X, NEW swaps \in Seq(X), NEW e \in X
    PROVE  Swapped(s, Append(swaps, e)) = Swap(Swapped(s, swaps), e[1], e[2])
<1> DEFINE n == Len(swaps)
           more == Append(swaps, e)
<1>1. /\ n \in Nat /\ more \in Seq(X) /\ Len(more) = n + 1 /\ more[n + 1] = e
      /\ \A k \in 1 .. n : more[k] = swaps[k]
  OBVIOUS
<1> HIDE DEF more
<1>2. PICK f : /\ Swapped(s, more) = f[Len(more)] /\ f[0] = s
               /\ \A k \in 1 .. Len(more) : f[k] = Swap(f[k - 1], more[k][1], more[k][2])
  BY <1>1, SwappedDefinition
<1>3. \A k \in 1 .. n : f[k] = Swap(f[k - 1], swaps[k][1], swaps[k][2])
  <2> TAKE k \in 1 .. n
  <2>1. k \in 1 .. Len(more)
    BY <1>1
  <2> QED
    BY <1>1, <1>2, <2>1
<1>4. Swapped(s, swaps) = f[n]
  BY <1>1, <1>2, <1>3, SwappedIs
<1>5. f[n + 1] = Swap(f[n], e[1], e[2])
  <2>1. n + 1 \in 1 .. Len(more) /\ n + 1 - 1 = n
    BY <1>1
  <2> QED
    BY <1>1, <1>2, <2>1
<1> QED
  BY <1>1, <1>2, <1>4, <1>5 DEF more

LEMMA SwappedNever ==
    ASSUME NEW s
    PROVE  Swapped(s, << >>) = s
<1> DEFINE none == << >>
<1>1. Len(none) = 0
  OBVIOUS
<1> HIDE DEF none
<1>2. PICK f : Swapped(s, none) = f[Len(none)] /\ f[0] = s
  BY <1>1, SwappedDefinition
<1> QED
  BY <1>1, <1>2 DEF none

\* Nothing is rearranged into what it is.
LEMMA Unmoved ==
    ASSUME NEW T, NEW s \in Seq(T)
    PROVE  /\ [i \in 1 .. Len(s) |-> i] \in Rearrangements(Len(s))
           /\ Rearranged(s, [i \in 1 .. Len(s) |-> i]) = s
<1>1. [i \in 1 .. Len(s) |-> i] \in Rearrangements(Len(s))
  BY DEF Rearrangements
<1>2. Rearranged(s, [i \in 1 .. Len(s) |-> i]) = [i \in 1 .. Len(s) |-> s[i]]
  BY DEF Rearranged
<1> QED
  BY <1>1, <1>2

IsRearranged(s, t) == \E p \in Rearrangements(Len(s)) : t = Rearranged(s, p)

\* The states that n swaps of two of s's places go through, from s.
SwapsThrough(f, s, swaps, n) ==
    /\ f[0] = s
    /\ \A k \in 1 .. n : /\ swaps[k][1] \in 1 .. Len(s)
                         /\ swaps[k][2] \in 1 .. Len(s)
                         /\ f[k] = Swap(f[k - 1], swaps[k][1], swaps[k][2])

\* Swaps of places rearrange, and nothing else: every state, so the last one too.
LEMMA StepsRearrange ==
    ASSUME NEW T, NEW s \in Seq(T), NEW swaps, NEW n \in Nat, NEW f,
           SwapsThrough(f, s, swaps, n)
    PROVE  \A k \in 0 .. n : IsRearranged(s, f[k])
<1> DEFINE Open == {k \in 0 .. n : ~IsRearranged(s, f[k])}
<1> SUFFICES ASSUME Open # {} PROVE FALSE
  OBVIOUS
<1>0. Open \in SUBSET Nat
  OBVIOUS
<1>1. PICK k \in Open : \A j \in Open : k <= j
  <2> HIDE DEF Open
  <2> QED
    BY <1>0, LeastMember
<1>2. k # 0
  BY <1>1, Unmoved DEF SwapsThrough, IsRearranged
<1>3. k \in 1 .. n /\ k - 1 \in 0 .. n /\ ~(k <= k - 1)
  <2>1. k \in 0 .. n
    BY <1>1
  <2> HIDE DEF Open
  <2> QED
    BY <1>2, <2>1
<1>4. PICK p \in Rearrangements(Len(s)) : f[k - 1] = Rearranged(s, p)
  BY <1>1, <1>3 DEF IsRearranged
<1>5. swaps[k][1] \in 1 .. Len(s) /\ swaps[k][2] \in 1 .. Len(s)
  BY <1>3 DEF SwapsThrough
<1>6. Swap(p, swaps[k][1], swaps[k][2]) \in Rearrangements(Len(s))
  BY <1>5, SwapRearranges
<1>7. f[k] = Rearranged(s, Swap(p, swaps[k][1], swaps[k][2]))
  BY <1>3, <1>4, <1>5, SwapOfRearranged DEF SwapsThrough
<1> QED
  BY <1>1, <1>6, <1>7 DEF IsRearranged

LEMMA SwappedRearranges ==
    ASSUME NEW T, NEW s \in Seq(T), NEW swaps, Len(swaps) \in Nat,
           \A k \in 1 .. Len(swaps) : /\ swaps[k][1] \in 1 .. Len(s)
                                      /\ swaps[k][2] \in 1 .. Len(s)
    PROVE  \E p \in Rearrangements(Len(s)) : Swapped(s, swaps) = Rearranged(s, p)
<1> DEFINE n == Len(swaps)
<1>0. n \in Nat /\ n \in 0 .. n
  OBVIOUS
<1>1. PICK f : /\ Swapped(s, swaps) = f[n] /\ f[0] = s
               /\ \A k \in 1 .. n : f[k] = Swap(f[k - 1], swaps[k][1], swaps[k][2])
  BY <1>0, SwappedDefinition
<1>2. SwapsThrough(f, s, swaps, n)
  BY <1>1 DEF SwapsThrough
<1>3. \A k \in 0 .. n : IsRearranged(s, f[k])
  BY <1>0, <1>2, StepsRearrange
<1> QED
  BY <1>0, <1>1, <1>3 DEF IsRearranged

\* A draw below a bound is, and any number below it may be drawn if draws are finer.
LEMMA BelowIsBelow ==
    ASSUME NEW draw \in 0 .. Resolution - 1, NEW bound \in Nat \ {0}
    PROVE  below(draw, bound) \in 0 .. bound - 1
<1>1. Resolution \in Nat \ {0}
  BY RngAssumption
<1> DEFINE a == draw * bound
           q == a \div Resolution
<1>2. a \in Nat /\ a < bound * Resolution
  BY <1>1
<1> HIDE DEF a
<1>3. /\ q \in Int /\ Resolution * q <= a
      /\ a < Resolution * q + Resolution
  BY <1>1, <1>2
<1> HIDE DEF q
<1>4. ASSUME q >= bound PROVE FALSE
  <2>1. Resolution * q >= Resolution * bound
    BY <1>1, <1>3, <1>4
  <2> QED
    BY <1>1, <1>2, <1>3, <2>1
<1>5. ASSUME q < 0 PROVE FALSE
  <2>1. q + 1 <= 0
    BY <1>3, <1>5
  <2>2. Resolution * (q + 1) <= 0
    BY <1>1, <1>3, <2>1
  <2> QED
    BY <1>1, <1>2, <1>3, <2>2
<1> QED
  BY <1>3, <1>4, <1>5 DEF below, q, a

LEMMA BelowReaches ==
    ASSUME NEW bound \in 1 .. Resolution, NEW j \in 0 .. bound - 1
    PROVE  \E draw \in 0 .. Resolution - 1 : below(draw, bound) = j
<1>1. Resolution \in Nat \ {0} /\ bound \in Nat \ {0} /\ j \in Nat
  BY RngAssumption
<1> DEFINE a == j * Resolution
           d == (a + bound - 1) \div bound
<1>2. a \in Nat
  BY <1>1
<1> HIDE DEF a
<1>3. d \in Int /\ bound * d <= a + bound - 1 /\ a + bound - 1 < bound * d + bound
  BY <1>1, <1>2
<1> HIDE DEF d
<1>4. a <= d * bound /\ d * bound < a + Resolution
  BY <1>1, <1>2, <1>3
<1>5. d >= 0
  <2> SUFFICES ASSUME d < 0 PROVE FALSE
    BY <1>3
  <2>1. d + 1 <= 0 /\ bound * (d + 1) <= 0
    BY <1>1, <1>3
  <2> QED
    BY <1>1, <1>2, <1>3, <2>1
<1>6. d < Resolution
  <2> SUFFICES ASSUME d >= Resolution PROVE FALSE
    BY <1>1, <1>3
  <2>1. d * bound >= Resolution * bound
    BY <1>1, <1>3
  <2>2. (j + 1) * Resolution <= bound * Resolution
    BY <1>1
  <2>3. a + Resolution <= bound * Resolution
    BY <1>1, <2>2 DEF a
  <2> QED
    BY <1>1, <1>2, <1>3, <1>4, <2>1, <2>3
<1>7. below(d, bound) = j
  <2> DEFINE b == d * bound
             q == b \div Resolution
  <2>1. b \in Nat /\ j * Resolution <= b /\ b < j * Resolution + Resolution
    BY <1>1, <1>3, <1>4, <1>5 DEF a
  <2> HIDE DEF b
  <2>2. q \in Int /\ Resolution * q <= b /\ b < Resolution * q + Resolution
    BY <1>1, <2>1
  <2> HIDE DEF q
  <2>3. ASSUME q < j PROVE FALSE
    <3>1. Resolution * (q + 1) <= Resolution * j
      BY <1>1, <2>2, <2>3
    <3> QED
      BY <1>1, <2>1, <2>2, <3>1
  <2>4. ASSUME j < q PROVE FALSE
    <3>1. Resolution * (j + 1) <= Resolution * q
      BY <1>1, <2>2, <2>4
    <3> QED
      BY <1>1, <2>1, <2>2, <3>1
  <2>5. q = j
    BY <1>1, <2>2, <2>3, <2>4
  <2> QED
    BY <2>5 DEF below, b, q
<1> QED
  BY <1>1, <1>3, <1>5, <1>6, <1>7

\* The swaps of a shuffle of n places that have been drawn so far.
Turns(n, js) == [m \in 1 .. Len(js) |-> <<n - m + 1, js[m]>>]

LEMMA OneMoreTurn ==
    ASSUME NEW n \in Nat, NEW js \in Seq(Nat), NEW j \in Nat
    PROVE  Turns(n, Append(js, j)) = Append(Turns(n, js), <<n - Len(js), j>>)
<1> DEFINE k == Len(js)
           more == Append(js, j)
           turns == Turns(n, js)
<1>1. /\ k \in Nat /\ Len(more) = k + 1 /\ more[k + 1] = j
      /\ \A m \in 1 .. k : more[m] = js[m]
  OBVIOUS
<1>2. turns \in Seq(Int \X Nat) /\ Len(turns) = k
      /\ \A m \in 1 .. k : turns[m] = <<n - m + 1, js[m]>>
  BY <1>1 DEF Turns
<1> HIDE DEF turns, more
<1>3. Append(turns, <<n - k, j>>) =
         [m \in 1 .. k + 1 |-> IF m = k + 1 THEN <<n - k, j>> ELSE turns[m]]
  BY <1>1, <1>2
<1>4. ASSUME NEW m \in 1 .. k + 1
      PROVE  <<n - m + 1, more[m]>> = IF m = k + 1 THEN <<n - k, j>> ELSE turns[m]
  <2>1. CASE m = k + 1
    BY <1>1, <2>1
  <2>2. CASE m # k + 1
    <3>1. m \in 1 .. k
      BY <1>1, <2>2
    <3>2. more[m] = js[m] /\ turns[m] = <<n - m + 1, js[m]>>
      BY <1>1, <1>2, <3>1, Zenon
    <3> QED
      BY <2>2, <3>2, Zenon
  <2> QED
    BY <2>1, <2>2
<1>5. Turns(n, more) = [m \in 1 .. k + 1 |-> <<n - m + 1, more[m]>>]
  BY <1>1 DEF Turns
<1> QED
  BY <1>3, <1>4, <1>5 DEF turns, more

\* One more turn puts the item of one more place where it is wanted.
LEMMA TurnReaches ==
    ASSUME NEW n \in Nat, NEW p \in Rearrangements(n), NEW q \in Rearrangements(n),
           NEW i \in 1 .. n, \A b \in i + 1 .. n : q[b] = p[b]
    PROVE  \E a \in 1 .. i : /\ Swap(q, i, a) \in Rearrangements(n)
                             /\ \A b \in i .. n : Swap(q, i, a)[b] = p[b]
<1>1. PICK a \in 1 .. n : q[a] = p[i]
  BY DEF Rearrangements
<1>2. a \in 1 .. i
  <2> SUFFICES ASSUME a > i PROVE FALSE
    BY <1>1
  <2>1. q[a] = p[a]
    BY <1>1
  <2>2. \A x, y \in 1 .. n : p[x] = p[y] => x = y
    BY DEF Rearrangements
  <2>3. p[a] = p[i]
    BY <1>1, <2>1, Zenon
  <2>4. a = i
    BY <2>2, <2>3, Zenon
  <2> QED
    BY <2>4
<1>3. Swap(q, i, a) = [k \in 1 .. n |-> IF k = a THEN q[i] ELSE IF k = i THEN q[a] ELSE q[k]]
  <2>1. DOMAIN q = 1 .. n /\ q = [k \in 1 .. n |-> q[k]]
    BY DEF Rearrangements
  <2> QED
    BY <1>1, <2>1 DEF Swap
<1>4. Swap(q, i, a)[i] = p[i]
  BY <1>1, <1>3
<1>5. \A b \in i + 1 .. n : Swap(q, i, a)[b] = p[b]
  BY <1>1, <1>2, <1>3
<1>6. \A b \in i .. n : Swap(q, i, a)[b] = p[b]
  BY <1>4, <1>5
<1> QED
  BY <1>1, <1>2, <1>6, SwapRearranges

\* So the turns of a shuffle can be drawn so that they end as is wanted.
LEMMA TurnsReach ==
    ASSUME NEW T, NEW s \in Seq(T), NEW p \in Rearrangements(Len(s)), Len(s) # 0
    PROVE  \E js \in Seq(Nat) :
              /\ Len(js) = Len(s) - 1
              /\ \A m \in 1 .. Len(s) - 1 : js[m] \in 1 .. Len(s) - m + 1
              /\ Swapped(s, Turns(Len(s), js)) = Rearranged(s, p)
<1> DEFINE n == Len(s)
           Reached(k, js, q) ==
              /\ Len(js) = k /\ \A m \in 1 .. k : js[m] \in 1 .. n - m + 1
              /\ Swapped(s, Turns(n, js)) = Rearranged(s, q)
              /\ \A b \in n - k + 1 .. n : q[b] = p[b]
           Open == {k \in 0 .. n - 1 :
                       ~\E js \in Seq(Nat), q \in Rearrangements(n) : Reached(k, js, q)}
<1>0. n \in Nat \ {0}
  OBVIOUS
<1> HIDE DEF n
<1>1. Reached(0, << >>, [i \in 1 .. n |-> i]) /\ [i \in 1 .. n |-> i] \in Rearrangements(n)
  <2>1. Turns(n, << >>) = << >>
    BY DEF Turns
  <2>2. Swapped(s, << >>) = s
    BY SwappedNever
  <2>3. Rearranged(s, [i \in 1 .. n |-> i]) = s
        /\ [i \in 1 .. n |-> i] \in Rearrangements(n)
    BY Unmoved DEF n
  <2>4. n - 0 + 1 .. n = {} /\ 1 .. 0 = {} /\ Len(<< >>) = 0
    BY <1>0
  <2>5. Swapped(s, Turns(n, << >>)) = Rearranged(s, [i \in 1 .. n |-> i])
    BY <2>1, <2>2, <2>3
  <2> QED
    BY <2>3, <2>4, <2>5
<1>2. ASSUME NEW k \in 1 .. n - 1, NEW js \in Seq(Nat), NEW q \in Rearrangements(n),
             Reached(k - 1, js, q)
      PROVE  \E ks \in Seq(Nat), r \in Rearrangements(n) : Reached(k, ks, r)
  <2> DEFINE i == n - k + 1
  <2>1. i \in 1 .. n /\ i + 1 = n - (k - 1) + 1 /\ i = n - (k - 1) /\ Len(js) = k - 1
    BY <1>0, <1>2
  <2>2. p \in Rearrangements(n)
    BY DEF n
  <2> HIDE DEF i
  <2>3. PICK a \in 1 .. i : /\ Swap(q, i, a) \in Rearrangements(n)
                            /\ \A b \in i .. n : Swap(q, i, a)[b] = p[b]
    <3>1. \A b \in i + 1 .. n : q[b] = p[b]
      BY <1>2, <2>1
    <3> HIDE DEF Reached
    <3>2. n \in Nat
      BY <1>0
    <3> QED
      BY <2>1, <2>2, <3>1, <3>2, TurnReaches
  <2>4. a \in Nat /\ a \in 1 .. n
    BY <1>0, <2>1, <2>3
  <2> DEFINE ks == Append(js, a)
  <2>5. /\ ks \in Seq(Nat) /\ Len(ks) = k /\ ks[k] = a
        /\ \A m \in 1 .. k - 1 : ks[m] = js[m]
    BY <2>1, <2>4
  <2>6. Turns(n, ks) = Append(Turns(n, js), <<i, a>>)
    <3>1. n \in Nat /\ i = n - Len(js)
      BY <1>0, <2>1
    <3> QED
      BY <2>4, <3>1, OneMoreTurn
  <2> HIDE DEF ks
  <2>7. Swapped(s, Turns(n, ks)) = Swap(Swapped(s, Turns(n, js)), i, a)
    <3> DEFINE e == <<i, a>>
               X == Int \X Nat
    <3>1. Turns(n, js) \in Seq(X) /\ e \in X /\ e[1] = i /\ e[2] = a
      BY <1>0, <2>1, <2>4 DEF Turns
    <3> HIDE DEF e, X
    <3>2. Swapped(s, Append(Turns(n, js), e)) = Swap(Swapped(s, Turns(n, js)), e[1], e[2])
      BY <3>1, SwappedOnce
    <3> QED
      BY <2>6, <3>1, <3>2 DEF e
  <2>8. Swapped(s, Turns(n, ks)) = Rearranged(s, Swap(q, i, a))
    BY <1>2, <2>1, <2>4, <2>7, SwapOfRearranged DEF n
  <2>9. \A m \in 1 .. k : ks[m] \in 1 .. n - m + 1
    <3>1. \A m \in 1 .. k - 1 : ks[m] \in 1 .. n - m + 1
      BY <1>2, <2>5
    <3> QED
      BY <1>0, <2>3, <2>5, <3>1 DEF i
  <2> QED
    BY <2>3, <2>5, <2>8, <2>9 DEF i
<1>3. Open = {}
  <2> SUFFICES ASSUME Open # {} PROVE FALSE
    OBVIOUS
  <2>0. Open \in SUBSET Nat
    BY <1>0
  <2>1. PICK k \in Open : \A j \in Open : k <= j
    <3> HIDE DEF Open
    <3> QED
      BY <2>0, LeastMember
  <2>2. k # 0
    <3>1. << >> \in Seq(Nat)
      OBVIOUS
    <3> HIDE DEF Reached
    <3> QED
      BY <1>1, <2>1, <3>1
  <2>3. k \in 1 .. n - 1 /\ k - 1 \in 0 .. n - 1 /\ k - 1 \notin Open
    <3>1. k \in 0 .. n - 1
      BY <2>1
    <3>2. k - 1 \in Open => k <= k - 1
      BY <2>1
    <3> HIDE DEF Open
    <3> QED
      BY <1>0, <2>2, <3>1, <3>2
  <2> HIDE DEF Reached
  <2> QED
    BY <1>2, <2>1, <2>3
<1>4. PICK js \in Seq(Nat), q \in Rearrangements(n) : Reached(n - 1, js, q)
  <2> HIDE DEF Reached
  <2>1. n - 1 \in 0 .. n - 1
    BY <1>0
  <2> QED
    BY <1>3, <2>1
<1>5. \A b \in 2 .. n : q[b] = p[b]
  BY <1>0, <1>4
<1>6. q = p
  <2>1. p \in Rearrangements(n)
    BY DEF n
  <2>2. PICK a \in 1 .. n : q[a] = p[1]
    BY <1>0, <2>1 DEF Rearrangements
  <2>3. a = 1
    <3>1. a # 1 => q[a] = p[a] /\ a \in 1 .. n
      BY <1>5
    <3> QED
      BY <1>0, <2>1, <2>2, <3>1 DEF Rearrangements
  <2>4. \A b \in 1 .. n : q[b] = p[b]
    BY <1>5, <2>2, <2>3
  <2>5. p \in [1 .. n -> 1 .. n] /\ q \in [1 .. n -> 1 .. n]
    BY <2>1 DEF Rearrangements
  <2>6. p = [b \in 1 .. n |-> p[b]] /\ q = [b \in 1 .. n |-> q[b]]
    BY <2>5, Zenon
  <2>7. [b \in 1 .. n |-> p[b]] = [b \in 1 .. n |-> q[b]]
    BY <2>4, Zenon
  <2> QED
    BY <2>6, <2>7, Zenon
<1> QED
  BY <1>0, <1>4, <1>6 DEF n

\* The swaps that a scheduler draws are of places of the batch.
LEMMA ShuffleSwapsPlaces ==
    ASSUME NEW n \in Nat, NEW size \in Nat, n - 1 <= size, NEW draws \in Draws(size),
           NEW k \in 1 .. n - 1
    PROVE  /\ n - k + 1 \in 1 .. n
           /\ below(draws[k], n - k + 1) + 1 \in 1 .. n - k + 1
<1>1. draws[k] \in 0 .. Resolution - 1 /\ n - k + 1 \in Nat \ {0}
  BY DEF Draws
<1>2. below(draws[k], n - k + 1) \in 0 .. n - k
  BY <1>1, BelowIsBelow
<1> QED
  BY <1>1, <1>2

LEMMA ShuffleRearranges ==
    ASSUME NEW T, NEW batch \in Seq(T), NEW size \in Nat, Len(batch) - 1 <= size,
           NEW draws \in Draws(size)
    PROVE  \E p \in Rearrangements(Len(batch)) : shuffle(batch, draws) = Rearranged(batch, p)
<1> DEFINE n == Len(batch)
           swaps == [k \in 1 .. n - 1 |-> <<n - k + 1, below(draws[k], n - k + 1) + 1>>]
<1>1. Len(swaps) \in Nat /\ \A k \in 1 .. Len(swaps) : k \in 1 .. n - 1
  <2>1. CASE n = 0
    <3>1. swaps = << >>
      BY <2>1
    <3> HIDE DEF swaps
    <3> QED
      BY <3>1
  <2>2. CASE n # 0
    <3>1. n - 1 \in Nat
      BY <2>2
    <3>2. Len(swaps) = n - 1
      BY <3>1
    <3> HIDE DEF swaps
    <3> QED
      BY <3>1, <3>2
  <2> QED
    BY <2>1, <2>2
<1>2. \A k \in 1 .. n - 1 : swaps[k][1] \in 1 .. n /\ swaps[k][2] \in 1 .. n
  <2> TAKE k \in 1 .. n - 1
  <2>1. /\ n - k + 1 \in 1 .. n /\ below(draws[k], n - k + 1) + 1 \in 1 .. n - k + 1
    BY ShuffleSwapsPlaces
  <2> QED
    BY <2>1
<1>3. shuffle(batch, draws) = Swapped(batch, swaps)
  BY DEF shuffle
<1> HIDE DEF swaps
<1> QED
  BY <1>1, <1>2, <1>3, SwappedRearranges

LEMMA PartialRearranges ==
    ASSUME NEW T, NEW batch \in Seq(T), NEW size \in Nat, 2 * Swaps(Len(batch)) <= size,
           NEW draws \in Draws(size)
    PROVE  \E p \in Rearrangements(Len(batch)) : partial(batch, draws) = Rearranged(batch, p)
<1> DEFINE n == Len(batch)
           m == Swaps(n)
           swaps == [k \in 1 .. m |-> <<below(draws[2 * k - 1], n) + 1, below(draws[2 * k], n) + 1>>]
<1>1. m \in Nat /\ (n = 0 => m = 0)
  BY RngAssumption DEF Swaps
<1>2. swaps = [k \in 1 .. m |-> swaps[k]] /\ Len(swaps) = m
  BY <1>1
<1>3. \A k \in 1 .. m : swaps[k][1] \in 1 .. n /\ swaps[k][2] \in 1 .. n
  <2> TAKE k \in 1 .. m
  <2>1. n \in Nat \ {0} /\ 2 * k \in 1 .. size /\ 2 * k - 1 \in 1 .. size
    BY <1>1
  <2>2. draws[2 * k] \in 0 .. Resolution - 1 /\ draws[2 * k - 1] \in 0 .. Resolution - 1
    BY <2>1 DEF Draws
  <2>3. below(draws[2 * k], n) \in 0 .. n - 1 /\ below(draws[2 * k - 1], n) \in 0 .. n - 1
    BY <2>1, <2>2, BelowIsBelow
  <2> HIDE DEF m
  <2> QED
    BY <2>1, <2>3
<1>4. partial(batch, draws) = Swapped(batch, swaps)
  BY DEF partial
<1> HIDE DEF swaps, m
<1> QED
  BY <1>1, <1>2, <1>3, <1>4, SwappedRearranges

LEMMA ReverseRearranges ==
    ASSUME NEW T, NEW batch \in Seq(T)
    PROVE  \E p \in Rearrangements(Len(batch)) : reverse(batch) = Rearranged(batch, p)
<1> DEFINE n == Len(batch)
           p == [i \in 1 .. n |-> n - i + 1]
<1>1. p \in [1 .. n -> 1 .. n] /\ \A a, b \in 1 .. n : p[a] = p[b] => a = b
  OBVIOUS
<1>2. \A c \in 1 .. n : n - c + 1 \in 1 .. n /\ p[n - c + 1] = c
  OBVIOUS
<1>3. p \in Rearrangements(n)
  <2> HIDE DEF p
  <2> QED
    BY <1>1, <1>2 DEF Rearrangements
<1>4. reverse(batch) = Rearranged(batch, p)
  BY DEF reverse, Rearranged
<1> QED
  BY <1>3, <1>4

\* No scheduler loses a callback of a batch or runs one twice, whatever is drawn.
THEOREM OrdersRearrange ==
    ASSUME NEW T, NEW batch \in Seq(T), NEW size \in Nat, NEW draws \in Draws(size),
           Len(batch) - 1 <= size, 2 * Swaps(Len(batch)) <= size,
           NEW scheduler \in {"Fifo", "Random", "Reverse", "Partial"}
    PROVE  \E p \in Rearrangements(Len(batch)) :
              Order(scheduler, batch, draws) = Rearranged(batch, p)
<1>1. CASE scheduler = "Fifo"
  BY <1>1, Unmoved DEF Order
<1>2. CASE scheduler = "Random"
  BY <1>2, ShuffleRearranges DEF Order
<1>3. CASE scheduler = "Reverse"
  BY <1>3, ReverseRearranges DEF Order
<1>4. CASE scheduler = "Partial"
  BY <1>4, PartialRearranges DEF Order
<1> QED
  BY <1>1, <1>2, <1>3, <1>4

\* RandomScheduler can make every order of a batch, if draws are no coarser than it.
THEOREM EveryOrderComes ==
    ASSUME NEW T, NEW batch \in Seq(T), Len(batch) <= Resolution,
           NEW p \in Rearrangements(Len(batch))
    PROVE  \E draws \in Draws(Len(batch) - 1) :
              Order("Random", batch, draws) = Rearranged(batch, p)
<1> DEFINE n == Len(batch)
<1>0. n \in Nat
  OBVIOUS
<1>1. \A draws : Order("Random", batch, draws) = shuffle(batch, draws)
  BY DEF Order
<1>2. CASE n = 0
  <2>1. << >> \in Draws(n - 1)
    BY <1>2 DEF Draws
  <2>2. shuffle(batch, << >>) = batch
    <3>1. shuffle(batch, << >>) = Swapped(batch, << >>)
      BY <1>2 DEF shuffle
    <3> QED
      BY <3>1, SwappedNever
  <2>3. Rearranged(batch, p) = batch
    BY <1>2 DEF Rearranged
  <2> QED
    BY <1>1, <2>1, <2>2, <2>3
<1>3. CASE n # 0
  <2>1. PICK js \in Seq(Nat) : /\ Len(js) = n - 1
                               /\ \A m \in 1 .. n - 1 : js[m] \in 1 .. n - m + 1
                               /\ Swapped(batch, Turns(n, js)) = Rearranged(batch, p)
    BY <1>3, TurnsReach
  <2> DEFINE Draw(m) == CHOOSE d \in 0 .. Resolution - 1 : below(d, n - m + 1) = js[m] - 1
             draws == [m \in 1 .. n - 1 |-> Draw(m)]
  <2>2. ASSUME NEW m \in 1 .. n - 1
        PROVE  Draw(m) \in 0 .. Resolution - 1 /\ below(Draw(m), n - m + 1) = js[m] - 1
    <3>1. n - m + 1 \in 1 .. Resolution /\ js[m] - 1 \in 0 .. (n - m + 1) - 1
      BY <1>0, <2>1, RngAssumption
    <3>2. \E d \in 0 .. Resolution - 1 : below(d, n - m + 1) = js[m] - 1
      BY <3>1, BelowReaches
    <3> QED
      BY <3>2
  <2> HIDE DEF Draw
  <2>3. draws \in Draws(n - 1)
    BY <2>2 DEF Draws
  <2>4. ASSUME NEW m \in 1 .. n - 1
        PROVE  <<n - m + 1, below(draws[m], n - m + 1) + 1>> = <<n - m + 1, js[m]>>
    <3>1. js[m] \in Nat /\ js[m] - 1 + 1 = js[m]
      BY <2>1
    <3> QED
      BY <2>2, <3>1
  <2>5. shuffle(batch, draws) = Swapped(batch, Turns(n, js))
    <3> HIDE DEF draws
    <3>1. [m \in 1 .. n - 1 |-> <<n - m + 1, below(draws[m], n - m + 1) + 1>>] = Turns(n, js)
      BY <2>1, <2>4 DEF Turns
    <3>2. shuffle(batch, draws) =
             Swapped(batch, [m \in 1 .. n - 1 |-> <<n - m + 1, below(draws[m], n - m + 1) + 1>>])
      BY DEF shuffle
    <3> QED
      BY <3>1, <3>2
  <2> QED
    BY <1>1, <2>1, <2>3, <2>5
<1> QED
  BY <1>2, <1>3

\* A sample has items of as many different places.
THEOREM SamplesAreOfPlaces ==
    ASSUME NEW T, NEW items \in Seq(T), NEW count \in 0 .. Len(items),
           NEW size \in Nat, count <= size, NEW draws \in Draws(size)
    PROVE  \E p \in Rearrangements(Len(items)) :
              sample(items, count, draws) = [i \in 1 .. count |-> items[p[i]]]
<1> DEFINE n == Len(items)
           swaps == [i \in 1 .. count |-> <<i, i + below(draws[i], n - i + 1)>>]
<1>1. Len(swaps) = count /\ count \in Nat /\ n \in Nat
  OBVIOUS
<1>2. \A i \in 1 .. count : swaps[i][1] \in 1 .. n /\ swaps[i][2] \in 1 .. n
  <2> TAKE i \in 1 .. count
  <2>1. draws[i] \in 0 .. Resolution - 1 /\ n - i + 1 \in Nat \ {0}
    BY <1>1 DEF Draws
  <2>2. below(draws[i], n - i + 1) \in 0 .. n - i
    BY <2>1, BelowIsBelow
  <2> QED
    BY <1>1, <2>1, <2>2
<1>3. sample(items, count, draws) = SubSeq(Swapped(items, swaps), 1, count)
  BY DEF sample
<1> HIDE DEF swaps
<1>4. PICK p \in Rearrangements(n) : Swapped(items, swaps) = Rearranged(items, p)
  BY <1>1, <1>2, SwappedRearranges
<1>5. p \in [1 .. n -> 1 .. n]
  BY <1>4 DEF Rearrangements
<1>6. Rearranged(items, p) \in Seq(T) /\ Len(Rearranged(items, p)) = n
  BY <1>5 DEF Rearranged
<1>7. SubSeq(Rearranged(items, p), 1, count) = [i \in 1 .. count |-> items[p[i]]]
  BY <1>1, <1>5, <1>6 DEF Rearranged
<1> QED
  BY <1>3, <1>4, <1>7

\* The places that a shuffle of n items draws, one at each turn.
Places(draws, n) == [k \in 1 .. n - 1 |-> below(draws[k], n - k + 1) + 1]

\* The states that a shuffle of n items goes through, given the places drawn.
ShuffleThrough(f, places, n) ==
    \A k \in 1 .. n - 1 :
       /\ places[k] \in 1 .. n - k + 1
       /\ f[k] = [i \in 1 .. n |-> IF i = places[k] THEN f[k - 1][n - k + 1]
                                   ELSE IF i = n - k + 1 THEN f[k - 1][places[k]]
                                   ELSE f[k - 1][i]]

\* Where a turn puts the item drawn, the shuffle leaves it.
Settles(f, places, n, m) == f[n - 1][n - m + 1] = f[m - 1][places[m]]

\* A turn settles its place: the ones that come later are of places before it.
LEMMA SettledStays ==
    ASSUME NEW n \in Nat, NEW f, NEW places, ShuffleThrough(f, places, n),
           NEW m \in 1 .. n - 1
    PROVE  Settles(f, places, n, m)
<1> DEFINE item == f[m - 1][places[m]]
           Moved == {k \in m .. n - 1 : f[k][n - m + 1] # item}
<1>1. n - m + 1 \in 1 .. n /\ n - 1 \in m .. n - 1
  OBVIOUS
<1>2. Moved = {}
  <2> SUFFICES ASSUME Moved # {} PROVE FALSE
    OBVIOUS
  <2>0. Moved \in SUBSET Nat
    OBVIOUS
  <2>1. PICK k \in Moved : \A j \in Moved : k <= j
    <3> HIDE DEF Moved
    <3> QED
      BY <2>0, LeastMember
  <2>2. k \in m .. n - 1 /\ f[k][n - m + 1] # item
    BY <2>1
  <2>3. \A j \in m .. n - 1 : ~(k <= j) => f[j][n - m + 1] = item
    BY <2>1
  <2>4. /\ places[k] \in 1 .. n - k + 1
        /\ f[k] = [i \in 1 .. n |-> IF i = places[k] THEN f[k - 1][n - k + 1]
                                    ELSE IF i = n - k + 1 THEN f[k - 1][places[k]]
                                    ELSE f[k - 1][i]]
    BY <2>2 DEF ShuffleThrough
  <2>5. f[k][n - m + 1] = IF n - m + 1 = places[k] THEN f[k - 1][n - k + 1]
                          ELSE IF n - m + 1 = n - k + 1 THEN f[k - 1][places[k]]
                          ELSE f[k - 1][n - m + 1]
    <3> HIDE DEF item, Moved
    <3> QED
      BY <1>1, <2>4
  <2>6. k # m
    <3> SUFFICES ASSUME k = m PROVE FALSE
      OBVIOUS
    <3> QED
      BY <2>2, <2>5
  <2> HIDE DEF item, Moved
  <2>7. k - 1 \in m .. n - 1 /\ ~(k <= k - 1)
    BY <2>2, <2>6
  <2>8. n - m + 1 # n - k + 1 /\ n - m + 1 # places[k]
    <3>1. places[k] \in Int /\ places[k] <= n - k + 1 /\ k > m /\ k \in Int
      BY <2>2, <2>4, <2>6
    <3> QED
      BY <3>1
  <2> QED
    BY <2>2, <2>3, <2>5, <2>7, <2>8
<1> QED
  BY <1>1, <1>2 DEF Settles

\* What the turns of a shuffle do, place by place.
LEMMA ShuffleSteps ==
    ASSUME NEW T, NEW s \in Seq(T), NEW n \in Nat \ {0}, Len(s) = n, NEW draws \in Draws(n - 1)
    PROVE  \E f : /\ shuffle(s, draws) = f[n - 1] /\ f[0] = s
                  /\ ShuffleThrough(f, Places(draws, n), n)
                  /\ \A k \in 0 .. n - 1 : IsRearranged(s, f[k])
<1> DEFINE swaps == [k \in 1 .. n - 1 |-> <<n - k + 1, below(draws[k], n - k + 1) + 1>>]
<1>0. n \in Nat /\ n - 1 \in Nat
  OBVIOUS
<1>1. Len(swaps) = n - 1
  BY <1>0
<1>2. \A k \in 1 .. n - 1 : /\ swaps[k][1] = n - k + 1
                            /\ swaps[k][2] = Places(draws, n)[k]
  BY DEF Places
<1>3. shuffle(s, draws) = Swapped(s, swaps)
  BY DEF shuffle
<1> HIDE DEF swaps
<1>4. PICK f : /\ Swapped(s, swaps) = f[n - 1] /\ f[0] = s
               /\ \A k \in 1 .. n - 1 : f[k] = Swap(f[k - 1], swaps[k][1], swaps[k][2])
  <2>1. Len(swaps) \in Nat
    BY <1>0, <1>1
  <2> QED
    BY <1>1, <2>1, SwappedDefinition
<1>5. \A k \in 1 .. n - 1 : /\ n - k + 1 \in 1 .. n
                            /\ Places(draws, n)[k] \in 1 .. n - k + 1
  <2> TAKE k \in 1 .. n - 1
  <2>1. /\ n - k + 1 \in 1 .. n
        /\ below(draws[k], n - k + 1) + 1 \in 1 .. n - k + 1
    BY ShuffleSwapsPlaces
  <2> QED
    BY <2>1 DEF Places
<1>6. \A k \in 1 .. n - 1 : Places(draws, n)[k] \in 1 .. n
  BY <1>0, <1>5
<1>7. SwapsThrough(f, s, swaps, n - 1)
  <2>1. \A k \in 1 .. n - 1 : /\ swaps[k][1] \in 1 .. Len(s)
                              /\ swaps[k][2] \in 1 .. Len(s)
                              /\ f[k] = Swap(f[k - 1], swaps[k][1], swaps[k][2])
    <3> TAKE k \in 1 .. n - 1
    <3>1. swaps[k][1] \in 1 .. Len(s)
      BY <1>2, <1>5, Zenon
    <3>2. swaps[k][2] \in 1 .. Len(s)
      BY <1>2, <1>6, Zenon
    <3> QED
      BY <1>4, <3>1, <3>2, Zenon
  <2> QED
    BY <1>4, <2>1, Zenon DEF SwapsThrough
<1>8. \A k \in 0 .. n - 1 : IsRearranged(s, f[k])
  BY <1>0, <1>7, StepsRearrange
<1>9. ShuffleThrough(f, Places(draws, n), n)
  <2> DEFINE places == Places(draws, n)
  <2> HIDE DEF places
  <2>0. \A k \in 1 .. n - 1 : /\ f[k] = Swap(f[k - 1], n - k + 1, places[k])
                              /\ n - k + 1 \in 1 .. n
                              /\ places[k] \in 1 .. n - k + 1
                              /\ places[k] \in 1 .. n
    BY <1>2, <1>4, <1>5, <1>6 DEF places
  <2> SUFFICES ASSUME NEW k \in 1 .. n - 1
               PROVE  f[k] = [i \in 1 .. n |-> IF i = places[k] THEN f[k - 1][n - k + 1]
                                               ELSE IF i = n - k + 1 THEN f[k - 1][places[k]]
                                               ELSE f[k - 1][i]]
    BY <2>0 DEF ShuffleThrough, places
  <2>1. k - 1 \in 0 .. n - 1
    BY <1>0
  <2>2. PICK p \in Rearrangements(n) : f[k - 1] = Rearranged(s, p)
    BY <1>8, <2>1 DEF IsRearranged
  <2>3. f[k - 1] = [i \in 1 .. n |-> f[k - 1][i]]
    BY <2>2 DEF Rearranged
  <2>4. f[k] = Swap(f[k - 1], n - k + 1, places[k])
    BY <2>0
  <2> QED
    BY <2>0, <2>3, <2>4 DEF Swap
<1> QED
  BY <1>3, <1>4, <1>8, <1>9

\* Two shuffles of one batch that come to the same order have drawn the same places:
\* no order is made in more ways than another (shuffle of rng.py, through the random
\* scheduler).
THEOREM OneWayToAnOrder ==
    ASSUME NEW T, NEW batch \in Seq(T), Len(batch) # 0,
           \A a, b \in 1 .. Len(batch) : batch[a] = batch[b] => a = b,
           NEW some \in Draws(Len(batch) - 1), NEW others \in Draws(Len(batch) - 1),
           Order("Random", batch, some) = Order("Random", batch, others)
    PROVE  Places(some, Len(batch)) = Places(others, Len(batch))
<1> DEFINE n == Len(batch)
           js == Places(some, n)
           ks == Places(others, n)
           Differ == {k \in 1 .. n - 1 : js[k] # ks[k]}
<1> SUFFICES Differ = {}
  BY Zenon DEF Places
<1>0. n \in Nat \ {0}
  OBVIOUS
<1>1. PICK f : /\ shuffle(batch, some) = f[n - 1] /\ f[0] = batch
               /\ ShuffleThrough(f, js, n)
               /\ \A k \in 0 .. n - 1 : IsRearranged(batch, f[k])
  BY <1>0, ShuffleSteps
<1>2. PICK g : /\ shuffle(batch, others) = g[n - 1] /\ g[0] = batch
               /\ ShuffleThrough(g, ks, n)
  BY <1>0, ShuffleSteps
<1>3. f[n - 1] = g[n - 1]
  BY <1>1, <1>2 DEF Order
<1> HIDE DEF js, ks
<1> SUFFICES ASSUME Differ # {} PROVE FALSE
  OBVIOUS
<1>4. PICK m \in Differ : \A k \in Differ : m <= k
  <2>1. Differ \in SUBSET Nat
    OBVIOUS
  <2> HIDE DEF Differ
  <2> QED
    BY <2>1, LeastMember
<1>5. m \in 1 .. n - 1 /\ js[m] # ks[m]
  BY <1>4
<1>6. \A k \in 1 .. m - 1 : js[k] = ks[k]
  <2> TAKE k \in 1 .. m - 1
  <2>1. k \in 1 .. n - 1 /\ ~(m <= k)
    BY <1>0, <1>5
  <2> QED
    BY <1>4, <2>1
<1>7. f[m - 1] = g[m - 1]
  <2> DEFINE Apart == {k \in 0 .. m - 1 : f[k] # g[k]}
  <2>1. Apart = {}
    <3> SUFFICES ASSUME Apart # {} PROVE FALSE
      OBVIOUS
    <3>0. Apart \in SUBSET Nat
      BY <1>5
    <3>1. PICK k \in Apart : \A j \in Apart : k <= j
      <4> HIDE DEF Apart
      <4> QED
        BY <3>0, LeastMember
    <3>2. k # 0 /\ k \in 0 .. m - 1
      BY <1>1, <1>2, <3>1
    <3>3. k \in 1 .. m - 1 /\ k \in 1 .. n - 1 /\ k - 1 \in 0 .. m - 1 /\ ~(k <= k - 1)
      <4> HIDE DEF Apart
      <4> QED
        BY <1>0, <1>5, <3>2
    <3>4. f[k - 1] = g[k - 1] /\ js[k] = ks[k]
      BY <1>6, <3>1, <3>3
    <3>5. f[k] = g[k]
      <4>1. f[k] = [i \in 1 .. n |-> IF i = js[k] THEN f[k - 1][n - k + 1]
                                     ELSE IF i = n - k + 1 THEN f[k - 1][js[k]]
                                     ELSE f[k - 1][i]]
        BY <1>1, <3>3, Zenon DEF ShuffleThrough
      <4>2. g[k] = [i \in 1 .. n |-> IF i = ks[k] THEN g[k - 1][n - k + 1]
                                     ELSE IF i = n - k + 1 THEN g[k - 1][ks[k]]
                                     ELSE g[k - 1][i]]
        BY <1>2, <3>3, Zenon DEF ShuffleThrough
      <4>3. g[k] = [i \in 1 .. n |-> IF i = js[k] THEN f[k - 1][n - k + 1]
                                     ELSE IF i = n - k + 1 THEN f[k - 1][js[k]]
                                     ELSE f[k - 1][i]]
        BY <3>4, <4>2
      <4> QED
        BY <4>1, <4>3
    <3> QED
      BY <3>1, <3>5
  <2> QED
    BY <1>5, <2>1
<1>8. Settles(f, js, n, m) /\ Settles(g, ks, n, m)
  BY <1>0, <1>1, <1>2, <1>5, SettledStays
<1>9. f[m - 1][js[m]] = g[m - 1][ks[m]]
  BY <1>3, <1>8 DEF Settles
<1>10. PICK p \in Rearrangements(n) : f[m - 1] = Rearranged(batch, p)
  <2>1. m - 1 \in 0 .. n - 1
    BY <1>0, <1>5
  <2> QED
    BY <1>1, <2>1 DEF IsRearranged
<1>11. js[m] \in 1 .. n /\ ks[m] \in 1 .. n
  <2>1. js[m] \in 1 .. n - m + 1 /\ ks[m] \in 1 .. n - m + 1
    BY <1>1, <1>2, <1>5 DEF ShuffleThrough
  <2>2. n - m + 1 \in 1 .. n
    BY <1>0, <1>5
  <2> HIDE DEF Differ, n
  <2> QED
    BY <1>0, <2>1, <2>2
<1>12. batch[p[js[m]]] = batch[p[ks[m]]]
  <2>1. f[m - 1][js[m]] = f[m - 1][ks[m]]
    BY <1>7, <1>9
  <2> QED
    BY <1>10, <1>11, <2>1 DEF Rearranged
<1>13. /\ p[js[m]] \in 1 .. n /\ p[ks[m]] \in 1 .. n
       /\ (p[js[m]] = p[ks[m]] => js[m] = ks[m])
  BY <1>10, <1>11 DEF Rearrangements
<1> QED
  BY <1>5, <1>12, <1>13

-----------------------------------------------------------------------------
(* Division.                                                               *)

\* Division of natural numbers: what it is, and that nothing else is.
LEMMA DivIs ==
    ASSUME NEW n \in Nat, NEW d \in Nat \ {0}
    PROVE  /\ n \div d \in Nat
           /\ d * (n \div d) <= n /\ n < d * (n \div d) + d
<1> DEFINE q == n \div d
<1>1. q \in Int /\ d * q <= n /\ n < d * q + d
  OBVIOUS
<1> HIDE DEF q
<1>2. ASSUME q < 0 PROVE FALSE
  <2>1. q + 1 <= 0 /\ d * (q + 1) <= 0
    BY <1>1, <1>2
  <2> QED
    BY <1>1, <2>1
<1>3. q \in Nat /\ d * q <= n /\ n < d * q + d
  BY <1>1, <1>2
<1> QED
  BY <1>3 DEF q

LEMMA ModIs ==
    ASSUME NEW n \in Int, NEW d \in Nat \ {0}
    PROVE  \E q \in Int : n = d * q + (n % d)
<1>1. n \div d \in Int /\ n = d * (n \div d) + (n % d)
  OBVIOUS
<1> QED
  BY <1>1, Zenon

LEMMA DivIsOnly ==
    ASSUME NEW n \in Nat, NEW d \in Nat \ {0}, NEW q \in Nat,
           d * q <= n, n < d * q + d
    PROVE  n \div d = q
<1> DEFINE r == n \div d
<1>1. r \in Nat /\ d * r <= n /\ n < d * r + d
  BY DivIs
<1> HIDE DEF r
<1>2. ASSUME r < q PROVE FALSE
  <2>1. d * (r + 1) <= d * q
    BY <1>1, <1>2
  <2> QED
    BY <1>1, <2>1
<1>3. ASSUME q < r PROVE FALSE
  <2>1. d * (q + 1) <= d * r
    BY <1>1, <1>3
  <2> QED
    BY <1>1, <2>1
<1>4. r = q
  BY <1>1, <1>2, <1>3
<1> QED
  BY <1>4 DEF r

-----------------------------------------------------------------------------
(* What draws are likely to come to.  Where a draw has as many values for  *)
(* each place, so that truncation favours none, "equally likely" means as  *)
(* many draws.                                                             *)

\* The draws of m values each of which is made a place below a bound.
Bounded(m, bound) ==
    /\ bound \in [1 .. m -> 1 .. Resolution]
    /\ \A k \in 1 .. m : Resolution % bound[k] = 0

\* A draw below a bound that divides the Resolution is a place and a rest.
LEMMA DrawSplits ==
    ASSUME NEW bound \in 1 .. Resolution, Resolution % bound = 0
    PROVE  /\ Resolution \div bound \in Nat \ {0}
           /\ \A d \in 0 .. Resolution - 1 :
                 /\ below(d, bound) \in 0 .. bound - 1
                 /\ d % (Resolution \div bound) \in 0 .. (Resolution \div bound) - 1
                 /\ d = below(d, bound) * (Resolution \div bound) + (d % (Resolution \div bound))
           /\ \A j \in 0 .. bound - 1, r \in 0 .. (Resolution \div bound) - 1 :
                 /\ j * (Resolution \div bound) + r \in 0 .. Resolution - 1
                 /\ below(j * (Resolution \div bound) + r, bound) = j
                 /\ (j * (Resolution \div bound) + r) % (Resolution \div bound) = r
<1>0. Resolution \in Nat \ {0} /\ bound \in Nat \ {0}
  BY RngAssumption
<1>1. PICK q \in Nat \ {0} : q = Resolution \div bound /\ Resolution = bound * q
  <2> DEFINE q == Resolution \div bound
  <2>1. q \in Nat /\ Resolution = bound * q + (Resolution % bound)
    BY <1>0, DivIs
  <2> HIDE DEF q
  <2>2. Resolution = bound * q
    BY <1>0, <2>1
  <2>3. q # 0
    BY <1>0, <2>2
  <2> QED
    BY <2>1, <2>2, <2>3 DEF q
<1>2. ASSUME NEW j \in 0 .. bound - 1, NEW r \in 0 .. q - 1
      PROVE  /\ j * q + r \in 0 .. Resolution - 1
             /\ below(j * q + r, bound) = j
             /\ (j * q + r) % q = r
  <2>1. j * q \in Nat /\ j * q + r \in Nat
    BY <1>0, <1>1
  <2>2. (j + 1) * q <= bound * q /\ (j + 1) * q = j * q + q
    BY <1>0, <1>1
  <2>3. j * q + r \in 0 .. Resolution - 1
    BY <1>0, <1>1, <2>1, <2>2
  <2>4. (j * q + r) * bound = Resolution * j + r * bound
    BY <1>0, <1>1
  <2>5. r * bound \in Nat /\ r * bound < Resolution
    <3>1. (r + 1) * bound <= q * bound /\ (r + 1) * bound = r * bound + bound
      BY <1>0, <1>1
    <3> QED
      BY <1>0, <1>1, <3>1
  <2>6. below(j * q + r, bound) = j
    <3>1. (j * q + r) * bound \in Nat
      BY <1>0, <2>1
    <3>2. Resolution * j <= (j * q + r) * bound /\ (j * q + r) * bound < Resolution * j + Resolution
      BY <1>0, <2>4, <2>5
    <3>3. ((j * q + r) * bound) \div Resolution = j
      BY <1>0, <3>1, <3>2, DivIsOnly
    <3> QED
      BY <3>3 DEF below
  <2>7. (j * q + r) \div q = j
    <3>1. q * j <= j * q + r /\ j * q + r < q * j + q
      BY <1>1, <2>1
    <3> QED
      BY <1>1, <2>1, <3>1, DivIsOnly
  <2>8. (j * q + r) % q = r
    <3> DEFINE a == j * q + r
    <3>1. a = q * (a \div q) + (a % q)
      BY <1>1, <2>1
    <3>2. a = q * j + (a % q) /\ a % q \in Nat
      BY <1>1, <2>1, <2>7, <3>1
    <3> HIDE DEF a
    <3>3. a = q * j + r
      BY <1>1, <2>1 DEF a
    <3>4. a % q = r
      BY <1>1, <2>1, <3>2, <3>3
    <3> QED
      BY <3>4 DEF a
  <2> QED
    BY <2>3, <2>6, <2>8
<1>3. ASSUME NEW d \in 0 .. Resolution - 1
      PROVE  /\ below(d, bound) \in 0 .. bound - 1
             /\ d % q \in 0 .. q - 1
             /\ d = below(d, bound) * q + (d % q)
  <2> DEFINE j == d \div q
             r == d % q
  <2>1. j \in Nat /\ r \in 0 .. q - 1 /\ d = q * j + r
    <3>1. d \in Nat /\ d = q * (d \div q) + (d % q) /\ d % q \in 0 .. q - 1
      BY <1>0, <1>1
    <3> QED
      BY <1>1, <3>1, DivIs
  <2> HIDE DEF j, r
  <2>2. j < bound
    <3> SUFFICES ASSUME j >= bound PROVE FALSE
      BY <1>0, <2>1
    <3>1. q * j >= q * bound
      BY <1>0, <1>1, <2>1
    <3> QED
      BY <1>0, <1>1, <2>1, <3>1
  <2>3. j \in 0 .. bound - 1 /\ q * j = j * q
    BY <1>0, <1>1, <2>1, <2>2
  <2>4. below(j * q + r, bound) = j
    BY <1>2, <2>1, <2>3
  <2>5. below(d, bound) = j /\ d = j * q + r
    BY <2>1, <2>3, <2>4
  <2> QED
    BY <2>1, <2>3, <2>5 DEF r
<1> QED
  BY <1>1, <1>2, <1>3

\* Each member of S comes of as many members of D if D can be moved from one to the
\* other and back.
LEMMA EvenlySpread ==
    ASSUME NEW D, IsFiniteSet(D), D # {}, NEW S, NEW f \in [D -> S],
           NEW move \in [D -> [S -> D]],
           \A d \in D, t \in S : f[move[d][t]] = t /\ move[move[d][t]][f[d]] = d,
           NEW s \in S
    PROVE  Cardinality({d \in D : f[d] = s}) * Cardinality(S) = Cardinality(D)
<1> DEFINE Fiber == {d \in D : f[d] = s}
           Pairs == Fiber \X S
           g == [p \in Pairs |-> move[p[1]][p[2]]]
<1>1. IsFiniteSet(Fiber) /\ Cardinality(Fiber) \in Nat
  <2>1. Fiber \in SUBSET D
    OBVIOUS
  <2> QED
    BY <2>1, FS_Subset, FS_CardinalityType
<1>2. IsFiniteSet(S)
  <2>1. PICK e \in D : TRUE
    OBVIOUS
  <2>3. \A t \in S : move[e][t] \in D /\ f[move[e][t]] = t
    OBVIOUS
  <2>2. f \in Surjection(D, S)
    BY <2>3 DEF Surjection
  <2> QED
    BY <2>2, FS_Surjection
<1>3. g \in [Pairs -> D]
  OBVIOUS
<1>4. ASSUME NEW p \in Pairs, NEW q \in Pairs, g[p] = g[q]
      PROVE  p = q
  <2>1. /\ p = <<p[1], p[2]>> /\ p[1] \in D /\ p[2] \in S /\ f[p[1]] = s
        /\ q = <<q[1], q[2]>> /\ q[1] \in D /\ q[2] \in S /\ f[q[1]] = s
    OBVIOUS
  <2>2. move[p[1]][p[2]] = move[q[1]][q[2]]
    BY <1>4
  <2>3. p[2] = q[2]
    <3>1. f[move[p[1]][p[2]]] = p[2] /\ f[move[q[1]][q[2]]] = q[2]
      BY <2>1
    <3> QED
      BY <2>2, <3>1, Zenon
  <2>4. move[move[p[1]][p[2]]][s] = p[1] /\ move[move[q[1]][q[2]]][s] = q[1]
    BY <2>1
  <2>5. p[1] = q[1]
    BY <2>2, <2>4, Zenon
  <2> QED
    BY <2>1, <2>3, <2>5, Zenon
<1>5. ASSUME NEW e \in D
      PROVE  \E p \in Pairs : g[p] = e
  <2> DEFINE d == move[e][s]
  <2>1. d \in D /\ f[d] = s /\ f[e] \in S /\ move[d][f[e]] = e
    OBVIOUS
  <2> HIDE DEF d
  <2>2. <<d, f[e]>> \in Pairs /\ g[<<d, f[e]>>] = e
    BY <2>1
  <2> QED
    BY <2>2
<1> HIDE DEF g
<1>6. g \in Bijection(Pairs, D)
  <2> HIDE DEF Pairs
  <2>1. IsInjective(g)
    BY <1>3, <1>4 DEF IsInjective
  <2> QED
    BY <1>3, <1>5, <2>1 DEF Bijection, Injection, Surjection
<1>7. IsFiniteSet(Pairs) /\ Cardinality(Pairs) = Cardinality(Fiber) * Cardinality(S)
  <2> HIDE DEF Fiber
  <2> QED
    BY <1>1, <1>2, FS_Product
<1> HIDE DEF Pairs
<1>8. Cardinality(D) = Cardinality(Pairs)
  BY <1>6, <1>7, FS_Bijection DEF ExistsBijection
<1> QED
  BY <1>7, <1>8

\* There are only so many functions from one finite set to another.
LEMMA FunctionsAreFinite ==
    ASSUME NEW S, IsFiniteSet(S), NEW T, IsFiniteSet(T)
    PROVE  IsFiniteSet([S -> T])
<1> DEFINE Graphs == SUBSET (S \X T)
           Graph(f) == {<<x, f[x]>> : x \in S}
           g == [f \in [S -> T] |-> Graph(f)]
<1>1. IsFiniteSet(Graphs)
  BY FS_Product, FS_SUBSET
<1>2. ASSUME NEW f \in [S -> T] PROVE Graph(f) \in Graphs
  OBVIOUS
<1>3. ASSUME NEW f \in [S -> T], NEW h \in [S -> T], Graph(f) = Graph(h)
      PROVE  f = h
  <2>1. ASSUME NEW x \in S PROVE f[x] = h[x]
    <3>1. <<x, f[x]>> \in Graph(f)
      OBVIOUS
    <3>2. PICK y \in S : <<x, f[x]>> = <<y, h[y]>>
      BY <1>3, <3>1
    <3> QED
      BY <3>2
  <2> QED
    BY <2>1
<1> HIDE DEF Graph, Graphs
<1>4. g \in [[S -> T] -> Graphs] /\ \A f, h \in [S -> T] : g[f] = g[h] => f = h
  BY <1>2, <1>3
<1> HIDE DEF g
<1>5. g \in Injection([S -> T], Graphs)
  BY <1>4 DEF Injection, IsInjective
<1> QED
  BY <1>1, <1>5, FS_Injection

LEMMA DrawsAreMany ==
    ASSUME NEW m \in Nat
    PROVE  IsFiniteSet(Draws(m)) /\ Draws(m) # {}
<1>1. Resolution \in Nat \ {0} /\ m \in Int
  BY RngAssumption
<1>2. IsFiniteSet(1 .. m) /\ IsFiniteSet(0 .. Resolution - 1)
  BY <1>1, FS_Interval
<1>3. [k \in 1 .. m |-> 0] \in Draws(m)
  BY <1>1 DEF Draws
<1> QED
  BY <1>2, <1>3, FunctionsAreFinite DEF Draws

SamePlaces(d, e, m, bound) ==
    \A k \in 1 .. m : below(d[k], bound[k]) = below(e[k], bound[k])

\* What depends on the places drawn, and on each of them, is spread evenly: the draws
\* for one outcome become those for another by a change of places under the same rests.
LEMMA DrawsSpread ==
    ASSUME NEW m \in Nat, NEW bound, Bounded(m, bound), NEW S, NEW f \in [Draws(m) -> S],
           \A d, e \in Draws(m) : f[d] = f[e] <=> SamePlaces(d, e, m, bound),
           \A t \in S : \E d \in Draws(m) : f[d] = t,
           NEW s \in S
    PROVE  Cardinality({d \in Draws(m) : f[d] = s}) * Cardinality(S) = Cardinality(Draws(m))
<1> DEFINE D == Draws(m)
           width(k) == Resolution \div bound[k]
           some(t) == CHOOSE d \in D : f[d] = t
           moved(d, t) == [k \in 1 .. m |-> below(some(t)[k], bound[k]) * width(k) + (d[k] % width(k))]
           move == [d \in D |-> [t \in S |-> moved(d, t)]]
<1>1. ASSUME NEW k \in 1 .. m
      PROVE  /\ \A x \in 0 .. Resolution - 1 :
                   /\ below(x, bound[k]) \in 0 .. bound[k] - 1
                   /\ x % width(k) \in 0 .. width(k) - 1
                   /\ x = below(x, bound[k]) * width(k) + (x % width(k))
             /\ \A j \in 0 .. bound[k] - 1, r \in 0 .. width(k) - 1 :
                   /\ j * width(k) + r \in 0 .. Resolution - 1
                   /\ below(j * width(k) + r, bound[k]) = j
                   /\ (j * width(k) + r) % width(k) = r
  <2>1. bound[k] \in 1 .. Resolution /\ Resolution % bound[k] = 0
    BY DEF Bounded
  <2> QED
    BY <2>1, DrawSplits
<1>2. ASSUME NEW t \in S PROVE some(t) \in D /\ f[some(t)] = t
  OBVIOUS
<1>3. ASSUME NEW d \in D, NEW k \in 1 .. m PROVE d[k] \in 0 .. Resolution - 1
  BY DEF Draws
<1> HIDE DEF width, some
<1>4. ASSUME NEW d \in D, NEW t \in S
      PROVE  /\ moved(d, t) \in D /\ SamePlaces(moved(d, t), some(t), m, bound)
             /\ \A k \in 1 .. m : moved(d, t)[k] % width(k) = d[k] % width(k)
  <2>1. ASSUME NEW k \in 1 .. m
        PROVE  /\ moved(d, t)[k] \in 0 .. Resolution - 1
               /\ below(moved(d, t)[k], bound[k]) = below(some(t)[k], bound[k])
               /\ moved(d, t)[k] % width(k) = d[k] % width(k)
    <3>1. below(some(t)[k], bound[k]) \in 0 .. bound[k] - 1 /\ d[k] % width(k) \in 0 .. width(k) - 1
      BY <1>1, <1>2, <1>3
    <3>2. moved(d, t)[k] = below(some(t)[k], bound[k]) * width(k) + (d[k] % width(k))
      OBVIOUS
    <3> HIDE DEF moved
    <3> QED
      BY <1>1, <3>1, <3>2
  <2>2. moved(d, t) = [k \in 1 .. m |-> moved(d, t)[k]]
    OBVIOUS
  <2> HIDE DEF moved
  <2>3. moved(d, t) \in D
    BY <2>1, <2>2 DEF Draws
  <2> QED
    BY <2>1, <2>3 DEF SamePlaces
<1>5. ASSUME NEW d \in D, NEW t \in S
      PROVE  f[moved(d, t)] = t
  BY <1>2, <1>4
<1>6. ASSUME NEW d \in D, NEW t \in S
      PROVE  moved(moved(d, t), f[d]) = d
  <2> DEFINE e == moved(d, t)
  <2>1. e \in D /\ \A k \in 1 .. m : e[k] % width(k) = d[k] % width(k)
    BY <1>4
  <2>2. f[d] \in S /\ SamePlaces(some(f[d]), d, m, bound)
    BY <1>2
  <2>3. moved(e, f[d]) = [k \in 1 .. m |-> below(some(f[d])[k], bound[k]) * width(k) + (e[k] % width(k))]
    OBVIOUS
  <2> HIDE DEF e, moved
  <2>4. ASSUME NEW k \in 1 .. m
        PROVE  below(some(f[d])[k], bound[k]) * width(k) + (e[k] % width(k)) = d[k]
    <3>1. below(some(f[d])[k], bound[k]) = below(d[k], bound[k])
      BY <2>2 DEF SamePlaces
    <3>2. d[k] = below(d[k], bound[k]) * width(k) + (d[k] % width(k))
      BY <1>1, <1>3
    <3> QED
      BY <2>1, <3>1, <3>2
  <2>5. d = [k \in 1 .. m |-> d[k]]
    BY DEF Draws
  <2> QED
    BY <2>3, <2>4, <2>5 DEF e
<1> HIDE DEF moved, D
<1>7. move \in [D -> [S -> D]]
  <2>1. \A d \in D : \A t \in S : moved(d, t) \in D
    BY <1>4
  <2> QED
    BY <2>1
<1>8. \A d \in D, t \in S : move[d][t] \in D /\ move[d][t] = moved(d, t)
  BY <1>4
<1> HIDE DEF move
<1>9. \A d \in D, t \in S : f[move[d][t]] = t /\ move[move[d][t]][f[d]] = d
  <2> TAKE d \in D, t \in S
  <2>1. f[d] \in S /\ move[d][t] \in D
    BY <1>8 DEF D
  <2>2. /\ move[d][t] = moved(d, t)
        /\ move[move[d][t]][f[d]] = moved(move[d][t], f[d])
    BY <1>8, <2>1, Zenon
  <2>3. f[moved(d, t)] = t /\ moved(moved(d, t), f[d]) = d
    BY <1>5, <1>6
  <2> QED
    BY <2>2, <2>3, Zenon
<1>10. IsFiniteSet(D) /\ D # {}
  BY DrawsAreMany DEF D
<1>11. f \in [D -> S]
  BY DEF D
<1>12. Cardinality({d \in D : f[d] = s}) * Cardinality(S) = Cardinality(D)
  BY <1>7, <1>9, <1>10, <1>11, EvenlySpread
<1> QED
  BY <1>12 DEF D

\* All orders of a batch.
OrdersOf(batch) == {Rearranged(batch, p) : p \in Rearrangements(Len(batch))}

\* RandomScheduler makes each order of a batch in as many ways, if draws are fine enough
\* for the truncation in below to favour no place (shuffle of rng.py).
THEOREM OrdersAreEquallyLikely ==
    ASSUME NEW T, NEW batch \in Seq(T), Len(batch) # 0,
           \A a, b \in 1 .. Len(batch) : batch[a] = batch[b] => a = b,
           \A k \in 1 .. Len(batch) : Resolution % k = 0,
           NEW order \in OrdersOf(batch)
    PROVE  Cardinality({d \in Draws(Len(batch) - 1) : Order("Random", batch, d) = order})
              * Cardinality(OrdersOf(batch))
           = Cardinality(Draws(Len(batch) - 1))
<1> DEFINE n == Len(batch)
           m == n - 1
           bound == [k \in 1 .. m |-> n - k + 1]
           f == [d \in Draws(m) |-> Order("Random", batch, d)]
<1>0. n \in Nat \ {0} /\ m \in Nat
  OBVIOUS
<1>1. \A k \in 1 .. n : k <= Resolution
  <2> TAKE k \in 1 .. n
  <2>1. Resolution \in Nat \ {0} /\ k \in Nat \ {0} /\ Resolution % k = 0
    BY <1>0, RngAssumption
  <2>2. k > Resolution => Resolution % k = Resolution
    BY <2>1
  <2> QED
    BY <2>1, <2>2
<1>2. Bounded(m, bound)
  <2>1. \A k \in 1 .. m : n - k + 1 \in 1 .. n /\ n - k + 1 \in 1 .. Resolution
    BY <1>0, <1>1, RngAssumption
  <2> HIDE DEF n
  <2> QED
    BY <2>1 DEF Bounded, n
<1>3. ASSUME NEW d \in Draws(m) PROVE Order("Random", batch, d) \in OrdersOf(batch)
  BY <1>0, <1>3, ShuffleRearranges DEF Order, OrdersOf
<1>4. f \in [Draws(m) -> OrdersOf(batch)]
  BY <1>3
<1>5. ASSUME NEW d \in Draws(m), NEW e \in Draws(m)
      PROVE  /\ Places(d, n) = Places(e, n) => Order("Random", batch, d) = Order("Random", batch, e)
             /\ Order("Random", batch, d) = Order("Random", batch, e) => Places(d, n) = Places(e, n)
  <2>1. shuffle(batch, d) = Swapped(batch, [k \in 1 .. n - 1 |-> <<n - k + 1, Places(d, n)[k]>>])
    BY DEF shuffle, Places
  <2>2. shuffle(batch, e) = Swapped(batch, [k \in 1 .. n - 1 |-> <<n - k + 1, Places(e, n)[k]>>])
    BY DEF shuffle, Places
  <2>3. Places(d, n) = Places(e, n) => shuffle(batch, d) = shuffle(batch, e)
    <3> HIDE DEF n
    <3> QED
      BY <2>1, <2>2
  <2> QED
    BY <1>0, <2>3, OneWayToAnOrder DEF Order
<1>6. ASSUME NEW d \in Draws(m), NEW e \in Draws(m)
      PROVE  Places(d, n) = Places(e, n) <=> SamePlaces(d, e, m, bound)
  <2>1. ASSUME NEW k \in 1 .. m
        PROVE  /\ bound[k] = n - k + 1
               /\ below(d[k], n - k + 1) \in Int /\ below(e[k], n - k + 1) \in Int
               /\ Places(d, n)[k] = below(d[k], n - k + 1) + 1
               /\ Places(e, n)[k] = below(e[k], n - k + 1) + 1
    <3>1. d[k] \in 0 .. Resolution - 1 /\ e[k] \in 0 .. Resolution - 1 /\ n - k + 1 \in Nat \ {0}
      BY <1>0 DEF Draws
    <3>2. below(d[k], n - k + 1) \in Int /\ below(e[k], n - k + 1) \in Int
      <4>1. /\ below(d[k], n - k + 1) \in 0 .. (n - k + 1) - 1
            /\ below(e[k], n - k + 1) \in 0 .. (n - k + 1) - 1
        BY <3>1, BelowIsBelow
      <4> QED
        BY <3>1, <4>1
    <3> QED
      BY <3>2 DEF Places
  <2>2. /\ Places(d, n) = [k \in 1 .. m |-> Places(d, n)[k]]
        /\ Places(e, n) = [k \in 1 .. m |-> Places(e, n)[k]]
    BY DEF Places
  <2>3. Places(d, n) = Places(e, n) <=> \A k \in 1 .. m : Places(d, n)[k] = Places(e, n)[k]
    BY <2>2, Zenon
  <2>4. ASSUME NEW k \in 1 .. m
        PROVE  Places(d, n)[k] = Places(e, n)[k] <=> below(d[k], bound[k]) = below(e[k], bound[k])
    <3>1. \A x, y \in Int : x + 1 = y + 1 <=> x = y
      OBVIOUS
    <3> HIDE DEF bound, n, m
    <3> QED
      BY <2>1, <3>1
  <2> QED
    BY <2>3, <2>4, Zenon DEF SamePlaces
<1>7. \A d, e \in Draws(m) : f[d] = f[e] <=> SamePlaces(d, e, m, bound)
  <2> TAKE d \in Draws(m), e \in Draws(m)
  <2>1. f[d] = Order("Random", batch, d) /\ f[e] = Order("Random", batch, e)
    OBVIOUS
  <2> QED
    BY <1>5, <1>6, <2>1, Zenon
<1>8. \A t \in OrdersOf(batch) : \E d \in Draws(m) : f[d] = t
  <2> TAKE t \in OrdersOf(batch)
  <2>1. PICK p \in Rearrangements(n) : t = Rearranged(batch, p)
    BY DEF OrdersOf
  <2>2. n <= Resolution
    BY <1>0, <1>1
  <2>3. PICK d \in Draws(m) : Order("Random", batch, d) = Rearranged(batch, p)
    BY <2>2, EveryOrderComes
  <2> QED
    BY <2>1, <2>3
<1> HIDE DEF n, m, bound
<1>9. Cardinality({d \in Draws(m) : f[d] = order}) * Cardinality(OrdersOf(batch)) = Cardinality(Draws(m))
  <2> HIDE DEF f
  <2> QED
    BY <1>0, <1>2, <1>4, <1>7, <1>8, DrawsSpread
<1>10. {d \in Draws(m) : f[d] = order} = {d \in Draws(m) : Order("Random", batch, d) = order}
  OBVIOUS
<1> QED
  BY <1>9, <1>10, Zenon DEF m, n

\* A sample of two, place by place: who is second depends on whether the place drawn for
\* it had been taken for the first.
LEMMA SampleOfTwo ==
    ASSUME NEW T, NEW items \in Seq(T), Len(items) >= 2,
           NEW a \in 1 .. Len(items), NEW c \in 2 .. Len(items), NEW draws,
           1 + below(draws[1], Len(items)) = a, 2 + below(draws[2], Len(items) - 1) = c
    PROVE  sample(items, 2, draws) = <<items[a], items[IF c = a THEN 1 ELSE c]>>
<1> DEFINE n == Len(items)
           swaps == [i \in 1 .. 2 |-> <<i, i + below(draws[i], n - i + 1)>>]
           once == [k \in 1 .. n |-> IF k = a THEN items[1]
                                     ELSE IF k = 1 THEN items[a] ELSE items[k]]
           twice == [k \in 1 .. n |-> IF k = c THEN once[2]
                                      ELSE IF k = 2 THEN once[c] ELSE once[k]]
           f == [k \in 0 .. 2 |-> IF k = 0 THEN items ELSE IF k = 1 THEN once ELSE twice]
<1>0. n \in Nat /\ 1 \in 1 .. n /\ 2 \in 1 .. n /\ a \in 1 .. n /\ c \in 1 .. n /\ c # 1
  OBVIOUS
<1>1. swaps[1] = <<1, a>> /\ swaps[2] = <<2, c>> /\ Len(swaps) = 2
  <2>1. n - 1 + 1 = n /\ n - 2 + 1 = n - 1
    BY <1>0
  <2>2. swaps[1] = <<1, 1 + below(draws[1], n)>> /\ swaps[2] = <<2, 2 + below(draws[2], n - 1)>>
    BY <2>1
  <2> QED
    BY <2>2
<1>2. sample(items, 2, draws) = SubSeq(Swapped(items, swaps), 1, 2)
  BY DEF sample
<1>3. Swap(items, 1, a) = once
  <2>1. DOMAIN items = 1 .. n
    OBVIOUS
  <2> HIDE DEF n
  <2> QED
    BY <1>0, <2>1 DEF Swap
<1>4. Swap(once, 2, c) = twice
  <2>1. DOMAIN once = 1 .. n
    OBVIOUS
  <2> HIDE DEF n, once
  <2> QED
    BY <1>0, <2>1 DEF Swap
<1>5. f[0] = items /\ f[1] = once /\ f[2] = twice
  OBVIOUS
<1>6. once[1] = items[a] /\ once[c] = items[IF c = a THEN 1 ELSE c]
  BY <1>0
<1>7. twice[1] = once[1] /\ twice[2] = once[c] /\ \A k \in 1 .. n : twice[k] \in T
  BY <1>0
<1>8. Swapped(items, swaps) = twice
  <2> HIDE DEF f, once, twice, swaps
  <2>1. \A k \in 1 .. 2 : f[k] = Swap(f[k - 1], swaps[k][1], swaps[k][2])
    <3>1. f[1] = Swap(f[0], swaps[1][1], swaps[1][2]) /\ f[2] = Swap(f[1], swaps[2][1], swaps[2][2])
      BY <1>1, <1>3, <1>4, <1>5
    <3> QED
      BY <3>1
  <2>2. Len(swaps) \in Nat /\ \A k \in 1 .. Len(swaps) : f[k] = Swap(f[k - 1], swaps[k][1], swaps[k][2])
    BY <1>1, <2>1
  <2>3. Swapped(items, swaps) = f[Len(swaps)]
    BY <1>5, <2>2, SwappedIs
  <2> QED
    BY <1>1, <1>5, <2>3
<1>9. SubSeq(twice, 1, 2) = <<twice[1], twice[2]>>
  <2>1. twice \in Seq(T) /\ Len(twice) = n
    <3>1. twice = [k \in 1 .. n |-> twice[k]]
      OBVIOUS
    <3> HIDE DEF twice
    <3> QED
      BY <1>0, <1>7, <3>1
  <2> HIDE DEF twice, n
  <2>2. SubSeq(twice, 1, 2) = [i \in 1 .. 2 |-> twice[i]]
    BY <1>0, <2>1
  <2>3. [i \in 1 .. 2 |-> twice[i]] = <<twice[1], twice[2]>>
    OBVIOUS
  <2> QED
    BY <2>2, <2>3
<1> QED
  <2> HIDE DEF twice, once, swaps
  <2> QED
    BY <1>2, <1>6, <1>7, <1>8, <1>9

PairsOf(items) ==
    {<<items[p[1]], items[p[2]]>> :
        p \in {q \in (1 .. Len(items)) \X (1 .. Len(items)) : q[1] # q[2]}}

\* A sample of two is any two items, in any order, each as likely as the other.
THEOREM PairsAreEquallyLikely ==
    ASSUME NEW T, NEW items \in Seq(T), Len(items) >= 2,
           \A a, b \in 1 .. Len(items) : items[a] = items[b] => a = b,
           Resolution % Len(items) = 0, Resolution % (Len(items) - 1) = 0,
           NEW pair \in PairsOf(items)
    PROVE  Cardinality({d \in Draws(2) : sample(items, 2, d) = pair}) * Cardinality(PairsOf(items))
           = Cardinality(Draws(2))
<1> DEFINE n == Len(items)
           bound == [k \in 1 .. 2 |-> n - k + 1]
           f == [d \in Draws(2) |-> sample(items, 2, d)]
           first(d) == 1 + below(d[1], n)
           then(d) == 2 + below(d[2], n - 1)
           second(d) == IF then(d) = first(d) THEN 1 ELSE then(d)
<1>0. n \in Nat /\ n >= 2 /\ bound[1] = n /\ bound[2] = n - 1 /\ n - 1 \in Nat \ {0}
  OBVIOUS
<1>1. n \in 1 .. Resolution /\ n - 1 \in 1 .. Resolution
  <2>1. Resolution \in Nat \ {0}
    BY RngAssumption
  <2>2. n > Resolution => Resolution % n = Resolution
    BY <1>0, <2>1
  <2> HIDE DEF n
  <2> QED
    BY <1>0, <2>1, <2>2 DEF n
<1>2. Bounded(2, bound)
  <2>1. \A k \in 1 .. 2 : bound[k] = n \/ bound[k] = n - 1
    BY <1>0
  <2>2. bound = [k \in 1 .. 2 |-> bound[k]]
    OBVIOUS
  <2> HIDE DEF bound
  <2> QED
    BY <1>1, <2>1, <2>2 DEF Bounded
<1>3. ASSUME NEW d \in Draws(2)
      PROVE  /\ below(d[1], n) \in 0 .. n - 1 /\ below(d[2], n - 1) \in 0 .. n - 2
             /\ first(d) \in 1 .. n /\ then(d) \in 2 .. n
             /\ second(d) \in 1 .. n /\ second(d) # first(d)
             /\ f[d] = <<items[first(d)], items[second(d)]>>
  <2>1. d[1] \in 0 .. Resolution - 1 /\ d[2] \in 0 .. Resolution - 1
    BY DEF Draws
  <2>2. below(d[1], n) \in 0 .. n - 1 /\ below(d[2], n - 1) \in 0 .. (n - 1) - 1
    BY <1>0, <2>1, BelowIsBelow
  <2>3. first(d) \in 1 .. n /\ then(d) \in 2 .. n
    <3> HIDE DEF n
    <3> QED
      BY <1>0, <2>2
  <2>4. sample(items, 2, d) = <<items[first(d)], items[second(d)]>>
    <3>1. PICK a \in 1 .. n, c \in 2 .. n : a = first(d) /\ c = then(d)
      BY <2>3
    <3>2. sample(items, 2, d) = <<items[a], items[IF c = a THEN 1 ELSE c]>>
      BY <1>0, <3>1, SampleOfTwo
    <3> QED
      BY <3>1, <3>2
  <2>5. second(d) \in 1 .. n /\ second(d) # first(d)
    <3> HIDE DEF n, first, then
    <3> QED
      BY <1>0, <2>3
  <2>6. (n - 1) - 1 = n - 2
    BY <1>0
  <2> HIDE DEF first, then, second
  <2> QED
    BY <2>2, <2>3, <2>4, <2>5, <2>6
<1>4. f \in [Draws(2) -> PairsOf(items)]
  <2>1. ASSUME NEW d \in Draws(2) PROVE f[d] \in PairsOf(items)
    <3> HIDE DEF f, first, second
    <3>1. /\ <<first(d), second(d)>> \in {q \in (1 .. n) \X (1 .. n) : q[1] # q[2]}
          /\ f[d] = <<items[<<first(d), second(d)>>[1]], items[<<first(d), second(d)>>[2]]>>
      BY <1>3
    <3> QED
      BY <3>1 DEF PairsOf
  <2> QED
    BY <2>1
<1>5. ASSUME NEW d \in Draws(2), NEW e \in Draws(2)
      PROVE  f[d] = f[e] <=> SamePlaces(d, e, 2, bound)
  <2>1. SamePlaces(d, e, 2, bound) <=> below(d[1], n) = below(e[1], n) /\ below(d[2], n - 1) = below(e[2], n - 1)
    <3>1. SamePlaces(d, e, 2, bound)
            <=> below(d[1], bound[1]) = below(e[1], bound[1]) /\ below(d[2], bound[2]) = below(e[2], bound[2])
      <4> HIDE DEF bound
      <4> QED
        BY DEF SamePlaces
    <3> QED
      BY <1>0, <3>1
  <2>2. /\ first(d) = first(e) <=> below(d[1], n) = below(e[1], n)
        /\ then(d) = then(e) <=> below(d[2], n - 1) = below(e[2], n - 1)
    <3>1. /\ below(d[1], n) \in Int /\ below(d[2], n - 1) \in Int
          /\ below(e[1], n) \in Int /\ below(e[2], n - 1) \in Int
      <4> HIDE DEF n, first, then
      <4> QED
        BY <1>0, <1>3
    <3>2. \A x, y \in Int : (1 + x = 1 + y <=> x = y) /\ (2 + x = 2 + y <=> x = y)
      OBVIOUS
    <3> HIDE DEF n
    <3> QED
      BY <3>1, <3>2, Zenon
  <2>3. f[d] = f[e] <=> first(d) = first(e) /\ second(d) = second(e)
    <3> HIDE DEF f, first, second
    <3>1. /\ f[d] = <<items[first(d)], items[second(d)]>> /\ f[e] = <<items[first(e)], items[second(e)]>>
          /\ first(d) \in 1 .. n /\ first(e) \in 1 .. n /\ second(d) \in 1 .. n /\ second(e) \in 1 .. n
      BY <1>3
    <3> QED
      BY <3>1
  <2>4. first(d) = first(e) => (second(d) = second(e) <=> then(d) = then(e))
    <3>1. /\ first(d) \in 1 .. n /\ then(d) \in 2 .. n
          /\ first(e) \in 1 .. n /\ then(e) \in 2 .. n
      BY <1>3
    <3> HIDE DEF n, first, then
    <3> QED
      BY <1>0, <3>1
  <2> QED
    BY <2>1, <2>2, <2>3, <2>4, Zenon
<1>6. ASSUME NEW t \in PairsOf(items) PROVE \E d \in Draws(2) : f[d] = t
  <2>1. PICK p \in {q \in (1 .. n) \X (1 .. n) : q[1] # q[2]} : t = <<items[p[1]], items[p[2]]>>
    BY DEF PairsOf
  <2>2. PICK a \in 1 .. n, b \in 1 .. n : a = p[1] /\ b = p[2] /\ a # b
    BY <2>1
  <2> DEFINE c == IF b = 1 THEN a ELSE b
  <2>3. a - 1 \in 0 .. n - 1 /\ c \in 2 .. n /\ c - 2 \in 0 .. (n - 1) - 1
    <3> HIDE DEF n
    <3> QED
      BY <1>0, <2>2
  <2>4. PICK x \in 0 .. Resolution - 1, y \in 0 .. Resolution - 1 :
             below(x, n) = a - 1 /\ below(y, n - 1) = c - 2
    <3> HIDE DEF n, c
    <3>1. \E x \in 0 .. Resolution - 1 : below(x, n) = a - 1
      BY <1>1, <2>3, BelowReaches
    <3>2. \E y \in 0 .. Resolution - 1 : below(y, n - 1) = c - 2
      BY <1>1, <2>3, BelowReaches
    <3> QED
      BY <3>1, <3>2
  <2> DEFINE d == [k \in 1 .. 2 |-> IF k = 1 THEN x ELSE y]
  <2>5. d \in Draws(2) /\ d[1] = x /\ d[2] = y
    BY DEF Draws
  <2> HIDE DEF d
  <2>6. first(d) = a /\ then(d) = c
    <3>1. 1 + (a - 1) = a /\ 2 + (c - 2) = c
      BY <2>2, <2>3
    <3> QED
      BY <2>4, <2>5, <3>1
  <2>7. second(d) = b
    BY <2>2, <2>6
  <2>8. f[d] = t
    <3> HIDE DEF f, first, second
    <3> QED
      BY <1>3, <2>1, <2>2, <2>5, <2>6, <2>7
  <2> QED
    BY <2>5, <2>8
<1>7. \A d, e \in Draws(2) : f[d] = f[e] <=> SamePlaces(d, e, 2, bound)
  BY <1>5
<1>8. Cardinality({d \in Draws(2) : f[d] = pair}) * Cardinality(PairsOf(items)) = Cardinality(Draws(2))
  <2> HIDE DEF f, bound
  <2> QED
    BY <1>2, <1>4, <1>6, <1>7, DrawsSpread
<1>9. {d \in Draws(2) : f[d] = pair} = {d \in Draws(2) : sample(items, 2, d) = pair}
  OBVIOUS
<1> QED
  BY <1>8, <1>9, Zenon

-----------------------------------------------------------------------------
(* The mixer of seeds.                                                     *)

\* One division may come before the other.
LEMMA DivDiv ==
    ASSUME NEW n \in Nat, NEW a \in Nat \ {0}, NEW b \in Nat \ {0}
    PROVE  (n \div a) \div b = n \div (a * b)
<1> DEFINE q == n \div a
           r == q \div b
<1>1. q \in Nat /\ a * q <= n /\ n < a * q + a
  BY DivIs
<1>2. r \in Nat /\ b * r <= q /\ q < b * r + b
  BY <1>1, DivIs
<1>3. a * b \in Nat \ {0}
  OBVIOUS
<1> HIDE DEF q, r
<1>4. a * (b * r) <= a * q /\ a * (q + 1) <= a * (b * r + b)
  BY <1>1, <1>2
<1>5. a * (b * r) = (a * b) * r /\ a * (b * r + b) = (a * b) * r + a * b
  BY <1>2
<1>6. (a * b) * r <= n /\ n < (a * b) * r + a * b
  BY <1>1, <1>2, <1>4, <1>5
<1>7. n \div (a * b) = r
  BY <1>2, <1>3, <1>6, DivIsOnly
<1> QED
  BY <1>7 DEF q, r

LEMMA HalfOfDiv ==
    ASSUME NEW n \in Nat, NEW a \in Nat \ {0}
    PROVE  /\ (n \div a) \div 2 = n \div (2 * a)
           /\ (n \div 2) \div a = n \div (2 * a)
<1>1. PICK two \in Nat \ {0} : two = 2
  OBVIOUS
<1>2. two * a = a * two
  OBVIOUS
<1>3. (n \div a) \div two = n \div (a * two) /\ (n \div two) \div a = n \div (two * a)
  BY DivDiv
<1>4. (n \div a) \div two = n \div (two * a) /\ (n \div two) \div a = n \div (two * a)
  BY <1>2, <1>3, Zenon
<1> QED
  BY <1>1, <1>4, Zenon

\* A function on 0 .. n whose values up to m are made one from the other.
Follows(f, n, m, start, step) ==
    /\ f \in [0 .. n -> Nat]
    /\ f[0] = start
    /\ \A k \in 1 .. m : f[k] = step[k][f[k - 1]]

\* Such a recursion has a solution, step by step.
LEMMA RecursionHasASolution ==
    ASSUME NEW n \in Nat, NEW start \in Nat, NEW step \in [1 .. n -> [Nat -> Nat]]
    PROVE  \E f : Follows(f, n, n, start, step)
<1> DEFINE Open == {m \in 0 .. n : ~\E f : Follows(f, n, m, start, step)}
<1> SUFFICES ASSUME Open # {} PROVE FALSE
  <2>1. n \in 0 .. n
    OBVIOUS
  <2> QED
    BY <2>1
<1>0. Open \in SUBSET Nat
  OBVIOUS
<1>1. PICK m \in Open : \A k \in Open : m <= k
  <2> HIDE DEF Open
  <2> QED
    BY <1>0, LeastMember
<1>2. m # 0
  <2>1. Follows([k \in 0 .. n |-> start], n, 0, start, step)
    BY DEF Follows
  <2> QED
    BY <1>1, <2>1
<1>3. m \in 1 .. n /\ m - 1 \in 0 .. n /\ m - 1 \notin Open
  <2>1. m \in 0 .. n /\ (m - 1 \in Open => m <= m - 1)
    BY <1>1
  <2> HIDE DEF Open
  <2> QED
    BY <1>2, <2>1
<1>4. PICK f : Follows(f, n, m - 1, start, step)
  BY <1>3
<1> DEFINE value == step[m][f[m - 1]]
           g == [k \in 0 .. n |-> IF k = m THEN value ELSE f[k]]
<1>5. value \in Nat
  BY <1>3, <1>4 DEF Follows
<1> HIDE DEF value
<1>6. /\ g \in [0 .. n -> Nat] /\ g[0] = start /\ g[m] = value
      /\ \A k \in 0 .. m - 1 : g[k] = f[k]
  <2>1. \A k \in 0 .. n : f[k] \in Nat
    BY <1>4 DEF Follows
  <2>2. g \in [0 .. n -> Nat]
    BY <1>5, <2>1
  <2>3. f[0] = start
    BY <1>4 DEF Follows
  <2> HIDE DEF Open
  <2>4. /\ 0 \in 0 .. n /\ m \in 0 .. n
        /\ \A k \in 0 .. m - 1 : k \in 0 .. n /\ k # m
    BY <1>3
  <2> QED
    BY <1>2, <2>2, <2>3, <2>4
<1> HIDE DEF g
<1>7. ASSUME NEW k \in 1 .. m PROVE g[k] = step[k][g[k - 1]]
  <2>1. k - 1 \in 0 .. m - 1 /\ (k # m => k \in 1 .. m - 1 /\ k \in 0 .. m - 1)
    BY <1>3
  <2>2. g[k - 1] = f[k - 1]
    BY <1>6, <2>1
  <2> QED
    BY <1>4, <1>6, <2>1, <2>2 DEF Follows, value
<1>8. Follows(g, n, m, start, step)
  BY <1>6, <1>7 DEF Follows
<1> QED
  BY <1>1, <1>8

LEMMA PowerDefinition ==
    Power[0] = 1 /\ \A k \in 1 .. Width : Power[k] = 2 * Power[k - 1]
<1> DEFINE Solves(f) == f = [k \in 0 .. Width |-> IF k = 0 THEN 1 ELSE 2 * f[k - 1]]
           step == [k \in 1 .. Width |-> [v \in Nat |-> 2 * v]]
<1>0. Width \in Nat
  BY SeedMixerAssumption
<1>1. step \in [1 .. Width -> [Nat -> Nat]]
  OBVIOUS
<1>2. PICK f : Follows(f, Width, Width, 1, step)
  <2> HIDE DEF step
  <2> QED
    BY <1>0, <1>1, RecursionHasASolution
<1>3. Solves(f)
  <2>1. ASSUME NEW k \in 0 .. Width PROVE f[k] = IF k = 0 THEN 1 ELSE 2 * f[k - 1]
    <3>1. k # 0 => k \in 1 .. Width /\ k - 1 \in 0 .. Width
      BY <1>0
    <3> QED
      BY <1>2, <3>1 DEF Follows
  <2> QED
    BY <1>2, <2>1 DEF Follows
<1>4. Power = CHOOSE g : Solves(g)
  BY DEF Power
<1> HIDE DEF Solves
<1>5. Solves(Power)
  BY <1>3, <1>4
<1>6. Power = [k \in 0 .. Width |-> IF k = 0 THEN 1 ELSE 2 * Power[k - 1]]
  BY <1>5 DEF Solves
<1> QED
  BY <1>0, <1>6

LEMMA PowersArePositive == \A k \in 0 .. Width : Power[k] \in Nat \ {0}
<1> DEFINE Open == {k \in 0 .. Width : Power[k] \notin Nat \ {0}}
<1> SUFFICES ASSUME Open # {} PROVE FALSE
  OBVIOUS
<1>0. Width \in Nat
  BY SeedMixerAssumption
<1>1. Open \in SUBSET Nat
  OBVIOUS
<1>2. PICK m \in Open : \A k \in Open : m <= k
  <2> HIDE DEF Open
  <2> QED
    BY <1>1, LeastMember
<1>3. m # 0
  BY <1>2, PowerDefinition
<1>4. m \in 1 .. Width /\ m - 1 \in 0 .. Width /\ m - 1 \notin Open
  <2>1. m \in 0 .. Width /\ (m - 1 \in Open => m <= m - 1)
    BY <1>2
  <2> HIDE DEF Open
  <2> QED
    BY <1>0, <1>3, <2>1
<1>5. Power[m - 1] \in Nat \ {0} /\ Power[m] = 2 * Power[m - 1]
  BY <1>4, PowerDefinition
<1>6. Power[m] \in Nat \ {0}
  BY <1>5
<1> QED
  BY <1>2, <1>6

\* Numbers of so many bits, and those of fewer.
Numbers == 0 .. Power[Width] - 1

LEMMA PlacesOfBits ==
    /\ Width \in Nat /\ Width \in 0 .. Width /\ 0 \in 0 .. Width
    /\ \A k \in 1 .. Width : k \in 0 .. Width /\ k - 1 \in 0 .. Width /\ ~(k <= k - 1)
    /\ \A k \in 0 .. Width : k \in Nat /\ (k # 0 => k \in 1 .. Width)
  BY SeedMixerAssumption

\* What the recursion of xor says of a function, for the numbers up to m.
XorLaw(f, m) ==
    /\ \A b \in Nat : f[0][b] = b
    /\ \A a \in 1 .. m, b \in Nat : f[a][b] = 2 * f[a \div 2][b \div 2] + ((a + b) % 2)
XorUpTo(f, m) == f \in [Nat -> [Nat -> Nat]] /\ XorLaw(f, m)

LEMMA Halves ==
    /\ \A b \in Nat : b \div 2 \in Nat /\ b = 2 * (b \div 2) + (b % 2) /\ b % 2 \in 0 .. 1
    /\ \A a \in Nat \ {0} : a \div 2 \in 0 .. a - 1
  OBVIOUS

LEMMA ParityOfSum ==
    ASSUME NEW a \in Nat, NEW b \in Nat
    PROVE  /\ (a + b) % 2 = 0 <=> a % 2 = b % 2
           /\ (a + b) % 2 \in 0 .. 1 /\ a % 2 \in 0 .. 1 /\ b % 2 \in 0 .. 1
  OBVIOUS

\* There is one up to each number, ...
LEMMA XorReaches ==
    ASSUME NEW n \in Nat
    PROVE  \E f : XorUpTo(f, n)
<1> DEFINE Open == {m \in Nat : ~\E f : XorUpTo(f, m)}
<1> SUFFICES ASSUME Open # {} PROVE FALSE
  OBVIOUS
<1>0. Open \in SUBSET Nat
  OBVIOUS
<1>1. PICK m \in Open : \A k \in Open : m <= k
  <2> HIDE DEF Open
  <2> QED
    BY <1>0, LeastMember
<1>2. m # 0
  <2>1. XorUpTo([a \in Nat |-> [b \in Nat |-> b]], 0)
    BY DEF XorUpTo, XorLaw
  <2> QED
    BY <1>1, <2>1
<1>3. m \in Nat \ {0} /\ m - 1 \in Nat /\ m - 1 \notin Open
  <2>1. m \in Nat /\ (m - 1 \in Open => m <= m - 1)
    BY <1>1
  <2> HIDE DEF Open
  <2> QED
    BY <1>2, <2>1
<1>4. PICK f : XorUpTo(f, m - 1)
  BY <1>3
<1> DEFINE row == [b \in Nat |-> 2 * f[m \div 2][b \div 2] + ((m + b) % 2)]
           g == [a \in Nat |-> IF a = m THEN row ELSE f[a]]
<1>5. row \in [Nat -> Nat]
  <2>1. ASSUME NEW b \in Nat
        PROVE  2 * f[m \div 2][b \div 2] + ((m + b) % 2) \in Nat
    <3>1. f[m \div 2] \in [Nat -> Nat] /\ b \div 2 \in Nat
      BY <1>3, <1>4, Halves DEF XorUpTo, XorLaw
    <3>2. f[m \div 2][b \div 2] \in Nat
      BY <3>1
    <3>3. (m + b) % 2 \in Nat
      BY <1>3
    <3> QED
      BY <3>2, <3>3
  <2> QED
    BY <2>1
<1>6. \A b \in Nat : row[b] = 2 * f[m \div 2][b \div 2] + ((m + b) % 2)
  OBVIOUS
<1> HIDE DEF row
<1>7. /\ g \in [Nat -> [Nat -> Nat]] /\ g[m] = row
      /\ \A a \in Nat : a # m => g[a] = f[a]
  BY <1>3, <1>4, <1>5 DEF XorUpTo, XorLaw
<1> HIDE DEF g
<1>8. \A b \in Nat : g[0][b] = b
  BY <1>2, <1>4, <1>7 DEF XorUpTo, XorLaw
<1>9. ASSUME NEW a \in 1 .. m, NEW b \in Nat
      PROVE  g[a][b] = 2 * g[a \div 2][b \div 2] + ((a + b) % 2)
  <2>1. a \in Nat \ {0} /\ a \div 2 \in Nat /\ a \div 2 # m /\ (a # m => a \in 1 .. m - 1)
    <3>1. a \in Nat \ {0} /\ a <= m
      BY <1>3
    <3>2. a \div 2 \in Nat /\ a \div 2 < a
      BY <3>1, Halves
    <3> QED
      BY <1>3, <3>1, <3>2
  <2>2. g[a \div 2] = f[a \div 2]
    BY <1>7, <2>1
  <2>3. CASE a = m
    BY <1>6, <1>7, <2>2, <2>3
  <2>4. CASE a # m
    <3>1. f[a][b] = 2 * f[a \div 2][b \div 2] + ((a + b) % 2)
      BY <1>4, <2>1, <2>4 DEF XorUpTo, XorLaw
    <3>2. g[a] = f[a]
      BY <1>7, <2>1, <2>4
    <3> QED
      BY <2>2, <3>1, <3>2
  <2> QED
    BY <2>3, <2>4
<1>10. XorUpTo(g, m)
  BY <1>7, <1>8, <1>9 DEF XorUpTo, XorLaw
<1> QED
  BY <1>1, <1>10

\* ... they agree, as far as they go, ...
LEMMA XorAgrees ==
    ASSUME NEW f, NEW g, NEW n \in Nat, XorLaw(f, n), XorLaw(g, n)
    PROVE  \A b \in Nat : f[n][b] = g[n][b]
<1> DEFINE Open == {m \in Nat : m <= n /\ \E b \in Nat : f[m][b] # g[m][b]}
<1> SUFFICES ASSUME Open # {} PROVE FALSE
  OBVIOUS
<1>0. Open \in SUBSET Nat
  OBVIOUS
<1>1. PICK m \in Open : \A k \in Open : m <= k
  <2> HIDE DEF Open
  <2> QED
    BY <1>0, LeastMember
<1>2. m \in Nat /\ m <= n /\ \E b \in Nat : f[m][b] # g[m][b]
  BY <1>1
<1>3. ASSUME NEW b \in Nat PROVE f[m][b] = g[m][b]
  <2>1. CASE m = 0
    BY <2>1 DEF XorLaw
  <2>2. CASE m # 0
    <3>1. m \div 2 \in Nat /\ m \div 2 < m /\ m \in 1 .. n
      <4>1. m \in Nat \ {0}
        BY <1>2, <2>2
      <4>2. m \div 2 \in 0 .. m - 1
        BY <4>1, Halves
      <4> QED
        BY <1>2, <4>1, <4>2
    <3>2. m \div 2 \notin Open
      <4>1. m \div 2 \in Open => m <= m \div 2
        BY <1>1
      <4> HIDE DEF Open
      <4> QED
        BY <1>2, <3>1, <4>1
    <3>3. f[m \div 2][b \div 2] = g[m \div 2][b \div 2]
      <4>1. m \div 2 <= n /\ b \div 2 \in Nat
        BY <1>2, <3>1, Halves
      <4> QED
        BY <3>1, <3>2, <4>1
    <3>4. /\ f[m][b] = 2 * f[m \div 2][b \div 2] + ((m + b) % 2)
          /\ g[m][b] = 2 * g[m \div 2][b \div 2] + ((m + b) % 2)
      BY <3>1 DEF XorLaw
    <3> QED
      BY <3>3, <3>4
  <2> QED
    BY <2>1, <2>2
<1> QED
  BY <1>2, <1>3

\* ... and so there is one for all numbers.
LEMMA XorDefinition ==
    /\ \A a, b \in Nat : xor[a][b] \in Nat
    /\ \A b \in Nat : xor[0][b] = b
    /\ \A a, b \in Nat : xor[a][b] = 2 * xor[a \div 2][b \div 2] + ((a + b) % 2)
<1> DEFINE Solves(f) == f = [a \in Nat |-> [b \in Nat |->
                               IF a = 0 THEN b ELSE 2 * f[a \div 2][b \div 2] + ((a + b) % 2)]]
           some(n) == CHOOSE f : XorUpTo(f, n)
           h == [a \in Nat |-> some(a)[a]]
<1>1. \A n \in Nat : XorUpTo(some(n), n)
  <2> TAKE n \in Nat
  <2>1. PICK f : XorUpTo(f, n)
    BY XorReaches
  <2> QED
    BY <2>1
<1> HIDE DEF some
<1>2. \A a \in Nat : h[a] = some(a)[a] /\ h[a] \in [Nat -> Nat]
  BY <1>1 DEF XorUpTo
<1>3. ASSUME NEW a \in Nat, NEW b \in Nat
      PROVE  h[a][b] = IF a = 0 THEN b ELSE 2 * h[a \div 2][b \div 2] + ((a + b) % 2)
  <2> DEFINE c == a \div 2
  <2>1. CASE a = 0
    BY <1>1, <1>2, <2>1 DEF XorUpTo, XorLaw
  <2>2. CASE a # 0
    <3>1. a \in Nat \ {0} /\ c \in Nat /\ c < a
      <4>1. a \in Nat \ {0}
        BY <2>2
      <4>2. c \in 0 .. a - 1
        BY <4>1, Halves
      <4> HIDE DEF c
      <4> QED
        BY <4>1, <4>2
    <3>2. some(a)[a][b] = 2 * some(a)[c][b \div 2] + ((a + b) % 2)
      <4>1. XorLaw(some(a), a) /\ a \in 1 .. a
        BY <1>1, <3>1 DEF XorUpTo
      <4> QED
        BY <4>1 DEF XorLaw
    <3> HIDE DEF c
    <3>3. XorLaw(some(a), c) /\ XorLaw(some(c), c)
      <4>1. \A k \in 1 .. c : k \in 1 .. a
        BY <3>1
      <4>2. XorLaw(some(a), a) /\ XorLaw(some(c), c)
        BY <1>1, <3>1 DEF XorUpTo
      <4> QED
        BY <4>1, <4>2 DEF XorLaw
    <3>4. some(a)[c][b \div 2] = some(c)[c][b \div 2]
      <4>1. b \div 2 \in Nat
        BY Halves
      <4> QED
        BY <3>1, <3>3, <4>1, XorAgrees
    <3>5. h[c][b \div 2] = some(a)[c][b \div 2] /\ h[a] = some(a)[a]
      BY <1>2, <3>1, <3>4
    <3>6. h[a][b] = 2 * h[c][b \div 2] + ((a + b) % 2)
      BY <3>2, <3>5
    <3> QED
      BY <2>2, <3>6 DEF c
  <2> QED
    BY <2>1, <2>2
<1>4. Solves(h)
  <2>1. h \in [Nat -> [Nat -> Nat]]
    BY <1>2
  <2>2. \A a \in Nat :
           h[a] = [b \in Nat |->
                     IF a = 0 THEN b ELSE 2 * h[a \div 2][b \div 2] + ((a + b) % 2)]
    <3> TAKE a \in Nat
    <3>1. h[a] \in [Nat -> Nat]
      BY <1>2
    <3> HIDE DEF h
    <3> QED
      BY <1>3, <3>1
  <2> HIDE DEF h
  <2> QED
    BY <2>1, <2>2
<1> HIDE DEF h
<1>5. \A n \in Nat : XorLaw(h, n)
  <2> TAKE n \in Nat
  <2>1. \A a \in 1 .. n : a \in Nat /\ a # 0
    OBVIOUS
  <2> HIDE DEF h
  <2> QED
    BY <1>3, <2>1 DEF XorLaw
<1> HIDE DEF h
<1>6. xor = CHOOSE f : Solves(f)
  BY DEF xor
<1> HIDE DEF Solves
<1>7. Solves(xor)
  BY <1>4, <1>6
<1>8. \A a, b \in Nat :
         xor[a][b] = IF a = 0 THEN b ELSE 2 * xor[a \div 2][b \div 2] + ((a + b) % 2)
  BY <1>7 DEF Solves
<1>9. \A n \in Nat : XorLaw(xor, n)
  <2> TAKE n \in Nat
  <2>1. \A a \in 1 .. n : a \in Nat /\ a # 0
    OBVIOUS
  <2> QED
    BY <1>8, <2>1 DEF XorLaw
<1>10. \A a, b \in Nat : xor[a][b] \in Nat
  <2> TAKE a, b \in Nat
  <2>1. xor[a][b] = h[a][b]
    BY <1>5, <1>9, XorAgrees
  <2> QED
    BY <1>2, <2>1
<1>11. \A b \in Nat : xor[0][b] = b
  BY <1>8
<1>12. ASSUME NEW a \in Nat, NEW b \in Nat
       PROVE  xor[a][b] = 2 * xor[a \div 2][b \div 2] + ((a + b) % 2)
  <2>1. CASE a = 0
    <3>1. a \div 2 = 0 /\ a + b = b /\ b \div 2 \in Nat
      BY <2>1, Halves
    <3>2. xor[0][b] = b /\ xor[0][b \div 2] = b \div 2
      BY <1>11, <3>1
    <3>3. b = 2 * (b \div 2) + (b % 2)
      BY Halves
    <3> QED
      BY <2>1, <3>1, <3>2, <3>3, Zenon
  <2>2. CASE a # 0
    BY <1>8, <2>2
  <2> QED
    BY <2>1, <2>2
<1> QED
  BY <1>10, <1>11, <1>12

\* An exclusive-or of numbers of so many bits has no more bits than they have.
LEMMA XorIsBelow ==
    \A n \in 0 .. Width : \A a, b \in 0 .. Power[n] - 1 : xor[a][b] \in 0 .. Power[n] - 1
<1> DEFINE Open == {n \in 0 .. Width :
                      \E a, b \in 0 .. Power[n] - 1 : xor[a][b] \notin 0 .. Power[n] - 1}
<1> SUFFICES ASSUME Open # {} PROVE FALSE
  OBVIOUS
<1>0. Open \in SUBSET Nat
  OBVIOUS
<1>1. PICK n \in Open : \A k \in Open : n <= k
  <2> HIDE DEF Open
  <2> QED
    BY <1>0, LeastMember
<1>2. PICK a \in 0 .. Power[n] - 1, b \in 0 .. Power[n] - 1 : xor[a][b] \notin 0 .. Power[n] - 1
  BY <1>1
<1>3. n # 0
  <2>1. ASSUME n = 0 PROVE FALSE
    <3>1. Power[0] = 1
      BY PowerDefinition
    <3>2. a = 0 /\ b = 0
      BY <2>1, <3>1
    <3>3. xor[a][b] = 0
      BY <3>2, XorDefinition
    <3> QED
      BY <1>2, <2>1, <3>1, <3>3
  <2> QED
    BY <2>1
<1>4. n \in 1 .. Width /\ n - 1 \in 0 .. Width /\ n - 1 \notin Open
  <2>1. n \in 0 .. Width /\ (n - 1 \in Open => n <= n - 1)
    BY <1>1
  <2> HIDE DEF Open
  <2> QED
    BY <1>3, <2>1, PlacesOfBits
<1> DEFINE P == Power[n - 1]
           c == a \div 2
           d == b \div 2
           r == (a + b) % 2
<1>5. P \in Nat \ {0} /\ Power[n] = 2 * P
  BY <1>4, PowerDefinition, PowersArePositive
<1>6. a \in Nat /\ b \in Nat
  BY <1>2, <1>5
<1>7. c \in 0 .. P - 1 /\ d \in 0 .. P - 1
  <2>1. /\ c \in Nat /\ a = 2 * c + (a % 2) /\ a % 2 \in 0 .. 1
        /\ d \in Nat /\ b = 2 * d + (b % 2) /\ b % 2 \in 0 .. 1
    BY <1>6, Halves
  <2>2. a <= 2 * P - 1 /\ b <= 2 * P - 1
    BY <1>5
  <2> HIDE DEF P, c, d
  <2> QED
    BY <1>5, <2>1, <2>2
<1>8. xor[c][d] \in 0 .. P - 1
  BY <1>4, <1>7
<1>9. xor[a][b] = 2 * xor[c][d] + r /\ r \in 0 .. 1
  <2>1. r \in 0 .. 1
    BY <1>6, ParityOfSum
  <2>2. xor[a][b] = 2 * xor[a \div 2][b \div 2] + ((a + b) % 2)
    BY <1>6, XorDefinition, Zenon
  <2> QED
    BY <2>1, <2>2
<1> HIDE DEF P, c, d, r
<1>10. xor[a][b] \in 0 .. 2 * P - 1
  BY <1>5, <1>8, <1>9
<1> QED
  BY <1>2, <1>5, <1>10

LEMMA XorIsANumber ==
    ASSUME NEW a \in Numbers, NEW b \in Numbers
    PROVE  xor[a][b] \in Numbers
  BY XorIsBelow, PlacesOfBits DEF Numbers

\* A bit of a number.
Bit(z, k) == shr(z, k) % 2

LEMMA BitOfHalf ==
    ASSUME NEW z \in Nat, NEW k \in 1 .. Width
    PROVE  Bit(z, k) = Bit(z \div 2, k - 1)
<1>1. Power[k - 1] \in Nat \ {0} /\ Power[k] = 2 * Power[k - 1]
  BY PlacesOfBits, PowerDefinition, PowersArePositive
<1> DEFINE P == Power[k - 1]
<1>2. (z \div 2) \div P = z \div (2 * P)
  <2> HIDE DEF P
  <2>1. P \in Nat \ {0}
    BY <1>1 DEF P
  <2> QED
    BY <2>1, HalfOfDiv
<1> QED
  BY <1>1, <1>2, Zenon DEF Bit, shr

\* An exclusive-or has a bit where its operands differ.
LEMMA XorHasBits ==
    \A k \in 0 .. Width : \A a, b \in Nat : Bit(xor[a][b], k) = 0 <=> Bit(a, k) = Bit(b, k)
<1> DEFINE Open == {k \in 0 .. Width :
                      \E a, b \in Nat : ~(Bit(xor[a][b], k) = 0 <=> Bit(a, k) = Bit(b, k))}
<1> SUFFICES ASSUME Open # {} PROVE FALSE
  OBVIOUS
<1>0. Open \in SUBSET Nat
  OBVIOUS
<1>1. PICK k \in Open : \A j \in Open : k <= j
  <2> HIDE DEF Open
  <2> QED
    BY <1>0, LeastMember
<1>2. PICK a \in Nat, b \in Nat : ~(Bit(xor[a][b], k) = 0 <=> Bit(a, k) = Bit(b, k))
  BY <1>1
<1> DEFINE x == xor[a][b]
           y == xor[a \div 2][b \div 2]
<1>3. /\ a \div 2 \in Nat /\ b \div 2 \in Nat
      /\ x \in Nat /\ y \in Nat /\ x = 2 * y + ((a + b) % 2)
  BY Halves, XorDefinition
<1>4. k # 0
  <2>1. ASSUME k = 0 PROVE FALSE
    <3>1. \A z \in Nat : Bit(z, 0) = z % 2
      BY PowerDefinition DEF Bit, shr
    <3>2. (a + b) % 2 \in 0 .. 1
      BY ParityOfSum
    <3> DEFINE r == (a + b) % 2
    <3>3. x % 2 = r
      <4>1. r \in 0 .. 1 /\ x = 2 * y + r /\ y \in Nat /\ x \in Nat
        BY <1>3, <3>2
      <4> HIDE DEF r, x, y
      <4> QED
        BY <4>1
    <3>4. x % 2 = 0 <=> a % 2 = b % 2
      BY <3>3, ParityOfSum
    <3> QED
      BY <1>2, <1>3, <2>1, <3>1, <3>4
  <2> QED
    BY <2>1
<1>5. k \in 1 .. Width /\ k - 1 \in 0 .. Width /\ k - 1 \notin Open
  <2>1. k \in 0 .. Width /\ (k - 1 \in Open => k <= k - 1)
    BY <1>1
  <2> HIDE DEF Open
  <2> QED
    BY <1>4, <2>1, PlacesOfBits
<1>6. Bit(y, k - 1) = 0 <=> Bit(a \div 2, k - 1) = Bit(b \div 2, k - 1)
  BY <1>3, <1>5
<1>7. x \div 2 = y
  <2> DEFINE r == (a + b) % 2
  <2>1. r \in 0 .. 1 /\ x = 2 * y + r /\ y \in Nat /\ x \in Nat
    BY <1>3, ParityOfSum
  <2> HIDE DEF r, x, y
  <2> QED
    BY <2>1
<1>8. /\ Bit(a, k) = Bit(a \div 2, k - 1) /\ Bit(b, k) = Bit(b \div 2, k - 1)
      /\ Bit(x, k) = Bit(x \div 2, k - 1)
  <2> HIDE DEF x
  <2> QED
    BY <1>3, <1>5, BitOfHalf
<1>9. Bit(x, k) = 0 <=> Bit(a, k) = Bit(b, k)
  BY <1>6, <1>7, <1>8
<1> QED
  BY <1>2, <1>9

\* From one place on, the bits of a number are its half and its lowest bit.
LEMMA ShiftByOne ==
    ASSUME NEW z \in Nat, NEW k \in 1 .. Width
    PROVE  /\ shr(z, k) \in Nat /\ shr(z, k - 1) \in Nat
           /\ Bit(z, k - 1) \in 0 .. 1
           /\ shr(z, k - 1) = 2 * shr(z, k) + Bit(z, k - 1)
<1> DEFINE P == Power[k - 1]
           q == z \div P
<1>1. P \in Nat \ {0} /\ Power[k] = 2 * P /\ Power[k] \in Nat \ {0}
  BY PlacesOfBits, PowerDefinition, PowersArePositive
<1> HIDE DEF P
<1>2. q \in Nat /\ z \div (2 * P) = q \div 2
  BY <1>1, DivIs, HalfOfDiv
<1> HIDE DEF q
<1>3. q \div 2 \in Nat
  BY <1>2
<1>4. q % 2 \in 0 .. 1 /\ q = 2 * (q \div 2) + (q % 2)
  BY <1>2
<1>5. shr(z, k) = q \div 2 /\ shr(z, k - 1) = q /\ Bit(z, k - 1) = q % 2
  BY <1>1, <1>2 DEF shr, Bit, q, P
<1> QED
  BY <1>2, <1>3, <1>4, <1>5

\* Two shifts come to the same in either order.
LEMMA ShiftsCommute ==
    ASSUME NEW z \in Nat, NEW s \in 0 .. Width, NEW t \in 0 .. Width
    PROVE  shr(shr(z, s), t) = shr(shr(z, t), s)
<1>1. Power[s] \in Nat \ {0} /\ Power[t] \in Nat \ {0}
  BY PowersArePositive
<1>2. Power[s] * Power[t] = Power[t] * Power[s]
  BY <1>1
<1>3. /\ (z \div Power[s]) \div Power[t] = z \div (Power[s] * Power[t])
      /\ (z \div Power[t]) \div Power[s] = z \div (Power[t] * Power[s])
  BY <1>1, DivDiv
<1> QED
  BY <1>2, <1>3, Zenon DEF shr

\* z ^ (z >> s) tells which z it was made of: from the highest bit down, each bit of z
\* is the one of the result, changed or not by a bit of z above it.
LEMMA XorShiftIsOneToOne ==
    ASSUME NEW a \in Numbers, NEW b \in Numbers, NEW s \in 1 .. Width,
           xor[a][shr(a, s)] = xor[b][shr(b, s)]
    PROVE  a = b
<1>0. a \in Nat /\ b \in Nat /\ Power[Width] \in Nat \ {0}
  BY PlacesOfBits, PowersArePositive DEF Numbers
<1>1. \A k \in 1 .. Width :
         Bit(a, k - 1) = Bit(shr(a, s), k - 1) <=> Bit(b, k - 1) = Bit(shr(b, s), k - 1)
  <2> TAKE k \in 1 .. Width
  <2>1. k - 1 \in 0 .. Width /\ shr(a, s) \in Nat /\ shr(b, s) \in Nat
    BY <1>0, PlacesOfBits, ShiftByOne
  <2> QED
    BY <1>0, <2>1, XorHasBits
<1>2. ASSUME NEW k \in 1 .. Width, shr(a, k) = shr(b, k)
      PROVE  shr(a, k - 1) = shr(b, k - 1)
  <2>1. /\ k - 1 \in 0 .. Width /\ k \in 0 .. Width /\ s \in 0 .. Width
        /\ s - 1 \in 0 .. Width
    BY PlacesOfBits
  <2>2. ASSUME NEW z \in Nat
        PROVE  shr(shr(z, s), k - 1) = shr(shr(z, k), s - 1)
    <3>1. shr(z, k - 1) \in Nat /\ shr(z, s) \in Nat
      BY ShiftByOne
    <3>2. shr(shr(z, s), k - 1) = shr(shr(z, k - 1), s)
      BY <2>1, ShiftsCommute
    <3>3. shr(shr(z, k - 1), s) = shr(shr(z, k - 1) \div 2, s - 1)
      <4> DEFINE P == Power[s - 1]
                 y == shr(z, k - 1)
      <4>1. P \in Nat \ {0} /\ Power[s] = 2 * P
        BY <2>1, PowerDefinition, PowersArePositive
      <4>2. y \in Nat
        BY <3>1
      <4> HIDE DEF P, y
      <4>3. (y \div 2) \div P = y \div (2 * P)
        BY <4>1, <4>2, HalfOfDiv
      <4> QED
        BY <4>1, <4>3 DEF shr, P, y
    <3>4. shr(z, k - 1) \div 2 = shr(z, k)
      <4> DEFINE P == Power[k - 1]
      <4>1. P \in Nat \ {0} /\ Power[k] = 2 * P
        BY <2>1, PowerDefinition, PowersArePositive
      <4> HIDE DEF P
      <4>2. (z \div P) \div 2 = z \div (2 * P)
        BY <4>1, HalfOfDiv
      <4> QED
        BY <4>1, <4>2 DEF shr, P
    <3> QED
      BY <3>2, <3>3, <3>4
  <2>3. shr(shr(a, s), k - 1) = shr(shr(b, s), k - 1)
    BY <1>0, <1>2, <2>2
  <2>4. Bit(shr(a, s), k - 1) = Bit(shr(b, s), k - 1)
    BY <2>3 DEF Bit
  <2>5. /\ Bit(a, k - 1) \in 0 .. 1 /\ Bit(b, k - 1) \in 0 .. 1
        /\ shr(a, k - 1) = 2 * shr(a, k) + Bit(a, k - 1)
        /\ shr(b, k - 1) = 2 * shr(b, k) + Bit(b, k - 1)
    BY <1>0, ShiftByOne
  <2>6. Bit(shr(a, s), k - 1) \in 0 .. 1
    <3>1. shr(a, s) \in Nat
      BY <1>0, ShiftByOne
    <3> QED
      BY <3>1, ShiftByOne
  <2> DEFINE u == Bit(a, k - 1)
             v == Bit(b, k - 1)
             w == Bit(shr(a, s), k - 1)
  <2>7. u = w <=> v = w
    BY <1>1, <2>4
  <2>8. u \in 0 .. 1 /\ v \in 0 .. 1 /\ w \in 0 .. 1
    BY <2>5, <2>6
  <2>9. u = v
    <3> HIDE DEF u, v, w
    <3> QED
      BY <2>7, <2>8
  <2> QED
    BY <1>2, <2>5, <2>9
<1> DEFINE Apart == {j \in Nat : j <= Width /\ shr(a, Width - j) # shr(b, Width - j)}
<1>3. Apart = {}
  <2> SUFFICES ASSUME Apart # {} PROVE FALSE
    OBVIOUS
  <2>1. Apart \in SUBSET Nat
    OBVIOUS
  <2>2. PICK m \in Apart : \A j \in Apart : m <= j
    <3> HIDE DEF Apart
    <3> QED
      BY <2>1, LeastMember
  <2>3. m # 0
    <3>1. shr(a, Width) = 0 /\ shr(b, Width) = 0 /\ Width - 0 = Width
      <4> DEFINE M == Power[Width]
      <4>1. M \in Nat \ {0} /\ a < M /\ b < M /\ M * 0 <= a /\ M * 0 <= b
            /\ a < M * 0 + M /\ b < M * 0 + M
        BY <1>0 DEF Numbers
      <4> HIDE DEF M
      <4>2. a \div M = 0 /\ b \div M = 0
        BY <1>0, <4>1, DivIsOnly
      <4> QED
        BY <4>2, PlacesOfBits DEF M, shr
    <3>2. shr(a, Width - m) # shr(b, Width - m)
      BY <2>2
    <3> QED
      BY <3>1, <3>2, Zenon
  <2>4. m - 1 \notin Apart /\ m \in Nat /\ m <= Width
    BY <2>2
  <2>5. /\ Width - m + 1 \in 1 .. Width /\ m - 1 \in Nat /\ m - 1 <= Width
        /\ Width - (m - 1) = Width - m + 1 /\ (Width - m + 1) - 1 = Width - m
    <3> HIDE DEF Apart
    <3> QED
      BY <2>3, <2>4, PlacesOfBits
  <2>6. shr(a, Width - m + 1) = shr(b, Width - m + 1)
    BY <2>4, <2>5
  <2>7. shr(a, Width - m) = shr(b, Width - m)
    BY <1>2, <2>5, <2>6
  <2> QED
    BY <2>2, <2>7
<1>4. shr(a, 0) = shr(b, 0)
  <2>1. Width \in Nat /\ Width <= Width /\ Width - Width = 0
    BY PlacesOfBits
  <2> QED
    BY <1>3, <2>1
<1>5. \A z \in Nat : shr(z, 0) = z
  BY PowerDefinition DEF shr
<1> QED
  BY <1>0, <1>4, <1>5

\* A number keeps to its bits when it is shifted to the right, and mixed with that.
LEMMA XorShiftIsANumber ==
    ASSUME NEW z \in Numbers, NEW s \in 1 .. Width
    PROVE  xor[z][shr(z, s)] \in Numbers
<1> DEFINE M == Power[Width]
           P == Power[s]
           q == z \div P
<1>1. M \in Nat \ {0} /\ P \in Nat \ {0} /\ z \in 0 .. M - 1 /\ z \in Nat
  BY PlacesOfBits, PowersArePositive DEF Numbers
<1>2. q \in Nat /\ P * q <= z
  <2> HIDE DEF P
  <2> QED
    BY <1>1, DivIs
<1>3. q <= z
  <2>1. \A u, v \in Nat : v # 0 => u <= v * u
    OBVIOUS
  <2> HIDE DEF P, q
  <2>2. q <= P * q /\ P * q \in Nat
    BY <1>1, <1>2, <2>1
  <2> QED
    BY <1>1, <1>2, <2>2
<1> HIDE DEF M, P, q
<1>4. q \in 0 .. M - 1
  BY <1>1, <1>2, <1>3
<1>5. shr(z, s) \in Numbers
  BY <1>4 DEF M, P, q, shr, Numbers
<1> QED
  BY <1>5, XorIsANumber

\* d divides n.
Divides(d, n) == \E c \in Int : n = d * c

\* The same remainder: a difference that is a multiple.
LEMMA SameRemainder ==
    ASSUME NEW m \in Int, NEW n \in Int, NEW d \in Nat \ {0}, m % d = n % d
    PROVE  Divides(d, m - n)
<1>1. PICK p \in Int : m = d * p + (m % d)
  BY ModIs
<1>2. PICK q \in Int : n = d * q + (n % d)
  BY ModIs
<1> DEFINE r == m % d
           s == n % d
<1>3. r \in Int /\ r = s /\ m = d * p + r /\ n = d * q + s
  BY <1>1, <1>2
<1> HIDE DEF r, s
<1>4. m - n = d * (p - q) /\ p - q \in Int
  BY <1>3
<1> QED
  BY <1>4 DEF Divides

\* A power of two that divides an odd multiple of a number divides the number.
LEMMA OddFactor ==
    ASSUME NEW m \in Int, m % 2 = 1, NEW n \in Int, Divides(Power[Width], n * m)
    PROVE  Divides(Power[Width], n)
<1> DEFINE Open == {k \in 0 .. Width :
                      \E e \in Int : Divides(Power[k], e * m) /\ ~Divides(Power[k], e)}
<1> SUFFICES ASSUME Open # {} PROVE FALSE
  BY PlacesOfBits
<1>1. Open \in SUBSET Nat
  OBVIOUS
<1>2. PICK k \in Open : \A j \in Open : k <= j
  <2> HIDE DEF Open
  <2> QED
    BY <1>1, LeastMember
<1>3. PICK e \in Int : Divides(Power[k], e * m) /\ ~Divides(Power[k], e)
  BY <1>2
<1>4. k # 0
  <2>1. e = 1 * e
    OBVIOUS
  <2> QED
    BY <1>3, <2>1, PowerDefinition DEF Divides
<1>5. k \in 1 .. Width /\ k - 1 \in 0 .. Width /\ k - 1 \notin Open
  <2>1. k \in 0 .. Width /\ (k - 1 \in Open => k <= k - 1)
    BY <1>2
  <2> HIDE DEF Open
  <2> QED
    BY <1>4, <2>1, PlacesOfBits
<1> DEFINE P == Power[k - 1]
<1>6. P \in Nat \ {0} /\ Power[k] = 2 * P
  BY <1>5, PowerDefinition, PowersArePositive
<1> HIDE DEF P
<1>7. PICK h \in Int : m = 2 * h + 1
  <2>1. m \div 2 \in Int /\ m = 2 * (m \div 2) + (m % 2)
    OBVIOUS
  <2> QED
    BY <2>1
<1>8. PICK c \in Int : e * m = (2 * P) * c
  BY <1>3, <1>6 DEF Divides
<1> DEFINE half == P * c - e * h
<1>9. half \in Int /\ e = 2 * half
  <2>1. e * m = 2 * (e * h) + e /\ (2 * P) * c = 2 * (P * c)
    BY <1>6, <1>7
  <2>2. e * h \in Int /\ P * c \in Int
    BY <1>6
  <2> DEFINE u == e * h
             v == P * c
  <2>3. u \in Int /\ v \in Int /\ 2 * u + e = 2 * v
    BY <1>8, <2>1, <2>2
  <2>4. half = v - u
    OBVIOUS
  <2> HIDE DEF half, u, v
  <2> QED
    BY <2>3, <2>4
<1> HIDE DEF half
<1>10. half * m = P * c
  <2>1. e * m = 2 * (half * m) /\ (2 * P) * c = 2 * (P * c)
    BY <1>6, <1>9
  <2> DEFINE u == half * m
             v == P * c
  <2>2. u \in Int /\ v \in Int /\ 2 * u = 2 * v
    BY <1>6, <1>8, <1>9, <2>1
  <2> HIDE DEF u, v
  <2>3. u = v
    BY <2>2
  <2> QED
    BY <2>3 DEF u, v
<1>11. Divides(P, half)
  <2>1. Divides(P, half * m)
    BY <1>10 DEF Divides
  <2> QED
    BY <1>5, <1>9, <2>1 DEF P
<1>12. PICK b \in Int : half = P * b
  BY <1>11 DEF Divides
<1>13. e = (2 * P) * b
  BY <1>6, <1>9, <1>12
<1> QED
  BY <1>3, <1>6, <1>13 DEF Divides

\* Two numbers of so many bits whose difference it divides are the same.
LEMMA NoOtherMultiple ==
    ASSUME NEW a \in Numbers, NEW b \in Numbers, Divides(Power[Width], a - b)
    PROVE  a = b
<1> DEFINE M == Power[Width]
<1>1. M \in Nat \ {0} /\ a \in 0 .. M - 1 /\ b \in 0 .. M - 1
  BY PlacesOfBits, PowersArePositive DEF Numbers
<1>2. PICK c \in Int : a - b = M * c
  BY DEF Divides
<1> HIDE DEF M
<1>3. ASSUME c >= 1 PROVE FALSE
  <2>1. M * c >= M * 1
    BY <1>1, <1>3
  <2> QED
    BY <1>1, <1>2, <2>1
<1>4. ASSUME c <= -1 PROVE FALSE
  <2>1. M * c <= M * (-1)
    BY <1>1, <1>4
  <2> QED
    BY <1>1, <1>2, <2>1
<1>5. c = 0
  BY <1>3, <1>4
<1> QED
  BY <1>1, <1>2, <1>5

\* Multiplication by an odd factor is one to one.
LEMMA OddProductsDiffer ==
    ASSUME NEW m \in Int, m % 2 = 1, NEW a \in Numbers, NEW b \in Numbers,
           (a * m) % Power[Width] = (b * m) % Power[Width]
    PROVE  a = b
<1>1. Power[Width] \in Nat \ {0} /\ a \in Int /\ b \in Int
  BY PlacesOfBits, PowersArePositive DEF Numbers
<1>2. a * m \in Int /\ b * m \in Int /\ a * m - b * m = (a - b) * m /\ a - b \in Int
  BY <1>1
<1>3. Divides(Power[Width], (a - b) * m)
  <2>1. Divides(Power[Width], a * m - b * m)
    BY <1>1, <1>2, SameRemainder
  <2> QED
    BY <1>2, <2>1, Zenon
<1>4. Divides(Power[Width], a - b)
  BY <1>2, <1>3, OddFactor
<1> QED
  BY <1>4, NoOtherMultiple

\* A turn of mix: a number is mixed with its own high bits, and multiplied.
Stirred(z, k) == (xor[z][shr(z, Shift[k])] * Multiply[k]) % Power[Width]

LEMMA RemaindersAreNumbers ==
    ASSUME NEW n \in Int
    PROVE  n % Power[Width] \in Numbers
<1> DEFINE M == Power[Width]
<1>1. M \in Nat \ {0}
  BY PlacesOfBits, PowersArePositive
<1> HIDE DEF M
<1>2. n % M \in 0 .. M - 1
  BY <1>1
<1> QED
  BY <1>2 DEF M, Numbers

LEMMA MembersOfASequence ==
    ASSUME NEW S, NEW s \in Seq(S), NEW k \in 1 .. Len(s)
    PROVE  s[k] \in S
  OBVIOUS

LEMMA ShiftsAndFactors ==
    /\ \A k \in 1 .. 3 : Shift[k] \in 1 .. Width
    /\ \A k \in 1 .. 2 : Multiply[k] \in Int /\ Multiply[k] % 2 = 1
    /\ Gamma \in Int /\ Gamma % 2 = 1
<1>1. Width \in Nat \ {0} /\ Power[Width] \in Nat
  BY SeedMixerAssumption, PlacesOfBits, PowersArePositive
<1>2. ASSUME NEW k \in 1 .. 3
      PROVE  Shift[k] \in 1 .. Width
  <2>1. Shift \in Seq(1 .. Width - 1)
    BY SeedMixerAssumption
  <2>2. k \in 1 .. Len(Shift)
    <3>1. Len(Shift) = 3
      BY SeedMixerAssumption
    <3> QED
      BY <3>1
  <2>3. Shift[k] \in 1 .. Width - 1
    BY <2>1, <2>2, MembersOfASequence
  <2> QED
    BY <1>1, <2>3
<1>3. ASSUME NEW k \in 1 .. 2
      PROVE  Multiply[k] \in Int
  <2>1. Multiply \in Seq(0 .. Power[Width] - 1)
    BY SeedMixerAssumption
  <2>2. k \in 1 .. Len(Multiply)
    <3>1. Len(Multiply) = 2
      BY SeedMixerAssumption
    <3> QED
      BY <3>1
  <2>3. Multiply[k] \in 0 .. Power[Width] - 1
    BY <2>1, <2>2, MembersOfASequence
  <2> QED
    BY <1>1, <2>3
<1>4. Gamma \in Int /\ Gamma % 2 = 1 /\ \A k \in 1 .. 2 : Multiply[k] % 2 = 1
  BY <1>1, SeedMixerAssumption
<1> QED
  BY <1>2, <1>3, <1>4

LEMMA StirringIsOneToOne ==
    ASSUME NEW k \in 1 .. 2, NEW a \in Numbers
    PROVE  /\ Stirred(a, k) \in Numbers
           /\ \A b \in Numbers : Stirred(a, k) = Stirred(b, k) => a = b
<1>1. Shift[k] \in 1 .. Width /\ Multiply[k] \in Int /\ Multiply[k] % 2 = 1
  BY ShiftsAndFactors
<1> DEFINE X(z) == xor[z][shr(z, Shift[k])]
<1>2. \A z \in Numbers : X(z) \in Numbers
  BY <1>1, XorShiftIsANumber
<1>3. \A z \in Numbers : z \in Int
  BY PlacesOfBits, PowersArePositive DEF Numbers
<1>4. \A z \in Numbers : X(z) * Multiply[k] \in Int
  <2> HIDE DEF X
  <2> QED
    BY <1>1, <1>2, <1>3
<1>5. Stirred(a, k) \in Numbers
  BY <1>4, RemaindersAreNumbers DEF Stirred
<1>6. ASSUME NEW b \in Numbers, Stirred(a, k) = Stirred(b, k)
      PROVE  a = b
  <2>1. (X(a) * Multiply[k]) % Power[Width] = (X(b) * Multiply[k]) % Power[Width]
    BY <1>6, Zenon DEF Stirred
  <2>2. X(a) = X(b)
    <3> HIDE DEF X
    <3> QED
      BY <1>1, <1>2, <2>1, OddProductsDiffer
  <2> QED
    BY <1>1, <2>2, XorShiftIsOneToOne
<1> QED
  BY <1>5, <1>6

\* The rest of mix, after the index has come in.
Mixing(z) ==
    LET y == Stirred(Stirred(z, 1), 2) IN xor[y][shr(y, Shift[3])]

LEMMA MixingIsOneToOne ==
    ASSUME NEW a \in Numbers, NEW b \in Numbers, Mixing(a) = Mixing(b)
    PROVE  a = b
<1> DEFINE y(z) == Stirred(Stirred(z, 1), 2)
<1>1. /\ Stirred(a, 1) \in Numbers /\ Stirred(b, 1) \in Numbers
      /\ y(a) \in Numbers /\ y(b) \in Numbers
  BY StirringIsOneToOne
<1>2. Shift[3] \in 1 .. Width
  BY ShiftsAndFactors
<1>3. xor[y(a)][shr(y(a), Shift[3])] = xor[y(b)][shr(y(b), Shift[3])]
  BY DEF Mixing
<1> HIDE DEF y
<1>4. y(a) = y(b)
  BY <1>1, <1>2, <1>3, XorShiftIsOneToOne
<1>5. Stirred(Stirred(a, 1), 2) = Stirred(Stirred(b, 1), 2)
  BY <1>4 DEF y
<1>6. Stirred(a, 1) = Stirred(b, 1)
  BY <1>1, <1>5, StirringIsOneToOne
<1> QED
  BY <1>6, StirringIsOneToOne

LEMMA MixIsMixing ==
    ASSUME NEW base, NEW index
    PROVE  mix(base, index) = Mixing((base + (index + 1) * Gamma) % Power[Width])
  BY Zenon DEF mix, Mixing, Stirred

\* A seed of a run has as many bits as the masks of mix leave it.
LEMMA MixMakesSeeds ==
    ASSUME NEW base \in Int, NEW index \in Int
    PROVE  mix(base, index) \in Numbers
<1> DEFINE u == base + (index + 1) * Gamma
           z == u % Power[Width]
           y == Stirred(Stirred(z, 1), 2)
<1>1. u \in Int
  BY ShiftsAndFactors
<1>2. z \in Numbers
  <2> HIDE DEF u
  <2> QED
    BY <1>1, RemaindersAreNumbers
<1> HIDE DEF z
<1>3. Stirred(z, 1) \in Numbers
  BY <1>2, StirringIsOneToOne
<1>4. y \in Numbers
  BY <1>3, StirringIsOneToOne
<1>5. mix(base, index) = xor[y][shr(y, Shift[3])]
  BY MixIsMixing, Zenon DEF Mixing, z
<1> HIDE DEF y
<1> QED
  BY <1>4, <1>5, ShiftsAndFactors, XorShiftIsANumber

\* Two iterations of a run have different seeds, as long as there are seeds left; and
\* the runs of two base seeds have different ones in the same iteration (SeedMixer.mix).
THEOREM MixIsOneToOne ==
    ASSUME NEW base \in Int
    PROVE  /\ \A i, j \in Numbers : mix(base, i) = mix(base, j) => i = j
           /\ \A b, c \in Numbers, i \in Int : mix(b, i) = mix(c, i) => b = c
<1>0. /\ Power[Width] \in Nat \ {0} /\ Gamma \in Int /\ Gamma % 2 = 1
      /\ \A z \in Numbers : z \in Int
  BY PlacesOfBits, PowersArePositive, ShiftsAndFactors DEF Numbers
<1>1. ASSUME NEW i \in Numbers, NEW j \in Numbers, mix(base, i) = mix(base, j)
      PROVE  i = j
  <2> DEFINE u == base + (i + 1) * Gamma
             v == base + (j + 1) * Gamma
  <2>1. i \in Int /\ j \in Int
    BY <1>0
  <2>2. u \in Int /\ v \in Int /\ u - v = (i - j) * Gamma /\ i - j \in Int
    BY <1>0, <2>1
  <2>3. Mixing(u % Power[Width]) = Mixing(v % Power[Width])
    BY <1>1, MixIsMixing, Zenon
  <2> HIDE DEF u, v
  <2>4. u % Power[Width] = v % Power[Width]
    BY <2>2, <2>3, RemaindersAreNumbers, MixingIsOneToOne
  <2>5. Divides(Power[Width], u - v)
    BY <1>0, <2>2, <2>4, SameRemainder
  <2>6. Divides(Power[Width], (i - j) * Gamma)
    BY <2>2, <2>5, Zenon
  <2>7. Divides(Power[Width], i - j)
    BY <1>0, <2>2, <2>6, OddFactor
  <2> QED
    BY <2>7, NoOtherMultiple
<1>2. ASSUME NEW b \in Numbers, NEW c \in Numbers, NEW i \in Int, mix(b, i) = mix(c, i)
      PROVE  b = c
  <2> DEFINE u == b + (i + 1) * Gamma
             v == c + (i + 1) * Gamma
  <2>1. b \in Int /\ c \in Int
    BY <1>0
  <2>2. u \in Int /\ v \in Int /\ u - v = b - c
    BY <1>0, <2>1
  <2>3. Mixing(u % Power[Width]) = Mixing(v % Power[Width])
    BY <1>2, MixIsMixing, Zenon
  <2> HIDE DEF u, v
  <2>4. u % Power[Width] = v % Power[Width]
    BY <2>2, <2>3, RemaindersAreNumbers, MixingIsOneToOne
  <2>5. Divides(Power[Width], b - c)
    <3>1. Divides(Power[Width], u - v)
      BY <1>0, <2>2, <2>4, SameRemainder
    <3> QED
      BY <2>2, <3>1, Zenon
  <2> QED
    BY <2>5, NoOtherMultiple
<1> QED
  BY <1>1, <1>2

\* From one base, mix rearranges the numbers that a seed may be: each of them is the
\* seed of one index, none is the seed of two, and no seed has a bit too many
\* (SeedMixer.mix, and the masks in it).
THEOREM MixPermutesSeeds ==
    ASSUME NEW base \in Int
    PROVE  [i \in Numbers |-> mix(base, i)] \in Bijection(Numbers, Numbers)
<1> DEFINE f == [i \in Numbers |-> mix(base, i)]
<1>1. \A i \in Numbers : i \in Int
  BY PlacesOfBits, PowersArePositive DEF Numbers
<1>2. f \in [Numbers -> Numbers]
  BY <1>1, MixMakesSeeds
<1>3. \A i, j \in Numbers : f[i] = f[j] => i = j
  BY MixIsOneToOne
<1>4. IsFiniteSet(Numbers)
  <2>1. 0 \in Int /\ Power[Width] - 1 \in Int
    BY PlacesOfBits, PowersArePositive
  <2> QED
    BY <2>1, FS_Interval DEF Numbers
<1> HIDE DEF f
<1>5. f \in Injection(Numbers, Numbers)
  BY <1>2, <1>3 DEF Injection, IsInjective
<1>6. f \in Surjection(Numbers, Numbers)
  BY <1>4, <1>5, FS_Injection DEF Surjection
<1>7. f \in Bijection(Numbers, Numbers)
  BY <1>5, <1>6 DEF Bijection
<1> QED
  BY <1>7 DEF f
=============================================================================
