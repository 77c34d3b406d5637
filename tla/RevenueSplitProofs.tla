------------------------ MODULE RevenueSplitProofs ------------------------
(***************************************************************************)
(* What distribute_event_revenue can book and credit, for every charge and *)
(* every economic_config whose percentages do not exceed the whole.        *)
(***************************************************************************)
EXTENDS RevenueSplit, TLAPS

\* The amounts among the shares of a charge.
Amounted(d) ==
    /\ d.platform \in Nat /\ d.credits1 \in Nat
    /\ d.credits2 \in Nat /\ d.managerCredits \in Nat

-----------------------------------------------------------------------------
\* Integer division, as the prover needs it.
LEMMA DivFacts ==
    ASSUME NEW a \in Nat, NEW b \in Int, b > 0
    PROVE  /\ a \div b \in Nat
           /\ b * (a \div b) <= a
           /\ a < b * (a \div b) + b
    OBVIOUS

\* Multiplying by a natural number keeps an order.
LEMMA MulMono ==
    ASSUME NEW n \in Nat, NEW a \in Int, NEW b \in Int, a <= b
    PROVE  n * a <= n * b
    OBVIOUS

\* A positive factor cancels.
LEMMA MulCancel ==
    ASSUME NEW w \in Int, w > 0, NEW a \in Int, NEW b \in Int, w * a < w * b
    PROVE  a < b
    OBVIOUS

-----------------------------------------------------------------------------
\* A rounded share is a natural number within half a unit of the exact one.
LEMMA ShareRounds ==
    ASSUME NEW n \in Nat, NEW pct \in Nat
    PROVE  /\ Share(n, pct) \in Nat
           /\ (2 * Whole) * Share(n, pct) <= 2 * (n * pct) + Whole
    <1> DEFINE x == 2 * n * pct + Whole
               w == 2 * Whole
    <1>1. Whole \in Nat /\ Whole > 0 /\ w \in Int /\ w > 0
        BY WholeAssumption
    <1>2. n * pct \in Nat
        OBVIOUS
    <1>3. x \in Nat /\ x = 2 * (n * pct) + Whole
        BY <1>1, <1>2
    <1>4. x \div w \in Nat /\ w * (x \div w) <= x
        <2> HIDE DEF x, w
        <2> QED BY <1>1, <1>3, DivFacts
    <1>5. Share(n, pct) = x \div w
        BY DEF Share
    <1> QED BY <1>3, <1>4, <1>5

\* A share is a natural number.
LEMMA ShareNat ==
    ASSUME NEW n \in Nat, NEW pct \in Nat
    PROVE  Share(n, pct) \in Nat
    BY ShareRounds

\* A rounded share of at most everything is at most everything.
LEMMA ShareWithin ==
    ASSUME NEW n \in Nat, NEW pct \in Nat, pct <= Whole
    PROVE  Share(n, pct) \in Nat /\ Share(n, pct) <= n
    <1>1. Whole \in Nat /\ Whole > 0
        BY WholeAssumption
    <1> DEFINE s == Share(n, pct)
    <1>2. s \in Nat /\ (2 * Whole) * s <= 2 * (n * pct) + Whole
        BY ShareRounds
    <1>3. n * pct <= n * Whole /\ n * pct \in Nat /\ n * Whole \in Nat
        BY <1>1, MulMono
    <1> HIDE DEF s
    <1>4. (2 * Whole) * s < (2 * Whole) * (n + 1)
        <2>1. (2 * Whole) * (n + 1) = 2 * (n * Whole) + 2 * Whole
            BY <1>1
        <2> QED BY <1>1, <1>2, <1>3, <2>1
    <1>5. s < n + 1
        <2>1. 2 * Whole \in Int /\ 2 * Whole > 0
            BY <1>1
        <2> HIDE DEF s
        <2> QED BY <1>2, <1>4, <2>1, MulCancel
    <1>6. s <= n
        BY <1>2, <1>5
    <1> QED BY <1>2, <1>6 DEF s

\* Three shares that make up no more than the whole exceed the charge by less
\* than two cents: each is rounded up by at most a half.
LEMMA ThreeShares ==
    ASSUME NEW n \in Nat, NEW p \in Nat, NEW q \in Nat, NEW r \in Nat,
           p + q + r <= Whole
    PROVE  Share(n, p) + Share(n, q) + Share(n, r) <= n + 1
    <1>1. Whole \in Nat /\ Whole > 0
        BY WholeAssumption
    <1> DEFINE a == Share(n, p)
               b == Share(n, q)
               c == Share(n, r)
               w == 2 * Whole
    <1>2. a \in Nat /\ w * a <= 2 * (n * p) + Whole
        BY ShareRounds
    <1>3. b \in Nat /\ w * b <= 2 * (n * q) + Whole
        BY ShareRounds
    <1>4. c \in Nat /\ w * c <= 2 * (n * r) + Whole
        BY ShareRounds
    <1>5. n * (p + q + r) <= n * Whole
        BY <1>1, MulMono
    <1>6. n * (p + q + r) = n * p + n * q + n * r
        OBVIOUS
    <1>7. n * p \in Nat /\ n * q \in Nat /\ n * r \in Nat /\ n * Whole \in Nat
        BY <1>1
    <1>8. w * (a + b + c) = w * a + w * b + w * c
        <2> HIDE DEF a, b, c
        <2> QED BY <1>1, <1>2, <1>3, <1>4
    <1>9. w * (n + 2) = 2 * (n * Whole) + 4 * Whole
        BY <1>1
    <1>10. w * (a + b + c) < w * (n + 2)
        <2>1. w * a \in Int /\ w * b \in Int /\ w * c \in Int
            <3> HIDE DEF a, b, c
            <3> QED BY <1>1, <1>2, <1>3, <1>4
        <2> HIDE DEF a, b, c, w
        <2> QED BY <1>1, <1>2, <1>3, <1>4, <1>5, <1>6, <1>7, <1>8, <1>9, <2>1
    <1>11. a + b + c < n + 2
        <2>1. w \in Int /\ w > 0 /\ a + b + c \in Int /\ n + 2 \in Int
            <3> HIDE DEF a, b, c
            <3> QED BY <1>1, <1>2, <1>3, <1>4
        <2> HIDE DEF a, b, c, w
        <2> QED BY <1>10, <2>1, MulCancel
    <1>12. a + b + c <= n + 1
        <2> HIDE DEF a, b, c
        <2> QED BY <1>2, <1>3, <1>4, <1>11
    <1> QED BY <1>12

-----------------------------------------------------------------------------
\* A gift or a vote with a recipient is shared out to the cent: the platform's
\* cut and the recipient's part make up the charge.
THEOREM GiftsAreSharedExactly ==
    ASSUME NEW total \in Nat, NEW cut \in Nat, cut <= total, NEW artist1
    PROVE  LET d == SimpleSplit(total, cut, artist1)
           IN  /\ Amounted(d)
               /\ Booked(d) <= total
               /\ artist1 # NoUser => Booked(d) = total
    <1>1. CASE artist1 = NoUser
        BY <1>1 DEF SimpleSplit, Amounted, Booked, Undistributed
    <1>2. CASE artist1 # NoUser /\ HasRole(artist1)
        BY <1>2 DEF SimpleSplit, Amounted, Booked, Undistributed
    <1>3. CASE artist1 # NoUser /\ ~HasRole(artist1)
        BY <1>3 DEF SimpleSplit, Amounted, Booked, Undistributed
    <1> QED BY <1>1, <1>2, <1>3

\* The first of two artists gets no more than the pool.
LEMMA FirstWithinPool ==
    ASSUME NEW pool \in Nat, NEW pct \in Section, pct.winnerShare <= Whole,
           NEW artist1, NEW artist2, NEW winner
    PROVE  LET first == FirstOfTwo(pool, pct, artist1, artist2, winner)
           IN  first \in Nat /\ first <= pool
    <1>1. pct.winnerShare \in Nat
        BY DEF Section
    <1>2. Share(pool, pct.winnerShare) \in Nat /\ Share(pool, pct.winnerShare) <= pool
        BY <1>1, ShareWithin
    <1>3. (pool + 1) \div 2 \in Nat /\ (pool + 1) \div 2 <= pool
        OBVIOUS
    <1>4. CASE winner = artist1
        BY <1>2, <1>4 DEF FirstOfTwo
    <1>5. CASE winner # artist1 /\ winner = artist2
        BY <1>2, <1>5 DEF FirstOfTwo
    <1>6. CASE winner # artist1 /\ winner # artist2
        BY <1>3, <1>6 DEF FirstOfTwo
    <1> QED BY <1>4, <1>5, <1>6

\* A ticket, a replay or a sponsorship books at most a cent more than was paid,
\* and the shares of two artists add up to their pool exactly.
THEOREM EventsAreSharedWithinACent ==
    ASSUME NEW total \in Nat, NEW pct, SharesWithinWhole(pct),
           NEW artist1, NEW artist2, NEW manager, NEW winner
    PROVE  LET d == EventSplit(total, pct, artist1, artist2, manager, winner)
           IN  Amounted(d) /\ Booked(d) <= total + 1
    <1> DEFINE pool == Share(total, pct.artists)
               alone == Share(total, pct.artist + pct.artists)
               cut == Share(total, pct.platform)
               forManager == Share(total, pct.manager)
               two == artist1 # NoUser /\ artist2 # NoUser
               split == FirstOfTwo(pool, pct, artist1, artist2, winner)
               d == EventSplit(total, pct, artist1, artist2, manager, winner)
    <1>1. /\ pct \in Section /\ pct.winnerShare <= Whole /\ Whole \in Nat
          /\ pct.platform \in Nat /\ pct.artist \in Nat
          /\ pct.artists \in Nat /\ pct.manager \in Nat
          /\ pct.platform + pct.artist + pct.artists + pct.manager <= Whole
        BY WholeAssumption DEF SharesWithinWhole, Section
    <1>2. pool \in Nat /\ cut \in Nat /\ forManager \in Nat /\ alone \in Nat
        <2>1. pct.artist + pct.artists \in Nat
            BY <1>1
        <2> QED BY <1>1, <2>1, ShareNat
    <1>3. cut + pool + forManager <= total + 1
        <2>1. pct.platform + pct.artists + pct.manager <= Whole
            BY <1>1
        <2> QED BY ONLY <1>1, <2>1, ThreeShares, total \in Nat
    <1>4. cut + alone + forManager <= total + 1
        <2> DEFINE both == pct.artist + pct.artists
        <2>1. both \in Nat /\ pct.platform + both + pct.manager <= Whole
            BY <1>1
        <2> HIDE DEF both
        <2>2. cut + Share(total, both) + forManager <= total + 1
            BY ONLY <1>1, <2>1, ThreeShares, total \in Nat
        <2> QED BY <2>2 DEF both
    <1>5. split \in Nat /\ split <= pool
        BY <1>1, <1>2, FirstWithinPool
    <1>6. d.platform = cut /\ d.managerCredits = forManager
        BY DEF EventSplit
    <1>7. CASE two
        <2>1. d.credits1 = split /\ d.credits2 = pool - split
            BY <1>7 DEF EventSplit
        <2> HIDE DEF d, cut, pool, alone, forManager, split
        <2> QED BY <1>2, <1>3, <1>5, <1>6, <2>1 DEF Amounted, Booked, d
    <1>8. CASE ~two /\ artist1 # NoUser
        <2>1. d.credits1 = alone /\ d.credits2 = 0
            BY <1>8 DEF EventSplit
        <2> HIDE DEF d, cut, pool, alone, forManager, split
        <2> QED BY <1>2, <1>4, <1>6, <2>1 DEF Amounted, Booked, d
    <1>9. CASE ~two /\ artist1 = NoUser
        <2>1. d.credits1 = 0 /\ d.credits2 = 0
            BY <1>9 DEF EventSplit
        <2> HIDE DEF d, cut, pool, alone, forManager, split
        <2> QED BY <1>2, <1>3, <1>6, <2>1 DEF Amounted, Booked, d
    <1> QED BY <1>7, <1>8, <1>9

\* The whole procedure: nothing negative is booked, and at most a cent more
\* than the charge.
THEOREM DistributionWithinACent ==
    ASSUME NEW source \in SimpleSources \cup SponsorSources \cup EventSources,
           NEW total \in Nat,
           \A key \in DOMAIN Sections : SharesWithinWhole(Sections[key]),
           NEW artist1, NEW artist2, NEW manager, NEW winner
    PROVE  LET d == Distribute(source, total, artist1, artist2, manager, winner)
           IN  Amounted(d) /\ Booked(d) <= total + 1
    <1> DEFINE key == SectionKey(source)
               pct == Sections[key]
               d == Distribute(source, total, artist1, artist2, manager, winner)
    <1>1. CASE total <= 0 \/ key \notin DOMAIN Sections
        <2>1. d = Undistributed
            BY <1>1 DEF Distribute
        <2> QED BY <2>1 DEF Undistributed, Amounted, Booked
    <1>2. CASE /\ total > 0 /\ key \in DOMAIN Sections
               /\ source \in SponsorSources /\ ~pct.enabled
               /\ source \notin SimpleSources
        <2>1. d = [Undistributed EXCEPT !.platform = total]
            BY <1>2 DEF Distribute
        <2> QED BY <2>1 DEF Undistributed, Amounted, Booked
    <1>3. CASE /\ total > 0 /\ key \in DOMAIN Sections /\ source \in SimpleSources
        <2>2. d = SimpleSplit(total, Share(total, pct.platform), artist1)
            BY <1>3 DEF Distribute
        <2>3. pct.platform \in Nat /\ pct.platform <= Whole
            BY <1>3, WholeAssumption DEF SharesWithinWhole, Section
        <2>4. Share(total, pct.platform) \in Nat /\ Share(total, pct.platform) <= total
            BY <2>3, ShareWithin
        <2>5. Amounted(d) /\ Booked(d) <= total
            BY <2>2, <2>4, GiftsAreSharedExactly
        <2>6. Booked(d) \in Int
            <3> HIDE DEF d
            <3> QED BY <2>5 DEF Amounted, Booked
        <2> HIDE DEF d
        <2> QED BY <2>5, <2>6 DEF d
    <1>4. CASE /\ total > 0 /\ key \in DOMAIN Sections /\ source \notin SimpleSources
               /\ ~(source \in SponsorSources /\ ~pct.enabled)
        <2>1. d = EventSplit(total, pct, artist1, artist2, manager, winner)
            BY <1>4 DEF Distribute
        <2>2. SharesWithinWhole(pct)
            BY <1>4
        <2> QED BY <2>1, <2>2, EventsAreSharedWithinACent
    <1> QED BY <1>1, <1>2, <1>3, <1>4
=============================================================================
