------------------------------ MODULE TierPricing ------------------------------
(***************************************************************************)
(* The price of usage in one dimension: what validateDimensionTiers asks of*)
(* a list of volume tiers, and what CalculateDimensionWithTiers charges.   *)
(* A tier is a record [min, max, price]; usage is counted in units, so the *)
(* division by the size of a unit is left out, and prices are integers.    *)
(***************************************************************************)
EXTENDS Integers, FiniteSetsExt

CONSTANT NoMax  \* TierMax of an unlimited tier

Unlimited(t) == t.max = NoMax

-----------------------------------------------------------------------------

\* t is the next tier after s in the order of their starts.
Follows(t, s, T) ==
    /\ s.min < t.min
    /\ ~ \E r \in T : s.min < r.min /\ r.min < t.min

\* Tiers start at 0, are contiguous, and only the last may be unlimited.
ValidTiers(T) ==
    /\ T # {} => \E t \in T : t.min = 0
    /\ \A s, t \in T : s # t => s.min # t.min
    /\ \A s, t \in T : Follows(t, s, T) => s.max = t.min
    /\ \A t \in T : ~Unlimited(t) => t.max > t.min

-----------------------------------------------------------------------------

Larger(a, b)  == IF a < b THEN b ELSE a
Smaller(a, b) == IF a < b THEN a ELSE b

\* Billable usage [free, usage) that falls into a tier; not positive if none.
Overlap(t, free, usage) ==
    (IF Unlimited(t) THEN usage ELSE Smaller(usage, t.max)) - Larger(free, t.min)

\* A tier that is charged and takes the rest of the usage ends the loop.
Ends(t, free, usage) ==
    /\ Overlap(t, free, usage) > 0
    /\ ~Unlimited(t) => usage <= t.max

\* The tiers that are visited: in the order of their starts, until one ends the
\* loop.  Tiers of one valid list never start together.
Visited(T, free, usage) ==
    {t \in T : ~ \E s \in T : s.min < t.min /\ Ends(s, free, usage)}

Charge(t, free, usage) == Larger(0, Overlap(t, free, usage)) * t.price

\* Mutant: tiers are laid over the billable usage, not over the whole usage.
CostFromZero(T, free, usage, flat) ==
    IF usage <= free THEN 0
    ELSE IF T = {} THEN (usage - free) * flat
    ELSE MapThenSumSet(LAMBDA t : Charge(t, 0, usage - free),
                       Visited(T, 0, usage - free))

\* CalculateDimensionWithTiers: what the visited tiers charge; without a tier,
\* the flat price.
Cost(T, free, usage, flat) ==
    IF usage <= free THEN 0
    ELSE IF T = {} THEN (usage - free) * flat
    ELSE MapThenSumSet(LAMBDA t : Charge(t, free, usage), Visited(T, free, usage))

-----------------------------------------------------------------------------

\* The price of one unit of usage: its position chooses the tier; beyond the
\* last tier of a bounded list nothing is charged.
UnitPrice(T, x, flat) ==
    IF T = {} THEN flat
    ELSE MapThenSumSet(LAMBDA t : t.price,
                       {t \in T : t.min <= x /\ (Unlimited(t) \/ x < t.max)})

\* The reference: every unit beyond the free ones at the price of its place.
CostByUnit(T, free, usage, flat) ==
    MapThenSumSet(LAMBDA x : UnitPrice(T, x, flat), free .. (usage - 1))
=============================================================================
