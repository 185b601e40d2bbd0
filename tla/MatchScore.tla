----------------------------- MODULE MatchScore -----------------------------
(***************************************************************************)
(* Which estates the search finds for a prospect (filterEstates), and how  *)
(* well a prospect and an estate score for each other                      *)
(* (calculateMatchPercent).  Both read the same profile, 2500 lines apart, *)
(* with different ideas of what an empty field and a boundary mean.        *)
(***************************************************************************)
EXTENDS Integers, Sequences, FiniteSets

CONSTANTS
    Scale,      \* a criterion that is met; scores are fractions of it, rounded down
    HalfYear,   \* days
    Year,
    Mandatory,  \* MANDATORY_AMENITIES
    Furnished,  \* the amenity that short-term offers have without saying so
    Sources,    \* income types
    None        \* null: no range, no type, no date, no birthday

ASSUME ScoreAssumption ==
    /\ Scale \in Nat \ {0}
    /\ HalfYear \in Nat \ {0}
    /\ Year \in Nat \ {0}
    /\ HalfYear < Year

Span == [min : Nat, max : Nat]

\* An adult: his age, whether his credit history is clean, whether he owes rent.
Member == [age : Nat \cup {None}, clean : BOOLEAN, arrears : BOOLEAN]

-----------------------------------------------------------------------------
\* calculateLandlordScore.

Part(n, d) == (Scale * n) \div d

\* x || 1
OrOne(n) == IF n = 0 THEN 1 ELSE n

\* Mutant: not cut off at zero.
FallBelowZero(d, f) == Part(f - 10 * d, f)

\* The score at distance d from what is wanted; the factor is in tenths.
Fall(d, f) == IF 10 * d >= f THEN 0 ELSE Part(f - 10 * d, f)

\* Mutant: the distance above is taken from the wrong end.
WithinMin(x, r, below, above) ==
    IF r.min <= x /\ x <= r.max THEN Scale
    ELSE IF x > r.max THEN Fall(x - r.min, above) ELSE Fall(r.min - x, below)

Within(x, r, below, above) ==
    IF r.min <= x /\ x <= r.max THEN Scale
    ELSE IF x > r.max THEN Fall(x - r.max, above) ELSE Fall(r.min - x, below)

\* 1 - 10 * n / d, cut off at zero.
Excess(n, d) == IF 10 * n >= d THEN 0 ELSE Part(d - 10 * n, d)

\* The share of his income that the prospect would pay, against the share of
\* the income that the landlord asks for.
LandlordBudgetScore(p, e) ==
    IF e.price = 0 \/ (e.budget # 0 /\ e.budget <= p.income) THEN Scale
    ELSE IF e.budget = 0 THEN Excess(e.price, p.income)
    ELSE Excess(e.price * (e.budget - p.income), p.income * e.budget)

CreditScore(p) ==
    Part(Cardinality({i \in DOMAIN p.members : p.members[i].clean}), Len(p.members))

ArrearsScore(p, e) ==
    IF e.arrears \/ \A i \in DOMAIN p.members : ~p.members[i].arrears THEN Scale ELSE 0

Ages(p) == {p.members[i].age : i \in DOMAIN p.members} \ {None}

\* An age that is missing is out of range; of those that are there, the highest
\* counts if it is too high, the lowest otherwise.
AgeScore(p, e) ==
    IF e.ages.min = 0 \/ e.ages.max = 0 THEN 0
    ELSE IF \A i \in DOMAIN p.members : /\ p.members[i].age # None
                                        /\ e.ages.min <= p.members[i].age
                                        /\ p.members[i].age <= e.ages.max THEN Scale
    ELSE IF \E a \in Ages(p) : a > e.ages.max
         THEN Fall((CHOOSE a \in Ages(p) : \A b \in Ages(p) : b <= a) - e.ages.max, 51)
    ELSE IF \E a \in Ages(p) : a < e.ages.min
         THEN Fall(e.ages.min - (CHOOSE a \in Ages(p) : \A b \in Ages(p) : a <= b), 51)
    ELSE 0

HouseholdScore(p, e) ==
    Within(Len(p.members), [min |-> OrOne(e.family.min), max |-> OrOne(e.family.max)], 11, 11)

\* Weights in tenths; 40 is all of them.
LandlordScore(p, e) ==
    IF \/ ~p.active \/ p.income = 0 \/ e.price > p.income
       \/ LandlordBudgetScore(p, e) = 0 \/ AgeScore(p, e) = 0 \/ HouseholdScore(p, e) = 0
    THEN 0
    ELSE 10 * LandlordBudgetScore(p, e) + 10 * CreditScore(p) + 10 * ArrearsScore(p, e)
         + 6 * AgeScore(p, e) + 3 * HouseholdScore(p, e) + (IF p.pets = e.pets THEN Scale ELSE 0)

-----------------------------------------------------------------------------
\* calculateProspectScore.

ProspectBudgetScore(p, e) ==
    IF p.income = 0 \/ e.price > p.income THEN 0
    ELSE IF e.price <= p.budgetMax THEN Scale
    ELSE Excess(e.price - p.budgetMax, p.income)

\* No range is zero to one.
Wanted(r) == IF r = None THEN [min |-> 0, max |-> 1] ELSE [r EXCEPT !.max = OrOne(@)]

RoomsScore(p, e) == Within(OrOne(e.rooms), Wanted(p.rooms), 15, 25)
SpaceScore(p, e) == Within(e.area, Wanted(p.space), 51, 101)

\* The floors of the house, against the floor that the prospect wants.
FloorScore(p, e) ==
    Within(e.floors, IF p.floor = None THEN [min |-> 0, max |-> 0] ELSE p.floor, 11, 11)

RentStartScore(e) ==
    IF e.vacant = None THEN Scale
    ELSE IF e.vacant < 0 \/ e.vacant >= Year THEN 0
    ELSE IF e.vacant <= HalfYear THEN Scale
    ELSE Part(Year - e.vacant, Year - HalfYear)

AmenitiesScore(p, e) ==
    IF p.options = {} THEN Scale
    ELSE Part(Cardinality(p.options \cap e.options), Cardinality(p.options))

ProspectScore(p, e) ==
    IF \/ ProspectBudgetScore(p, e) = 0 \/ RoomsScore(p, e) = 0 \/ SpaceScore(p, e) = 0
       \/ (p.options \cap Mandatory) \ e.options # {}
    THEN 0
    ELSE 20 * ProspectBudgetScore(p, e) + 2 * RoomsScore(p, e) + 4 * SpaceScore(p, e)
         + 3 * FloorScore(p, e) + 5 * RentStartScore(e)
         + (IF e.aptType \in p.aptTypes THEN Scale ELSE 0)
         + (IF e.houseType \in p.houseTypes THEN Scale ELSE 0)
         + 4 * AmenitiesScore(p, e)

-----------------------------------------------------------------------------
\* calculateMatchPercent.  getIncomes puts its condition on the user behind an OR:
\* proofs are the income types that anybody has proved.

StayFits(p, e) ==
    \/ p.stay = None
    \/ IF e.inside
       THEN /\ e.vacant # None /\ e.rentEnd # None
            /\ p.stay.min <= e.rentEnd - e.vacant /\ e.rentEnd - e.vacant <= p.stay.max
       ELSE e.shortTerm

\* What is scored: a row of getEstateForScoringQuery, which has no rent_end_at, or
\* an offer with OHNE_MAKLER_DEFAULT_PREFERENCES_FOR_MATCH_SCORING.
Scored(e) ==
    IF e.inside THEN [e EXCEPT !.rentEnd = None]
    ELSE [e EXCEPT !.sources = Sources, !.budget = 30, !.arrears = FALSE, !.pets = "small",
                   !.ages = [min |-> 25, max |-> 65], !.family = [min |-> 1, max |-> 2]]

MatchPercent(p, e, proofs) ==
    IF StayFits(p, Scored(e)) /\ proofs \cap Scored(e).sources # {}
    THEN [landlord |-> LandlordScore(p, Scored(e)), prospect |-> ProspectScore(p, Scored(e))]
    ELSE [landlord |-> 0, prospect |-> 0]

-----------------------------------------------------------------------------
\* filterEstates.

\* Up to 100, a budget is a percentage of the income.
Limit(budget, income) == IF budget > 100 THEN budget ELSE (budget * income) \div 100

\* net_rent and extra_costs arrive as text: their sum is no number, and no budget
\* admits it.
BudgetFits(p, e) ==
    \/ Limit(p.budgetMax, p.income) = 0
    \/ /\ ~p.utilities
       /\ Limit(p.budgetMin, p.income) <= e.price
       /\ e.price <= Limit(p.budgetMax, p.income)

TransferFits(p, e) ==
    \/ p.transfer = None \/ e.transfer = 0
    \/ p.transfer.min <= e.transfer /\ e.transfer <= p.transfer.max

RentStartFits(p, e) ==
    \/ p.rentStart = None \/ ~e.inside \/ e.vacant = None
    \/ e.vacant >= p.rentStart \/ e.vacant <= 0

\* Mutant: the upper end is not looked at.
RoomsFitMin(p, e) == p.rooms = None \/ e.rooms = 0 \/ OrOne(p.rooms.min) <= e.rooms

RoomsFit(p, e) ==
    \/ p.rooms = None \/ e.rooms = 0
    \/ OrOne(p.rooms.min) <= e.rooms /\ e.rooms <= OrOne(p.rooms.max)

\* A highest floor of zero is none: 20.
FloorFits(p, e) ==
    \/ p.floor = None \/ e.floor = None
    \/ /\ p.floor.min <= e.floor
       /\ e.floor <= IF p.floor.max = 0 THEN 20 ELSE p.floor.max

SpaceFits(p, e) ==
    \/ p.space = None \/ e.area = 0
    \/ OrOne(p.space.min) <= e.area /\ e.area <= OrOne(p.space.max)

TypesFit(p, e) ==
    /\ p.aptTypes = {} \/ e.aptType \in p.aptTypes \cup {None}
    /\ p.houseTypes = {} \/ e.houseType \in p.houseTypes \cup {None}

\* is_public_certificate is set when there are income levels; an offer only says
\* whether it needs a certificate.
CertificateFits(p, e) ==
    \/ p.levels = {}
    \/ IF e.inside THEN p.levels \cap e.levels # {} ELSE e.levels # {}

OptionsFit(p, e) ==
    p.options \subseteq e.options \cup (IF ~e.inside /\ e.shortTerm THEN {Furnished} ELSE {})

Found(p, e) ==
    /\ BudgetFits(p, e) /\ TransferFits(p, e) /\ RentStartFits(p, e) /\ StayFits(p, e)
    /\ RoomsFit(p, e) /\ FloorFits(p, e) /\ SpaceFits(p, e)
    /\ TypesFit(p, e) /\ CertificateFits(p, e) /\ OptionsFit(p, e)
=============================================================================
