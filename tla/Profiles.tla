------------------------------ MODULE Profiles ------------------------------
(***************************************************************************)
(* A prospect and an estate whose profiles change while they are searched  *)
(* and scored.  Every change makes the code search or score again, so what *)
(* it stores is a function of the profiles; dates are relative to today.   *)
(***************************************************************************)
EXTENDS MatchScore

CONSTANTS
    FirstProspect,   \* the profiles at first
    FirstEstate,
    ProspectValues,  \* what is entered into the fields of a profile
    EstateValues,
    Members,         \* adults that can be added
    MaxEdits         \* bound: fields that differ from the first profiles, and members

VARIABLES
    prospect,  \* what getProspectForScoringQuery and the tenant's row say
    estate,    \* what getEstateForScoringQuery and the estate's row say
    proofs     \* income types with a proof that has not expired

vars == <<prospect, estate, proofs>>

\* A tenant and his members.
ProspectTypes == [
    active |-> BOOLEAN, members |-> Seq(Member) \ {<<>>}, income |-> Nat, pets |-> {"no", "small"},
    budgetMin |-> Nat, budgetMax |-> Nat, utilities |-> BOOLEAN, transfer |-> Span \cup {None},
    rentStart |-> Int \cup {None}, stay |-> Span \cup {None}, rooms |-> Span \cup {None},
    space |-> Span \cup {None}, floor |-> Span \cup {None}, aptTypes |-> SUBSET STRING,
    houseTypes |-> SUBSET STRING, options |-> SUBSET STRING, levels |-> SUBSET STRING]

\* A row of estates, or of third_party_offers if it is not inside; zero and null
\* are the same for the code except where there is a None.
EstateTypes == [
    inside |-> BOOLEAN, shortTerm |-> BOOLEAN, price |-> Nat, budget |-> Nat, transfer |-> Nat,
    rooms |-> Nat, area |-> Nat, floor |-> Nat \cup {None}, floors |-> Nat,
    vacant |-> Int \cup {None}, rentEnd |-> Int \cup {None}, aptType |-> STRING \cup {None},
    houseType |-> STRING \cup {None}, options |-> SUBSET STRING, levels |-> SUBSET STRING,
    sources |-> SUBSET STRING, arrears |-> BOOLEAN, ages |-> Span, family |-> Span,
    pets |-> {"no", "small"}]

Fits(r, types) == DOMAIN r = DOMAIN types /\ \A f \in DOMAIN types : r[f] \in types[f]

ASSUME ProfilesAssumption ==
    /\ Fits(FirstProspect, ProspectTypes) /\ Fits(FirstEstate, EstateTypes)
    /\ \A f \in DOMAIN ProspectValues :
          /\ f \in DOMAIN ProspectTypes \ {"active", "members"}
          /\ ProspectValues[f] \subseteq ProspectTypes[f]
    /\ \A f \in DOMAIN EstateValues :
          f \in DOMAIN EstateTypes /\ EstateValues[f] \subseteq EstateTypes[f]
    /\ Members \subseteq Member

\* The amenities of a profile are rows of a table.
ASSUME OptionsAssumption ==
    /\ IsFiniteSet(FirstProspect.options)
    /\ "options" \in DOMAIN ProspectValues => \A v \in ProspectValues["options"] : IsFiniteSet(v)

TypeOK == Fits(prospect, ProspectTypes) /\ Fits(estate, EstateTypes) /\ proofs \subseteq Sources

Init ==
    /\ prospect = FirstProspect
    /\ estate = FirstEstate
    /\ proofs \in SUBSET Sources

-----------------------------------------------------------------------------
Edited(r, first) == {f \in DOMAIN first : r[f] # first[f]}
Bounded ==
    Cardinality(Edited(prospect', FirstProspect)) + Cardinality(Edited(estate', FirstEstate))
      + Len(prospect'.members) - 1 <= MaxEdits

\* What the prospect looks for is in updateIgnoreFields: he stays active.
UpdateTenant(f, v) ==
    /\ prospect' = [prospect EXCEPT ![f] = v]
    /\ UNCHANGED <<estate, proofs>>
    /\ Bounded

\* Another change fires tenant::update, and the tenant stays active if
\* activateTenant still succeeds.
WithPerson(f, v) ==
    /\ \E active \in {FALSE, prospect.active} :
          prospect' = [prospect EXCEPT ![f] = v, !.active = active]
    /\ UNCHANGED <<estate, proofs>>
    /\ Bounded

AddMember(m) == WithPerson("members", Append(prospect.members, m))

Without(i) == [j \in 1 .. Len(prospect.members) - 1 |-> prospect.members[IF j < i THEN j ELSE j + 1]]

\* Mutant: the main member too.
RemoveAnyMember(i) == WithPerson("members", Without(i))

\* The main member is not removed.
RemoveMember(i) == i # 1 /\ WithPerson("members", Without(i))

ActivateTenant ==
    /\ prospect' = [prospect EXCEPT !.active = ~@]
    /\ UNCHANGED <<estate, proofs>>
    /\ Bounded

UpdateEstate(f, v) ==
    /\ estate' = [estate EXCEPT ![f] = v]
    /\ UNCHANGED <<prospect, proofs>>
    /\ Bounded

\* Somebody proves an income, or a proof expires.
ChangeProofs(type) ==
    /\ proofs' = (proofs \ {type}) \cup ({type} \ proofs)
    /\ UNCHANGED <<prospect, estate>>

Next ==
    \/ \E f \in DOMAIN ProspectValues \ {"income", "pets"} :
          \E v \in ProspectValues[f] : UpdateTenant(f, v)
    \/ \E f \in DOMAIN ProspectValues \cap {"income", "pets"} :
          \E v \in ProspectValues[f] : WithPerson(f, v)
    \/ \E m \in Members : AddMember(m)
    \/ \E i \in DOMAIN prospect.members : RemoveMember(i)
    \/ ActivateTenant
    \/ \E f \in DOMAIN EstateValues : \E v \in EstateValues[f] : UpdateEstate(f, v)
    \/ \E type \in Sources : ChangeProofs(type)

Spec == Init /\ [][Next]_vars

-----------------------------------------------------------------------------
Score == MatchPercent(prospect, estate, proofs)

\* Neither side scores below zero or above a hundred percent, and who earns less
\* than the rent scores nothing on either side.
ScoresInRange ==
    LET score == Score
    IN  /\ {score.landlord, score.prospect} \subseteq 0 .. 40 * Scale
        /\ estate.price > prospect.income => score = [landlord |-> 0, prospect |-> 0]

\* The profiles on which the search and the score agree: an estate of the market
\* with its rooms and area, a prospect who has said how many rooms and how much
\* space he wants and up to which rent, can pay it and stays for good.
Comparable ==
    /\ estate.inside /\ estate.rooms # 0 /\ estate.area # 0
    /\ prospect.stay = None /\ prospect.rooms # None /\ prospect.space # None
    /\ prospect.budgetMax > 100 /\ estate.price <= prospect.income
    /\ prospect.income # 0 /\ proofs \cap estate.sources # {}

\* What the search finds is worth showing: three quarters of the prospect's
\* score, because filterEstates has tested what the big weights are about.
FoundScoresWell == Comparable /\ Found(prospect, estate) => Score.prospect >= 30 * Scale

\* The new profiles ask for no more and offer no less.
Wider(r, s) == s.min <= r.min /\ r.max <= s.max

\* No validator compares the ends of a range with each other; one whose ends are
\* exchanged is both too low and too high, and widening it may cost points.
Ordered(r) == r.min <= r.max

SameFields(r, s, fields) == \A f \in DOMAIN r \ fields : s[f] = r[f]

OneSided(p, e) ==
    /\ \A i \in DOMAIN p.members : p.members[i].age # None
    /\ \/ \A i \in DOMAIN p.members : p.members[i].age <= e.ages.max
       \/ \A i \in DOMAIN p.members : p.members[i].age >= e.ages.min

Easier(p, q, e, f) ==
    /\ SameFields(p, q, {"active", "members", "income", "budgetMax", "rooms", "space", "floor", "aptTypes", "houseTypes", "stay"})
    /\ SameFields(e, f, {"price", "budget", "ages", "family", "sources", "options", "arrears"})
    /\ p.active => q.active
    /\ Len(p.members) = Len(q.members)
    /\ \A i \in DOMAIN p.members :
          /\ q.members[i].age = p.members[i].age
          /\ p.members[i].clean => q.members[i].clean
          /\ q.members[i].arrears => p.members[i].arrears
    /\ p.income <= q.income /\ p.budgetMax <= q.budgetMax
    /\ \A field \in {"rooms", "space", "floor"} :
          p[field] # None /\ q[field] # None /\ Ordered(p[field]) /\ Wider(p[field], q[field])
    /\ p.aptTypes \subseteq q.aptTypes /\ p.houseTypes \subseteq q.houseTypes
    /\ q.stay \in {None, p.stay}
    /\ f.price <= e.price /\ 0 < f.budget /\ f.budget <= e.budget
    /\ 0 < f.ages.min /\ Wider(e.ages, f.ages) /\ OneSided(p, e)
    /\ 0 < f.family.min /\ Ordered(e.family) /\ Wider(e.family, f.family)
    /\ e.sources \subseteq f.sources /\ e.options \subseteq f.options
    /\ e.arrears => f.arrears

\* Earning more, asking for less or offering more never costs points, on either
\* side, whatever the rest of the profiles.
EasierNeverWorse ==
    [][Easier(prospect, prospect', estate, estate') /\ proofs \subseteq proofs'
       => LET old == Score
              new == Score'
          IN  old.landlord <= new.landlord /\ old.prospect <= new.prospect]_vars
=============================================================================
