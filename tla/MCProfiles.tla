----------------------------- MODULE MCProfiles -----------------------------
(***************************************************************************)
(* Profiles for TLC: a prospect and an estate that suit each other, and a  *)
(* value or two on either side of every boundary of the score.             *)
(***************************************************************************)
EXTENDS Profiles

R(a, b) == [min |-> a, max |-> b]
Adult(age) == [age |-> age, clean |-> TRUE, arrears |-> FALSE]

Suitable == [
    active |-> TRUE, members |-> <<Adult(30)>>, income |-> 400, pets |-> "no",
    budgetMin |-> 0, budgetMax |-> 150, utilities |-> FALSE, transfer |-> None,
    rentStart |-> None, stay |-> None, rooms |-> R(2, 3), space |-> R(50, 60), floor |-> R(0, 3),
    aptTypes |-> {"flat"}, houseTypes |-> {}, options |-> {}, levels |-> {}]

TenantInput == [
    income |-> {0, 300}, pets |-> {"small"}, budgetMin |-> {160},
    budgetMax |-> {0, 30, 130}, utilities |-> {TRUE},
    transfer |-> {R(1, 2)}, rentStart |-> {10}, stay |-> {R(30, 90)},
    rooms |-> {None, R(2, 2), R(4, 4)}, space |-> {None, R(50, 53), R(48, 53)},
    floor |-> {None, R(1, 2), R(0, 0)}, aptTypes |-> {{}, {"loft"}}, houseTypes |-> {{"villa"}},
    options |-> {{"lift"}, {"furnished", "lift"}}, levels |-> {{"I"}}]

Flat == [
    inside |-> TRUE, shortTerm |-> FALSE, price |-> 140, budget |-> 350, transfer |-> 0,
    rooms |-> 3, area |-> 55, floor |-> 2, floors |-> 3, vacant |-> 0, rentEnd |-> None,
    aptType |-> "flat", houseType |-> None, options |-> {"furnished"}, levels |-> {},
    sources |-> {"employee"}, arrears |-> FALSE, ages |-> R(25, 65), family |-> R(1, 2), pets |-> "no"]

EstateInput == [
    inside |-> {FALSE}, shortTerm |-> {TRUE}, price |-> {0, 110, 160}, budget |-> {0, 420},
    transfer |-> {3}, rooms |-> {0, 6}, area |-> {0, 48}, floor |-> {None, 5}, floors |-> {0},
    vacant |-> {None, -1, 200}, rentEnd |-> {60}, aptType |-> {"loft"}, houseType |-> {"villa"},
    options |-> {{}, {"lift"}}, levels |-> {{"I"}}, sources |-> {{}},
    arrears |-> {TRUE}, ages |-> {R(0, 65), R(32, 40), R(28, 65), R(18, 27)},
    family |-> {R(0, 0), R(2, 3), R(3, 3)}, pets |-> {"small"}]

More == {Adult(68), Adult(22), [age |-> None, clean |-> FALSE, arrears |-> TRUE]}
=============================================================================
