------------------------------- MODULE MCIdentity ------------------------------
(***************************************************************************)
(* Identity on a small instance: the seeded admin and two more names; two  *)
(* clients that change roles; one that opens and retires an account while  *)
(* another lists and opens a third; or one that changes passwords while    *)
(* somebody connects.                                                      *)
(***************************************************************************)
EXTENDS Identity, TLC

CONSTANTS c1, c2, c3, c4, r1, k1

MCParties == {{c1, c2}, {c4, r1}, {c3, k1}}

MCSymmetry == Permutations({c1, c2})

Open(users)   == [op : {"create"}, user : users, role : {"viewer"}, pw : {"first"}]
Retire(users) == [op : {"deactivate"}, user : users, role : {None}, pw : {None}]

RoleWrites ==
  Open({"ann"}) \cup Retire({Admin}) \cup
    [op : {"update"}, user : {"ann"}, role : Role, pw : {None}]

PasswordWrites == [op : {"update"}, user : {"ann"}, role : {None}, pw : Password]

MCWanted ==
  [c \in Client |-> CASE c = r1 -> Open({"bob"})
                      [] c = c3 -> Open({"ann"}) \cup Retire({Admin, "ann"}) \cup PasswordWrites
                      [] c = c4 -> Open({"ann"}) \cup Retire({"ann"})
                      [] OTHER  -> RoleWrites]

MCLogins == [c \in Client |-> IF c \in {c4, r1} THEN {Admin} ELSE {Admin, "ann"}]
================================================================================
