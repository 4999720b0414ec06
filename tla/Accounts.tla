-------------------------------- MODULE Accounts -------------------------------
(***************************************************************************)
(* What user administration promises of the users table, whatever          *)
(* requests, logins and restarts do: an account is opened once, by the     *)
(* seed or by an administrator; only an administrator changes it, that is  *)
(* somebody who was an active admin at most Lag ago; and once retired it   *)
(* stays as it is.                                                         *)
(***************************************************************************)
EXTENDS Naturals

CONSTANTS
  Name, Admin,     \* the users, and the one who is seeded
  Role, Password,
  Absent,          \* no row
  Lag              \* how long an administrator's authority outlives its end

VARIABLES
  clock,
  row,      \* row[u]: the row of the users table, or Absent
  adminAt   \* adminAt[u]: when u was last an active admin, 0 for never

Row == [role : Role, active : BOOLEAN, pw : Password]

Active(u)  == row[u] # Absent /\ row[u].active
IsAdmin(u) == Active(u) /\ row[u].role = "admin"
Retired(u) == row[u] # Absent /\ ~row[u].active

Init ==
  /\ clock = 1
  /\ \E p \in Password :
       row = [u \in Name |->
                IF u = Admin THEN [role |-> "admin", active |-> TRUE, pw |-> p] ELSE Absent]
  /\ adminAt = [u \in Name |-> IF u = Admin THEN 1 ELSE 0]

(* adminAt follows the table. *)
Note == adminAt' = [u \in Name |-> IF IsAdmin(u)' THEN clock' ELSE adminAt[u]]

(* An administrator opens, changes or retires an account, their own included. *)
Change ==
  /\ \E a \in Name : adminAt[a] > 0 /\ clock <= adminAt[a] + Lag
  /\ \E u \in Name, r \in Row :
       /\ ~Retired(u)
       /\ r.active \/ Active(u)
       /\ row' = [row EXCEPT ![u] = r]
  /\ UNCHANGED clock
  /\ Note

Pass == clock' = clock + 1 /\ UNCHANGED row /\ Note

Next == Change \/ Pass

Spec == Init /\ [][Next]_<<clock, row, adminAt>>
================================================================================
