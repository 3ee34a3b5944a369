------------------------------- MODULE MCAccounts ------------------------------
(* Instances of Accounts for TLC. *)
EXTENDS Accounts

TwoUsers == {"alice", "bob"}
TheirWants == [u \in TwoUsers |-> IF u = "alice" THEN {"mongodb", "redis"}
                                  ELSE {"postgres"}]

\* The tenth instance of Postgres is listed before the ninth.
TwoPods == {"p9", "p10"}
ByName == [p \in TwoPods |-> IF p = "p10" THEN 1 ELSE 2]
================================================================================
