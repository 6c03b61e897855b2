---------------------------- MODULE MCAccounts ----------------------------
(***************************************************************************)
(* An instance of Accounts: two diplomas with the same number n1, the         *)
(* correction of the first one's number to n2 (whose account finds its id      *)
(* taken, if the first got one under n1), the second one's to the number n3 of *)
(* a seeded account, an incomplete event, and a seeded university account.    *)
(***************************************************************************)
EXTENDS Accounts

CONSTANTS d1, d2, demo, n1, n2, n3, uni, u1, s1, s2

MCDiploma  == [e \in 1..5 |-> IF e \in {1, 3} THEN d1 ELSE d2]
MCNumber   == [e \in 1..5 |-> CASE e \in {1, 2} -> n1 [] e = 3 -> n2 [] OTHER -> n3]
MCComplete == [e \in 1..5 |-> e # 5]
MCSeeds    == {[id |-> s1, login |-> n3, role |-> "student", diploma |-> demo, university |-> Nothing],
               [id |-> s2, login |-> uni, role |-> "university", diploma |-> Nothing, university |-> u1]}
=============================================================================
