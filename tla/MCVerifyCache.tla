---------------------------- MODULE MCVerifyCache ----------------------------
(***************************************************************************)
(* Instances of VerifyCache: a diploma whose university code arrives in lower *)
(* case and then in upper case, one that shares its number and may be revoked  *)
(* or get a status NewDiploma refuses, and one whose token is reissued.        *)
(***************************************************************************)
EXTENDS VerifyCache

CONSTANTS d1, d2, Reissuing

Says(t, n, h, s) == [token |-> t, number |-> n, holder |-> h, status |-> s]

\* "n1" is the normal form of the number in "raw".
MCNormal == [v \in {"t1", "t2", "t3", "n1", "raw"} |-> IF v = "raw" THEN "n1" ELSE v]

\* The token of d1 changes only if Reissuing. d2 shares the number of d1:
\* numbers are not unique in verification_records.
MCPayloads ==
  [d \in Diplomas |->
     IF d = d1 THEN {Says("t1", "raw", "h1", "valid"), Says("t1", "n1", "h1", "revoked")}
                    \union (IF Reissuing THEN {Says("t3", "n1", "h1", "valid")} ELSE {})
     ELSE {Says("t2", "n1", "h2", "valid"), Says("t2", "n1", "h2", "expired")}]
=============================================================================
