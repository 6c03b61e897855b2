--------------------------- MODULE SchemaContract ---------------------------
(***************************************************************************)
(* What the migrations promise to everything that uses the database: the     *)
(* files are applied in their order, the changes of a file and its row in     *)
(* schema_migrations appear together, once, and nothing is taken back.        *)
(*                                                                         *)
(* Rollout implements this specification.                                    *)
(***************************************************************************)
EXTENDS Naturals, FiniteSets

CONSTANT Versions   \* the migrations, 1..N in the order of their files

VARIABLES
  installed,  \* migrations whose changes are in the database
  recorded    \* migrations that have a row in schema_migrations

Init == installed = {} /\ recorded = {}

Advance(v) ==
  /\ recorded = 1..(v - 1)
  /\ installed' = installed \union {v}
  /\ recorded' = recorded \union {v}

Next == \E v \in Versions : Advance(v)

Spec == Init /\ [][Next]_<<installed, recorded>>
=============================================================================
