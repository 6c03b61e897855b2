----------------------------- MODULE MCConsumer -----------------------------
(***************************************************************************)
(* Instances of Consumer for TLC. Two topics of one partition each: events   *)
(* of one diploma, and of one share link, each with poison.                  *)
(***************************************************************************)
EXTENDS Consumer

CONSTANTS
  issued, revoked,   \* two events of one diploma, in this order upstream;
                     \* the second comes without the student's name
  renumbered,        \* an event of that diploma that changes its number
  shared,            \* a share-link event
  unknown,           \* an event of an unsupported type, on the diploma topic
  garbage,           \* a record that is not an event envelope
  diplomas, links,   \* partitions
  diploma, link      \* rows

MCHome == [e \in Events |-> IF e \in {issued, revoked, renumbered, unknown} THEN diplomas ELSE links]
MCKey  == [e \in Events |-> IF e \in {issued, revoked, renumbered, unknown} THEN diploma ELSE link]
MCKind == [e \in Events |->
            CASE e = issued -> "diploma"
              [] e = revoked -> "nameless"
              [] e = renumbered -> "conflict"
              [] e = shared -> "sharelink"
              [] e = unknown -> "rejected"
              [] e = garbage -> "malformed"]
=============================================================================
