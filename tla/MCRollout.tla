----------------------------- MODULE MCRollout -----------------------------
(***************************************************************************)
(* Instances of Rollout: a release with one migration and one with two start   *)
(* over an empty database; the consumer meets a share-link event, which needs  *)
(* the first migration, and a diploma event, which needs the second.          *)
(***************************************************************************)
EXTENDS Rollout

CONSTANTS old, new

MCFiles == [r \in Replicas |-> IF r = old THEN 1 ELSE 2]
MCNeeds == [e \in 1..Events |-> e]

Setting(attempts, backoff, max) == [attempts |-> attempts, backoff |-> backoff, max |-> max]
MCRetries == {Setting(2, 1, 0), Setting(2, 2, 3), Setting(2, 4, 5)}
=============================================================================
