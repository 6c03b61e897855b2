---------------------------- MODULE MCShareLink ----------------------------
(***************************************************************************)
(* Instances of ShareLink: the registry creates, revokes and expires a link.  *)
(***************************************************************************)
EXTENDS ShareLink

CONSTANTS Limits

Projected(s, u, m) == [status |-> s, used |-> u, max |-> m, expires |-> 1]

MCPayloads ==
  {Projected("active", 0, m) : m \in Limits}
    \union {Projected("revoked", 1, 2), Projected("unknown", 0, NoLimit)}
=============================================================================
