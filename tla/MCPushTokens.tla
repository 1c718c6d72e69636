---------------------------- MODULE MCPushTokens ----------------------------
(***************************************************************************)
(* PushTokens with interchangeable members, phones, tokens and calls.       *)
(***************************************************************************)
EXTENDS PushTokens, TLC

CONSTANTS ann, ben, p1, p2, t1, t2, c1, c2

Symmetry == Permutations({ann, ben}) \union Permutations({p1, p2})
              \union Permutations({t1, t2}) \union Permutations({c1, c2})
=============================================================================
