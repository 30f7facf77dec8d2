--------------------------- MODULE MCOrgMembership ---------------------------
(* An instance of OrgMembership for TLC; requests are interchangeable. *)
EXTENDS OrgMembership, TLC

RequestSymmetry == Permutations(Requests)
=============================================================================
