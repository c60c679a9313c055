---------------------------- MODULE MCAuditedWrites ----------------------------
(* Instance of AuditedWrites for TLC.                                      *)
EXTENDS AuditedWrites, TLC

\* Everything is named by nothing but its identity.
Symmetric ==
  Permutations(Sessions) \union Permutations(Tenants) \union Permutations(Campaigns)
    \union Permutations(Versions) \union Permutations(Hashes) \union Permutations(Ids)
=============================================================================
