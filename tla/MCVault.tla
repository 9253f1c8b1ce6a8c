------------------------------- MODULE MCVault -------------------------------
(* Small instances of Vault for TLC. *)
EXTENDS Vault, TLC

Alike == Permutations(Names) \cup Permutations(Values)
AlikeAll == Alike \cup Permutations(Clients)

\* What the audit log says, no step reads.
WithoutAudit == <<keychain, index, session, queue, call, overlap>>
=============================================================================
