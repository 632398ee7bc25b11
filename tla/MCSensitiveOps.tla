--------------------------- MODULE MCSensitiveOps ---------------------------
\* SensitiveOps for TLC: calls and operations are interchangeable, and so are the
\* roles that neither a quorum nor a one-time code is asked of.
EXTENDS SensitiveOps, TLC

Symmetry == Permutations(Calls) \cup Permutations(Operations)
            \cup Permutations(Roles \ (QuorumRoles \cup MfaRoles))
=============================================================================
