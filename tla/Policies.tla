------------------------------ MODULE Policies ------------------------------
(***************************************************************************)
(* What the policies of auth/auth.go say about roles, as far as approvals  *)
(* and one-time codes depend on it.                                        *)
(***************************************************************************)
CONSTANTS
    Roles,          \* RoleID
    Operations,     \* the sensitive actions: "ShredKey", "EmergencySeal", ...
    QuorumRoles,    \* roles whose policy has RequireQuorum > 0
    MfaRoles        \* roles whose policy has RequireMFA

ASSUME PolicyAssumption == QuorumRoles \subseteq Roles /\ MfaRoles \subseteq Roles
=============================================================================
