---------------------------- MODULE SensitiveOps ----------------------------
(***************************************************************************)
(* mfaMiddleware of api/middleware_mfa.go over the tickets of Approvals    *)
(* and the one-time codes of Mfa: what a sensitive operation has to show   *)
(* before its handler runs.                                                *)
(***************************************************************************)
EXTENDS Mfa, Approvals

VARIABLES
    gate,       \* per role: the operation that has passed the quorum check
    passed      \* history: the last operation that reached its handler

vars == <<mfaVars, ticketVars, gate, passed>>

AtDoor == [at |-> "door"]
NoId == "none"
Nothing == [role |-> "none"]
Passed == [role : Roles, op : Operations, ticket : Tickets \cup {NoId}, secret : Nat]

TypeOK ==
    /\ MfaTypeOK /\ ApprovalTypeOK
    /\ \A r \in Roles : gate[r] # AtDoor => gate[r].op \in Operations /\ gate[r].ticket \in Tickets \cup {NoId}
    /\ passed \in Passed \cup {Nothing}

Init ==
    /\ MfaInit /\ ApprovalInit
    /\ gate = [r \in Roles |-> AtDoor]
    /\ passed = Nothing

\* The quorum check: a role whose policy asks for one names a ticket that is approved
\* for this operation.  Neither the ticket's requester nor its key nor the number of
\* votes it asked for is compared, and it may be named again.
GateQuorum(r, op, t) ==
    /\ gate[r] = AtDoor
    /\ IF r \in QuorumRoles
       THEN t \in Tickets /\ ticket[t].status = "approved" /\ ticket[t].op = op
       ELSE t = NoId
    /\ gate' = [gate EXCEPT ![r] = [at |-> "mfa", op |-> op, ticket |-> t]]
    /\ UNCHANGED <<mfaVars, ticketVars, passed>>

\* The MFA check of a role whose policy asks for one, and the handler.
GateMfa(r, code) ==
    /\ gate[r] # AtDoor
    /\ r \in MfaRoles => stored[r] # 0 /\ stored[r] \in enabled /\ ValidateTOTP(code)
    /\ passed' = [role |-> r, op |-> gate[r].op, ticket |-> gate[r].ticket,
                  secret |-> IF r \in MfaRoles THEN stored[r] ELSE 0]
    /\ gate' = [gate EXCEPT ![r] = AtDoor]
    /\ UNCHANGED <<mfaVars, ticketVars>>

\* The check fails and the request is refused.
GateRefused(r, code) ==
    /\ gate[r] # AtDoor /\ r \in MfaRoles
    /\ stored[r] = 0 \/ stored[r] \notin enabled \/ ~ValidateTOTP(code)
    /\ gate' = [gate EXCEPT ![r] = AtDoor]
    /\ UNCHANGED <<mfaVars, ticketVars, passed>>

\* The roles in neither set pass unchecked.
Next ==
    \/ MfaNext /\ UNCHANGED <<ticketVars, gate, passed>>
    \/ ApprovalNext /\ UNCHANGED <<mfaVars, gate, passed>>
    \/ \E r \in QuorumRoles \cup MfaRoles :
         \/ \E op \in Operations, t \in Tickets \cup {NoId} : GateQuorum(r, op, t)
         \/ \E code \in Codes : GateMfa(r, code) \/ GateRefused(r, code)

Spec == Init /\ [][Next]_vars

----------------------------------------------------------------------------

\* A sensitive operation ran only if, where the policy asks for a quorum, the ticket
\* it named was for this operation and as many roles besides the requester agreed as
\* the ticket asked for; and, where it asks for MFA, the secret that was stored belongs
\* to the role, whose holder had shown a code of that very secret before it was
\* enabled, whatever setups, and one verification or removal of each role at a time,
\* raced with it (middleware_mfa.go: mfaMiddleware, handler_mfa.go: handleMFAVerify).
GateHolds ==
    LET p == passed IN p # Nothing =>
        /\ p.role \in QuorumRoles =>
             /\ ticket[p.ticket].op = p.op
             /\ Cardinality(agreed[p.ticket] \ {ticket[p.ticket].by}) >= ticket[p.ticket].required
        /\ p.role \in MfaRoles => p.secret \in proved /\ owner[p.secret] = p.role
=============================================================================
