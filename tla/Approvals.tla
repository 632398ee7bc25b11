------------------------------ MODULE Approvals -----------------------------
(***************************************************************************)
(* Quorum approvals: the handlers of api/handler_approval.go on the        *)
(* in-memory store of auth/approval_store_memory.go.  GetTicket returns a  *)
(* copy and UpdateTicket replaces the ticket, so a decision is two steps,  *)
(* and what happens to the ticket between them is overwritten.             *)
(***************************************************************************)
EXTENDS Policies, Integers, FiniteSets, Sequences

CONSTANTS
    Tickets,        \* ids of tickets
    Calls           \* HTTP calls that may be in progress at the same time

VARIABLES
    ticket,     \* MemoryApprovalStore.tickets
    expired,    \* the tickets past their ExpiresAt
    call,       \* per call: the copy it is about to write
    agreed      \* history: the roles that asked to approve a ticket

ticketVars == <<ticket, expired, call, agreed>>

NoTicket == [status |-> "none"]
NoWrite == [of |-> "none"]

\* `stale` is history: another decision was written since the copy was made.
Statuses == {"pending", "approved", "rejected", "expired"}
Required == 1 .. Cardinality(Roles)
ApprovalTicket == [status : Statuses, op : Operations, by : Roles, required : Required,
                   approvers : Seq(Roles), rejectors : Seq(Roles)]

ApprovalTypeOK ==
    /\ \A t \in Tickets : ticket[t] = NoTicket \/ ticket[t] \in ApprovalTicket
    /\ expired \subseteq Tickets
    /\ \A c \in Calls : call[c] # NoWrite =>
         /\ call[c].of \in Tickets /\ call[c].stale \in BOOLEAN
         /\ call[c].copy \in ApprovalTicket
    /\ agreed \in [Tickets -> SUBSET Roles]

ApprovalInit ==
    /\ ticket = [t \in Tickets |-> NoTicket]
    /\ expired = {}
    /\ call = [c \in Calls |-> NoWrite]
    /\ agreed = [t \in Tickets |-> {}]

\* MemoryApprovalStore copies a ticket on the way in and on the way out.
GetTicket(t) == ticket[t]
CreateTicket(t, new) == ticket[t] = NoTicket /\ ticket' = [ticket EXCEPT ![t] = new]

IsApprovalComplete(approvers, required) == Len(approvers) >= required

IsIn(role, list) == \E i \in DOMAIN list : list[i] = role

\* handleCreateApproval: any number of votes from one up may be asked for.
CreateApproval(t, by, op, required) ==
    /\ CreateTicket(t, [status |-> "pending", op |-> op, by |-> by, required |-> required,
                        approvers |-> <<>>, rejectors |-> <<>>])
    /\ UNCHANGED <<expired, call, agreed>>

Expire(t) ==
    /\ ticket[t] # NoTicket /\ t \notin expired
    /\ expired' = expired \cup {t}
    /\ UNCHANGED <<ticket, call, agreed>>

\* The copy of t, changed, is kept until it is written back.
Prepare(c, t, copy) ==
    call' = [call EXCEPT ![c] = [of |-> t, copy |-> copy, stale |-> FALSE]]

\* A handler that lets a role vote twice.
ApproveReadTwice(c, t, role) ==
    /\ call[c] = NoWrite /\ ticket[t].status = "pending" /\ t \notin expired
    /\ ticket[t].by # role
    /\ LET approvers == Append(ticket[t].approvers, role) IN
       Prepare(c, t, [ticket[t] EXCEPT !.approvers = approvers,
                                       !.status = IF Len(approvers) >= ticket[t].required THEN "approved" ELSE @])
    /\ agreed' = [agreed EXCEPT ![t] = @ \cup {role}]
    /\ UNCHANGED <<ticket, expired>>

\* handleApprove up to UpdateTicket: a ticket that is pending, of somebody else, not
\* yet approved by this role; the vote that completes the quorum resolves it.
ApproveRead(c, t, role) ==
    /\ call[c] = NoWrite /\ ticket[t].status = "pending" /\ t \notin expired
    /\ ticket[t].by # role
    /\ ~IsIn(role, ticket[t].approvers)
    /\ LET copy      == GetTicket(t)
           approvers == Append(copy.approvers, role) IN
       Prepare(c, t, [copy EXCEPT !.approvers = approvers,
                                  !.status = IF IsApprovalComplete(approvers, copy.required) THEN "approved" ELSE @])
    /\ agreed' = [agreed EXCEPT ![t] = @ \cup {role}]
    /\ UNCHANGED <<ticket, expired>>

\* handleApprove on an expired ticket marks it so.
ApproveExpired(c, t) ==
    /\ call[c] = NoWrite /\ ticket[t].status = "pending" /\ t \in expired
    /\ Prepare(c, t, [ticket[t] EXCEPT !.status = "expired"])
    /\ UNCHANGED <<ticket, expired, agreed>>

\* A handler that rejects whatever the status.
RejectReadAny(c, t, role) ==
    /\ call[c] = NoWrite /\ ticket[t] # NoTicket
    /\ Prepare(c, t, [ticket[t] EXCEPT !.status = "rejected",
                                       !.rejectors = IF IsIn(role, @) THEN @ ELSE Append(@, role)])
    /\ UNCHANGED <<ticket, expired, agreed>>

\* handleReject up to UpdateTicket; it does not look at the expiry, nor at who asks.
RejectRead(c, t, role) ==
    /\ call[c] = NoWrite /\ ticket[t].status = "pending"
    /\ Prepare(c, t, [ticket[t] EXCEPT !.status = "rejected",
                                       !.rejectors = IF IsIn(role, @) THEN @ ELSE Append(@, role)])
    /\ UNCHANGED <<ticket, expired, agreed>>

\* UpdateTicket: the last writer wins.
UpdateTicket(c) ==
    /\ call[c] # NoWrite
    /\ ticket' = [ticket EXCEPT ![call[c].of] = call[c].copy]
    /\ call' = [d \in Calls |->
                  IF d = c THEN NoWrite
                  ELSE IF call[d] # NoWrite /\ call[d].of = call[c].of THEN [call[d] EXCEPT !.stale = TRUE]
                  ELSE call[d]]
    /\ UNCHANGED <<expired, agreed>>

ApprovalNext ==
    \/ \E t \in Tickets :
         \/ \E by \in Roles, op \in Operations, k \in Required : CreateApproval(t, by, op, k)
         \/ Expire(t)
         \/ \E c \in Calls : \/ ApproveExpired(c, t)
                             \/ \E role \in Roles : ApproveRead(c, t, role) \/ RejectRead(c, t, role)
    \/ \E c \in Calls : UpdateTicket(c)

----------------------------------------------------------------------------

\* An approved ticket carries the votes of at least as many different roles as it
\* asked for, all of whom did ask to approve it, and not that of its requester, even
\* if decisions overwrote each other (approval.go: the quorum; handler_approval.go:
\* handleApprove).
QuorumReached ==
    \A t \in Tickets : ticket[t].status = "approved" =>
        LET voters == {ticket[t].approvers[i] : i \in DOMAIN ticket[t].approvers} IN
        /\ Cardinality(voters) = Len(ticket[t].approvers)
        /\ Cardinality(voters) >= ticket[t].required
        /\ voters \subseteq agreed[t] \ {ticket[t].by}

\* A decision that no other one overlapped is made on a pending ticket and only adds
\* to it: it undoes no resolution and loses no vote (handler_approval.go:
\* handleApprove, handleReject).
DecisionsStick ==
    [][\A t \in Tickets : ticket[t] # NoTicket /\ ticket'[t] # ticket[t] =>
         \/ \E c \in Calls : call[c] # NoWrite /\ call'[c] = NoWrite /\ call[c].of = t /\ call[c].stale
         \/ /\ ticket[t].status = "pending"
            /\ \A i \in DOMAIN ticket[t].approvers : IsIn(ticket[t].approvers[i], ticket'[t].approvers)
      ]_ticketVars
=============================================================================
