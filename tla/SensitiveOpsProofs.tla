------------------------- MODULE SensitiveOpsProofs -------------------------
(***************************************************************************)
(* The properties of the sensitive operations for any sets of roles,       *)
(* operations, tickets and calls.  The inductive invariant has a part for  *)
(* the one-time codes, one for the tickets and the copies that decisions   *)
(* are about to write, and one for the requests at the gate.               *)
(***************************************************************************)
EXTENDS SensitiveOps, FiniteSetTheorems, TLAPS

\* Every secret in use is the role's own, and nothing is enabled, or about to be, of
\* which no valid code was shown (handler_mfa.go: handleMFAVerify).
SecretsProved ==
    /\ enabled \subseteq proved
    /\ \A r \in Roles : stored[r] # 0 => owner[stored[r]] = r
    /\ \A r \in Roles : pending[r].op # "none" =>
         pending[r].secret \in proved /\ owner[pending[r].secret] = r

MfaInv == MfaTypeOK /\ SecretsProved

\* What was once shown, and by whom, stays.
MfaGrows ==
    \A s \in proved : s \in proved' /\ s \in Secrets /\ owner'[s] = owner[s]

Write == [of : Tickets, copy : ApprovalTicket, stale : BOOLEAN]

ApprovalTypes ==
    /\ ticket \in [Tickets -> {NoTicket} \cup ApprovalTicket]
    /\ call \in [Calls -> {NoWrite} \cup Write]
    /\ expired \subseteq Tickets
    /\ agreed \in [Tickets -> SUBSET Roles]

Voters(x) == {x.approvers[i] : i \in DOMAIN x.approvers}

\* The votes on x are those of different roles out of `who`, none of them the requester,
\* and there are enough of them if it is approved.
Voted(x, who) ==
    /\ IsFiniteSet(Voters(x)) /\ Cardinality(Voters(x)) = Len(x.approvers)
    /\ Voters(x) \subseteq who \ {x.by}
    /\ x.status = "approved" => Len(x.approvers) >= x.required

\* y is the same request as x.
SameRequest(x, y) == y.op = x.op /\ y.by = x.by /\ y.required = x.required

\* y is a decision on x that undoes none and loses no vote.
Decides(x, y) == x.status = "pending" /\ Voters(x) \subseteq Voters(y)

\* The copy that w is about to write, now that the ticket is x.
WriteOK(w, x, who) ==
    /\ x \in ApprovalTicket
    /\ SameRequest(x, w.copy) /\ Voted(w.copy, who)
    /\ ~w.stale => Decides(x, w.copy)

ApprovalInv ==
    /\ ApprovalTypes
    /\ \A t \in Tickets : IsFiniteSet(agreed[t])
    /\ \A t \in Tickets : ticket[t] # NoTicket => Voted(ticket[t], agreed[t])
    /\ \A c \in Calls : call[c] # NoWrite => WriteOK(call[c], ticket[call[c].of], agreed[call[c].of])

\* As many roles besides the requester agreed to op as the ticket asked for.
Behind(t, op, tickets, who) ==
    /\ t \in Tickets /\ tickets[t] \in ApprovalTicket
    /\ tickets[t].op = op
    /\ Cardinality(who[t] \ {tickets[t].by}) >= tickets[t].required

Backed(t, op) == Behind(t, op, ticket, agreed)

Waiting == [at : {"mfa"}, op : Operations, ticket : Tickets \cup {NoId}]

GateInv ==
    /\ gate \in [Roles -> {AtDoor} \cup Waiting]
    /\ passed \in Passed \cup {Nothing}
    /\ \A r \in QuorumRoles : gate[r] # AtDoor => Backed(gate[r].ticket, gate[r].op)
    /\ passed # Nothing =>
         /\ passed.role \in QuorumRoles => Backed(passed.ticket, passed.op)
         /\ passed.role \in MfaRoles => passed.secret \in proved /\ owner[passed.secret] = passed.role

GateInvariant == MfaInv /\ ApprovalInv /\ GateInv

----------------------------------------------------------------------------
(* One-time codes *)

\* The steps of the MFA handlers keep the secrets their owners' and proved.
LEMMA MfaStep ==
  ASSUME MfaInv, [MfaNext]_mfaVars
  PROVE  MfaInv' /\ MfaGrows
<1> USE PolicyAssumption, MfaAssumption
<1>t. MfaTypeOK /\ SecretsProved
  BY DEF MfaInv
<1>0. CASE UNCHANGED mfaVars
  BY <1>t, <1>0 DEF MfaInv, MfaTypeOK, SecretsProved, MfaGrows, Secrets, mfaVars
<1>1. CASE NextWindow
  <2>1. MfaTypeOK'
    BY <1>t, <1>1 DEF NextWindow, MfaTypeOK, Secrets
  <2>2. SecretsProved' /\ MfaGrows
    BY <1>t, <1>1 DEF NextWindow, MfaTypeOK, SecretsProved, MfaGrows, Secrets
  <2> QED BY <2>1, <2>2 DEF MfaInv
<1>2. ASSUME NEW r \in MfaRoles, Setup(r)
      PROVE  MfaInv' /\ MfaGrows
  <2> r \in Roles
    OBVIOUS
  <2>1. /\ owner \in Seq(Roles) /\ owner' = Append(owner, r)
        /\ Len(owner) < MaxSecrets /\ Len(owner) \in Nat
        /\ stored' = [stored EXCEPT ![r] = Len(owner')]
    BY <1>t, <1>2 DEF Setup, SaveMFAState, MfaTypeOK
  <2>2. /\ owner' \in Seq(Roles) /\ Len(owner') = Len(owner) + 1
        /\ owner'[Len(owner) + 1] = r
        /\ \A s \in 1 .. Len(owner) : owner'[s] = owner[s]
    BY <2>1
  <2>3. MfaTypeOK'
    BY <1>t, <1>2, <2>1, <2>2 DEF Setup, MfaTypeOK, Secrets
  <2>4. SecretsProved' /\ MfaGrows
    BY <1>t, <1>2, <2>1, <2>2 DEF Setup, MfaTypeOK, SecretsProved, MfaGrows, Secrets
  <2> QED BY <2>3, <2>4 DEF MfaInv
<1>3. ASSUME NEW r \in MfaRoles, NEW code \in Codes, NEW op \in {"verify", "disable"}, CheckCode(r, code, op)
      PROVE  MfaInv' /\ MfaGrows
  <2> r \in Roles
    OBVIOUS
  <2>1. /\ stored[r] \in Secrets /\ owner[stored[r]] = r
        /\ pending' = [pending EXCEPT ![r] = [op |-> op, secret |-> stored[r]]]
        /\ proved' = proved \cup {stored[r]}
    BY <1>t, <1>3 DEF CheckCode, GetMFAState, MfaTypeOK, SecretsProved, Secrets
  <2>a. [op |-> op, secret |-> stored[r]] \in [op : {"none", "verify", "disable"}, secret : {0} \cup Secrets]
    BY <2>1
  <2>b. pending' \in [Roles -> [op : {"none", "verify", "disable"}, secret : {0} \cup Secrets]]
    BY <1>t, <2>1, <2>a DEF MfaTypeOK
  <2>2. MfaTypeOK'
    BY <1>t, <1>3, <2>1, <2>b, Zenon DEF CheckCode, MfaTypeOK, Secrets
  <2>3. UNCHANGED <<enabled, stored, owner>> /\ proved \subseteq Secrets /\ enabled' \subseteq proved'
    BY <1>t, <1>3, <2>1 DEF CheckCode, MfaTypeOK, SecretsProved
  <2>4. ASSUME NEW q \in Roles, pending'[q].op # "none"
        PROVE  pending'[q].secret \in proved' /\ owner[pending'[q].secret] = q
    BY <1>t, <2>1, <2>4 DEF MfaTypeOK, SecretsProved
  <2>5. SecretsProved'
    BY <1>t, <2>3, <2>4 DEF SecretsProved
  <2>6. MfaGrows
    BY <2>1, <2>3 DEF MfaGrows
  <2> QED BY <2>2, <2>5, <2>6 DEF MfaInv
<1>4. ASSUME NEW r \in MfaRoles, NEW s, s \in {0, pending[r].secret},
             pending[r].op # "none",
             stored' = [stored EXCEPT ![r] = s],
             enabled' = enabled \/ enabled' = enabled \cup {pending[r].secret},
             pending' = [pending EXCEPT ![r] = NoCall],
             UNCHANGED <<owner, window, proved>>
      PROVE  MfaInv' /\ MfaGrows
  <2> r \in Roles
    OBVIOUS
  <2>1. pending[r].secret \in proved /\ owner[pending[r].secret] = r /\ proved \subseteq Secrets /\ 0 \notin Secrets
    BY <1>t, <1>4 DEF SecretsProved, MfaTypeOK, Secrets
  <2>2. enabled' \subseteq proved' /\ MfaGrows
    BY <1>t, <1>4, <2>1 DEF SecretsProved, MfaGrows
  <2>3. pending' \in [Roles -> [op : {"none", "verify", "disable"}, secret : {0} \cup Secrets]]
    BY <1>t, <1>4 DEF MfaTypeOK, NoCall
  <2>4. stored' \in [Roles -> {0} \cup Secrets]
    BY <1>t, <1>4, <2>1 DEF MfaTypeOK
  <2>5. MfaTypeOK'
    BY <1>t, <1>4, <2>1, <2>2, <2>3, <2>4 DEF MfaTypeOK, Secrets
  <2>6. \A q \in Roles : stored'[q] # 0 => owner[stored'[q]] = q
    BY <1>t, <1>4, <2>1 DEF SecretsProved, MfaTypeOK
  <2>7. ASSUME NEW q \in Roles, pending'[q].op # "none"
        PROVE  pending'[q].secret \in proved /\ owner[pending'[q].secret] = q
    BY <1>t, <1>4, <2>7 DEF SecretsProved, MfaTypeOK, NoCall
  <2> QED BY <1>4, <2>2, <2>5, <2>6, <2>7 DEF MfaInv, SecretsProved
<1>5. ASSUME NEW r \in MfaRoles, VerifyWrite(r)
      PROVE  MfaInv' /\ MfaGrows
  BY <1>4, <1>5, Zenon DEF VerifyWrite, SaveMFAState
<1>6. ASSUME NEW r \in MfaRoles, DisableWrite(r)
      PROVE  MfaInv' /\ MfaGrows
  BY <1>4, <1>6, Zenon DEF DisableWrite, DeleteMFAState
<1> QED
  BY <1>0, <1>1, <1>2, <1>3, <1>5, <1>6 DEF MfaNext, handleMFAVerify, handleMFADisable

----------------------------------------------------------------------------
(* Votes *)

\* A vote of a role that has not voted counts (handler_approval.go: handleApprove).
LEMMA VoteCounts ==
  ASSUME NEW x \in ApprovalTicket, NEW y \in ApprovalTicket, NEW who, NEW role \in Roles,
         Voted(x, who), x.by # role, ~IsIn(role, x.approvers),
         y.approvers = Append(x.approvers, role), y.by = x.by,
         y.status = "approved" => Len(y.approvers) >= y.required
  PROVE  Voted(y, who \cup {role}) /\ Voters(x) \subseteq Voters(y)
<1> DEFINE s == x.approvers
<1>1. s \in Seq(Roles) /\ Len(s) \in Nat /\ DOMAIN s = 1 .. Len(s)
  BY DEF ApprovalTicket
<1>2. /\ Len(Append(s, role)) = Len(s) + 1
      /\ DOMAIN Append(s, role) = 1 .. Len(s) + 1
      /\ Append(s, role)[Len(s) + 1] = role
      /\ \A i \in 1 .. Len(s) : Append(s, role)[i] = s[i]
  BY <1>1
<1>3. Voters(y) = Voters(x) \cup {role}
  BY <1>1, <1>2 DEF Voters
<1>4. role \notin Voters(x)
  BY DEF Voters, IsIn
<1>5. IsFiniteSet(Voters(x)) /\ Cardinality(Voters(x)) = Len(s)
  BY DEF Voted
<1>6. IsFiniteSet(Voters(y)) /\ Cardinality(Voters(y)) = Len(s) + 1
  BY <1>3, <1>4, <1>5, FS_AddElement, Zenon
<1>7. Voters(y) \subseteq (who \cup {role}) \ {y.by}
  BY <1>3 DEF Voted
<1> QED
  BY <1>2, <1>3, <1>6, <1>7 DEF Voted

\* A ticket with the same votes, and not approved, is as good.
LEMMA SameVotes ==
  ASSUME NEW x, NEW y, NEW who, Voted(x, who),
         y.approvers = x.approvers, y.by = x.by, y.status # "approved"
  PROVE  Voted(y, who) /\ Voters(y) = Voters(x)
BY DEF Voted, Voters

\* More roles that agree do no harm.
LEMMA VotedGrows ==
  ASSUME NEW x, NEW who, NEW more, who \subseteq more, Voted(x, who)
  PROVE  Voted(x, more)
BY DEF Voted

\* An approved ticket has the votes of as many roles besides its requester as it asked
\* for (approval.go: IsApprovalComplete).
LEMMA ApprovedIsBacked ==
  ASSUME NEW x \in ApprovalTicket, NEW who, IsFiniteSet(who), Voted(x, who), x.status = "approved"
  PROVE  Cardinality(who \ {x.by}) >= x.required
<1>1. IsFiniteSet(who \ {x.by}) /\ Voters(x) \in SUBSET (who \ {x.by})
  BY FS_RemoveElement, Zenon DEF Voted
<1>2. Cardinality(Voters(x)) <= Cardinality(who \ {x.by}) /\ Cardinality(who \ {x.by}) \in Nat
  BY <1>1, FS_Subset, FS_CardinalityType
<1>3. Cardinality(Voters(x)) = Len(x.approvers) /\ Len(x.approvers) >= x.required
  BY DEF Voted
<1>4. Len(x.approvers) \in Nat /\ x.required \in Int
  BY DEF ApprovalTicket, Required
<1> QED
  BY <1>2, <1>3, <1>4

\* The number of those who agreed never falls.
LEMMA AgreedGrows ==
  ASSUME NEW who, NEW more, NEW by, NEW n \in Int, IsFiniteSet(more), who \subseteq more,
         Cardinality(who \ {by}) >= n
  PROVE  Cardinality(more \ {by}) >= n
<1>1. IsFiniteSet(more \ {by})
  BY FS_RemoveElement
<1>2. (who \ {by}) \in SUBSET (more \ {by})
  OBVIOUS
<1>3. Cardinality(who \ {by}) <= Cardinality(more \ {by}) /\ IsFiniteSet(who \ {by})
  BY <1>1, <1>2, FS_Subset
<1>4. Cardinality(who \ {by}) \in Nat /\ Cardinality(more \ {by}) \in Nat
  BY <1>1, <1>3, FS_CardinalityType
<1> QED
  BY <1>3, <1>4

----------------------------------------------------------------------------
(* Tickets *)

\* Who is behind an operation stays behind it.
BackedStays == \A t, op : Backed(t, op) => Behind(t, op, ticket', agreed')

\* A ticket that is not there is none that could be decided on.
LEMMA NoTicketIsNone == NoTicket \notin ApprovalTicket
BY DEF NoTicket, ApprovalTicket, Statuses

\* A handler that has read a ticket and prepares the copy to write (handler_approval.go:
\* handleApprove, handleReject).
LEMMA PrepareKeeps ==
  ASSUME ApprovalInv, NEW c \in Calls, NEW t \in Tickets, NEW copy \in ApprovalTicket, NEW extra,
         call[c] = NoWrite, ticket[t] \in ApprovalTicket, Prepare(c, t, copy),
         extra \subseteq Roles, IsFiniteSet(agreed[t] \cup extra),
         agreed' = [agreed EXCEPT ![t] = @ \cup extra],
         UNCHANGED <<ticket, expired>>,
         SameRequest(ticket[t], copy), Voted(copy, agreed[t] \cup extra), Decides(ticket[t], copy)
  PROVE  ApprovalInv' /\ BackedStays
<1>1. ApprovalTypes
  BY DEF ApprovalInv
<1>2. [of |-> t, copy |-> copy, stale |-> FALSE] \in Write
  BY DEF Write
<1>3. call' = [call EXCEPT ![c] = [of |-> t, copy |-> copy, stale |-> FALSE]]
  BY DEF Prepare
<1>4. ApprovalTypes'
  BY <1>1, <1>2, <1>3 DEF ApprovalTypes
<1>5. \A u \in Tickets : agreed[u] \subseteq agreed'[u] /\ IsFiniteSet(agreed'[u])
  BY <1>1 DEF ApprovalTypes, ApprovalInv
<1>6. \A u \in Tickets : ticket[u] # NoTicket => Voted(ticket[u], agreed'[u])
  BY <1>5, VotedGrows DEF ApprovalInv
<1>7. ASSUME NEW d \in Calls, call'[d] # NoWrite
      PROVE  WriteOK(call'[d], ticket[call'[d].of], agreed'[call'[d].of])
  <2>1. CASE d = c
    <3>1. /\ call'[d].of = t /\ call'[d].copy = copy /\ ~call'[d].stale
          /\ agreed'[t] = agreed[t] \cup extra
      BY <1>1, <1>3, <2>1 DEF ApprovalTypes
    <3> QED BY <3>1 DEF WriteOK
  <2>2. CASE d # c
    <3>1. call'[d] = call[d] /\ call[d] \in Write
      BY <1>1, <1>3, <1>7, <2>2 DEF ApprovalTypes
    <3>2. WriteOK(call[d], ticket[call[d].of], agreed[call[d].of]) /\ call[d].of \in Tickets
      BY <1>7, <3>1 DEF ApprovalInv, Write
    <3>3. Voted(call[d].copy, agreed'[call[d].of])
      BY <1>5, <3>2, VotedGrows DEF WriteOK
    <3> QED BY <3>1, <3>2, <3>3 DEF WriteOK
  <2> QED BY <2>1, <2>2
<1>8. ApprovalInv'
  BY <1>4, <1>5, <1>6, <1>7, Zenon DEF ApprovalInv
<1>9. ASSUME NEW u, NEW op, Backed(u, op)
      PROVE  Behind(u, op, ticket', agreed')
  <2>1. ticket[u].required \in Int
    BY <1>9 DEF Backed, Behind, ApprovalTicket, Required
  <2>2. Cardinality(agreed'[u] \ {ticket[u].by}) >= ticket[u].required
    BY <1>5, <1>9, <2>1, AgreedGrows, Zenon DEF Backed, Behind
  <2> QED BY <1>9, <2>2 DEF Backed, Behind
<1> QED BY <1>8, <1>9, Zenon DEF BackedStays

\* A step that writes the ticket t, whose request it leaves alone, or makes it.
LEMMA WriteBacked ==
  ASSUME ApprovalInv, NEW t \in Tickets, NEW new \in ApprovalTicket,
         ticket' = [ticket EXCEPT ![t] = new], UNCHANGED agreed,
         ticket[t] \in ApprovalTicket => SameRequest(ticket[t], new)
  PROVE  BackedStays
<1>1. ASSUME NEW u, NEW op, Backed(u, op)
      PROVE  Behind(u, op, ticket', agreed')
  BY <1>1 DEF Backed, Behind, ApprovalInv, ApprovalTypes, SameRequest
<1> QED BY <1>1, Zenon DEF BackedStays

\* handleCreateApproval makes a ticket without votes.
LEMMA CreateKeeps ==
  ASSUME ApprovalInv, NEW t \in Tickets, NEW by \in Roles, NEW op \in Operations, NEW k \in Required,
         CreateApproval(t, by, op, k)
  PROVE  ApprovalInv' /\ BackedStays
<1> DEFINE new == [status |-> "pending", op |-> op, by |-> by, required |-> k,
                   approvers |-> <<>>, rejectors |-> <<>>]
<1>1. ApprovalTypes
  BY DEF ApprovalInv
<1>2. new \in ApprovalTicket
  BY DEF ApprovalTicket, Statuses
<1>3. ticket[t] = NoTicket /\ ticket' = [ticket EXCEPT ![t] = new] /\ UNCHANGED <<expired, call, agreed>>
  BY DEF CreateApproval, CreateTicket
<1>4. ApprovalTypes'
  BY <1>1, <1>2, <1>3 DEF ApprovalTypes
<1>5. Voted(new, agreed[t])
  <2>1. Voters(new) = {} /\ Len(new.approvers) = 0
    BY DEF Voters
  <2> QED BY <2>1, FS_EmptySet, Zenon DEF Voted
<1>6. \A u \in Tickets : ticket'[u] # NoTicket => Voted(ticket'[u], agreed'[u])
  <2> SUFFICES ASSUME NEW u \in Tickets, ticket'[u] # NoTicket
               PROVE  Voted(ticket'[u], agreed[u])
    BY <1>3
  <2>1. CASE u = t
    <3>1. ticket'[u] = new
      BY <1>1, <1>3, <2>1 DEF ApprovalTypes
    <3> QED BY <1>5, <2>1, <3>1
  <2>2. CASE u # t
    <3>1. ticket'[u] = ticket[u]
      BY <1>1, <1>3, <2>2 DEF ApprovalTypes
    <3> QED BY <3>1 DEF ApprovalInv
  <2> QED BY <2>1, <2>2
<1>7. ASSUME NEW d \in Calls, call[d] # NoWrite
      PROVE  WriteOK(call[d], ticket'[call[d].of], agreed[call[d].of])
  <2>1. WriteOK(call[d], ticket[call[d].of], agreed[call[d].of]) /\ call[d].of \in Tickets
    BY <1>1, <1>7 DEF ApprovalInv, ApprovalTypes, Write
  <2>2. call[d].of # t
    BY <1>3, <2>1, NoTicketIsNone DEF WriteOK
  <2>3. ticket'[call[d].of] = ticket[call[d].of]
    BY <1>1, <1>3, <2>1, <2>2 DEF ApprovalTypes
  <2> QED BY <2>1, <2>3
<1>8. BackedStays
  BY <1>2, <1>3, NoTicketIsNone, WriteBacked, Zenon
<1> HIDE DEF new
<1> QED
  BY <1>3, <1>4, <1>6, <1>7, <1>8 DEF ApprovalInv

\* UpdateTicket writes a copy, whatever happened to the ticket since it was made; the
\* other copies of this ticket are stale from now on (approval_store_memory.go).
LEMMA UpdateKeeps ==
  ASSUME ApprovalInv, NEW c \in Calls, UpdateTicket(c)
  PROVE  ApprovalInv' /\ BackedStays
<1> DEFINE t == call[c].of
           new == call[c].copy
<1>1. ApprovalTypes
  BY DEF ApprovalInv
<1>2. /\ call[c] # NoWrite /\ ticket' = [ticket EXCEPT ![t] = new] /\ UNCHANGED <<expired, agreed>>
      /\ call[c] \in Write
  BY <1>1 DEF UpdateTicket, ApprovalTypes
<1>3. t \in Tickets /\ new \in ApprovalTicket
  BY <1>2 DEF Write
<1>4. WriteOK(call[c], ticket[t], agreed[t])
  BY <1>2 DEF ApprovalInv
<1>5. \A d \in Calls :
        call'[d] = IF d = c THEN NoWrite
                   ELSE IF call[d] # NoWrite /\ call[d].of = t THEN [call[d] EXCEPT !.stale = TRUE]
                   ELSE call[d]
  BY DEF UpdateTicket
<1>6. \A w \in Write : /\ [w EXCEPT !.stale = TRUE] \in Write
                        /\ [w EXCEPT !.stale = TRUE].of = w.of
                        /\ [w EXCEPT !.stale = TRUE].copy = w.copy
                        /\ [w EXCEPT !.stale = TRUE].stale
  BY Zenon DEF Write
<1>7. call' \in [Calls -> {NoWrite} \cup Write]
  <2>1. \A d \in Calls : call'[d] \in {NoWrite} \cup Write
    BY <1>1, <1>5, <1>6, ZenonT(60) DEF ApprovalTypes
  <2>2. \E f : call' = [d \in Calls |-> f[d]]
    <3>1. call' = [d \in Calls |-> call'[d]]
      BY DEF UpdateTicket
    <3> QED BY <3>1
  <2> QED BY <2>1, <2>2
<1>8. ApprovalTypes'
  BY <1>1, <1>2, <1>3, <1>7 DEF ApprovalTypes
<1> HIDE DEF t, new
<1>9. ASSUME NEW u \in Tickets, ticket'[u] # NoTicket
      PROVE  Voted(ticket'[u], agreed[u])
  <2>1. CASE u = t
    BY <1>1, <1>2, <1>4, <2>1 DEF ApprovalTypes, WriteOK, new
  <2>2. CASE u # t
    <3>1. ticket'[u] = ticket[u]
      BY <1>1, <1>2, <2>2 DEF ApprovalTypes
    <3> QED BY <1>9, <3>1 DEF ApprovalInv
  <2> QED BY <2>1, <2>2
<1>10. ASSUME NEW d \in Calls, call'[d] # NoWrite
       PROVE  WriteOK(call'[d], ticket'[call'[d].of], agreed[call'[d].of])
  <2>1. d # c /\ call[d] # NoWrite /\ call[d] \in Write /\ call[d].of \in Tickets
    BY <1>1, <1>5, <1>10, Zenon DEF ApprovalTypes, Write
  <2>2. WriteOK(call[d], ticket[call[d].of], agreed[call[d].of])
    BY <2>1 DEF ApprovalInv
  <2>3. CASE call[d].of = t
    <3>1. call'[d].of = t /\ call'[d].copy = call[d].copy /\ call'[d].stale
      BY <1>5, <1>6, <2>1, <2>3, ZenonT(30)
    <3>2. ticket'[t] = new
      BY <1>1, <1>2, <1>3 DEF ApprovalTypes
    <3>3. SameRequest(new, call[d].copy)
      BY <1>4, <2>2, <2>3 DEF WriteOK, SameRequest, new
    <3>4. Voted(call[d].copy, agreed[t])
      BY <2>2, <2>3 DEF WriteOK
    <3> QED BY <1>3, <3>1, <3>2, <3>3, <3>4 DEF WriteOK
  <2>4. CASE call[d].of # t
    <3>1. call'[d] = call[d]
      BY <1>5, <2>1, <2>4, Zenon
    <3>2. ticket'[call[d].of] = ticket[call[d].of]
      BY <1>1, <1>2, <2>1, <2>4 DEF ApprovalTypes
    <3> QED BY <2>2, <3>1, <3>2
  <2> QED BY <2>3, <2>4
<1>11. BackedStays
  BY <1>2, <1>3, <1>4, WriteBacked, Zenon DEF WriteOK, new
<1> QED
  BY <1>2, <1>8, <1>9, <1>10, <1>11 DEF ApprovalInv

\* A ticket read as pending is one (the conditions of handleApprove and handleReject).
LEMMA PendingIsTicket ==
  ASSUME ApprovalInv, NEW t \in Tickets, ticket[t].status = "pending"
  PROVE  ticket[t] \in ApprovalTicket /\ Voted(ticket[t], agreed[t])
BY DEF ApprovalInv, ApprovalTypes, NoTicket

\* The first half of handleApprove and of handleReject.
LEMMA ReadKeeps ==
  ASSUME ApprovalInv, NEW c \in Calls, NEW t \in Tickets, NEW role \in Roles,
         ApproveRead(c, t, role) \/ RejectRead(c, t, role) \/ ApproveExpired(c, t)
  PROVE  ApprovalInv' /\ BackedStays
<1> DEFINE x == ticket[t]
<1>1. call[c] = NoWrite /\ x.status = "pending" /\ UNCHANGED <<ticket, expired>>
  BY DEF ApproveRead, RejectRead, ApproveExpired
<1>2. x \in ApprovalTicket /\ Voted(x, agreed[t]) /\ IsFiniteSet(agreed[t])
  BY <1>1, PendingIsTicket DEF ApprovalInv
<1>3. agreed \in [Tickets -> SUBSET Roles]
  BY DEF ApprovalInv, ApprovalTypes
<1>4. CASE ApproveRead(c, t, role)
  <2> DEFINE votes == Append(x.approvers, role)
             copy == [x EXCEPT !.approvers = votes,
                               !.status = IF IsApprovalComplete(votes, x.required) THEN "approved" ELSE @]
  <2>1. Prepare(c, t, copy) /\ x.by # role /\ ~IsIn(role, x.approvers)
        /\ agreed' = [agreed EXCEPT ![t] = @ \cup {role}]
    BY <1>4 DEF ApproveRead, GetTicket
  <2>2. votes \in Seq(Roles)
    BY <1>2, SMTT(60) DEF ApprovalTicket
  <2> HIDE DEF votes
  <2>3. /\ copy \in ApprovalTicket /\ copy.approvers = votes /\ copy.by = x.by
        /\ copy.op = x.op /\ copy.required = x.required
        /\ copy.status = "approved" => Len(votes) >= x.required
    BY <1>1, <1>2, <2>2, ZenonT(30) DEF ApprovalTicket, Statuses, IsApprovalComplete
  <2> HIDE DEF copy, x
  <2>4. Voted(copy, agreed[t] \cup {role}) /\ Voters(x) \subseteq Voters(copy)
    BY <1>2, <2>1, <2>3, VoteCounts DEF votes
  <2>5. IsFiniteSet(agreed[t] \cup {role})
    BY <1>2, FS_AddElement
  <2>6. SameRequest(x, copy) /\ Decides(x, copy)
    BY <1>1, <2>3, <2>4 DEF SameRequest, Decides
  <2> QED
    BY <1>1, <1>2, <2>1, <2>3, <2>4, <2>5, <2>6, PrepareKeeps, Zenon DEF x
<1>5. ASSUME NEW copy \in ApprovalTicket, Prepare(c, t, copy), UNCHANGED agreed,
             copy.approvers = x.approvers, copy.by = x.by, copy.op = x.op,
             copy.required = x.required, copy.status # "approved"
      PROVE  ApprovalInv' /\ BackedStays
  <2> HIDE DEF x
  <2>1. Voted(copy, agreed[t]) /\ Voters(copy) = Voters(x)
    BY <1>2, <1>5, SameVotes
  <2>2. SameRequest(x, copy) /\ Decides(x, copy)
    BY <1>1, <1>5, <2>1 DEF SameRequest, Decides
  <2>3. PICK none : none = {}
    BY ZenonT(30)
  <2>4. /\ agreed[t] \cup none = agreed[t] /\ none \subseteq Roles
        /\ agreed' = [agreed EXCEPT ![t] = @ \cup none]
    BY <1>3, <1>5, <2>3
  <2> QED
    BY <1>1, <1>2, <1>5, <2>1, <2>2, <2>4, PrepareKeeps, Zenon DEF x
<1>6. CASE ApproveExpired(c, t)
  <2> DEFINE copy == [x EXCEPT !.status = "expired"]
  <2>1. /\ copy \in ApprovalTicket /\ copy.approvers = x.approvers /\ copy.by = x.by
        /\ copy.op = x.op /\ copy.required = x.required /\ copy.status # "approved"
    BY <1>2 DEF ApprovalTicket, Statuses
  <2>2. Prepare(c, t, copy) /\ UNCHANGED agreed
    BY <1>6 DEF ApproveExpired
  <2> HIDE DEF copy, x
  <2> QED BY <1>5, <2>1, <2>2
<1>7. CASE RejectRead(c, t, role)
  <2> DEFINE list == IF IsIn(role, x.rejectors) THEN x.rejectors ELSE Append(x.rejectors, role)
             copy == [x EXCEPT !.status = "rejected", !.rejectors = list]
  <2>1. Prepare(c, t, copy) /\ UNCHANGED agreed
    BY <1>7 DEF RejectRead
  <2>2. list \in Seq(Roles)
    BY <1>2 DEF ApprovalTicket
  <2> HIDE DEF list
  <2>3. /\ copy \in ApprovalTicket /\ copy.approvers = x.approvers /\ copy.by = x.by
        /\ copy.op = x.op /\ copy.required = x.required /\ copy.status # "approved"
    BY <1>2, <2>2, Zenon DEF ApprovalTicket, Statuses
  <2> HIDE DEF copy, x
  <2> QED BY <1>5, <2>1, <2>3
<1> QED BY <1>4, <1>6, <1>7

\* Every step of the approval handlers keeps the votes in order.
LEMMA ApprovalStep ==
  ASSUME ApprovalInv, [ApprovalNext]_ticketVars
  PROVE  ApprovalInv' /\ BackedStays
<1>1. CASE UNCHANGED ticketVars
  BY <1>1 DEF ticketVars, ApprovalInv, ApprovalTypes, BackedStays, Backed
<1>2. ASSUME NEW t \in Tickets, Expire(t)
      PROVE  ApprovalInv' /\ BackedStays
  BY <1>2 DEF Expire, ApprovalInv, ApprovalTypes, BackedStays, Backed
<1>3. ASSUME NEW t \in Tickets, NEW c \in Calls, ApproveExpired(c, t)
      PROVE  ApprovalInv' /\ BackedStays
  <2>1. PICK role \in Roles : ticket[t].by = role
    BY <1>3, PendingIsTicket DEF ApproveExpired, ApprovalTicket
  <2> QED BY <1>3, ReadKeeps
<1> QED
  BY <1>1, <1>2, <1>3, CreateKeeps, ReadKeeps, UpdateKeeps DEF ApprovalNext

\* A ticket changes only when UpdateTicket writes it; a copy that is not stale was made
\* of the ticket as it is.
LEMMA ApprovalDecides ==
  ASSUME ApprovalInv, [ApprovalNext]_ticketVars, NEW t \in Tickets,
         ticket[t] # NoTicket, ticket'[t] # ticket[t]
  PROVE  \/ \E c \in Calls : call[c] # NoWrite /\ call'[c] = NoWrite /\ call[c].of = t /\ call[c].stale
         \/ /\ ticket[t].status = "pending"
            /\ \A i \in DOMAIN ticket[t].approvers : IsIn(ticket[t].approvers[i], ticket'[t].approvers)
<1>1. ApprovalTypes
  BY DEF ApprovalInv
<1>2. PICK c \in Calls : UpdateTicket(c)
  <2>1. ~UNCHANGED ticket
    OBVIOUS
  <2>2. \A u \in Tickets, by \in Roles, op \in Operations, k \in Required : ~CreateApproval(u, by, op, k)
    BY <1>1 DEF CreateApproval, CreateTicket, ApprovalTypes
  <2> QED
    BY <2>1, <2>2, Zenon DEF ApprovalNext, ticketVars, Expire, ApproveExpired, ApproveRead, RejectRead
<1>3. call[c] # NoWrite /\ call'[c] = NoWrite /\ call[c] \in Write
  BY <1>1, <1>2 DEF UpdateTicket, ApprovalTypes
<1>4. call[c].of = t /\ ticket'[t] = call[c].copy
  BY <1>1, <1>2, <1>3 DEF UpdateTicket, ApprovalTypes, Write
<1>5. WriteOK(call[c], ticket[t], agreed[t])
  BY <1>3, <1>4 DEF ApprovalInv
<1>6. CASE call[c].stale
  BY <1>3, <1>4, <1>6
<1>7. CASE ~call[c].stale
  <2>1. Decides(ticket[t], ticket'[t])
    BY <1>4, <1>5, <1>7 DEF WriteOK
  <2> QED BY <2>1 DEF Decides, Voters, IsIn
<1> QED BY <1>6, <1>7

----------------------------------------------------------------------------
(* The gate *)

\* A request at the gate waits while others go on: what it has shown still holds.
LEMMA WaitingKeeps ==
  ASSUME MfaInv, GateInv, MfaGrows, BackedStays, UNCHANGED <<gate, passed>>
  PROVE  GateInv'
<1>1. \A r \in QuorumRoles : gate'[r] # AtDoor => Behind(gate'[r].ticket, gate'[r].op, ticket', agreed')
  BY DEF GateInv, BackedStays
<1>2. passed' # Nothing /\ passed'.role \in QuorumRoles => Behind(passed'.ticket, passed'.op, ticket', agreed')
  BY DEF GateInv, BackedStays
<1>3. passed' # Nothing /\ passed'.role \in MfaRoles
        => passed'.secret \in proved' /\ owner'[passed'.secret] = passed'.role
  BY DEF GateInv, MfaGrows
<1> QED BY <1>1, <1>2, <1>3 DEF GateInv, Backed

\* The first check of mfaMiddleware: the ticket it accepts is backed.
LEMMA QuorumKeeps ==
  ASSUME ApprovalInv, GateInv, NEW r \in Roles, NEW op \in Operations, NEW t \in Tickets \cup {NoId},
         GateQuorum(r, op, t)
  PROVE  GateInv'
<1> DEFINE g == [at |-> "mfa", op |-> op, ticket |-> t]
<1>1. UNCHANGED <<mfaVars, ticketVars, passed>> /\ gate' = [gate EXCEPT ![r] = g]
  BY DEF GateQuorum
<1>2. g \in Waiting /\ g.op = op /\ g.ticket = t
  BY DEF Waiting
<1> HIDE DEF g
<1>3. r \in QuorumRoles => Backed(t, op)
  <2> SUFFICES ASSUME r \in QuorumRoles
               PROVE  Backed(t, op)
    OBVIOUS
  <2>1. t \in Tickets /\ ticket[t].status = "approved" /\ ticket[t].op = op
    BY DEF GateQuorum
  <2>2. ticket[t] \in ApprovalTicket /\ Voted(ticket[t], agreed[t]) /\ IsFiniteSet(agreed[t])
    BY <2>1 DEF ApprovalInv, ApprovalTypes, NoTicket
  <2> QED BY <2>1, <2>2, ApprovedIsBacked DEF Backed, Behind
<1>4. UNCHANGED <<ticket, agreed, proved, owner>>
  BY <1>1 DEF mfaVars, ticketVars
<1>5. \A u, o : Behind(u, o, ticket', agreed') <=> Backed(u, o)
  BY <1>4 DEF Backed
<1>6. gate' \in [Roles -> {AtDoor} \cup Waiting]
  BY <1>1, <1>2 DEF GateInv
<1>7. ASSUME NEW q \in QuorumRoles, gate'[q] # AtDoor
      PROVE  Behind(gate'[q].ticket, gate'[q].op, ticket', agreed')
  <2>1. q \in Roles
    BY PolicyAssumption
  <2>2. CASE q = r
    <3>1. gate'[q] = g
      BY <1>1, <2>2 DEF GateInv
    <3> QED BY <1>2, <1>3, <1>5, <2>2, <3>1
  <2>3. CASE q # r
    <3>1. gate'[q] = gate[q]
      BY <1>1, <2>1, <2>3 DEF GateInv
    <3> QED BY <1>5, <1>7, <3>1 DEF GateInv
  <2> QED BY <2>2, <2>3
<1> QED BY <1>1, <1>4, <1>5, <1>6, <1>7 DEF GateInv, Backed

\* The second check, and the handler or the refusal.
LEMMA MfaGateKeeps ==
  ASSUME MfaInv, GateInv, NEW r \in Roles, NEW code, GateMfa(r, code) \/ GateRefused(r, code)
  PROVE  GateInv'
<1>1. UNCHANGED <<mfaVars, ticketVars>> /\ gate' = [gate EXCEPT ![r] = AtDoor] /\ gate[r] # AtDoor
  BY DEF GateMfa, GateRefused
<1>2. UNCHANGED <<ticket, agreed, proved, owner>>
  BY <1>1 DEF mfaVars, ticketVars
<1>3. \A u, o : Behind(u, o, ticket', agreed') <=> Backed(u, o)
  BY <1>2 DEF Backed
<1>4. gate' \in [Roles -> {AtDoor} \cup Waiting]
  BY <1>1 DEF GateInv
<1>5. \A q \in QuorumRoles : gate'[q] # AtDoor => Behind(gate'[q].ticket, gate'[q].op, ticket', agreed')
  <2> SUFFICES ASSUME NEW q \in QuorumRoles, gate'[q] # AtDoor
               PROVE  Behind(gate'[q].ticket, gate'[q].op, ticket', agreed')
    OBVIOUS
  <2>1. gate'[q] = gate[q]
    BY <1>1, PolicyAssumption DEF GateInv
  <2> QED BY <1>3, <2>1 DEF GateInv
<1>6. CASE GateRefused(r, code)
  BY <1>2, <1>3, <1>4, <1>5, <1>6 DEF GateInv, GateRefused, Backed
<1>7. CASE GateMfa(r, code)
  <2> DEFINE s == IF r \in MfaRoles THEN stored[r] ELSE 0
             p == [role |-> r, op |-> gate[r].op, ticket |-> gate[r].ticket, secret |-> s]
  <2>1. passed' = p
    BY <1>7 DEF GateMfa
  <2>2. gate[r] \in Waiting
    BY <1>1 DEF GateInv
  <2>3. s \in Nat /\ (r \in MfaRoles => s \in proved /\ owner[s] = r)
    BY <1>7 DEF GateMfa, MfaInv, MfaTypeOK, SecretsProved, Secrets
  <2> HIDE DEF s
  <2>4. p \in Passed /\ p.role = r /\ p.op = gate[r].op /\ p.ticket = gate[r].ticket /\ p.secret = s
    BY <2>2, <2>3 DEF Passed, Waiting
  <2> HIDE DEF p
  <2>5. r \in QuorumRoles => Backed(p.ticket, p.op)
    BY <1>1, <2>4 DEF GateInv
  <2> QED
    BY <1>2, <1>3, <1>4, <1>5, <2>1, <2>3, <2>4, <2>5 DEF GateInv, Backed
<1> QED BY <1>6, <1>7

----------------------------------------------------------------------------

\* The inductive invariant holds in every state.
THEOREM SensitiveInvariant == Spec => []GateInvariant
<1>1. Init => GateInvariant
  <2> SUFFICES ASSUME Init
               PROVE  GateInvariant
    OBVIOUS
  <2>1. MfaInv
    <3>1. owner = <<>> /\ owner \in Seq(Roles) /\ Len(owner) = 0
      BY DEF Init, MfaInit
    <3> QED
      BY <3>1, MfaAssumption DEF Init, MfaInit, MfaInv, MfaTypeOK, SecretsProved, NoCall, Secrets
  <2>2. ApprovalInv
    BY FS_EmptySet DEF Init, ApprovalInit, ApprovalInv, ApprovalTypes
  <2>3. GateInv
    BY PolicyAssumption DEF Init, GateInv
  <2> QED BY <2>1, <2>2, <2>3 DEF GateInvariant
<1>2. GateInvariant /\ [Next]_vars => GateInvariant'
  <2> SUFFICES ASSUME GateInvariant, [Next]_vars
               PROVE  GateInvariant'
    OBVIOUS
  <2>1. MfaInv /\ ApprovalInv /\ GateInv
    BY DEF GateInvariant
  <2>2. CASE /\ [MfaNext]_mfaVars /\ [ApprovalNext]_ticketVars
             /\ UNCHANGED <<gate, passed>>
    <3>1. MfaInv' /\ MfaGrows
      BY <2>1, <2>2, MfaStep
    <3>2. ApprovalInv' /\ BackedStays
      BY <2>1, <2>2, ApprovalStep
    <3>3. GateInv'
      BY <2>1, <2>2, <3>1, <3>2, WaitingKeeps
    <3> QED BY <3>1, <3>2, <3>3 DEF GateInvariant
  <2>3. CASE /\ UNCHANGED <<mfaVars, ticketVars>>
             /\ \E r \in QuorumRoles \cup MfaRoles :
                  \/ \E op \in Operations, t \in Tickets \cup {NoId} : GateQuorum(r, op, t)
                  \/ \E code \in Codes : GateMfa(r, code) \/ GateRefused(r, code)
    <3>1. MfaInv'
      BY <2>1, <2>3, MfaStep
    <3>2. ApprovalInv'
      BY <2>1, <2>3, ApprovalStep
    <3>3. GateInv'
      BY <2>1, <2>3, QuorumKeeps, MfaGateKeeps, PolicyAssumption
    <3> QED BY <3>1, <3>2, <3>3 DEF GateInvariant
  <2> QED
    BY <2>2, <2>3 DEF Next, vars, GateQuorum, GateMfa, GateRefused
<1> QED
  BY <1>1, <1>2, PTL DEF Spec

\* Every variable keeps its type, for any roles, tickets and calls.
THEOREM SensitiveTypeOK == Spec => []TypeOK
<1>1. GateInvariant => TypeOK
  <2> SUFFICES ASSUME GateInvariant
               PROVE  TypeOK
    OBVIOUS
  <2>1. MfaTypeOK
    BY DEF GateInvariant, MfaInv
  <2>2. ApprovalTypeOK
    BY DEF GateInvariant, ApprovalInv, ApprovalTypes, ApprovalTypeOK, Write
  <2>3. \A r \in Roles : gate[r] # AtDoor => gate[r].op \in Operations /\ gate[r].ticket \in Tickets \cup {NoId}
    BY DEF GateInvariant, GateInv, Waiting
  <2> QED BY <2>1, <2>2, <2>3 DEF TypeOK, GateInvariant, GateInv
<1> QED
  BY <1>1, SensitiveInvariant, PTL

\* An approved ticket carries the votes of as many different roles as it asked for, none
\* of them the requester's, for any number of roles and of decisions that overwrite each
\* other (handler_approval.go: handleApprove, approval.go: IsApprovalComplete).
THEOREM SensitiveQuorum == Spec => []QuorumReached
<1>1. GateInvariant => QuorumReached
  <2> SUFFICES ASSUME GateInvariant, NEW t \in Tickets, ticket[t].status = "approved"
               PROVE  LET voters == {ticket[t].approvers[i] : i \in DOMAIN ticket[t].approvers} IN
                      /\ Cardinality(voters) = Len(ticket[t].approvers)
                      /\ Cardinality(voters) >= ticket[t].required
                      /\ voters \subseteq agreed[t] \ {ticket[t].by}
    BY Zenon DEF QuorumReached
  <2>1. Voted(ticket[t], agreed[t])
    BY DEF GateInvariant, ApprovalInv, NoTicket
  <2> QED BY <2>1 DEF Voted, Voters
<1> QED
  BY <1>1, SensitiveInvariant, PTL

\* A sensitive operation ran only with the quorum and the proved secret its policy asks
\* for, whatever setups and decisions raced with it (middleware_mfa.go: mfaMiddleware).
THEOREM SensitiveGate == Spec => []GateHolds
<1>1. GateInvariant => GateHolds
  BY Zenon DEF GateInvariant, GateInv, GateHolds, Backed, Behind
<1> QED
  BY <1>1, SensitiveInvariant, PTL

\* A decision that no other one overlapped undoes no resolution and loses no vote, for
\* any number of calls in progress (handler_approval.go: handleApprove, handleReject).
THEOREM SensitiveDecisions == Spec => DecisionsStick
<1> DEFINE Stick == \A t \in Tickets : ticket[t] # NoTicket /\ ticket'[t] # ticket[t] =>
              \/ \E c \in Calls : call[c] # NoWrite /\ call'[c] = NoWrite /\ call[c].of = t /\ call[c].stale
              \/ /\ ticket[t].status = "pending"
                 /\ \A i \in DOMAIN ticket[t].approvers : IsIn(ticket[t].approvers[i], ticket'[t].approvers)
<1>1. GateInvariant /\ [Next]_vars => [Stick]_ticketVars
  <2> SUFFICES ASSUME GateInvariant, [Next]_vars
               PROVE  Stick
    OBVIOUS
  <2>1. [ApprovalNext]_ticketVars
    BY DEF Next, vars, GateQuorum, GateMfa, GateRefused
  <2>2. ApprovalInv
    BY DEF GateInvariant
  <2> QED BY <2>1, <2>2, ApprovalDecides
<1>2. Spec => [][Stick]_ticketVars
  BY <1>1, SensitiveInvariant, PTL DEF Spec
<1> QED
  BY <1>2 DEF DecisionsStick
=============================================================================
