-------------------------------- MODULE Mfa ---------------------------------
(***************************************************************************)
(* One-time codes: the handlers of api/handler_mfa.go on the in-memory     *)
(* store of auth/mfa_store_memory.go, and ValidateTOTP of auth/totp.go.    *)
(*                                                                         *)
(* Every setup makes a new secret, numbered here, and a new MFAState       *)
(* object; the store hands out pointers to these objects, so "the object   *)
(* with secret s" and its Enabled flag outlive its place in the map.  The  *)
(* code of a secret is the counter of its 30-second window.                *)
(***************************************************************************)
EXTENDS Policies, Integers, Sequences

CONSTANTS
    MaxSecrets,     \* bound on the number of setups
    MaxWindow       \* bound on the clock, in windows of totpPeriod

ASSUME MfaAssumption == {MaxSecrets, MaxWindow} \subseteq Nat \ {0}

VARIABLES
    stored,     \* MemoryMFAStore.states: the secret of a role, 0 for none
    enabled,    \* the secrets whose object has Enabled set
    owner,      \* the role each secret was made for
    pending,    \* per role: a verify or disable between its read and its write
    window,     \* the current window
    proved      \* history: the secrets of which a valid code was presented

mfaVars == <<stored, enabled, owner, pending, window, proved>>

Secrets == 1 .. Len(owner)
NoCall == [op |-> "none", secret |-> 0]

MfaTypeOK ==
    /\ owner \in Seq(Roles) /\ Len(owner) <= MaxSecrets
    /\ stored \in [Roles -> {0} \cup Secrets]
    /\ enabled \subseteq Secrets /\ proved \subseteq Secrets
    /\ pending \in [Roles -> [op : {"none", "verify", "disable"}, secret : {0} \cup Secrets]]
    /\ window \in 0 .. MaxWindow

MfaInit ==
    /\ stored = [r \in Roles |-> 0]
    /\ enabled = {} /\ owner = <<>> /\ proved = {}
    /\ pending = [r \in Roles |-> NoCall]
    /\ window = 0

totpSkew == 1

\* ValidateTOTP: the code of any window within the skew, as often as it is shown
\* (every caller passes nil for markUsed).
ValidateTOTP(code) == \E skew \in -totpSkew .. totpSkew : code = window + skew

\* MemoryMFAStore.  Get hands out the object itself.
GetMFAState(r)     == stored[r]
SaveMFAState(r, s) == stored' = [stored EXCEPT ![r] = s]
DeleteMFAState(r)  == stored' = [stored EXCEPT ![r] = 0]

Codes == -1 .. MaxWindow + 1

NextWindow ==
    /\ window < MaxWindow /\ window' = window + 1
    /\ UNCHANGED <<stored, enabled, owner, pending, proved>>

\* handleMFASetup, for one's own role: a fresh secret, not enabled, replaces whatever
\* was there.
Setup(r) ==
    /\ Len(owner) < MaxSecrets
    /\ owner' = Append(owner, r)
    /\ SaveMFAState(r, Len(owner'))
    /\ UNCHANGED <<enabled, pending, window, proved>>

\* A handler that goes on when there is no state.
CheckCodeUnset(r, code, op) ==
    /\ pending[r].op = "none"
    /\ ValidateTOTP(code)
    /\ pending' = [pending EXCEPT ![r] = [op |-> op, secret |-> stored[r]]]
    /\ proved' = proved \cup {stored[r]}
    /\ UNCHANGED <<stored, enabled, owner, window>>

\* handleMFAVerify and handleMFADisable up to their write: the state is read and the
\* code validated against the secret in it.
CheckCode(r, code, op) ==
    /\ pending[r].op = "none" /\ GetMFAState(r) # 0
    /\ ValidateTOTP(code)
    /\ pending' = [pending EXCEPT ![r] = [op |-> op, secret |-> GetMFAState(r)]]
    /\ proved' = proved \cup {stored[r]}
    /\ UNCHANGED <<stored, enabled, owner, window>>

\* A verify that enables what is stored when it writes.
VerifyWriteCurrent(r) ==
    /\ pending[r].op = "verify" /\ stored[r] # 0
    /\ enabled' = enabled \cup {stored[r]}
    /\ pending' = [pending EXCEPT ![r] = NoCall]
    /\ UNCHANGED <<stored, owner, window, proved>>

\* The write of handleMFAVerify: it enables the object it read and saves that object,
\* over the one of a setup that came in between.
VerifyWrite(r) ==
    /\ pending[r].op = "verify"
    /\ enabled' = enabled \cup {pending[r].secret}
    /\ SaveMFAState(r, pending[r].secret)
    /\ pending' = [pending EXCEPT ![r] = NoCall]
    /\ UNCHANGED <<owner, window, proved>>

DisableWrite(r) ==
    /\ pending[r].op = "disable"
    /\ DeleteMFAState(r)
    /\ pending' = [pending EXCEPT ![r] = NoCall]
    /\ UNCHANGED <<enabled, owner, window, proved>>

handleMFAVerify(r)  == VerifyWrite(r) \/ \E code \in Codes : CheckCode(r, code, "verify")
handleMFADisable(r) == DisableWrite(r) \/ \E code \in Codes : CheckCode(r, code, "disable")

\* Any role may set up codes; those of a role that needs none open nothing.
MfaNext ==
    \/ NextWindow
    \/ \E r \in MfaRoles : Setup(r) \/ handleMFAVerify(r) \/ handleMFADisable(r)
=============================================================================
