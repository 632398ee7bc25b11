---------------------------- MODULE SealContract ----------------------------
(***************************************************************************)
(* What the rest of the server relies on from the seal (the Unsealer       *)
(* interface, seal/unsealer.go): a master key that is either absent or     *)
(* lent to closures, never taken away from a closure that is using it, and *)
(* an emergency freeze after which no key ever comes back.                 *)
(***************************************************************************)
CONSTANTS Readers,   \* goroutines that call KEKRef / MasterKeyRef
          Keys,      \* master key values an unseal may install
          NoKey      \* no master key in memory

VARIABLES mode,      \* "sealed", "unsealed" or "frozen"
          key,       \* the master key in memory
          users      \* readers inside a KEKRef closure

vars == <<mode, key, users>>

Init == mode = "sealed" /\ key = NoKey /\ users = {}

(* One session starts: only a sealed, unfrozen vault accepts a key. *)
Unseal == /\ mode = "sealed"
          /\ mode' = "unsealed"
          /\ key' \in Keys
          /\ UNCHANGED users

(* A closure borrows the key, and gives it back. *)
Borrow(r) == /\ mode = "unsealed"
             /\ users' = users \cup {r}
             /\ UNCHANGED <<mode, key>>

Return(r) == /\ r \in users
             /\ users' = users \ {r}
             /\ UNCHANGED <<mode, key>>

(* The session ends, by request or by timeout, once nobody uses the key. *)
Close == /\ mode = "unsealed"
         /\ users = {}
         /\ mode' = "sealed"
         /\ key' = NoKey
         /\ UNCHANGED users

(* The freeze may hit a sealed or an unsealed vault and is final. *)
Freeze == /\ mode # "frozen"
          /\ users = {}
          /\ mode' = "frozen"
          /\ key' = NoKey
          /\ UNCHANGED users

Next == \/ Unseal
        \/ Close
        \/ Freeze
        \/ \E r \in Readers : Borrow(r) \/ Return(r)

Spec == Init /\ [][Next]_vars
=============================================================================
