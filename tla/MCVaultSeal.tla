----------------------------- MODULE MCVaultSeal -----------------------------
(***************************************************************************)
(* VaultSeal for TLC, with the arithmetic its Combine stands for.          *)
(***************************************************************************)
EXTENDS VaultSeal, ColdBackup

CONSTANTS h1, h2, h3, current, former

MCHolders == {h1, h2, h3}
MCSplits == {current, former}

(* Two secrets of two bytes, zero and 255 among them, and the coefficients *)
(* of their polynomials of degree Threshold - 1.                           *)
Secret(s) == IF s = current THEN <<0, 255>> ELSE <<131, 7>>
Coefficients(s) ==
  IF s = current THEN <<<<77, 255>>, <<0, 1>>>> ELSE <<<<5, 0>>, <<200, 19>>>>

XOf(h) == CASE h = h1 -> 1 [] h = h2 -> 2 [] h = h3 -> 255

(* The bytes of a share of the model; BadShare is one with x = 0. *)
Dealt == [s \in MCSplits |-> Split(Secret(s), Coefficients(s), 255)]
Bytes(share) == IF share = BadShare THEN <<0, 1, 1>> ELSE Dealt[share.split][XOf(share.x)]

(* What the bytes of a combined secret mean to the model. *)
Meaning(bytes) ==
  IF bytes = Failed THEN NoKey
  ELSE IF \E s \in MCSplits : Secret(s) = bytes
       THEN CHOOSE s \in MCSplits : Secret(s) = bytes
       ELSE Garbage

(* The tables: gfMul by logarithms is the product computed bit by bit, and *)
(* gfInv gives an inverse for each of the 255 non-zero bytes.              *)
ASSUME FieldTables ==
  /\ \A a \in Byte, b \in {0, 1, 2, 3, 27, 128, 255} : gfMul(a, b) = gfMulNoTable(a, b)
  /\ \A a \in 1..255 : gfInv(a) \in Byte /\ gfMul(a, gfInv(a)) = 1

(* Combine on a pool as large as the threshold (the only kind ProvideShare *)
(* hands it) answers on bytes what VaultSeal's Combine says on names: the  *)
(* same pools are refused, shares of one split give its secret back, and   *)
(* shares of two splits give neither.                                      *)
ASSUME CombineOnBytes ==
  \A pool \in [1..Threshold -> [x : MCHolders, split : MCSplits] \cup {BadShare}] :
     Meaning(CombineWithThreshold([i \in 1..Threshold |-> Bytes(pool[i])], Threshold))
       = Combine(pool)

Files == SplitWrappedCMKToFiles(Secret(current), Coefficients(current), 4)
Damaged(file) == [file EXCEPT !.share = Append(Tail(@), 9)]

(* A backup in four files, three of which restore it: any three or four    *)
(* different files, in any order, give the wrapped key back; a file that   *)
(* is there twice, or damaged, makes the restore fail, never return        *)
(* another key.                                                            *)
ASSUME BackupRestores ==
  \A n \in 3..4 : \A pick \in [1..n -> 1..4] :
     LET chosen == [i \in 1..n |-> Files[pick[i]]]
     IN  /\ CombineWrappedCMKFromFiles(chosen) =
              IF \A i, j \in 1..n : i # j => pick[i] # pick[j] THEN Secret(current) ELSE Failed
         /\ \A i \in 1..n :
              CombineWrappedCMKFromFiles([chosen EXCEPT ![i] = Damaged(@)]) = Failed
=============================================================================
