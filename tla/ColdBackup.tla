----------------------------- MODULE ColdBackup -----------------------------
(***************************************************************************)
(* The cold backup of the wrapped master key (seal/backup.go): Shamir      *)
(* shares, each in a file of its own with a header and a MAC that detects  *)
(* a damaged file.  The MAC is a tag that equal shares and only they have. *)
(***************************************************************************)
EXTENDS Shamir

Mac(share) == [of |-> share]

encodeBackupShare(total, threshold, index, share) ==
  [magic |-> "YVSB", version |-> 1, total |-> total, threshold |-> threshold,
   index |-> index, hmac |-> Mac(share), share |-> share]

(* A file decodeBackupShare accepts. *)
decodeBackupShare(file) == file.magic = "YVSB" /\ file.version = 1

(* One file per share, or none when a parameter is out of range. *)
SplitWrappedCMKToFiles(wrappedCMK, random, total) ==
  LET threshold == 1 + Len(random[1])
      shares == Split(wrappedCMK, random, total)
  IN  IF total \in 2..255 /\ threshold \in 2..total /\ wrappedCMK # <<>>
      THEN [i \in 1..total |-> encodeBackupShare(total, threshold, i - 1, shares[i])]
      ELSE <<>>

(* The header's threshold is not consulted. *)
CombineWrappedCMKFromFiles(files) ==
  IF /\ Len(files) >= 2
     /\ \A i \in DOMAIN files :
          decodeBackupShare(files[i]) /\ files[i].hmac = Mac(files[i].share)
  THEN CombineBytes([i \in DOMAIN files |-> files[i].share])
  ELSE Failed
=============================================================================
