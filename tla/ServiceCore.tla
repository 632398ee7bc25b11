----------------------------- MODULE ServiceCore ----------------------------
(***************************************************************************)
(* The operations of the service layer (service/core.go, core_v12.go) and  *)
(* of the key manager below it (lifecycle), each as the sequence of its    *)
(* steps: what it checks, what it reads and writes, which secrets it holds *)
(* in memory and when it wipes them.  Server.tla says what a step does.    *)
(*                                                                         *)
(* A step that fails ends the operation: of the steps that follow only the *)
(* cleanup (wipe, undo, leave) and the records are still taken, and those  *)
(* only if their block has been entered.  `level` is the depth of the      *)
(* block; a block is the body of a closure, of a called function, or what  *)
(* follows a `defer`.  A check that fails is a refusal: the block it is in *)
(* makes no record of it.                                                  *)
(***************************************************************************)
EXTENDS Sequences, Integers

Stage(what, which) == [do |-> what, on |-> which, level |-> 0]
Do(what)     == Stage(what, "")
Check(which) == Stage("check", which)    \* refuses the request
Try(which)   == Stage("try", which)      \* a local computation that may fail
New(secret)  == Stage("new", secret)     \* a secret in a buffer
Wipe(secret) == Stage("wipe", secret)    \* the buffer is wiped
Undo(secret) == Stage("undo", secret)    \* ... only if something failed
Lose(secret) == Stage("lose", secret)    \* the buffer is given up unwiped

Inner(steps) == [i \in DOMAIN steps |-> [steps[i] EXCEPT !.level = @ + 1]] \o <<Do("end")>>

\* A lock that is released at the end of the closure instead of by `defer`.
KEKRefWithoutDefer(steps) == <<Do("enter")>> \o Inner(steps \o Inner(<<Do("leave")>>))

\* seal.KEKRef(func(kek) { steps }): the closure runs while the key is lent to it.
KEKRef(steps) == <<Do("enter")>> \o Inner(steps \o <<Do("leave")>>)

WrapDEK   == Try("wrap")
UnwrapDEK == Try("unwrap")

\* key := kek.UnwrapDEK(...); defer key.Wipe(); steps
Unwrapping(steps) == <<UnwrapDEK>> \o Inner(<<New("key")>> \o steps \o <<Wipe("key")>>)

----------------------------------------------------------------------------
(* lifecycle.Manager *)

managerCreateKey ==
    <<New("DEK"), WrapDEK, Do("put"), Do("index"), Undo("DEK")>>

\* RSA and ECDSA: the public key is encoded after the private key has been wrapped.  The
\* encoded private key is wiped, the object it was generated as is not.
managerCreateAsymmetricKey ==
    <<Try("generate"), New("private key"), Try("DER")>>
    \o Inner(<<New("DER"), WrapDEK, Try("public key"), Do("put"), Do("index"), Wipe("DER")>>)

createSM2Key ==
    <<Try("generate"), New("private key")>> \o Inner(<<New("PEM"), WrapDEK, Do("put"), Do("index"), Wipe("PEM")>>)

managerRotateKey ==
    <<Try("begin"), New("DEK"), WrapDEK, Do("commit"), Undo("DEK")>>

ListKeyIDs == Try("list")

managerShredKey      == <<Try("begin"), Do("commit")>>
managerSoftDeleteKey == <<Try("begin"), Do("commit")>>
managerRestoreKey    == <<Try("begin"), Do("commit")>>

managerGenerateDataKey ==
    <<Do("read"), New("DEK")>> \o Unwrapping(<<Try("encrypt")>>) \o <<Undo("DEK")>>

\* The transit key is used up before anything is stored.
managerImportKey ==
    <<Do("transit")>> \o Inner(<<New("DEK"), WrapDEK, Do("put"), Wipe("DEK")>>)

----------------------------------------------------------------------------
(* seal.LocalPKIUnsealer, before any request *)

\* The file's bytes are cleared on every path, the decoded block and the RSA key parsed
\* from it on none.  The file itself is removed once the vault is unsealed; that it
\* cannot be removed is a failure all the same.
AutoUnseal ==
    <<Try("read file")>>
    \o Inner(<<New("PEM"), Try("decode"), New("RSA key"), Try("parse"), Do("read"), Try("decrypt"),
               New("master key"), Stage("unseal", "master key"), Undo("master key"), Wipe("PEM")>>)
    \o <<Try("remove file")>>

\* buildAutoUnseal, then the servers.
startUp == AutoUnseal \o <<Do("start")>>

----------------------------------------------------------------------------
(* service.Core *)

requireUnsealed == Check("unsealed")
requireWritable == Check("writable")
authorize       == Check("allowed")
recordAudit     == Do("record")

Writing(steps) == <<requireUnsealed, requireWritable, authorize>> \o steps \o <<recordAudit>>
Using(steps)   == <<requireUnsealed, authorize>> \o steps \o <<recordAudit>>

CreateKey     == Writing(KEKRef(managerCreateKey))
RotateKey     == Writing(KEKRef(managerRotateKey))
ShredKey      == Writing(Inner(managerShredKey))
SoftDeleteKey == Writing(Inner(managerSoftDeleteKey))
RestoreKey    == Writing(Inner(managerRestoreKey))

GenerateDataKey == Using(KEKRef(managerGenerateDataKey))

Encrypt == Using(<<Do("read")>> \o KEKRef(Unwrapping(<<Try("encrypt")>>)))

Decrypt == <<requireUnsealed, authorize, Check("format"), Do("read")>>
           \o KEKRef(Unwrapping(<<Try("decrypt"), New("text")>>)) \o <<recordAudit>>

isAsymmetricKeyType == Try("key type")
signAsymmetric      == Try("sign")
verifyAsymmetric    == Try("verify")

\* The key bytes that Sign copies out of their buffer are never cleared.
Sign == Using(<<Do("read"), isAsymmetricKeyType>>
              \o KEKRef(Unwrapping(<<New("private key"), signAsymmetric>>)))

Verify == Using(<<Do("read"), verifyAsymmetric>>)

\* Nor are the plaintext bytes that ReEncrypt copies.
ReEncrypt == Using(<<authorize>> \o Inner(Decrypt)
                   \o Inner(<<New("plain bytes"), Wipe("text")>>) \o Inner(Encrypt))

\* A wrong token is recorded, a missing configuration is not.
EmergencySeal == <<Check("configured"), Try("admin token"), Do("freeze"), recordAudit>>
=============================================================================
