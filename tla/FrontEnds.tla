------------------------------ MODULE FrontEnds -----------------------------
(***************************************************************************)
(* What the four front ends put around the operations of the service: the  *)
(* HTTP API (api), which calls the key manager itself for most of its      *)
(* routes, gRPC (grpc), the MCP tools (mcp) and the admin console (admin). *)
(***************************************************************************)
EXTENDS ServiceCore

body == Check("body")    \* method, JSON, required fields

isSymmetricKey     == Try("key type")
authorizeBodyKeyID == Check("allowed")
RequireAuth        == Check("auth")
requireUnsealedV1  == Check("unsealed")
rateLimiter        == Check("rate")

\* A text to encrypt that the caller sent, which is in memory before the route makes its
\* first check, and which nobody clears.
Sending(route) == <<New("request")>> \o Inner(route)

\* A buffer the handler wipes when it returns, and the copy in the reply, cleared too.
Replying(secret) == Inner(<<New("reply"), Wipe("reply"), Wipe(secret)>>)

----------------------------------------------------------------------------
(* The handlers of V1Router *)

handleCreateKey == <<body>> \o KEKRef(managerCreateKey) \o Replying("DEK")

handleKeyOps(action) == <<body>> \o Inner(action)

handleRotateKey           == <<body>> \o KEKRef(managerRotateKey) \o Replying("DEK")
handleShredKey            == <<body>> \o Inner(managerShredKey)
handleSoftDeleteKey       == <<body>> \o Inner(managerSoftDeleteKey)
handleRestoreKey          == <<body>> \o Inner(managerRestoreKey)
handleGenerateDataKey     == <<body>> \o KEKRef(managerGenerateDataKey) \o Replying("DEK")

handleCreateAsymmetricKey(create) == <<body>> \o KEKRef(create)

handleTransitPub == <<body, Do("new transit")>>
handleImportKey  == <<body>> \o KEKRef(managerImportKey)

handleV1Encrypt ==
    <<body>> \o Inner(<<New("text"), authorizeBodyKeyID, Do("read")>>
                      \o KEKRef(Unwrapping(<<Try("encrypt")>>)) \o <<Wipe("text")>>)

handleV1Decrypt ==
    <<body, authorizeBodyKeyID, Do("read")>>
    \o KEKRef(Unwrapping(<<Try("decrypt"), New("text")>>)) \o Replying("text")

handleV1Sign      == <<body>> \o Inner(Sign)
handleV1Verify    == <<body>> \o Inner(Verify)
handleV1ReEncrypt == <<body>> \o Inner(ReEncrypt)

\* The key bytes given to hmac.New are a copy that is never cleared, and the data key
\* that the reply leaves out is never wiped.
handleV1GenerateMac ==
    <<body, Do("read"), isSymmetricKey>> \o KEKRef(Unwrapping(<<New("mac key")>>))
handleV1VerifyMac ==
    <<body, Do("read")>> \o KEKRef(Unwrapping(<<New("mac key")>>))
handleV1GDKWithoutPlaintext ==
    <<body>> \o KEKRef(managerGenerateDataKey) \o <<Lose("DEK")>>

handleV1GetPublicKey == <<body, Do("read"), Try("public key")>>

handleSysUnseal     == Inner(<<New("share"), body, Do("share"), Wipe("share")>>)
handleEmergencySeal == <<body, Check("configured"), Check("admin token"), Do("freeze")>>

\* auditMiddleware records whatever comes of the handler, except that it refuses
\* without a record when the vault is frozen; authAndSeal looks at the seal first;
\* ServeHTTP comes before both, with the rate limiter.
auditMiddleware(handler) == <<Check("frozen")>> \o Inner(handler) \o <<Do("record")>>
authAndSeal(handler)     == <<requireUnsealedV1, RequireAuth>> \o Inner(handler)
ServeHTTP(route)         == <<rateLimiter>> \o Inner(route)

----------------------------------------------------------------------------
(* gRPC: the interceptor, then the core; the codec clears the secret of a reply *)

grpcAuthenticate == Check("auth")

InterceptorChain(method) == <<grpcAuthenticate, requireUnsealed>> \o Inner(method)

WipingCodec == Wipe("reply")

grpcEmergencySeal   == <<grpcAuthenticate, body>> \o Inner(EmergencySeal)
grpcCreateKey       == Inner(CreateKey) \o Inner(<<New("reply"), Wipe("DEK"), WipingCodec>>)
grpcRotateKey       == Inner(RotateKey) \o Inner(<<New("reply"), Wipe("DEK"), WipingCodec>>)
grpcShredKey        == Inner(ShredKey)
grpcSoftDeleteKey   == Inner(SoftDeleteKey)
grpcRestoreKey      == Inner(RestoreKey)
grpcEncrypt         == Inner(Encrypt)
grpcGenerateDataKey ==
    Inner(GenerateDataKey) \o Inner(<<New("base64"), Wipe("DEK"), New("reply"), WipingCodec>>)
grpcDecrypt         == Inner(Decrypt) \o Inner(<<New("reply"), Wipe("text"), WipingCodec>>)

----------------------------------------------------------------------------
(* MCP and the admin console *)

mcpAuthenticate == Check("auth")    \* and isKeyAllowed

mcpEncrypt == Sending(<<mcpAuthenticate, body>> \o Inner(Encrypt))
mcpDecrypt == <<mcpAuthenticate, body>> \o Inner(Decrypt)
              \o Inner(<<New("base64"), Wipe("text")>>)

adminAuthenticate == Check("auth")

requireAdminToken(handler) == <<adminAuthenticate>> \o Inner(handler)
proxyAPI(route)            == <<Check("configured")>> \o Inner(route)

adminSeal     == <<body, Do("seal")>>
adminUnseal   == Inner(<<New("share"), body, Do("share"), Wipe("share")>>)
adminListKeys == <<body, Check("unsealed"), ListKeyIDs>>

----------------------------------------------------------------------------

\* V1Router.register
httpRoutes ==
    LET Open(handler) == ServeHTTP(auditMiddleware(handler))
        Guarded(handler) == Open(authAndSeal(handler))
    IN  [unseal         |-> Open(handleSysUnseal),
         panic          |-> Open(handleEmergencySeal),
         transitPub     |-> Open(handleTransitPub),
         keys           |-> Guarded(handleCreateKey),
         import         |-> Guarded(handleImportKey),
         rotate         |-> Guarded(handleKeyOps(handleRotateKey)),
         shred          |-> Guarded(handleKeyOps(handleShredKey)),
         softDelete     |-> Guarded(handleKeyOps(handleSoftDeleteKey)),
         restore        |-> Guarded(handleKeyOps(handleRestoreKey)),
         dataKey        |-> Guarded(handleKeyOps(handleGenerateDataKey)),
         asymmetric     |-> Guarded(handleCreateAsymmetricKey(managerCreateAsymmetricKey)),
         sm2            |-> Guarded(handleCreateAsymmetricKey(createSM2Key)),
         encrypt        |-> Guarded(handleV1Encrypt),
         decrypt        |-> Guarded(handleV1Decrypt),
         sign           |-> Guarded(handleV1Sign),
         verify         |-> Guarded(handleV1Verify),
         macGenerate    |-> Guarded(handleV1GenerateMac),
         macVerify      |-> Guarded(handleV1VerifyMac),
         reEncrypt      |-> Guarded(handleV1ReEncrypt),
         gdkNoPlaintext |-> Guarded(handleV1GDKWithoutPlaintext),
         publicKey      |-> Guarded(handleV1GetPublicKey)]

grpcRoutes ==
    [EmergencySeal   |-> grpcEmergencySeal,
     CreateKey       |-> InterceptorChain(grpcCreateKey),
     RotateKey       |-> InterceptorChain(grpcRotateKey),
     ShredKey        |-> InterceptorChain(grpcShredKey),
     SoftDeleteKey   |-> InterceptorChain(grpcSoftDeleteKey),
     RestoreKey      |-> InterceptorChain(grpcRestoreKey),
     GenerateDataKey |-> InterceptorChain(grpcGenerateDataKey),
     Encrypt         |-> Sending(InterceptorChain(grpcEncrypt)),
     Decrypt         |-> InterceptorChain(grpcDecrypt)]

\* mcp.registerTools
mcpRoutes == [yvonne_encrypt |-> mcpEncrypt, yvonne_decrypt |-> mcpDecrypt]

\* admin.register
adminRoutes ==
    [seal    |-> requireAdminToken(adminSeal),
     unseal  |-> requireAdminToken(adminUnseal),
     keys    |-> requireAdminToken(adminListKeys),
     encrypt |-> requireAdminToken(proxyAPI(Sending(httpRoutes.encrypt))),
     decrypt |-> requireAdminToken(proxyAPI(httpRoutes.decrypt))]

allRoutes == [http |-> httpRoutes, grpc |-> grpcRoutes, mcp |-> mcpRoutes, admin |-> adminRoutes]
=============================================================================
