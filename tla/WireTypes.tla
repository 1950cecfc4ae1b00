------------------------------ MODULE WireTypes ------------------------------
(***************************************************************************)
(* The TPM structures of the protocol crate: src/crates/protocol/src/data. *)
(*                                                                         *)
(* A type is a schema made of the building blocks of WireCodec.            *)
(***************************************************************************)
EXTENDS Integers, Sequences, Bytes, ResponseCode, WireCodec

Empty == Struct(<<>>)
Digest20 == Fixed(20)
Digest24 == Fixed(24)
Digest32 == Fixed(32)
Digest48 == Fixed(48)
Digest64 == Fixed(64)

(***************************************************************************)
(* Enumerations (data/enum/mod.rs, data/tpmi.rs) and bit fields, which are *)
(* integers in which any bit may be set (data/tpma.rs).                    *)
(***************************************************************************)
\* TPM_ALG_ID, TPM_ST, TPM_CAP and TPM_HT by name: they select union arms.
Alg ==
    [Error |-> 0, Rsa |-> 1, Tdes |-> 3, Sha1 |-> 4, Hmac |-> 5, Aes |-> 6,
     Mgf1 |-> 7, KeyedHash |-> 8, Xor |-> 10, Sha256 |-> 11, Sha384 |-> 12,
     Sha512 |-> 13, Null |-> 16, Sm3_256 |-> 18, Sm4 |-> 19, Rsassa |-> 20,
     Rsaes |-> 21, Rsapss |-> 22, Oaep |-> 23, Ecdsa |-> 24, Ecdh |-> 25,
     Ecdaa |-> 26, Sm2 |-> 27, Ecschnorr |-> 28, Ecmqv |-> 29,
     Kdf1Sp800_56A |-> 32, Kdf2 |-> 33, Kdf1Sp800_108 |-> 34, Ecc |-> 35,
     SymCipher |-> 37, Camellia |-> 38, Sha3_256 |-> 39, Sha3_384 |-> 40,
     Sha3_512 |-> 41, Shake128 |-> 42, Shake256 |-> 43, Shake256_192 |-> 44,
     Shake256_256 |-> 45, Shake256_512 |-> 46, Cmac |-> 63, Ctr |-> 64,
     Ofb |-> 65, Cbc |-> 66, Cfb |-> 67, Ecb |-> 68, Ccm |-> 80, Gcm |-> 81,
     Kw |-> 82, Kwp |-> 83, Eax |-> 84, Eddsa |-> 96, EddsaPh |-> 97,
     Lms |-> 112, Xmss |-> 113, Keyedxof |-> 128, Kmacxof128 |-> 129,
     Kmacxof256 |-> 130, Kmac128 |-> 144, Kmac256 |-> 145]
St ==
    [RspCommand |-> 196, Null |-> 32768, NoSessions |-> 32769,
     Sessions |-> 32770, AttestNv |-> 32788, AttestCommandAudit |-> 32789,
     AttestSessionAudit |-> 32790, AttestCertify |-> 32791,
     AttestQuote |-> 32792, AttestTime |-> 32793, AttestCreation |-> 32794,
     AttestNvDigest |-> 32796, Creation |-> 32801, Verified |-> 32802,
     AuthSecret |-> 32803, HashCheck |-> 32804, AuthSigned |-> 32805]
Cap ==
    [Algs |-> 0, Handles |-> 1, Commands |-> 2, PpCommands |-> 3,
     AuditCommands |-> 4, Pcrs |-> 5, TpmProperties |-> 6,
     PcrProperties |-> 7, EccCurves |-> 8, AuthPolicies |-> 9, Act |-> 10,
     VendorProperty |-> 256]
Ht ==
    [Pcr |-> 0, NvIndex |-> 1, HmacSession |-> 2, PolicySession |-> 3,
     ExternalNv |-> 17, PermanentNv |-> 18, Permanent |-> 64,
     Transient |-> 128, Persistent |-> 129, Ac |-> 144]

Codes(named) == {named[n] : n \in DOMAIN named}
AlgUnion(size, arms) == Union(1, 2, Alg, size, arms)
StUnion(by, size, arms) == Union(by, 2, St, size, arms)
CapUnion(size, arms) == Union(1, 4, Cap, size, arms)
HtUnion(size, arms) == Union(1, 1, Ht, size, arms)

TpmAlgId == Enum(2, Codes(Alg))
TpmSt == Enum(2, Codes(St))
TpmCap == Enum(4, Codes(Cap))
TpmHt == Enum(1, Codes(Ht))
TpmAt == [Enum(4, 0..2) EXCEPT !.vals = @ \union {<<128, 0, 0, 0>>}]
TpmCc ==
    Enum(4, \h11F..\h122 \union \h124..\h159 \union \h15B..\h15E \union \h160..\h165
            \union \h167..\h174 \union \h176..\h196 \union \h198..\h1A1 \union {\h20000000})
TpmClockAdjust == Enum(1, 253..255 \union 0..3)
TpmEo == Enum(2, 0..11)
TpmEccCurve == Enum(2, 0..5 \union {\h10, \h11, \h20, \h30, \h31, \h32, \h40, \h41})
TpmPt == Enum(4, \h100..\h114 \union \h116..\h12E \union \h200..\h214)
TpmRh ==
    Enum(4, \h40000000..\h4000000D \union \h40000140..\h40000143
            \union {\h40010000, \h40020000, \h40030000, \h40040000})
TpmSe == Enum(1, {0, 1, 3})
TpmSu == Enum(2, {0, 1})
TpmiYesNo == Enum(1, {0, 1})
TpmiEccKeyExchange == Enum(2, {0} \union {Alg.Ecdh, Alg.Ecmqv, Alg.Sm2})

\* The response codes that TpmRc::try_from accepts; all are below 2^12.
TpmRc ==
    [k |-> "enum", w |-> 4,
     vals |-> {raw \in {<<0, 0, hi, lo>> : hi \in 0..15, lo \in Byte} : TpmRcReadable(raw)}]

TpmUint8 == Word(1)
TpmUint16 == Word(2)
TpmUint32 == Word(4)
TpmUint64 == Word(8)
TpmHandle == Word(4)
TpmaAct == Word(4)
TpmaAlgorithm == Word(4)
TpmaCc == Word(4)
TpmaLocality == Word(1)
TpmaNv == Word(4)
TpmaNvExp == Word(8)
TpmaObject == Word(4)
TpmaSession == Word(1)

(***************************************************************************)
(* Buffers (data/mod.rs, capacities of constant.rs).                       *)
(***************************************************************************)
Tpm2b == Buf(2, TPM_MAX_COMMAND_SIZE)
Tpm2bAuth == Buf(2, 64)
Tpm2bDigest == Buf(2, 64)
Tpm2bNonce == Buf(2, 64)
Tpm2bOperand == Buf(2, 64)
Tpm2bEccParameter == Buf(2, 66)
Tpm2bName == Buf(2, 66)
Tpm2bData == Buf(2, 66)
Tpm2bEncryptedSecret == Buf(2, 512)
Tpm2bPublicKeyRsa == Buf(2, 512)
Tpm2bPrivateKeyRsa == Buf(2, 256)
Tpm2bSensitiveData == Buf(2, 256)
Tpm2bEvent == Buf(2, 1024)
Tpm2bMaxBuffer == Buf(2, 1024)
Tpm2bMaxNvBuffer == Buf(2, 1024)
Tpm2bPrivate == Buf(2, 1408)
Tpm2bSymKey == Buf(2, 32)
Tpm2bTimeout == Buf(2, 8)
Tpm2bIv == Buf(2, 16)
TpmsPcrSelect == Buf(1, 4)

(***************************************************************************)
(* Structures without a union, and the hash that is one (data/tpms.rs,     *)
(* data/tpmt.rs, data/tpmu.rs).                                            *)
(***************************************************************************)
\* digest_size: the digest lengths, and the algorithms that have them.
TpmuHa ==
    AlgUnion(64,
          <<Arm({"Null"}, "Empty"),
            Arm({"Sha1"}, "Digest20"),
            Arm({"Shake256_192"}, "Digest24"),
            Arm({"Sha256", "Sm3_256", "Sha3_256", "Shake256_256"}, "Digest32"),
            Arm({"Sha384", "Sha3_384"}, "Digest48"),
            Arm({"Sha512", "Sha3_512", "Shake256_512"}, "Digest64")>>)
TpmtHa == Checked(<<"TpmAlgId", "TpmuHa">>)

TpmsPcrSelection == Struct(<<"TpmAlgId", "TpmsPcrSelect">>)
TpmlPcrSelection == Tpml("TpmsPcrSelection", 8)
TpmlDigest == Tpml("Tpm2bDigest", 8)
TpmlDigestValues == Tpml("TpmtHa", 8)
TpmlAlg == Tpml("TpmAlgId", 64)
TpmlCc == Tpml("TpmCc", 256)
TpmlCca == Tpml("TpmaCc", 256)
TpmlHandle == Tpml("TpmUint32", 128)
TpmlEccCurve == Tpml("TpmEccCurve", 64)

TpmsAcOutput == Struct(<<"TpmAt", "TpmUint32">>)
TpmlAcCapabilities == Tpml("TpmsAcOutput", 64)
TpmsActData == Struct(<<"TpmHandle", "TpmUint32", "TpmaAct">>)
TpmlActData == Tpml("TpmsActData", 8)
TpmsAlgProperty == Struct(<<"TpmAlgId", "TpmaAlgorithm">>)
TpmlAlgProperty == Tpml("TpmsAlgProperty", 64)
TpmsTaggedProperty == Struct(<<"TpmPt", "TpmUint32">>)
TpmlTaggedTpmProperty == Tpml("TpmsTaggedProperty", 64)
TpmsTaggedPolicy == Struct(<<"TpmHandle", "TpmtHa">>)
TpmlTaggedPolicy == Tpml("TpmsTaggedPolicy", 8)

TpmsAuthCommand == Struct(<<"TpmHandle", "Tpm2bNonce", "TpmaSession", "Tpm2bAuth">>)
TpmsAuthResponse == Struct(<<"Tpm2bNonce", "TpmaSession", "Tpm2bAuth">>)
TpmsClockInfo == Struct(<<"TpmUint64", "TpmUint32", "TpmUint32", "TpmiYesNo">>)
TpmsContext == Struct(<<"TpmUint64", "TpmHandle", "TpmRh", "Tpm2b">>)
TpmsCreationData ==
    Struct(<<"TpmlPcrSelection", "Tpm2bDigest", "TpmaLocality", "TpmAlgId", "Tpm2bName",
             "Tpm2bName",
             "Tpm2bData">>)
TpmsEccPoint == Struct(<<"Tpm2bEccParameter", "Tpm2bEccParameter">>)
TpmsNvPublic == Struct(<<"TpmHandle", "TpmAlgId", "TpmaNv", "Tpm2bDigest", "TpmUint16">>)
TpmsNvPublicExpAttr == Struct(<<"TpmHandle", "TpmAlgId", "TpmaNvExp", "Tpm2bDigest", "TpmUint16">>)
TpmsSensitiveCreate == Struct(<<"Tpm2bAuth", "Tpm2bSensitiveData">>)
TpmsIdObject == Struct(<<"Tpm2bDigest", "Tpm2bDigest">>)
TpmsTimeInfo == Struct(<<"TpmUint64", "TpmsClockInfo">>)
TpmsSignatureRsa == Struct(<<"TpmAlgId", "Tpm2bPublicKeyRsa">>)
TpmsSignatureEcc == Struct(<<"TpmAlgId", "Tpm2bEccParameter", "Tpm2bEccParameter">>)
TpmsTimeAttestInfo == Struct(<<"TpmsTimeInfo", "TpmUint64">>)
TpmsCertifyInfo == Struct(<<"Tpm2bName", "Tpm2bName">>)
TpmsQuoteInfo == Struct(<<"TpmlPcrSelection", "Tpm2bDigest">>)
TpmsCommandAuditInfo == Struct(<<"TpmUint64", "TpmAlgId", "Tpm2bDigest", "Tpm2bDigest">>)
TpmsSessionAuditInfo == Struct(<<"TpmiYesNo", "Tpm2bDigest">>)
TpmsCreationInfo == Struct(<<"Tpm2bName", "Tpm2bDigest">>)
TpmsNvCertifyInfo == Struct(<<"Tpm2bName", "TpmUint16", "Tpm2bMaxNvBuffer">>)
TpmsNvDigestCertifyInfo == Struct(<<"Tpm2bName", "Tpm2bDigest">>)
TpmsSchemeHash == Struct(<<"TpmAlgId">>)
TpmtTkCreation == Struct(<<"TpmSt", "TpmRh", "Tpm2bDigest">>)
TpmtTkVerified == Struct(<<"TpmSt", "TpmRh", "Tpm2bDigest">>)
TpmtTkAuth == Struct(<<"TpmSt", "TpmRh", "Tpm2bDigest">>)
TpmtTkHashcheck == Struct(<<"TpmSt", "TpmRh", "Tpm2bDigest">>)

(***************************************************************************)
(* Unions and the structures that select their arms.                       *)
(***************************************************************************)
TpmuKdfScheme ==
    AlgUnion(TPM_MAX_COMMAND_SIZE,
          <<Arm({"Mgf1"}, "TpmsSchemeHash"),
            Arm({"Kdf1Sp800_56A"}, "TpmsSchemeHash"),
            Arm({"Kdf2"}, "TpmsSchemeHash"),
            Arm({"Kdf1Sp800_108"}, "TpmsSchemeHash"),
            Arm({"Null"}, "Empty")>>)
TpmtKdfScheme == Checked(<<"TpmAlgId", "TpmuKdfScheme">>)
TpmsSchemeXor == Struct(<<"TpmAlgId", "TpmtKdfScheme">>)

TpmuAsymScheme ==
    AlgUnion(TPM_MAX_COMMAND_SIZE,
          <<Arm({"Rsassa", "Rsapss", "Ecdsa", "Ecdaa", "Sm2", "Ecschnorr", "Oaep",
                         "Ecdh", "Ecmqv"}, "TpmsSchemeHash"),
            Arm({"Rsaes", "Null"}, "Empty")>>)
TpmtRsaDecrypt == Checked(<<"TpmAlgId", "TpmuAsymScheme">>)
TpmtRsaScheme == Checked(<<"TpmAlgId", "TpmuAsymScheme">>)
TpmtEccScheme == Checked(<<"TpmAlgId", "TpmuAsymScheme">>)

TpmuKeyedhashScheme ==
    AlgUnion(TPM_MAX_COMMAND_SIZE,
          <<Arm({"Hmac"}, "TpmsSchemeHash"),
            Arm({"Xor"}, "TpmsSchemeXor"),
            Arm({"Null"}, "Empty")>>)
TpmtKeyedhashScheme == Checked(<<"TpmAlgId", "TpmuKeyedhashScheme">>)

TpmuSigScheme ==
    AlgUnion(TPM_MAX_COMMAND_SIZE,
          <<Arm({"Hmac"}, "TpmsSchemeHash"),
            Arm({"Rsassa", "Rsapss", "Ecdsa", "Ecdaa", "Sm2", "Ecschnorr"},
                "TpmsSchemeHash"),
            Arm({"Null"}, "Empty")>>)
TpmtSigScheme == Checked(<<"TpmAlgId", "TpmuSigScheme">>)

TpmuSymKeyBits ==
    AlgUnion(2,
          <<Arm({"Aes"}, "TpmUint16"), Arm({"Sm4"}, "TpmUint16"),
            Arm({"Camellia"}, "TpmUint16"), Arm({"Xor"}, "TpmAlgId"),
            Arm({"Null"}, "Empty")>>)
TpmuSymMode ==
    AlgUnion(2,
          <<Arm({"Aes"}, "TpmAlgId"), Arm({"Sm4"}, "TpmAlgId"),
            Arm({"Camellia"}, "TpmAlgId"), Arm({"Xor"}, "TpmAlgId"),
            Arm({"Null"}, "Empty")>>)
TpmtSymDef == Optional(<<"TpmAlgId", "TpmuSymKeyBits", "TpmuSymMode">>)

TpmsKeyedhashParms == Struct(<<"TpmtKeyedhashScheme">>)
TpmsSymcipherParms == Struct(<<"TpmtSymDef">>)
TpmsRsaParms == Struct(<<"TpmtSymDef", "TpmtRsaScheme", "TpmUint16", "TpmUint32">>)
TpmsEccParms == Struct(<<"TpmtSymDef", "TpmtEccScheme", "TpmEccCurve", "TpmtKdfScheme">>)
TpmsAlgorithmDetailEcc ==
    Struct(<<"TpmEccCurve", "TpmUint16", "TpmtKdfScheme", "TpmtEccScheme", "Tpm2bEccParameter",
             "Tpm2bEccParameter", "Tpm2bEccParameter", "Tpm2bEccParameter", "Tpm2bEccParameter",
             "Tpm2bEccParameter", "Tpm2bEccParameter">>)

TpmuPublicParms ==
    AlgUnion(TPM_MAX_COMMAND_SIZE,
          <<Arm({"KeyedHash"}, "TpmsKeyedhashParms"),
            Arm({"SymCipher"}, "TpmsSymcipherParms"),
            Arm({"Rsa"}, "TpmsRsaParms"), Arm({"Ecc"}, "TpmsEccParms"),
            Arm({"Null"}, "Empty")>>)
TpmuPublicId ==
    AlgUnion(TPM_MAX_COMMAND_SIZE,
          <<Arm({"KeyedHash"}, "Tpm2bDigest"), Arm({"SymCipher"}, "Tpm2bSymKey"),
            Arm({"Rsa"}, "Tpm2bPublicKeyRsa"), Arm({"Ecc"}, "TpmsEccPoint"),
            Arm({"Null"}, "Empty")>>)
TpmtPublic ==
    Sized(TPM_MAX_COMMAND_SIZE,
          Checked(<<"TpmAlgId", "TpmAlgId", "TpmaObject", "Tpm2bDigest", "TpmuPublicParms",
                    "TpmuPublicId">>))
TpmtPublicParms == Checked(<<"TpmAlgId", "TpmuPublicParms">>)

TpmuSensitiveComposite ==
    AlgUnion(TPM_MAX_COMMAND_SIZE,
          <<Arm({"Rsa"}, "Tpm2bPrivateKeyRsa"), Arm({"Ecc"}, "Tpm2bEccParameter"),
            Arm({"KeyedHash"}, "Tpm2bSensitiveData"),
            Arm({"SymCipher"}, "Tpm2bSymKey")>>)
TpmtSensitive == Checked(<<"TpmAlgId", "Tpm2bAuth", "Tpm2bDigest", "TpmuSensitiveComposite">>)

TpmuSignature ==
    AlgUnion(TPM_MAX_COMMAND_SIZE,
          <<Arm({"Rsassa"}, "TpmsSignatureRsa"), Arm({"Rsapss"},
            "TpmsSignatureRsa"),
            Arm({"Ecdsa"}, "TpmsSignatureEcc"), Arm({"Ecdaa"},
            "TpmsSignatureEcc"),
            Arm({"Sm2"}, "TpmsSignatureEcc"), Arm({"Ecschnorr"},
            "TpmsSignatureEcc"),
            Arm({"Hmac"}, "TpmtHa"), Arm({"Null"}, "Empty")>>)
TpmtSignature == Checked(<<"TpmAlgId", "TpmuSignature">>)

TpmuNvPublic2 ==
    HtUnion(TPM_MAX_COMMAND_SIZE,
          <<Arm({"NvIndex"}, "TpmsNvPublic"),
            Arm({"ExternalNv"}, "TpmsNvPublicExpAttr"),
            Arm({"PermanentNv"}, "TpmsNvPublic")>>)
TpmtNvPublic2 == Checked(<<"TpmHt", "TpmuNvPublic2">>)

\* marshal of the next two writes selector and union without comparing them.
TpmuCapabilities ==
    CapUnion(TPM_MAX_COMMAND_SIZE,
          <<Arm({"Algs"}, "TpmlAlgProperty"), Arm({"Handles"}, "TpmlHandle"),
            Arm({"Pcrs"}, "TpmlPcrSelection"), Arm({"Commands"}, "TpmlCca"),
            Arm({"PpCommands"}, "TpmlCc"), Arm({"AuditCommands"}, "TpmlCc"),
            Arm({"TpmProperties"}, "TpmlTaggedTpmProperty"),
            Arm({"EccCurves"}, "TpmlEccCurve"),
            Arm({"AuthPolicies"}, "TpmlTaggedPolicy"), Arm({"Act"},
            "TpmlActData")>>)
TpmsCapabilityData == Struct(<<"TpmCap", "TpmuCapabilities">>)

TPM_GENERATED_VALUE == [k |-> "enum", w |-> 4, vals |-> {<<255, 84, 67, 71>>}]
TpmuAttest ==
    StUnion(2, TPM_MAX_COMMAND_SIZE,
          <<Arm({"AttestCertify"}, "TpmsCertifyInfo"),
            Arm({"AttestCreation"}, "TpmsCreationInfo"),
            Arm({"AttestQuote"}, "TpmsQuoteInfo"),
            Arm({"AttestCommandAudit"}, "TpmsCommandAuditInfo"),
            Arm({"AttestSessionAudit"}, "TpmsSessionAuditInfo"),
            Arm({"AttestTime"}, "TpmsTimeAttestInfo"),
            Arm({"AttestNv"}, "TpmsNvCertifyInfo"),
            Arm({"AttestNvDigest"}, "TpmsNvDigestCertifyInfo")>>)
TpmsAttest ==
    Struct(<<"TPM_GENERATED_VALUE", "TpmSt", "Tpm2bName", "Tpm2bData", "TpmsClockInfo", "TpmUint64",
             "TpmuAttest">>)

(***************************************************************************)
(* Structures in a TPM2B wrapper (data/mod.rs).                            *)
(***************************************************************************)
Tpm2bPublic == Tpm2bOf("TpmtPublic")
Tpm2bSensitiveCreate == Tpm2bOf("TpmsSensitiveCreate")
Tpm2bSensitive == Tpm2bOf("TpmtSensitive")
Tpm2bCreationData == Tpm2bOf("TpmsCreationData")
Tpm2bAttest == Tpm2bOf("TpmsAttest")
Tpm2bNvPublic == Tpm2bOf("TpmsNvPublic")
Tpm2bIdObject == Tpm2bOf("TpmsIdObject")
Tpm2bEccPoint == Tpm2bOf("TpmsEccPoint")
Tpm2bNvPublic2 == Tpm2bOf("TpmtNvPublic2")

(***************************************************************************)
(* The types by name.                                                      *)
(***************************************************************************)
TypeTable ==
    [Empty |-> Empty, Digest20 |-> Digest20, Digest24 |-> Digest24, Digest32 |-> Digest32,
     Digest48 |-> Digest48, Digest64 |-> Digest64, TpmAlgId |-> TpmAlgId, TpmSt |-> TpmSt,
     TpmCap |-> TpmCap, TpmHt |-> TpmHt, TpmAt |-> TpmAt, TpmCc |-> TpmCc,
     TpmClockAdjust |-> TpmClockAdjust, TpmEo |-> TpmEo, TpmEccCurve |-> TpmEccCurve,
     TpmPt |-> TpmPt, TpmRh |-> TpmRh, TpmSe |-> TpmSe, TpmSu |-> TpmSu, TpmiYesNo |-> TpmiYesNo,
     TpmiEccKeyExchange |-> TpmiEccKeyExchange, TpmRc |-> TpmRc, TpmUint8 |-> TpmUint8,
     TpmUint16 |-> TpmUint16, TpmUint32 |-> TpmUint32, TpmUint64 |-> TpmUint64,
     TpmHandle |-> TpmHandle, TpmaAct |-> TpmaAct, TpmaAlgorithm |-> TpmaAlgorithm,
     TpmaCc |-> TpmaCc, TpmaLocality |-> TpmaLocality, TpmaNv |-> TpmaNv,
     TpmaNvExp |-> TpmaNvExp, TpmaObject |-> TpmaObject, TpmaSession |-> TpmaSession,
     Tpm2b |-> Tpm2b, Tpm2bAuth |-> Tpm2bAuth, Tpm2bDigest |-> Tpm2bDigest,
     Tpm2bNonce |-> Tpm2bNonce, Tpm2bOperand |-> Tpm2bOperand,
     Tpm2bEccParameter |-> Tpm2bEccParameter, Tpm2bName |-> Tpm2bName, Tpm2bData |-> Tpm2bData,
     Tpm2bEncryptedSecret |-> Tpm2bEncryptedSecret, Tpm2bPublicKeyRsa |-> Tpm2bPublicKeyRsa,
     Tpm2bPrivateKeyRsa |-> Tpm2bPrivateKeyRsa, Tpm2bSensitiveData |-> Tpm2bSensitiveData,
     Tpm2bEvent |-> Tpm2bEvent, Tpm2bMaxBuffer |-> Tpm2bMaxBuffer,
     Tpm2bMaxNvBuffer |-> Tpm2bMaxNvBuffer, Tpm2bPrivate |-> Tpm2bPrivate,
     Tpm2bSymKey |-> Tpm2bSymKey, Tpm2bTimeout |-> Tpm2bTimeout, Tpm2bIv |-> Tpm2bIv,
     TpmsPcrSelect |-> TpmsPcrSelect, TpmuHa |-> TpmuHa, TpmtHa |-> TpmtHa,
     TpmsPcrSelection |-> TpmsPcrSelection, TpmlPcrSelection |-> TpmlPcrSelection,
     TpmlDigest |-> TpmlDigest, TpmlDigestValues |-> TpmlDigestValues, TpmlAlg |-> TpmlAlg,
     TpmlCc |-> TpmlCc, TpmlCca |-> TpmlCca, TpmlHandle |-> TpmlHandle,
     TpmlEccCurve |-> TpmlEccCurve, TpmsAcOutput |-> TpmsAcOutput,
     TpmlAcCapabilities |-> TpmlAcCapabilities, TpmsActData |-> TpmsActData,
     TpmlActData |-> TpmlActData, TpmsAlgProperty |-> TpmsAlgProperty,
     TpmlAlgProperty |-> TpmlAlgProperty, TpmsTaggedProperty |-> TpmsTaggedProperty,
     TpmlTaggedTpmProperty |-> TpmlTaggedTpmProperty, TpmsTaggedPolicy |-> TpmsTaggedPolicy,
     TpmlTaggedPolicy |-> TpmlTaggedPolicy, TpmsAuthCommand |-> TpmsAuthCommand,
     TpmsAuthResponse |-> TpmsAuthResponse, TpmsClockInfo |-> TpmsClockInfo,
     TpmsContext |-> TpmsContext, TpmsCreationData |-> TpmsCreationData,
     TpmsEccPoint |-> TpmsEccPoint, TpmsNvPublic |-> TpmsNvPublic,
     TpmsNvPublicExpAttr |-> TpmsNvPublicExpAttr, TpmsSensitiveCreate |-> TpmsSensitiveCreate,
     TpmsIdObject |-> TpmsIdObject, TpmsTimeInfo |-> TpmsTimeInfo,
     TpmsSignatureRsa |-> TpmsSignatureRsa, TpmsSignatureEcc |-> TpmsSignatureEcc,
     TpmsTimeAttestInfo |-> TpmsTimeAttestInfo, TpmsCertifyInfo |-> TpmsCertifyInfo,
     TpmsQuoteInfo |-> TpmsQuoteInfo, TpmsCommandAuditInfo |-> TpmsCommandAuditInfo,
     TpmsSessionAuditInfo |-> TpmsSessionAuditInfo, TpmsCreationInfo |-> TpmsCreationInfo,
     TpmsNvCertifyInfo |-> TpmsNvCertifyInfo,
     TpmsNvDigestCertifyInfo |-> TpmsNvDigestCertifyInfo, TpmsSchemeHash |-> TpmsSchemeHash,
     TpmtTkCreation |-> TpmtTkCreation, TpmtTkVerified |-> TpmtTkVerified,
     TpmtTkAuth |-> TpmtTkAuth, TpmtTkHashcheck |-> TpmtTkHashcheck,
     TpmuKdfScheme |-> TpmuKdfScheme, TpmtKdfScheme |-> TpmtKdfScheme,
     TpmsSchemeXor |-> TpmsSchemeXor, TpmuAsymScheme |-> TpmuAsymScheme,
     TpmtRsaDecrypt |-> TpmtRsaDecrypt, TpmtRsaScheme |-> TpmtRsaScheme,
     TpmtEccScheme |-> TpmtEccScheme, TpmuKeyedhashScheme |-> TpmuKeyedhashScheme,
     TpmtKeyedhashScheme |-> TpmtKeyedhashScheme, TpmuSigScheme |-> TpmuSigScheme,
     TpmtSigScheme |-> TpmtSigScheme, TpmuSymKeyBits |-> TpmuSymKeyBits,
     TpmuSymMode |-> TpmuSymMode, TpmtSymDef |-> TpmtSymDef,
     TpmsKeyedhashParms |-> TpmsKeyedhashParms, TpmsSymcipherParms |-> TpmsSymcipherParms,
     TpmsRsaParms |-> TpmsRsaParms, TpmsEccParms |-> TpmsEccParms,
     TpmsAlgorithmDetailEcc |-> TpmsAlgorithmDetailEcc, TpmuPublicParms |-> TpmuPublicParms,
     TpmuPublicId |-> TpmuPublicId, TpmtPublic |-> TpmtPublic,
     TpmtPublicParms |-> TpmtPublicParms, TpmuSensitiveComposite |-> TpmuSensitiveComposite,
     TpmtSensitive |-> TpmtSensitive, TpmuSignature |-> TpmuSignature,
     TpmtSignature |-> TpmtSignature, TpmuNvPublic2 |-> TpmuNvPublic2,
     TpmtNvPublic2 |-> TpmtNvPublic2, TpmuCapabilities |-> TpmuCapabilities,
     TpmsCapabilityData |-> TpmsCapabilityData, TPM_GENERATED_VALUE |-> TPM_GENERATED_VALUE,
     TpmuAttest |-> TpmuAttest, TpmsAttest |-> TpmsAttest, Tpm2bPublic |-> Tpm2bPublic,
     Tpm2bSensitiveCreate |-> Tpm2bSensitiveCreate, Tpm2bSensitive |-> Tpm2bSensitive,
     Tpm2bCreationData |-> Tpm2bCreationData, Tpm2bAttest |-> Tpm2bAttest,
     Tpm2bNvPublic |-> Tpm2bNvPublic, Tpm2bIdObject |-> Tpm2bIdObject,
     Tpm2bEccPoint |-> Tpm2bEccPoint, Tpm2bNvPublic2 |-> Tpm2bNvPublic2]
=============================================================================
