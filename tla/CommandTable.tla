----------------------------- MODULE CommandTable -----------------------------
(***************************************************************************)
(* The commands of the protocol crate: src/crates/protocol/src/frame.      *)
(*                                                                         *)
(* One definition per command: its code, the number of handles and the     *)
(* parameter types of the command, and those of its response, as the two   *)
(* tpm_struct! blocks of frame/data.rs declare them.                       *)
(***************************************************************************)
EXTENDS Integers, Sequences, WireTypes

Cmd(cc, handles, parameters, respHandles, respParameters) ==
    [cc |-> cc, handles |-> handles, parameters |-> parameters,
     response_handles |-> respHandles, response_parameters |-> respParameters]

TpmAcGetCapability ==
    Cmd(\h194, 1, <<"TpmAt", "TpmUint32">>,
        0, <<"TpmiYesNo", "TpmlAcCapabilities">>)
TpmAcSend == Cmd(\h195, 3, <<"Tpm2bMaxBuffer">>, 0, <<"TpmsAcOutput">>)
TpmActivateCredential ==
    Cmd(\h147, 2, <<"Tpm2bIdObject", "Tpm2bEncryptedSecret">>,
        0, <<"Tpm2bDigest">>)
TpmActSetTimeout == Cmd(\h198, 1, <<"TpmUint32">>, 0, <<>>)
TpmChangeEps == Cmd(\h124, 1, <<>>, 0, <<>>)
TpmChangePps == Cmd(\h125, 1, <<>>, 0, <<>>)
TpmCertify == Cmd(\h148, 2, <<"Tpm2bData", "TpmtSigScheme">>, 0, <<"Tpm2bAttest", "TpmtSignature">>)
TpmCertifyCreation ==
    Cmd(\h14A, 2, <<"Tpm2bData", "Tpm2bDigest", "TpmtSigScheme", "TpmtTkCreation">>,
        0, <<"Tpm2bAttest", "TpmtSignature">>)
TpmClear == Cmd(\h126, 1, <<>>, 0, <<>>)
TpmClearControl == Cmd(\h127, 1, <<"TpmiYesNo">>, 0, <<>>)
TpmClockRateAdjust == Cmd(\h130, 1, <<"TpmClockAdjust">>, 0, <<>>)
TpmClockSet == Cmd(\h128, 1, <<"TpmUint64">>, 0, <<>>)
TpmCommit ==
    Cmd(\h18B, 1, <<"Tpm2bEccPoint", "Tpm2bSensitiveData", "Tpm2bEccParameter">>,
        0, <<"Tpm2bEccPoint", "Tpm2bEccPoint", "Tpm2bEccPoint", "TpmUint16">>)
TpmContextLoad == Cmd(\h161, 0, <<"TpmsContext">>, 1, <<>>)
TpmContextSave == Cmd(\h162, 1, <<>>, 0, <<"TpmsContext">>)
TpmCreate ==
    Cmd(\h153, 1, <<"Tpm2bSensitiveCreate", "Tpm2bPublic", "Tpm2bData", "TpmlPcrSelection">>,
        0, <<"Tpm2bPrivate", "Tpm2bPublic", "Tpm2bCreationData", "Tpm2bDigest", "TpmtTkCreation">>)
TpmCreateLoaded ==
    Cmd(\h191, 1, <<"Tpm2bSensitiveCreate", "Tpm2bPublic">>,
        1, <<"Tpm2bPrivate", "Tpm2bPublic", "Tpm2bName">>)
TpmCreatePrimary ==
    Cmd(\h131, 1, <<"Tpm2bSensitiveCreate", "Tpm2bPublic", "Tpm2bData", "TpmlPcrSelection">>,
        1, <<"Tpm2bPublic", "Tpm2bCreationData", "Tpm2bDigest", "TpmtTkCreation", "Tpm2bName">>)
TpmDictionaryAttackLockReset == Cmd(\h139, 1, <<>>, 0, <<>>)
TpmDictionaryAttackParameters == Cmd(\h13A, 1, <<"TpmUint32", "TpmUint32", "TpmUint32">>, 0, <<>>)
TpmDuplicate ==
    Cmd(\h14B, 2, <<"Tpm2bData", "TpmtSymDef">>,
        0, <<"Tpm2bData", "Tpm2bPrivate", "Tpm2bEncryptedSecret">>)
TpmEccDecrypt ==
    Cmd(\h19A, 1, <<"Tpm2bEccPoint", "Tpm2bMaxBuffer", "Tpm2bDigest", "TpmtKdfScheme">>,
        0, <<"Tpm2bMaxBuffer">>)
TpmEcEphemeral == Cmd(\h18E, 0, <<"TpmEccCurve">>, 0, <<"Tpm2bEccPoint", "TpmUint16">>)
TpmEccEncrypt ==
    Cmd(\h199, 1, <<"Tpm2bMaxBuffer", "TpmtKdfScheme">>,
        0, <<"Tpm2bEccPoint", "Tpm2bMaxBuffer", "Tpm2bDigest">>)
TpmEccParameters == Cmd(\h178, 0, <<"TpmEccCurve">>, 0, <<"TpmsAlgorithmDetailEcc">>)
TpmEcdhKeyGen == Cmd(\h163, 1, <<>>, 0, <<"Tpm2bEccPoint", "Tpm2bEccPoint">>)
TpmEcdhZGen == Cmd(\h154, 1, <<"Tpm2bEccPoint">>, 0, <<"Tpm2bEccPoint">>)
TpmEncryptDecrypt ==
    Cmd(\h164, 1, <<"TpmiYesNo", "TpmAlgId", "Tpm2bIv", "Tpm2bMaxBuffer">>,
        0, <<"Tpm2bMaxBuffer", "Tpm2bIv">>)
TpmEncryptDecrypt2 ==
    Cmd(\h193, 1, <<"Tpm2bMaxBuffer", "TpmiYesNo", "TpmAlgId", "Tpm2bIv">>,
        0, <<"Tpm2bMaxBuffer", "Tpm2bIv">>)
TpmEventSequenceComplete == Cmd(\h185, 2, <<"Tpm2bMaxBuffer">>, 0, <<"TpmlDigestValues">>)
TpmEvictControl == Cmd(\h120, 2, <<"TpmHandle">>, 0, <<>>)
TpmFieldUpgradeData == Cmd(\h141, 0, <<"Tpm2bMaxBuffer">>, 0, <<"TpmtHa", "TpmtHa">>)
TpmFieldUpgradeStart == Cmd(\h12F, 2, <<"Tpm2bDigest", "TpmtSignature">>, 0, <<>>)
TpmFirmwareRead == Cmd(\h179, 0, <<"TpmUint32">>, 0, <<"Tpm2bMaxBuffer">>)
TpmFlushContext == Cmd(\h165, 0, <<"TpmHandle">>, 0, <<>>)
TpmGetCapability ==
    Cmd(\h17A, 0, <<"TpmCap", "TpmUint32", "TpmUint32">>,
        0, <<"TpmiYesNo", "TpmsCapabilityData">>)
TpmGetCommandAuditDigest ==
    Cmd(\h133, 2, <<"Tpm2bData", "TpmtSigScheme">>,
        0, <<"Tpm2bAttest", "TpmtSignature">>)
TpmGetRandom == Cmd(\h17B, 0, <<"TpmUint16">>, 0, <<"Tpm2bDigest">>)
TpmGetSessionAuditDigest ==
    Cmd(\h14D, 3, <<"Tpm2bData", "TpmtSigScheme">>,
        0, <<"Tpm2bAttest", "TpmtSignature">>)
TpmGetTestResult == Cmd(\h17C, 0, <<>>, 0, <<"Tpm2bMaxBuffer", "TpmRc">>)
TpmGetTime == Cmd(\h14C, 2, <<"Tpm2bData", "TpmtSigScheme">>, 0, <<"Tpm2bAttest", "TpmtSignature">>)
TpmHash ==
    Cmd(\h17D, 0, <<"Tpm2bMaxBuffer", "TpmAlgId", "TpmRh">>,
        0, <<"Tpm2bDigest", "TpmtTkHashcheck">>)
TpmHashSequenceStart == Cmd(\h186, 0, <<"Tpm2bAuth", "TpmAlgId">>, 1, <<>>)
TpmHierarchyChangeAuth == Cmd(\h129, 1, <<"Tpm2bAuth">>, 0, <<>>)
TpmHierarchyControl == Cmd(\h121, 1, <<"TpmRh", "TpmiYesNo">>, 0, <<>>)
TpmHmac == Cmd(\h155, 1, <<"Tpm2bMaxBuffer", "TpmAlgId">>, 0, <<"Tpm2bDigest">>)
TpmHmacStart == Cmd(\h15B, 1, <<"Tpm2bAuth", "TpmAlgId">>, 1, <<>>)
TpmImport ==
    Cmd(\h156, 1, <<"Tpm2bData", "Tpm2bPublic", "Tpm2bPrivate", "Tpm2bEncryptedSecret",
                    "TpmtSymDef">>,
        0, <<"Tpm2bPrivate">>)
TpmIncrementalSelfTest == Cmd(\h142, 0, <<"TpmlAlg">>, 0, <<"TpmlAlg">>)
TpmLoad == Cmd(\h157, 1, <<"Tpm2bPrivate", "Tpm2bPublic">>, 1, <<"Tpm2bName">>)
TpmLoadExternal == Cmd(\h167, 0, <<"Tpm2bSensitive", "Tpm2bPublic", "TpmRh">>, 1, <<"Tpm2bName">>)
TpmMakeCredential ==
    Cmd(\h168, 1, <<"Tpm2bDigest", "Tpm2bName">>,
        0, <<"Tpm2bIdObject", "Tpm2bEncryptedSecret">>)
TpmNvCertify ==
    Cmd(\h184, 3, <<"Tpm2bData", "TpmtSigScheme", "TpmUint16", "TpmUint16">>,
        0, <<"Tpm2bAttest", "TpmtSignature">>)
TpmNvChangeAuth == Cmd(\h13B, 1, <<"Tpm2bAuth">>, 0, <<>>)
TpmNvDefineSpace == Cmd(\h12A, 1, <<"Tpm2bAuth", "Tpm2bNvPublic">>, 0, <<>>)
TpmNvDefineSpace2 == Cmd(\h19D, 1, <<"Tpm2bAuth", "Tpm2bNvPublic2">>, 0, <<>>)
TpmNvExtend == Cmd(\h136, 2, <<"Tpm2bMaxNvBuffer">>, 0, <<>>)
TpmNvGlobalWriteLock == Cmd(\h132, 1, <<>>, 0, <<>>)
TpmNvIncrement == Cmd(\h134, 2, <<>>, 0, <<>>)
TpmNvRead == Cmd(\h14E, 2, <<"TpmUint16", "TpmUint16">>, 0, <<"Tpm2bMaxNvBuffer">>)
TpmNvReadLock == Cmd(\h14F, 2, <<>>, 0, <<>>)
TpmNvReadPublic == Cmd(\h169, 1, <<>>, 0, <<"Tpm2bNvPublic", "Tpm2bName">>)
TpmNvReadPublic2 == Cmd(\h19E, 1, <<>>, 0, <<"Tpm2bNvPublic2", "Tpm2bName">>)
TpmNvSetBits == Cmd(\h135, 2, <<"TpmUint64">>, 0, <<>>)
TpmNvUndefineSpace == Cmd(\h122, 2, <<>>, 0, <<>>)
TpmNvUndefineSpaceSpecial == Cmd(\h11F, 2, <<>>, 0, <<>>)
TpmNvWrite == Cmd(\h137, 2, <<"Tpm2bMaxNvBuffer", "TpmUint16">>, 0, <<>>)
TpmNvWriteLock == Cmd(\h138, 2, <<>>, 0, <<>>)
TpmObjectChangeAuth == Cmd(\h150, 2, <<"Tpm2bAuth">>, 0, <<"Tpm2bPrivate">>)
TpmPcrAllocate ==
    Cmd(\h12B, 1, <<"TpmlPcrSelection">>,
        0, <<"TpmiYesNo", "TpmUint32", "TpmUint32", "TpmUint32">>)
TpmPcrEvent == Cmd(\h13C, 1, <<"Tpm2bEvent">>, 0, <<"TpmlDigestValues">>)
TpmPcrExtend == Cmd(\h182, 1, <<"TpmlDigestValues">>, 0, <<>>)
TpmPcrReset == Cmd(\h13D, 1, <<>>, 0, <<>>)
TpmPcrRead ==
    Cmd(\h17E, 0, <<"TpmlPcrSelection">>,
        0, <<"TpmUint32", "TpmlPcrSelection", "TpmlDigest">>)
TpmPcrSetAuthPolicy == Cmd(\h12C, 1, <<"Tpm2bDigest", "TpmAlgId", "TpmHandle">>, 0, <<>>)
TpmPcrSetAuthValue == Cmd(\h183, 1, <<"Tpm2bDigest">>, 0, <<>>)
TpmPolicyAcSendSelect ==
    Cmd(\h196, 3, <<"Tpm2bName", "Tpm2bName", "Tpm2bName", "TpmiYesNo">>,
        0, <<>>)
TpmPolicyAuthorize ==
    Cmd(\h16A, 1, <<"Tpm2bDigest", "Tpm2bNonce", "Tpm2bName", "TpmtTkVerified">>,
        0, <<>>)
TpmPolicyAuthorizeNv == Cmd(\h192, 3, <<>>, 0, <<>>)
TpmPolicyAuthValue == Cmd(\h16B, 1, <<>>, 0, <<>>)
TpmPolicyCapability == Cmd(\h19B, 1, <<"TpmCap", "TpmUint32", "TpmEo", "Tpm2bMaxBuffer">>, 0, <<>>)
TpmPolicyCommandCode == Cmd(\h16C, 1, <<"TpmCc">>, 0, <<>>)
TpmPolicyCounterTimer == Cmd(\h16D, 1, <<"Tpm2bMaxBuffer", "TpmUint16", "TpmEo">>, 0, <<>>)
TpmPolicyCpHash == Cmd(\h16E, 1, <<"Tpm2bDigest">>, 0, <<>>)
TpmPolicyDuplicationSelect == Cmd(\h188, 1, <<"Tpm2bName", "Tpm2bName", "TpmiYesNo">>, 0, <<>>)
TpmPolicyGetDigest == Cmd(\h189, 1, <<>>, 0, <<"Tpm2bDigest">>)
TpmPolicyLocality == Cmd(\h16F, 1, <<"TpmaLocality">>, 0, <<>>)
TpmPolicyNameHash == Cmd(\h170, 1, <<"Tpm2bDigest">>, 0, <<>>)
TpmPolicyNv == Cmd(\h149, 3, <<"Tpm2bMaxBuffer", "TpmUint16", "TpmEo">>, 0, <<>>)
TpmPolicyNvWritten == Cmd(\h18F, 1, <<"TpmiYesNo">>, 0, <<>>)
TpmPolicyOr == Cmd(\h171, 1, <<"TpmlDigest">>, 0, <<>>)
TpmPolicyParameters == Cmd(\h19C, 1, <<"Tpm2bDigest">>, 0, <<>>)
TpmPolicyPassword == Cmd(\h18C, 1, <<>>, 0, <<>>)
TpmPolicyPhysicalPresence == Cmd(\h187, 1, <<>>, 0, <<>>)
TpmPolicyPcr == Cmd(\h17F, 1, <<"Tpm2bDigest", "TpmlPcrSelection">>, 0, <<>>)
TpmPolicyRestart == Cmd(\h180, 1, <<>>, 0, <<>>)
TpmPolicySecret ==
    Cmd(\h151, 2, <<"Tpm2bNonce", "Tpm2bDigest", "Tpm2bNonce", "TpmUint32">>,
        0, <<"Tpm2bTimeout", "TpmtTkAuth">>)
TpmPolicySigned ==
    Cmd(\h160, 2, <<"Tpm2bNonce", "Tpm2bDigest", "Tpm2bNonce", "TpmUint32", "TpmtSignature">>,
        0, <<"Tpm2bTimeout", "TpmtTkAuth">>)
TpmPolicyTemplate == Cmd(\h190, 1, <<"Tpm2bDigest">>, 0, <<>>)
TpmPolicyTicket ==
    Cmd(\h172, 1, <<"Tpm2bTimeout", "Tpm2bDigest", "Tpm2bNonce", "Tpm2bName", "TpmtTkAuth">>,
        0, <<>>)
TpmPolicyTransportSpdm == Cmd(\h1A1, 1, <<"Tpm2bName", "Tpm2bName">>, 0, <<>>)
TpmPpCommands == Cmd(\h12D, 1, <<"TpmlCc", "TpmlCc">>, 0, <<>>)
TpmQuote ==
    Cmd(\h158, 1, <<"Tpm2bData", "TpmtSigScheme", "TpmlPcrSelection">>,
        0, <<"Tpm2bAttest", "TpmtSignature">>)
TpmReadClock == Cmd(\h181, 0, <<>>, 0, <<"TpmsTimeInfo">>)
TpmReadOnlyControl == Cmd(\h1A0, 1, <<"TpmiYesNo">>, 0, <<>>)
TpmReadPublic == Cmd(\h173, 1, <<>>, 0, <<"Tpm2bPublic", "Tpm2bName", "Tpm2bName">>)
TpmRewrap ==
    Cmd(\h152, 2, <<"Tpm2bPrivate", "Tpm2bName", "Tpm2bEncryptedSecret">>,
        0, <<"Tpm2bPrivate", "Tpm2bEncryptedSecret">>)
TpmRsaDecrypt ==
    Cmd(\h159, 1, <<"Tpm2bPublicKeyRsa", "TpmtRsaDecrypt", "Tpm2bData">>,
        0, <<"Tpm2bPublicKeyRsa">>)
TpmRsaEncrypt ==
    Cmd(\h174, 1, <<"Tpm2bPublicKeyRsa", "TpmtRsaDecrypt", "Tpm2bData">>,
        0, <<"Tpm2bPublicKeyRsa">>)
TpmSelfTest == Cmd(\h143, 0, <<"TpmiYesNo">>, 0, <<>>)
TpmSequenceComplete ==
    Cmd(\h13E, 1, <<"Tpm2bMaxBuffer", "TpmRh">>,
        0, <<"Tpm2bDigest", "TpmtTkHashcheck">>)
TpmSequenceUpdate == Cmd(\h15C, 1, <<"Tpm2bMaxBuffer">>, 0, <<>>)
TpmSetAlgorithmSet == Cmd(\h13F, 1, <<"TpmUint32">>, 0, <<>>)
TpmSetCapability == Cmd(\h19F, 1, <<"TpmsCapabilityData">>, 0, <<>>)
TpmSetCommandCodeAuditStatus == Cmd(\h140, 1, <<"TpmAlgId", "TpmlCc", "TpmlCc">>, 0, <<>>)
TpmSetPrimaryPolicy == Cmd(\h12E, 1, <<"Tpm2bDigest", "TpmAlgId">>, 0, <<>>)
TpmShutdown == Cmd(\h145, 0, <<"TpmSu">>, 0, <<>>)
TpmSign ==
    Cmd(\h15D, 1, <<"Tpm2bDigest", "TpmtSigScheme", "TpmtTkHashcheck">>,
        0, <<"TpmtSignature">>)
TpmStartAuthSession ==
    Cmd(\h176, 2, <<"Tpm2bNonce", "Tpm2bEncryptedSecret", "TpmSe", "TpmtSymDef", "TpmAlgId">>,
        1, <<"Tpm2bNonce">>)
TpmStartup == Cmd(\h144, 0, <<"TpmSu">>, 0, <<>>)
TpmStirRandom == Cmd(\h146, 0, <<"Tpm2bSensitiveData">>, 0, <<>>)
TpmTestParms == Cmd(\h18A, 0, <<"TpmtPublicParms">>, 0, <<>>)
TpmUnseal == Cmd(\h15E, 1, <<>>, 0, <<"Tpm2bSensitiveData">>)
TpmVendorTcgTest == Cmd(\h20000000, 0, <<"Tpm2bData">>, 0, <<"Tpm2bData">>)
TpmVerifySignature == Cmd(\h177, 1, <<"Tpm2bDigest", "TpmtSignature">>, 0, <<"TpmtTkVerified">>)
TpmZGen2Phase ==
    Cmd(\h18D, 1, <<"Tpm2bEccPoint", "Tpm2bEccPoint", "TpmiEccKeyExchange", "TpmUint16">>,
        0, <<"Tpm2bEccPoint", "Tpm2bEccPoint">>)

\* The table that dispatch_for searches, in the order of frame/mod.rs.
TPM_DISPATCH_TABLE ==
    <<TpmNvUndefineSpaceSpecial, TpmEvictControl, TpmHierarchyControl,
      TpmNvUndefineSpace, TpmChangeEps, TpmChangePps, TpmClear,
      TpmClearControl, TpmClockSet, TpmHierarchyChangeAuth, TpmNvDefineSpace,
      TpmPcrAllocate, TpmPcrSetAuthPolicy, TpmPpCommands, TpmSetPrimaryPolicy,
      TpmFieldUpgradeStart, TpmClockRateAdjust, TpmCreatePrimary,
      TpmNvGlobalWriteLock, TpmGetCommandAuditDigest, TpmNvIncrement,
      TpmNvSetBits, TpmNvExtend, TpmNvWrite, TpmNvWriteLock,
      TpmDictionaryAttackLockReset, TpmDictionaryAttackParameters,
      TpmNvChangeAuth, TpmPcrEvent, TpmPcrReset, TpmSequenceComplete,
      TpmSetAlgorithmSet, TpmSetCommandCodeAuditStatus, TpmFieldUpgradeData,
      TpmIncrementalSelfTest, TpmSelfTest, TpmStartup, TpmShutdown,
      TpmStirRandom, TpmActivateCredential, TpmCertify, TpmPolicyNv,
      TpmCertifyCreation, TpmDuplicate, TpmGetTime, TpmGetSessionAuditDigest,
      TpmNvRead, TpmNvReadLock, TpmObjectChangeAuth, TpmPolicySecret,
      TpmRewrap, TpmCreate, TpmEcdhZGen, TpmHmac, TpmImport, TpmLoad, TpmQuote,
      TpmRsaDecrypt, TpmHmacStart, TpmSequenceUpdate, TpmSign, TpmUnseal,
      TpmPolicySigned, TpmContextLoad, TpmContextSave, TpmEcdhKeyGen,
      TpmEncryptDecrypt, TpmFlushContext, TpmLoadExternal, TpmMakeCredential,
      TpmNvReadPublic, TpmPolicyAuthorize, TpmPolicyAuthValue,
      TpmPolicyCommandCode, TpmPolicyCounterTimer, TpmPolicyCpHash,
      TpmPolicyLocality, TpmPolicyNameHash, TpmPolicyOr, TpmPolicyTicket,
      TpmReadPublic, TpmRsaEncrypt, TpmStartAuthSession, TpmVerifySignature,
      TpmEccParameters, TpmFirmwareRead, TpmGetCapability, TpmGetRandom,
      TpmGetTestResult, TpmHash, TpmPcrRead, TpmPolicyPcr, TpmPolicyRestart,
      TpmReadClock, TpmPcrExtend, TpmPcrSetAuthValue, TpmNvCertify,
      TpmEventSequenceComplete, TpmHashSequenceStart,
      TpmPolicyPhysicalPresence, TpmPolicyDuplicationSelect,
      TpmPolicyGetDigest, TpmTestParms, TpmCommit, TpmPolicyPassword,
      TpmZGen2Phase, TpmEcEphemeral, TpmPolicyNvWritten, TpmPolicyTemplate,
      TpmCreateLoaded, TpmPolicyAuthorizeNv, TpmEncryptDecrypt2,
      TpmAcGetCapability, TpmAcSend, TpmPolicyAcSendSelect, TpmActSetTimeout,
      TpmEccEncrypt, TpmEccDecrypt, TpmPolicyCapability, TpmPolicyParameters,
      TpmNvDefineSpace2, TpmNvReadPublic2, TpmSetCapability,
      TpmReadOnlyControl, TpmPolicyTransportSpdm, TpmVendorTcgTest>>

CodesOf(table) == {table[i].cc : i \in DOMAIN table}
DispatchCodes == CodesOf(TPM_DISPATCH_TABLE)

\* dispatch_for is a binary search: the table is sorted, which tpm_dispatch!
\* asserts at compile time, and has an entry for every member of TpmCc.
ASSUME DispatchTableSorted ==
    \A i \in 1..Len(TPM_DISPATCH_TABLE) - 1 :
        TPM_DISPATCH_TABLE[i].cc <= TPM_DISPATCH_TABLE[i + 1].cc

ASSUME DispatchTableComplete ==
    {Be(4, cc) : cc \in DispatchCodes} = TpmCc.vals
=============================================================================
