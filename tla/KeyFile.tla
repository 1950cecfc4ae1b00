------------------------------ MODULE KeyFile ------------------------------
(***************************************************************************)
(* The TPM key file of crates/tpmkey: what a TpmKeyFile becomes when it is *)
(* serialized, and what is made of a file that is read, by whomever it was *)
(* written.  An Option is a set of at most one element, and so is a Result *)
(* (the empty set is any error).                                           *)
(***************************************************************************)
EXTENDS Naturals, Sequences

CONSTANTS
    PolicyCcs,          \* command codes TpmKeyPolicyCommand accepts
    MAX_RSA_KEY_BYTES   \* the longest payload of an encrypted secret

ASSUME KeyFileAssumption == MAX_RSA_KEY_BYTES \in Nat

Kinds == {"Loadable", "Importable", "SealedData"}

\* The algorithms of a public area; the last one stands for every other.
PublicAlgs == {"Rsa", "Ecc", "KeyedHash", "SymCipher"}

(***************************************************************************)
(* The secret field, when present, is a marshaled TPM2B_ENCRYPTED_SECRET:  *)
(* the length its prefix declares and the payload bytes that follow.       *)
(***************************************************************************)
\* Mutant: the prefix is counted as a part of the payload.
tpm_validate_secret_short(kind, secret) ==
    \/ kind \in {"Loadable", "SealedData"} /\ secret = {}
    \/ kind \in {"Importable", "SealedData"} /\ \E s \in secret : s.present = s.declared + 1

tpm_validate_secret(kind, secret) ==
    \/ kind = "Loadable"   /\ secret = {}
    \/ kind = "SealedData" /\ secret = {}
    \/ /\ kind \in {"Importable", "SealedData"}
       /\ \E s \in secret : /\ s.present = s.declared
                            /\ s.declared <= MAX_RSA_KEY_BYTES

\* An RSA parent is only meant for a permanent handle (type 0x40).
RsaParentOk(rsa_parent, parent) == rsa_parent => parent.type = "permanent"

\* A flag that is not set, an empty policy and an empty secret are left out.
Flag(b) == IF b THEN {TRUE} ELSE {}
UnlessEmpty(seq) == IF seq = <<>> THEN {} ELSE {seq}

CommandToAsn1(c) == [command_code |-> c.cc, command_policy |-> c.body]
CommandFromAsn1(a) == [cc |-> a.command_code, body |-> a.command_policy]

PolicyToAsn1(policy) == [i \in 1 .. Len(policy) |-> CommandToAsn1(policy[i])]
PolicyFromAsn1(asn1) == [i \in 1 .. Len(asn1) |-> CommandFromAsn1(asn1[i])]

\* Every command of a list that is read must be a policy command.
PolicyReads(asn1) == \A i \in 1 .. Len(asn1) : asn1[i].command_code \in PolicyCcs

BranchToAsn1(b) == [name |-> b.name, policy |-> PolicyToAsn1(b.policy)]
BranchFromAsn1(b) == [name |-> b.name, policy |-> PolicyFromAsn1(b.policy)]

to_asn1(key) ==
    [key_type    |-> key.kind,
     empty_auth  |-> Flag(key.empty_auth),
     policy      |-> UnlessEmpty(PolicyToAsn1(key.policy)),
     secret      |-> key.secret,
     auth_policy |-> {[i \in 1 .. Len(p) |-> BranchToAsn1(p[i])] : p \in key.auth_policy},
     description |-> key.description,
     rsa_parent  |-> Flag(key.rsa_parent),
     parent      |-> key.parent,
     pubkey      |-> key.public,
     privkey     |-> key.private]

to_der(key) ==
    IF /\ tpm_validate_secret(key.kind, key.secret)
       /\ RsaParentOk(key.rsa_parent, key.parent)
    THEN {to_asn1(key)}
    ELSE {}

(***************************************************************************)
(* tpm_public_alg and tpm_private: the blobs must be TPM2B envelopes.  A   *)
(* file carries [alg |-> its algorithm, whole |-> is it an envelope].      *)
(***************************************************************************)
AlgOk(kind, alg) ==
    IF kind = "SealedData" THEN alg = "KeyedHash"
    ELSE alg \in {"Rsa", "Ecc", "KeyedHash"}

from_asn1(asn1) ==
    IF /\ asn1.pubkey.whole
       /\ asn1.privkey.whole
       /\ asn1.key_type \in Kinds
       /\ AlgOk(asn1.key_type, asn1.pubkey.alg)
       /\ RsaParentOk(TRUE \in asn1.rsa_parent, asn1.parent)
       /\ tpm_validate_secret(asn1.key_type, asn1.secret)
       /\ \A p \in asn1.policy : PolicyReads(p)
       /\ \A p \in asn1.auth_policy : \A i \in 1 .. Len(p) : PolicyReads(p[i].policy)
    THEN {[kind        |-> asn1.key_type,
           empty_auth  |-> TRUE \in asn1.empty_auth,
           policy      |-> IF asn1.policy = {} THEN <<>>
                           ELSE PolicyFromAsn1(CHOOSE p \in asn1.policy : TRUE),
           secret      |-> asn1.secret,
           auth_policy |-> {[i \in 1 .. Len(p) |-> BranchFromAsn1(p[i])]
                                : p \in asn1.auth_policy},
           description |-> asn1.description,
           rsa_parent  |-> TRUE \in asn1.rsa_parent,
           parent      |-> asn1.parent,
           public      |-> asn1.pubkey,
           private     |-> asn1.privkey]}
    ELSE {}

(***************************************************************************)
(* A file on disk is PEM or bare DER.  load tries PEM, then DER.           *)
(***************************************************************************)
to_pem(key) == {[pem |-> TRUE, tag |-> "TSS2 PRIVATE KEY", der |-> d] : d \in to_der(key)}

from_pem(file) ==
    IF file.pem /\ file.tag = "TSS2 PRIVATE KEY" THEN from_asn1(file.der) ELSE {}
from_der(file) == IF file.pem THEN {} ELSE from_asn1(file.der)

ReadKey(file) == IF from_pem(file) # {} THEN from_pem(file) ELSE from_der(file)

(***************************************************************************)
(* load_kernel_key: what a key must be to be handed to the kernel, and the *)
(* trimmed key that is.                                                    *)
(***************************************************************************)
KernelKey(key, parent) ==
    IF /\ key.kind = "SealedData"
       /\ parent.type = "persistent"
       /\ key.empty_auth
       /\ key.policy = <<>> /\ key.auth_policy = {} /\ key.public.auth_policy = {}
       /\ key.secret = {}
    THEN to_der([key EXCEPT !.parent = parent, !.description = {}, !.rsa_parent = FALSE])
    ELSE {}

=============================================================================
