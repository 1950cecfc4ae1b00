--------------------------- MODULE PolicyCommands ---------------------------
(***************************************************************************)
(* The policy commands a policy is compiled into and the digests they lead *)
(* to: the software session of crates/policy-language and the compilation  *)
(* of single conditions.                                                   *)
(*                                                                         *)
(* A hash is the term it was computed from: the digest of a session is the *)
(* sequence of what has been hashed into it, the zero digest is <<>>.      *)
(* Options and results are sets of at most one element.                    *)
(***************************************************************************)
EXTENDS Naturals, Sequences, FiniteSets, SequencesExt

CONSTANT Pcrs       \* the PCRs of the bank the TPM has

(***************************************************************************)
(* The software policy session: the digest after each policy command.      *)
(***************************************************************************)
ZeroDigest == <<>>
policy_restart(d) == ZeroDigest
policy_pcr(d, pcrs, value) == Append(d, [cc |-> "PolicyPcr", pcrs |-> pcrs, value |-> value])
policy_secret(d, name, ref) == Append(d, [cc |-> "PolicySecret", name |-> name, ref |-> ref])
policy_or(d, list) == Append(ZeroDigest, [cc |-> "PolicyOr", list |-> list])

(***************************************************************************)
(* The compiler.  It threads the commands made so far and the digest of    *)
(* the software session; ctx holds the names of the known handles and the  *)
(* values of the PCRs.  A PCR digest is the value of each selected PCR; an *)
(* explicit one may have the wrong length.                                 *)
(***************************************************************************)
Compiled(cmds, d) == {[cmds |-> cmds, digest |-> d]}

compile_walk_pcr(e, s, ctx) ==
    LET value == IF e.digest # {} THEN CHOOSE v \in e.digest : TRUE
                 ELSE [fits |-> TRUE, of |-> [p \in e.pcrs |-> ctx.pcrs[p]]]
    IN  IF value.fits
        THEN Compiled(Append(s.cmds, [cc |-> "PolicyPcr", pcrs |-> e.pcrs, value |-> value]),
                      policy_pcr(s.digest, e.pcrs, value))
        ELSE {}

\* Owner, endorsement, platform and lockout are their own names.
NameOf(h, ctx) ==
    CASE h.type \in {"transient", "persistent"} -> {ctx.names[x] : x \in {h} \cap DOMAIN ctx.names} \ {"none"}
      [] h.type = "permanent" -> {h.id}
      [] OTHER -> {}

compile_walk_secret(e, s, ctx) ==
    IF e.auth.op # "Handle" THEN {}
    ELSE UNION {Compiled(Append(s.cmds, [cc |-> "PolicySecret", handle |-> e.auth.h, ref |-> e.ref]),
                         policy_secret(s.digest, n, e.ref))
                    : n \in NameOf(e.auth.h, ctx)}

\* compile_walk_or: every branch starts from a restarted session, and the list
\* of their digests ends it.
Restarted(s) ==
    [cmds |-> Append(s.cmds, [cc |-> "PolicyRestart"]), digest |-> policy_restart(s.digest)]

Alternatives(s, list) ==
    [cmds |-> Append(s.cmds, [cc |-> "PolicyOr", list |-> list]), digest |-> policy_or(s.digest, list)]

\* What is compiled before anything is.
NothingCompiled == [cmds |-> <<>>, digest |-> ZeroDigest]
=============================================================================
