---------------------------- MODULE ResponseCode ----------------------------
(***************************************************************************)
(* TpmRc, the response codes: src/crates/protocol/src/data/enum/rc.rs.     *)
(*                                                                         *)
(* A code is on the wire as four bytes.  Bit 7 of the last one selects     *)
(* format 1: the low six bits are then the error, bit 6 says whether the   *)
(* low four bits of the third byte number a parameter.                     *)
(***************************************************************************)
EXTENDS Integers, Sequences, Bytes

TPM_RC_VER1 == 256
TPM_RC_WARN == 2304
SESSION_INDEX_OFFSET == 8
MAX_HANDLE_INDEX == 7

\* TpmRcBase, by format.
Fmt0Bases ==
    {0, \h1E} \union
    {TPM_RC_VER1 + n : n \in {0, 1, 3, \hB, \h19, \h20, \h21} \union \h24..\h28 \union \h2D..\h31
                             \union \h42..\h4C \union \h50..\h56}
Fmt1Bases ==
    (1..\h10 \ {6}) \union {\h12} \union \h15..\h18 \union \h1A..\h1D \union \h1F..\h29
    \union {\h30, \h31}
WarnBases ==
    {TPM_RC_WARN + n : n \in 1..\hA \union \h10..\h16 \union \h18..\h1E \union \h20..\h23}

\* TpmRcIndex: what a format 1 code says the error is about.
RcIndex ==
    {<<"none", 0>>} \union ({"parameter"} \X (1..15)) \union ({"handle"} \X (1..MAX_HANDLE_INDEX))
    \union ({"session"} \X (0..7))

Fmt0(base) == [fmt |-> "fmt0", base |-> base, index |-> <<"none", 0>>]
Warn(base) == [fmt |-> "warn", base |-> base, index |-> <<"none", 0>>]
Fmt1(base, index) == [fmt |-> "fmt1", base |-> base, index |-> index]
Success == Fmt0(0)

TpmRcs ==
    {Fmt0(b) : b \in Fmt0Bases} \union {Warn(b) : b \in WarnBases}
    \union {Fmt1(b, i) : b \in Fmt1Bases, i \in RcIndex}

\* Mutant: a session is numbered like a handle.
rc_value_session_as_handle(rc) ==
    IF rc.fmt # "fmt1" THEN Be(4, rc.base)
    ELSE <<0, 0, rc.index[2] % 16,
           128 + (IF rc.index[1] = "parameter" THEN 64 ELSE 0) + rc.base>>

\* TpmRc::value, as the bytes that marshal writes.
rc_value(rc) ==
    IF rc.fmt # "fmt1" THEN Be(4, rc.base)
    ELSE LET parameter == rc.index[1] = "parameter"
             num == IF rc.index[1] = "session" THEN rc.index[2] + SESSION_INDEX_OFFSET
                    ELSE rc.index[2]
         IN  <<0, 0, num % 16, 128 + (IF parameter THEN 64 ELSE 0) + rc.base>>

\* TryFrom<u32> for TpmRc: the code that four bytes spell, if there is one.
Fmt1Index(p, n) ==
    CASE p /\ n = 0 -> {}
      [] p /\ n > 0 -> {<<"parameter", n>>}
      [] ~p /\ n = 0 -> {<<"none", 0>>}
      [] ~p /\ n \in 1..MAX_HANDLE_INDEX -> {<<"handle", n>>}
      [] ~p /\ n > MAX_HANDLE_INDEX -> {<<"session", n - SESSION_INDEX_OFFSET>>}

rc_try_from(raw) ==
    IF raw[4] >= 128
    THEN IF raw[1] = 0 /\ raw[2] = 0 /\ raw[3] < 16 /\ raw[4] % 64 \in Fmt1Bases
         THEN {Fmt1(raw[4] % 64, i) : i \in Fmt1Index(raw[4] >= 192, raw[3])}
         ELSE {}
    ELSE {Fmt0(b) : b \in {Number(raw)} \cap Fmt0Bases}
         \union {Warn(b) : b \in {Number(raw)} \cap WarnBases}

TpmRcReadable(raw) == rc_try_from(raw) # {}
=============================================================================
