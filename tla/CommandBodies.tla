---------------------------- MODULE CommandBodies ----------------------------
(***************************************************************************)
(* The bodies of commands and responses: the traits that tpm_struct! gives *)
(* to a Command and a Response (src/crates/protocol/src/macro/struct.rs),  *)
(* for the commands of a dispatch table.                                   *)
(***************************************************************************)
EXTENDS Integers, Sequences, WireCodec

CONSTANT DispatchTable   \* TPM_DISPATCH_TABLE

\* The entry of a code of the table.
Entry(table, cc) == table[CHOOSE i \in DOMAIN table : table[i].cc = cc]
dispatch_for(cc) == Entry(DispatchTable, cc)

\* TpmHeader::HANDLES, and TpmFrame and TpmMarshalBody of the parameters of a body,
\* which are laid out like the fields of a structure.
HandlesOf(kind, cc) ==
    LET d == dispatch_for(cc) IN IF kind = "command" THEN d.handles ELSE d.response_handles
ParametersOf(kind, cc) ==
    LET d == dispatch_for(cc)
    IN  Struct(IF kind = "command" THEN d.parameters ELSE d.response_parameters)
parameters_len(kind, cc, params) == LenOf(ParametersOf(kind, cc), params)
marshal_parameters(kind, cc, params) == Marshal(ParametersOf(kind, cc), params)
parameters_marshal(kind, cc, params) == Marshals(ParametersOf(kind, cc), params)

\* TpmUnmarshalBody: at most one value, and nothing may follow it.
unmarshal_body(kind, cc, s) ==
    LET r == Unmarshal(ParametersOf(kind, cc), s)
    IN  IF Failed(r) THEN {} ELSE IF r[2] = <<>> THEN {r[1]} ELSE {}

\* Parameters are of named types.
ASSUME TableAssumption ==
    \A i \in DOMAIN DispatchTable :
        /\ StructOk(Struct(DispatchTable[i].parameters))
        /\ StructOk(Struct(DispatchTable[i].response_parameters))

\* The views of the parameters, one after the other.
cast_parameters(kind, cc, s) == CastPrefix(ParametersOf(kind, cc), s) = Len(s)
=============================================================================
