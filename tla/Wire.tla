-------------------------------- MODULE Wire --------------------------------
(***************************************************************************)
(* TPM command and response frames: src/crates/protocol/src/frame.         *)
(*                                                                         *)
(* A frame is marshalled into a buffer, travels, and is read through a     *)
(* zero-copy view of the buffer's bytes that was cast once and whose areas *)
(* are found again at every access.  The buffer may be cut, followed by    *)
(* other bytes or damaged before the cast, and written through the view    *)
(* after it.                                                               *)
(*                                                                         *)
(* The parameters are read and written by CommandBodies.  What commands    *)
(* there are, and what types their parameters have, is a parameter of this *)
(* module and is given by CommandTable and WireTypes.                      *)
(***************************************************************************)
EXTENDS Integers, Sequences, Bytes, ResponseCode, CommandBodies

CONSTANTS
    Handles,             \* TpmDispatch.handles of each of them
    RespHandles,         \* TpmDispatch.response_handles
    Requests,            \* the frames that are marshalled, by number or name
    Request(_),          \* what such a frame is made of
    Tags,                \* the values of TpmSt, two bytes each
    EditBytes,           \* the bytes that a damaged or written byte becomes
    NewCodes,            \* the command codes that set_cc is called with
    NewRcs,              \* the response codes that set_rc is called with
    MaxEdits(_)          \* bound on cuts, damages and writes of such a frame

HEADER_SIZE == 10

\* The command codes of the dispatch table.
CommandCodes == {DispatchTable[i].cc : i \in DOMAIN DispatchTable}

\* The parameters of a request, and those of a frame of some kind.
ParamsLen(r) == parameters_len(r.kind, r.cc, r.params)
ParamsMarshal(r) == parameters_marshal(r.kind, r.cc, r.params)
ParamsBytes(r) == marshal_parameters(r.kind, r.cc, r.params)

\* TpmSt::NoSessions, TpmSt::Sessions, and a tag that no frame has.
NoSessions == <<128, 1>>
Sessions == <<128, 2>>
NullTag == <<128, 0>>

NoRequest == [kind |-> "none"]
NoView == [kind |-> "none", len |-> 0, fresh |-> FALSE]

ASSUME WireAssumption ==
    /\ Handles \in [CommandCodes -> Nat] /\ RespHandles \in [CommandCodes -> Nat]
    /\ EditBytes \subseteq Byte
    /\ {NoSessions, Sessions, NullTag} \subseteq Tags
    /\ NewCodes \subseteq CommandCodes
    /\ NewRcs \subseteq TpmRcs
    /\ \A id \in Requests : MaxEdits(id) \in Nat

(***************************************************************************)
(* Marshalling (marshal.rs).                                               *)
(***************************************************************************)
\* The parts before the next one, joined, and all of them.
Joins(ss) ==
    LET Join[i \in 0..Len(ss)] == IF i = 0 THEN <<>> ELSE Join[i - 1] \o ss[i]
    IN  Join
Joined(ss) == Joins(ss)[Len(ss)]

Sized2b(s) == Be(2, Len(s)) \o s
AuthCommand(s) == s.handle \o Sized2b(s.nonce) \o <<s.attributes>> \o Sized2b(s.hmac)
AuthResponse(s) == Sized2b(s.nonce) \o <<s.attributes>> \o Sized2b(s.hmac)
AuthBytes(r) ==
    Joined([i \in DOMAIN r.sessions |->
               IF r.kind = "command" THEN AuthCommand(r.sessions[i]) ELSE AuthResponse(r.sessions[i])])

\* Everything is written into a buffer of TPM_MAX_COMMAND_SIZE bytes.
Written(frame) == IF Len(frame) <= TPM_MAX_COMMAND_SIZE THEN {frame} ELSE {}

\* The size field is computed from the lengths the parts declare.
tpm_marshal_command(r) ==
    LET auth == IF r.tag = Sessions THEN Be(4, Len(AuthBytes(r))) \o AuthBytes(r) ELSE <<>>
        size == HEADER_SIZE + 4 * Len(r.handles) + Len(auth) + ParamsLen(r)
    IN  IF /\ r.tag \in {NoSessions, Sessions}
           /\ (r.tag = Sessions) # (r.sessions = <<>>)
           /\ Len(r.sessions) <= MAX_SESSIONS
           /\ ParamsMarshal(r)
        THEN Written(r.tag \o Be(4, size) \o Be(4, r.cc) \o Joined(r.handles) \o auth
                     \o ParamsBytes(r))
        ELSE {}

tpm_marshal_response(r) ==
    LET tag == IF r.sessions = <<>> THEN NoSessions ELSE Sessions
        paramSize == IF r.sessions = <<>> THEN <<>> ELSE Be(4, ParamsLen(r))
        size == HEADER_SIZE + 4 * Len(r.handles) + Len(paramSize) + ParamsLen(r)
                + Len(AuthBytes(r))
    IN  IF Len(r.sessions) > MAX_SESSIONS THEN {}
        ELSE IF r.rc # Success
        THEN IF r.sessions = <<>>
             THEN {NoSessions \o Be(4, HEADER_SIZE) \o rc_value(r.rc)}
             ELSE {}
        ELSE IF ParamsMarshal(r)
        THEN Written(tag \o Be(4, size) \o rc_value(r.rc) \o Joined(r.handles) \o paramSize
                     \o ParamsBytes(r) \o AuthBytes(r))
        ELSE {}

Marshalled(r) ==
    IF r.kind = "command" THEN tpm_marshal_command(r) ELSE tpm_marshal_response(r)

(***************************************************************************)
(* The envelope (wire.rs).                                                 *)
(***************************************************************************)
TagOf(f) == SubSeq(f, 1, 2)
SizeOf(f) == Number(SubSeq(f, 3, 6))
CodeOf(f) == SubSeq(f, 7, 10)

\* frame_prefix_size
PrefixOk(f) == /\ Len(f) >= HEADER_SIZE
               /\ SizeOf(f) >= HEADER_SIZE
               /\ Len(f) >= SizeOf(f)

\* validate_frame_size
FrameSizeOk(f) == PrefixOk(f) /\ Len(f) <= SizeOf(f)

\* command_code and dispatch_for
CcOk(f) == Number(CodeOf(f)) \in CommandCodes
HandleEnd(f) == HEADER_SIZE + 4 * Handles[Number(CodeOf(f))]

\* Mutant: the area was checked when the view was cast.
HandleAreaOkFromCast(f) == CcOk(f)

\* handle_area_range
HandleAreaOk(f) == CcOk(f) /\ Len(f) >= HandleEnd(f)

\* The size of the authorization area, which follows the handles.
AuthSize(f) == Number(SubSeq(f, HandleEnd(f) + 1, HandleEnd(f) + 4))
AuthSizeOk(f) == /\ Len(f) - HandleEnd(f) >= 4
                 /\ AuthSize(f) <= Len(f) - HandleEnd(f) - 4

\* session_and_parameter_ranges: the first and the last byte of each area.
RangesOk(f) ==
    HandleAreaOk(f) /\ TagOf(f) \in Tags /\ (TagOf(f) = Sessions => AuthSizeOk(f))
AuthStart(f) == IF TagOf(f) = Sessions THEN HandleEnd(f) + 5 ELSE HandleEnd(f) + 1
AuthEnd(f) == IF TagOf(f) = Sessions THEN HandleEnd(f) + 4 + AuthSize(f) ELSE HandleEnd(f)

HandleArea(f) == SubSeq(f, HEADER_SIZE + 1, HandleEnd(f))
AuthArea(f) == SubSeq(f, AuthStart(f), AuthEnd(f))
ParamArea(f) == SubSeq(f, AuthEnd(f) + 1, Len(f))

\* TpmCommand::validate_envelope
CommandEnvelopeOk(f) ==
    /\ FrameSizeOk(f)
    /\ TagOf(f) \in {NoSessions, Sessions}
    /\ CcOk(f)
    /\ Len(f) - HEADER_SIZE >= 4 * Handles[Number(CodeOf(f))]
    /\ TagOf(f) = Sessions => AuthSizeOk(f)

\* TpmResponse::validate_envelope
ResponseEnvelopeOk(f) ==
    /\ FrameSizeOk(f)
    /\ TagOf(f) \in {NoSessions, Sessions}
    /\ TpmRcReadable(CodeOf(f))

(***************************************************************************)
(* Authorization areas: the bytes that are left after n sessions, or <<-1>>*)
(* when they are malformed (validate_auth_commands and _responses).        *)
(***************************************************************************)
Malformed == <<-1>>

skip_tpm2b(s) ==
    IF s = Malformed \/ Len(s) < 2 THEN Malformed
    ELSE IF Len(s) - 2 < Number(Take(s, 2)) THEN Malformed
    ELSE Drop(s, 2 + Number(Take(s, 2)))

SkipBytes(s, n) == IF s = Malformed \/ Len(s) < n THEN Malformed ELSE Drop(s, n)

SkipSession(s, handleSize) ==
    skip_tpm2b(SkipBytes(skip_tpm2b(SkipBytes(s, handleSize)), 1))

AfterSessions(s, handleSize) ==
    LET After[n \in 0..MAX_SESSIONS] ==
            IF n = 0 THEN s
            ELSE IF After[n - 1] = <<>> THEN <<>>
            ELSE SkipSession(After[n - 1], handleSize)
    IN  After

validate_auth(s, handleSize) == AfterSessions(s, handleSize)[MAX_SESSIONS] = <<>>

validate_auth_commands(s) == validate_auth(s, 4)
validate_auth_responses(s) == validate_auth(s, 0)

(***************************************************************************)
(* Reading bodies: unmarshal and its two dispatches.                       *)
(***************************************************************************)
\* unmarshal_handle_area
HandlesIn(s) == [i \in 1..(Len(s) \div 4) |-> SubSeq(s, 4 * i - 3, 4 * i)]

\* TpmCommand::validate
CommandOk(f) == CommandEnvelopeOk(f) /\ validate_auth_commands(AuthArea(f))

\* TpmCommand::unmarshal of the body of command cc: at most one.
ReadCommand(f, cc) ==
    IF CommandOk(f) /\ Number(CodeOf(f)) = cc
    THEN {[handles |-> HandlesIn(HandleArea(f)), params |-> p] :
             p \in unmarshal_body("command", cc, ParamArea(f))}
    ELSE {}

RespHandleEnd(cc) == HEADER_SIZE + 4 * RespHandles[cc]
RespParamSize(f, cc) == Number(SubSeq(f, RespHandleEnd(cc) + 1, RespHandleEnd(cc) + 4))
RespSizesOk(f, cc) ==
    /\ Len(f) - RespHandleEnd(cc) >= 4
    /\ RespParamSize(f, cc) <= Len(f) - RespHandleEnd(cc) - 4
RespAuth(f, cc) == Drop(f, RespHandleEnd(cc) + 4 + RespParamSize(f, cc))

\* TpmResponse::validate
ResponseOk(f, cc) ==
    /\ ResponseEnvelopeOk(f)
    /\ cc \in CommandCodes
    /\ IF rc_try_from(CodeOf(f)) # {Success}
       THEN TagOf(f) = NoSessions /\ Len(f) = HEADER_SIZE
       ELSE /\ Len(f) >= RespHandleEnd(cc)
            /\ TagOf(f) = Sessions => /\ RespSizesOk(f, cc)
                                      /\ validate_auth_responses(RespAuth(f, cc))

\* TpmResponse::body_parts and unmarshal: an error response has no body, which
\* reads as the body of a response without handles and parameters.
RespParams(f, cc) ==
    IF TagOf(f) = Sessions
    THEN SubSeq(f, RespHandleEnd(cc) + 5, RespHandleEnd(cc) + 4 + RespParamSize(f, cc))
    ELSE Drop(f, RespHandleEnd(cc))
BodyPartsOk(f, cc) ==
    Len(f) >= RespHandleEnd(cc) /\ (TagOf(f) = Sessions => RespSizesOk(f, cc))
ReadResponse(f, cc) ==
    IF ResponseOk(f, cc) /\ BodyPartsOk(f, cc)
    THEN {[handles |-> HandlesIn(SubSeq(f, HEADER_SIZE + 1, RespHandleEnd(cc))), params |-> p] :
             p \in unmarshal_body("response", cc, RespParams(f, cc))}
    ELSE {}

Read(kind, f, cc) == IF kind = "command" THEN ReadCommand(f, cc) ELSE ReadResponse(f, cc)

\* TpmResponseView::cast: the code decides before the frame is validated.
DispatchResponse(f, cc) ==
    IF ~TpmRcReadable(CodeOf(f)) THEN "malformed"
    ELSE IF rc_try_from(CodeOf(f)) # {Success} THEN "rejected"
    ELSE IF ResponseOk(f, cc) THEN "dispatched"
    ELSE "malformed"

(***************************************************************************)
(* Requests are frames of one of the two kinds, and what is written into a *)
(* buffer are bytes.                                                       *)
(***************************************************************************)
ASSUME ByteAssumption ==
    /\ \A id \in Requests : /\ Request(id).kind \in {"command", "response"}
                            /\ Marshalled(Request(id)) \subseteq Seq(Byte)
    /\ \A cc \in NewCodes : Be(4, cc) \in Seq(Byte)
    /\ \A rc \in NewRcs : rc_value(rc) \in Seq(Byte)

\* The length of s fits its size field.
Fits2b(s) == Len(s) < 65536

\* Sessions and handles as they are laid out.
AuthSession == [handle: Seq(Byte), nonce: Seq(Byte), attributes: Byte, hmac: Seq(Byte)]

SessionsOk(sessions) ==
    /\ sessions \in Seq(AuthSession)
    /\ \A i \in 1..Len(sessions) : /\ Len(sessions[i].handle) = 4
                                   /\ Fits2b(sessions[i].nonce)
                                   /\ Fits2b(sessions[i].hmac)

HandlesOk(handles, n) ==
    /\ handles \in Seq(Seq(Byte)) /\ Len(handles) = n
    /\ \A i \in 1..n : Len(handles[i]) = 4

\* The codec of the parameters (TpmSized, TpmMarshal, TpmUnmarshal): as many
\* bytes as were announced, which read back as what was written.
CodecOk(r) ==
    ParamsMarshal(r) =>
        /\ ParamsBytes(r) \in Seq(Byte)
        /\ ParamsLen(r) = Len(ParamsBytes(r))
        /\ unmarshal_body(r.kind, r.cc, ParamsBytes(r)) = {r.params}

(***************************************************************************)
(* What requests are made of: the handles of the dispatch table, sessions  *)
(* and parameters of their types.                                          *)
(***************************************************************************)
ASSUME RequestAssumption ==
    /\ CommandCodes \subseteq 0..MAX_NUMBER
    /\ \A id \in Requests :
           LET r == Request(id) IN
           /\ r.cc \in CommandCodes
           /\ SessionsOk(r.sessions)
           /\ r.kind = "command" => HandlesOk(r.handles, Handles[r.cc])
           /\ r.kind = "response" => r.rc \in TpmRcs
           /\ r.kind = "response" /\ r.rc = Success => HandlesOk(r.handles, RespHandles[r.cc])
           /\ CodecOk(r)

(***************************************************************************)
(* State.                                                                  *)
(***************************************************************************)
VARIABLES
    sent,      \* the request that was marshalled last
    buf,       \* the buffer
    altered,   \* whether a byte of it is not the one that was marshalled
    view,      \* the view: its kind, its length, and whether only the area
               \* accessors wrote through it since it was cast
    edits      \* the number of cuts, damages and writes so far

vars == <<sent, buf, altered, view, edits>>

Frame == Take(buf, view.len)

Init ==
    /\ sent = NoRequest
    /\ buf = <<>>
    /\ altered = FALSE
    /\ view = NoView
    /\ edits = 0

\* tpm_marshal_command or tpm_marshal_response; nothing is kept when it fails.
MarshalFrame(r) ==
    /\ sent = NoRequest
    /\ sent' = r
    /\ buf' = LET fs == Marshalled(r) IN IF fs = {} THEN <<>> ELSE CHOOSE f \in fs : TRUE
    /\ UNCHANGED <<altered, view, edits>>

\* The buffer is used for the next frame.
Reuse ==
    /\ sent # NoRequest
    /\ view = NoView
    /\ sent' = NoRequest /\ buf' = <<>> /\ altered' = FALSE /\ edits' = 0
    /\ UNCHANGED view

(***************************************************************************)
(* The way of the bytes.                                                   *)
(***************************************************************************)
MayEdit ==
    /\ sent # NoRequest
    /\ edits < MaxEdits(sent.id)

Edit == MayEdit /\ edits' = edits + 1

Places == IF MayEdit THEN DOMAIN buf ELSE {}

Cut(n) ==
    /\ Edit
    /\ view = NoView
    /\ buf' = Take(buf, n)
    /\ UNCHANGED <<sent, altered, view>>

\* More bytes follow: the next frame, or part of it.
Follow(n) ==
    /\ Edit
    /\ view = NoView
    /\ n \in 1..Len(buf)
    /\ Len(buf) >= HEADER_SIZE
    /\ Len(buf) <= SizeOf(buf)
    /\ buf' = buf \o Take(buf, n)
    /\ altered' = (altered \/ Len(buf) < SizeOf(buf))
    /\ UNCHANGED <<sent, view>>

Alter(i, b) ==
    /\ Edit
    /\ view = NoView
    /\ buf' = [buf EXCEPT ![i] = b]
    /\ altered' = TRUE
    /\ UNCHANGED <<sent, view>>

(***************************************************************************)
(* Views.                                                                  *)
(***************************************************************************)
View(kind, n) == [kind |-> kind, len |-> n, fresh |-> TRUE]

CastCommand ==
    /\ view = NoView
    /\ CommandEnvelopeOk(buf)
    /\ view' = View("command", Len(buf))
    /\ UNCHANGED <<sent, buf, altered, edits>>

CastPrefixCommand ==
    /\ view = NoView
    /\ PrefixOk(buf)
    /\ CommandEnvelopeOk(Take(buf, SizeOf(buf)))
    /\ view' = View("command", SizeOf(buf))
    /\ UNCHANGED <<sent, buf, altered, edits>>

CastResponse ==
    /\ view = NoView
    /\ ResponseEnvelopeOk(buf)
    /\ view' = View("response", Len(buf))
    /\ UNCHANGED <<sent, buf, altered, edits>>

CastPrefixResponse ==
    /\ view = NoView
    /\ PrefixOk(buf)
    /\ ResponseEnvelopeOk(Take(buf, SizeOf(buf)))
    /\ view' = View("response", SizeOf(buf))
    /\ UNCHANGED <<sent, buf, altered, edits>>

Release ==
    /\ view # NoView
    /\ view' = NoView
    /\ UNCHANGED <<sent, buf, altered, edits>>

(***************************************************************************)
(* Writing through a view.                                                 *)
(***************************************************************************)
Overwrite(offset, s) ==
    buf' = [i \in DOMAIN buf |->
               IF i \in offset + 1..offset + Len(s) THEN s[i - offset] ELSE buf[i]]

\* set_tag, set_cc, set_rc: header fields, whatever the body is.
SetHeader(kind, offset, s) ==
    /\ Edit
    /\ view.kind = kind
    /\ Overwrite(offset, s)
    /\ altered' = TRUE
    /\ view' = [view EXCEPT !.fresh = FALSE]
    /\ UNCHANGED sent

SetTag(kind, tag) == SetHeader(kind, 0, tag)
SetCc(cc) == SetHeader("command", 6, Be(4, cc))
SetRc(rc) == SetHeader("response", 6, rc_value(rc))

\* A byte written through handles_mut, auth_area_mut or parameters_mut.
WriteArea(ok, first, last, b) ==
    /\ Edit
    /\ view.kind = "command"
    /\ ok
    /\ \E i \in first..last : Overwrite(i - 1, <<b>>)
    /\ altered' = TRUE
    /\ UNCHANGED <<sent, view>>

WriteHandles(b) == WriteArea(HandleAreaOk(Frame), HEADER_SIZE + 1, HandleEnd(Frame), b)
\* Mutant: the mutable authorization area starts at its size field.
WriteAuthFromSize(b) == WriteArea(RangesOk(Frame), HandleEnd(Frame) + 1, AuthEnd(Frame), b)
WriteAuth(b) == WriteArea(RangesOk(Frame), AuthStart(Frame), AuthEnd(Frame), b)
WriteParameters(b) == WriteArea(RangesOk(Frame), AuthEnd(Frame) + 1, Len(Frame), b)

\* body_mut of a response, and as_bytes_mut, which reaches the header too.
WriteBody(b) ==
    /\ view.kind = "response"
    /\ \E i \in Places \cap (HEADER_SIZE + 1..view.len) : SetHeader("response", i - 1, <<b>>)

WriteBytes(b) ==
    /\ view # NoView
    /\ \E i \in 1..HEADER_SIZE : SetHeader(view.kind, i - 1, <<b>>)

Next ==
    \/ \E id \in Requests : MarshalFrame(Request(id))
    \/ Reuse
    \/ \E i \in Places : Cut(i - 1)
    \/ \E n \in {1, Len(buf)} : Follow(n)
    \/ \E i \in Places, b \in EditBytes : Alter(i, b)
    \/ CastCommand \/ CastPrefixCommand \/ CastResponse \/ CastPrefixResponse
    \/ Release
    \/ \E kind \in {"command", "response"}, tag \in {NoSessions, Sessions, NullTag} :
           SetTag(kind, tag)
    \/ \E cc \in NewCodes : SetCc(cc)
    \/ \E rc \in NewRcs : SetRc(rc)
    \/ \E b \in EditBytes : WriteHandles(b) \/ WriteAuth(b) \/ WriteParameters(b)
    \/ \E b \in EditBytes : WriteBody(b) \/ WriteBytes(b)

Spec == Init /\ [][Next]_vars

(***************************************************************************)
(* Properties.                                                             *)
(***************************************************************************)
\* What marshalling may refuse: a tag and sessions that do not fit together, a
\* union that is not the one its selector names, sessions of an error response,
\* and a frame that is larger than the buffer.
Sendable(r) ==
    /\ Len(r.sessions) <= MAX_SESSIONS
    /\ IF r.kind = "command"
       THEN r.tag = (IF r.sessions = <<>> THEN NoSessions ELSE Sessions) /\ ParamsMarshal(r)
       ELSE IF r.rc = Success THEN ParamsMarshal(r) ELSE r.sessions = <<>>
    /\ HEADER_SIZE + 4 * Len(r.handles) + Len(AuthBytes(r)) + Len(ParamsBytes(r)) + 4
           <= TPM_MAX_COMMAND_SIZE

Body(r) == [handles |-> r.handles, params |-> r.params]
Bodiless(r) == r.kind = "response" /\ r.rc # Success

\* Marshalling and reading agree (tpm_marshal_command, tpm_marshal_response,
\* unmarshal): what can be sent is written whole and read back as exactly the
\* handles, parameters, sessions and response code that were given, and a frame
\* that lost its end on the way, or has more bytes after it, is never read as
\* anything else. Values that a caller built wrongly and marshal does not notice
\* are no requests here (CodecOk): a union that is not the one its selector names
\* in TpmsCapabilityData and TpmsAttest, and key bits or a mode beside the Null
\* algorithm of a TpmtSymDef, are read back differently or not at all.
RoundTrip ==
    sent # NoRequest /\ view = NoView /\ ~altered =>
        LET first == IF PrefixOk(buf) THEN Take(buf, SizeOf(buf)) ELSE buf IN
        /\ edits = 0 /\ Sendable(sent) => buf # <<>>
        /\ ~Bodiless(sent) => Read(sent.kind, first, sent.cc) \subseteq {Body(sent)}
        /\ edits = 0 /\ buf # <<>> =>
               /\ SizeOf(buf) = Len(buf)
               /\ ~Bodiless(sent) => Read(sent.kind, buf, sent.cc) = {Body(sent)}
               /\ sent.kind = "command" => AuthArea(buf) = AuthBytes(sent)
               /\ sent.kind = "response" =>
                      /\ rc_try_from(CodeOf(buf)) = {sent.rc}
                      /\ DispatchResponse(buf, sent.cc)
                             = (IF Bodiless(sent) THEN "rejected" ELSE "dispatched")

\* There is one encoding per body, and two decoders that agree on it
\* (TpmUnmarshal, TpmField): whatever happened to the bytes of a frame, the
\* parameters that are read from it marshal back to the bytes they were read from,
\* and the borrowed views of those bytes accept them exactly when they are read.
Canonical ==
    sent # NoRequest /\ view = NoView =>
        \A kind \in {"command", "response"} :
            LET area == IF kind = "command" THEN ParamArea(buf) ELSE RespParams(buf, sent.cc)
                whole == IF kind = "command" THEN CommandOk(buf) /\ Number(CodeOf(buf)) = sent.cc
                         ELSE ResponseOk(buf, sent.cc) /\ BodyPartsOk(buf, sent.cc)
            IN  /\ \A body \in Read(kind, buf, sent.cc) :
                       marshal_parameters(kind, sent.cc, body.params) = area
                /\ whole => (cast_parameters(kind, sent.cc, area) <=> Read(kind, buf, sent.cc) # {})

\* The areas of a command view (handles, auth_area, parameters): as long as the
\* header was not written to, they are found, follow each other and cover the
\* frame; and no range that is found ever reaches past the frame, whatever was
\* written since the cast that checked it.
AreasTile ==
    view.kind = "command" =>
        /\ HandleAreaOk(Frame) => HandleEnd(Frame) <= view.len
        /\ RangesOk(Frame) => /\ HandleEnd(Frame) < AuthStart(Frame)
                              /\ AuthStart(Frame) <= AuthEnd(Frame) + 1
                              /\ AuthEnd(Frame) <= view.len
        /\ view.fresh => /\ CommandEnvelopeOk(Frame)
                         /\ RangesOk(Frame)
                         /\ TagOf(Frame) = NoSessions => AuthArea(Frame) = <<>>

\* A write through the handles, the authorization area or the parameters of a
\* command view (handles_mut, auth_area_mut, parameters_mut) leaves the header,
\* the other areas, the bytes after the frame and the place of every area alone.
AreaWritesStay ==
    [][ view.kind = "command" /\ view.fresh /\ view' = view /\ buf' # buf =>
            /\ Take(buf', HEADER_SIZE) = Take(buf, HEADER_SIZE)
            /\ Drop(buf', view.len) = Drop(buf, view.len)
            /\ HandleEnd(Frame') = HandleEnd(Frame)
            /\ RangesOk(Frame) =>
                   /\ RangesOk(Frame')
                   /\ AuthStart(Frame') = AuthStart(Frame)
                   /\ AuthEnd(Frame') = AuthEnd(Frame)
                   /\ \/ AuthArea(Frame') = AuthArea(Frame) /\ ParamArea(Frame') = ParamArea(Frame)
                      \/ HandleArea(Frame') = HandleArea(Frame) /\ ParamArea(Frame') = ParamArea(Frame)
                      \/ HandleArea(Frame') = HandleArea(Frame) /\ AuthArea(Frame') = AuthArea(Frame)
      ]_vars
=============================================================================
