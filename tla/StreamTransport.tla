---------------------------- MODULE StreamTransport ----------------------------
(***************************************************************************)
(* TpmDevice::transmit over a TpmStreamTransport on one side and           *)
(* TpmResponder::serve on the other (crates/device/src/lib.rs), joined by  *)
(* a byte stream in each direction: a pipe, a socket, a TCP connection.    *)
(*                                                                         *)
(* Streams are external. A stream holds at most Capacity bytes; either end *)
(* may close it at any time, after which the other still gets what was     *)
(* written; the connection may break, which loses what is in it and lets   *)
(* everything afterwards fail; and a single read or write may fail (a read *)
(* timeout of a socket, say) on a connection that lives on, with what it   *)
(* carries. A byte is represented by the frame it belongs to, its place    *)
(* there and the size the header of that frame declares.                   *)
(***************************************************************************)
EXTENDS Integers, Sequences

CONSTANTS
    TPM_HEADER_SIZE,       \* bytes of a frame that are read first
    TPM_MAX_COMMAND_SIZE,  \* largest size a header may declare
    Sizes,                 \* sizes of the commands that are sent
    Replies,               \* what the handler of serve may return: length, declared size
    AnySize,               \* sizes that bytes which are no header may happen to declare
    Capacity,              \* external: bytes a stream holds
    MaxCommand             \* bound: commands transmitted

Valid == TPM_HEADER_SIZE..TPM_MAX_COMMAND_SIZE

(* Commands are marshalled by prepare_command and declare their length.    *)
(* A handler may return any bytes.                                         *)
ASSUME StreamAssumption ==
    /\ TPM_HEADER_SIZE \in Nat \ {0}
    /\ TPM_MAX_COMMAND_SIZE \in Nat /\ TPM_HEADER_SIZE <= TPM_MAX_COMMAND_SIZE
    /\ Sizes \subseteq Valid
    /\ Replies \subseteq [len: Nat, size: Nat]
    /\ AnySize \subseteq Nat
    /\ Capacity \in Nat \ {0}
    /\ MaxCommand \in Nat

Host == "host"
Tpm == "tpm"
End == {Host, Tpm}
Peer(e) == IF e = Host THEN Tpm ELSE Host

VARIABLES
    pc,        \* of each end: idle, write, header, body, stopped
    seq,       \* the number of the last command transmitted
    unsent,    \* of each end: bytes of the frame that write_all has still to write
    buf,       \* of each end: bytes read of the current frame
    want,      \* of each end: bytes to read before the next decision (buf.resize)
    stream,    \* external: bytes on the way to each end
    closed,    \* external: the ends that have closed the stream
    broken,    \* external: has the connection failed?
    inStep,    \* history: has no error yet left the two ends out of step?
    answered,  \* history: commands whose response was returned
    executed   \* history: commands the handler was called with

vars == <<pc, seq, unsent, buf, want, stream, closed, broken, inStep,
          answered, executed>>
history == <<answered, executed>>

(* len bytes that begin with a header declaring size.                      *)
Frame(n, len, size) == [i \in 1..len |-> [of |-> n, at |-> i, size |-> size]]

(* The command or response that a sequence of bytes is, 0 when it is none. *)
Source(b) ==
    IF /\ b # <<>> /\ Len(b) = b[1].size
       /\ \A i \in DOMAIN b : b[i].of = b[1].of /\ b[i].at = i
    THEN b[1].of ELSE 0

Init ==
    /\ pc = [e \in End |-> "idle"]
    /\ seq = 0 /\ answered = {} /\ executed = {}
    /\ unsent = [e \in End |-> <<>>]
    /\ buf = [e \in End |-> <<>>]
    /\ want = [e \in End |-> TPM_HEADER_SIZE]
    /\ stream = [e \in End |-> <<>>]
    /\ closed = {} /\ broken = FALSE
    /\ inStep = TRUE

-----------------------------------------------------------------------------
(* write_frame and read_frame, the same for both ends.                     *)

(* write_all writes as much as fits. What is written to a closed stream is *)
(* lost.                                                                   *)
WriteBytes(e) ==
    /\ pc[e] = "write" /\ unsent[e] # <<>> /\ ~broken
    /\ \E k \in 1..Len(unsent[e]) :
         /\ Peer(e) \in closed \/ Len(stream[Peer(e)]) + k <= Capacity
         /\ unsent' = [unsent EXCEPT ![e] = SubSeq(@, k + 1, Len(@))]
         /\ stream' = IF Peer(e) \in closed THEN stream
                      ELSE [stream EXCEPT ![Peer(e)] = @ \o SubSeq(unsent[e], 1, k)]
    /\ UNCHANGED <<pc, seq, buf, want, closed, broken, inStep, history>>

\* Mutant: read_frame does not clear the buffer.
BeginReadKeepsBuffer(e) ==
    /\ pc' = [pc EXCEPT ![e] = "header"]
    /\ buf' = [buf EXCEPT ![e] = SubSeq(@, 1, IF Len(@) < TPM_HEADER_SIZE THEN Len(@) ELSE TPM_HEADER_SIZE)]
    /\ want' = [want EXCEPT ![e] = TPM_HEADER_SIZE]
    /\ UNCHANGED <<seq, unsent, stream, closed, broken, inStep, history>>

(* read_frame begins with an empty buffer and asks for a header.           *)
BeginRead(e) ==
    /\ pc' = [pc EXCEPT ![e] = "header"]
    /\ buf' = [buf EXCEPT ![e] = <<>>]
    /\ want' = [want EXCEPT ![e] = TPM_HEADER_SIZE]
    /\ UNCHANGED <<seq, unsent, stream, closed, broken, inStep, history>>

(* The frame is out and flushed.                                           *)
WriteDone(e) == pc[e] = "write" /\ unsent[e] = <<>> /\ BeginRead(e)

(* fill_exact takes some of the bytes it needs.                            *)
Reading(e) == pc[e] \in {"header", "body"} /\ Len(buf[e]) < want[e]
Fill(e) ==
    /\ Reading(e) /\ stream[e] # <<>> /\ ~broken
    /\ \E k \in 1..Len(stream[e]) :
         /\ Len(buf[e]) + k <= want[e]
         /\ buf' = [buf EXCEPT ![e] = @ \o SubSeq(stream[e], 1, k)]
         /\ stream' = [stream EXCEPT ![e] = SubSeq(@, k + 1, Len(@))]
    /\ UNCHANGED <<pc, seq, unsent, want, closed, broken, inStep, history>>

(* The size a header declares. Bytes from inside a frame may declare any.  *)
frame_size(header) ==
    IF \A i \in DOMAIN header : header[i].at = i THEN {header[1].size} ELSE AnySize

HasHeader(e) == pc[e] = "header" /\ Len(buf[e]) = want[e]

HeaderDone(e) ==
    /\ HasHeader(e)
    /\ pc' = [pc EXCEPT ![e] = "body"]
    /\ \E size \in frame_size(buf[e]) \cap Valid : want' = [want EXCEPT ![e] = size]
    /\ UNCHANGED <<seq, unsent, buf, stream, closed, broken, inStep, history>>

\* Mutant: what one read returns is taken for the whole body.
CompleteAtOnce(e) ==
    pc[e] = "body" /\ (Len(buf[e]) = want[e] \/ Len(buf[e]) > TPM_HEADER_SIZE)

Complete(e) == pc[e] = "body" /\ Len(buf[e]) = want[e]

-----------------------------------------------------------------------------
(* Errors. transmit and serve return them, and may be called again.        *)

(* Nothing that is in the stream can reach end e any more.                 *)
Dead(e) == broken \/ (Peer(e) \in closed /\ stream[e] = <<>>)

(* The host has not yet written a byte of its command, or the responder    *)
(* not yet read one of the next.                                           *)
Untouched(e) ==
    IF e = Host THEN pc[Host] = "write" /\ unsent[Host] # <<>>
                     /\ Len(unsent[Host]) = unsent[Host][1].size
    ELSE pc[Tpm] = "header" /\ buf[Tpm] = <<>>

(* What is in the stream stays there. Unless that is nothing, or the frame *)
(* was not begun, the ends no longer agree on where the next frame starts  *)
(* or on which command it belongs to.                                      *)
Fail(e) ==
    /\ pc' = [pc EXCEPT ![e] = "idle"]
    /\ inStep' = (inStep /\ (Dead(e) \/ Untouched(e)))
    /\ UNCHANGED <<seq, unsent, buf, want, stream, closed, broken, history>>

(* frame_size rejects the header.                                          *)
HeaderRejected(e) ==
    HasHeader(e) /\ frame_size(buf[e]) \ Valid # {} /\ Fail(e)

\* Mutant: end of stream is taken for a frame that has yet to come.
AtEofWaits(e) == FALSE /\ e \in End

(* The stream ends before the frame is complete; serve returns Ok then.    *)
AtEof(e) ==
    /\ Reading(e) /\ ~broken
    /\ Peer(e) \in closed /\ stream[e] = <<>>
    /\ Fail(e)

(* A read or write fails, and so would the next: the connection is broken, *)
(* or it is a write and the peer has closed.                               *)
IoFails(e) ==
    /\ \/ broken /\ (pc[e] = "write" \/ Reading(e))
       \/ pc[e] = "write" /\ Peer(e) \in closed
    /\ Fail(e)

(* External: one read or write fails, on a connection that lives.          *)
FailsOnce(e) == (pc[e] = "write" \/ Reading(e)) /\ Fail(e)

-----------------------------------------------------------------------------
(* The host: transmit.                                                     *)

transmit ==
    /\ pc[Host] = "idle" /\ seq < MaxCommand
    /\ seq' = seq + 1
    /\ \E size \in Sizes : unsent' = [unsent EXCEPT ![Host] = Frame(seq + 1, size, size)]
    /\ pc' = [pc EXCEPT ![Host] = "write"]
    /\ UNCHANGED <<buf, want, stream, closed, broken, inStep, history>>

(* The response is complete: it is decoded, which may fail.                *)
RecvResponse ==
    /\ Complete(Host)
    /\ pc' = [pc EXCEPT ![Host] = "idle"]
    /\ \/ answered' = answered \cup {Source(buf[Host])}
       \/ UNCHANGED answered  \* Unmarshal
    /\ UNCHANGED <<seq, unsent, buf, want, stream, closed, broken, inStep, executed>>

-----------------------------------------------------------------------------
(* The TPM: serve.                                                         *)

serve == pc[Tpm] = "idle" /\ BeginRead(Tpm)

(* recv has a frame: the handler is called with it, and what it returns is *)
(* sent, whether that is a frame or not.                                   *)
Handle ==
    /\ Complete(Tpm)
    /\ executed' = executed \cup {Source(buf[Tpm])}
    /\ \E r \in Replies :
         /\ unsent' = [unsent EXCEPT ![Tpm] = Frame(Source(buf[Tpm]), r.len, r.size)]
         /\ inStep' = (inStep /\ r.len = r.size /\ r.size \in Valid)
    /\ pc' = [pc EXCEPT ![Tpm] = "write"]
    /\ UNCHANGED <<seq, buf, want, stream, closed, broken, answered>>

-----------------------------------------------------------------------------
(* External: the process at one end ends or drops its transport, which     *)
(* closes the stream, or the connection breaks.                            *)

Close(e) ==
    /\ e \notin closed
    /\ closed' = closed \cup {e}
    /\ pc' = [pc EXCEPT ![e] = "stopped"]
    /\ UNCHANGED <<seq, unsent, buf, want, stream, broken, inStep, history>>

Break ==
    /\ ~broken
    /\ broken' = TRUE
    /\ stream' = [e \in End |-> <<>>]
    /\ UNCHANGED <<pc, seq, unsent, buf, want, closed, inStep, history>>

Io(e) ==
    \/ WriteBytes(e) \/ WriteDone(e) \/ Fill(e) \/ HeaderDone(e)
    \/ HeaderRejected(e) \/ AtEof(e) \/ IoFails(e)
HostStep == Io(Host) \/ RecvResponse
TpmStep == Io(Tpm) \/ Handle

Next ==
    \/ transmit \/ HostStep \/ serve \/ TpmStep \/ Break
    \/ \E e \in End : FailsOnce(e) \/ Close(e)

Spec == Init /\ [][Next]_vars

(* Both processes go on with the call they are in; nothing is assumed of   *)
(* when they call again or end, or of the connection. That a live stream   *)
(* fails is not assumed either, so no wait is ended by FailsOnce.          *)
FairSpec == Spec /\ WF_vars(HostStep) /\ WF_vars(TpmStep)

-----------------------------------------------------------------------------

(* Until an error leaves them out of step, the bytes each end has          *)
(* collected are a prefix of one frame, in order, and at the host of the   *)
(* response to the command in progress: read_frame does not start inside a *)
(* frame or read past its end, nothing is executed that was not sent, or   *)
(* answered that was not executed. In step or not, read_frame never takes  *)
(* in more than the largest frame, whatever size a header declares.        *)
FramesStayWhole ==
  /\ \A e \in End : pc[e] \in {"header", "body"} => Len(buf[e]) <= TPM_MAX_COMMAND_SIZE
  /\ inStep =>
        /\ executed \subseteq 1..seq /\ answered \subseteq executed
        /\ \A e \in End : pc[e] \in {"header", "body"} =>
              \A i \in DOMAIN buf[e] : /\ buf[e][i].of = IF e = Host THEN seq ELSE buf[e][1].of
                                       /\ buf[e][i].at = i
                                       /\ i <= buf[e][i].size

(* Host, stream and responder together do what Exchange promises, until an *)
(* error leaves them out of step: a response is that of the command it is  *)
(* returned for, and commands are executed at most once and in order. An   *)
(* error that is met before the frame is begun, or after which nothing can *)
(* arrive, is not of that kind, and transmit may be called again.          *)
Abstract == INSTANCE Exchange WITH
    number <- seq,
    open <- pc[Host] \notin {"idle", "stopped"},
    refused <- {}
abstract == <<seq, pc[Host] \notin {"idle", "stopped"}, answered, executed>>
ImplementsExchange == Abstract!Init /\ [][inStep' => [Abstract!Next]_abstract]_vars

(* Every transmit returns, unless the process ends, the ends are out of    *)
(* step or serve has returned and is not called again: the two ends never  *)
(* wait for each other, however small the streams are. And serve returns   *)
(* once its peer has gone, out of step or not.                             *)
BothReturn ==
    /\ (pc[Host] \in {"write", "header", "body"})
          ~> (pc[Host] \in {"idle", "stopped"} \/ ~inStep \/ pc[Tpm] = "idle")
    /\ (Host \in closed) ~> (pc[Tpm] \in {"idle", "stopped"})

=============================================================================
