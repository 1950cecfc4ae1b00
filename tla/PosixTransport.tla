----------------------------- MODULE PosixTransport -----------------------------
(***************************************************************************)
(* TpmDevice::transmit over TpmPosixDevice (crates/device/src/lib.rs): one *)
(* thread writes command frames to the TPM character device and collects   *)
(* each response in chunks, polling, until the length its header declares  *)
(* is complete, the deadline passes or Ctrl-C is pressed.                  *)
(*                                                                         *)
(* The character device is external: it takes one command at a time,       *)
(* refuses the next while a command is queued or a response has not been   *)
(* touched, and a new command discards what is left of a response.         *)
(***************************************************************************)
EXTENDS Integers

CONSTANTS
    TPM_HEADER_SIZE,       \* bytes before the size of a frame is known (10)
    TPM_MAX_COMMAND_SIZE,  \* largest size a header may declare
    ChunkSize,             \* bytes read at a time (the 1024 of temp_buf)
    Reply,                 \* the responses a TPM may give
    MaxCommand,            \* bound: commands transmitted
    IoFault,               \* may system calls on the device fail?
    None

ASSUME SizeAssumption ==
    /\ TPM_HEADER_SIZE \in Nat \ {0}
    /\ TPM_MAX_COMMAND_SIZE \in Nat
    /\ ChunkSize \in Nat \ {0}
    /\ MaxCommand \in Nat
    /\ None \notin Nat
    /\ IoFault \in BOOLEAN

(* A response: its bytes, the size its header declares, and what decoding  *)
(* makes of it: a response of this command, an error code, or neither.     *)
ASSUME ReplyAssumption ==
    Reply \subseteq [length: Nat \ {0}, declared: Nat,
                     body: {"Ok", "TpmRc", "Unmarshal"}]

VARIABLES
    pc,        \* idle, sending or receiving
    seq,       \* the number of the last command transmitted
    buf,       \* response: whose bytes, from which offset, how many
    total_size,\* the declared size, once the header is complete
    expired,   \* has the time limit of this recv passed?
    teardown,  \* the interrupted callback: set by Ctrl-C, never reset
    result,    \* what the last transmit returned
    queued,    \* device: the command it has not executed yet
    of,        \* device: the command of the response it holds
    reply,     \* device: that response
    off,       \* device: bytes of it that have been read
    left,      \* device: bytes of it that can still be read
    answered,  \* history: commands whose response was returned
    refused,   \* history: commands the device never accepted
    executed   \* history: commands the TPM executed

host == <<pc, seq, buf, total_size, expired, result>>
device == <<queued, of, reply, off, left>>
history == <<answered, refused, executed>>
vars == <<host, teardown, device, history>>

Empty == [from |-> {}, first |-> 0, len |-> 0]

Init ==
    /\ pc = "idle" /\ seq = 0 /\ buf = Empty /\ total_size = None
    /\ expired = FALSE /\ teardown = FALSE /\ result = "Ok"
    /\ queued = None /\ of = 0 /\ reply = None /\ off = 0 /\ left = 0
    /\ answered = {} /\ refused = {} /\ executed = {}

-----------------------------------------------------------------------------
(* The host.                                                               *)

(* transmit begins: the command is marshalled into the command buffer.     *)
transmit ==
    /\ pc = "idle" /\ seq < MaxCommand
    /\ seq' = seq + 1
    /\ pc' = "sending"
    /\ UNCHANGED <<buf, total_size, expired, result, teardown, device, history>>

(* The device takes a command only if none is queued and the response of   *)
(* the one before has been read at least in part.                          *)
Busy == queued # None \/ (left > 0 /\ off = 0)

(* send succeeds and recv begins with an empty buffer and a new deadline.  *)
Send ==
    /\ pc = "sending" /\ ~Busy
    /\ queued' = seq /\ off' = 0 /\ left' = 0
    /\ pc' = "receiving"
    /\ buf' = Empty /\ total_size' = None /\ expired' = FALSE
    /\ UNCHANGED <<seq, result, teardown, of, reply, history>>

(* transmit returns r.                                                     *)
Return(r) ==
    /\ pc' = "idle"
    /\ result' = r

\* Mutant: a refused write is not reported, recv waits for what is there.
SendFailureIgnored ==
    /\ pc = "sending"
    /\ Busy \/ IoFault
    /\ pc' = "receiving"
    /\ buf' = Empty /\ total_size' = None /\ expired' = FALSE
    /\ UNCHANGED <<seq, result, teardown, device, history>>

(* prepare_command or the write fails: the device never sees the command.  *)
SendFails ==
    /\ pc = "sending"
    /\ Busy \/ IoFault
    /\ Return("Io")
    /\ refused' = refused \cup {seq}
    /\ UNCHANGED <<seq, buf, total_size, expired, teardown, device, answered,
                   executed>>

(* The checks at the head of the receive loop, interruption first.         *)
RecvInterrupted ==
    /\ pc = "receiving" /\ teardown
    /\ Return("Interrupted")
    /\ UNCHANGED <<seq, buf, total_size, expired, teardown, device, history>>

\* Mutant: the deadline only counts while nothing has arrived.
TimeoutWhileEmpty ==
    /\ pc = "receiving" /\ ~teardown /\ expired /\ buf.len = 0
    /\ Return("Timeout")
    /\ UNCHANGED <<seq, buf, total_size, expired, teardown, device, history>>

RecvTimeout ==
    /\ pc = "receiving" /\ ~teardown /\ expired
    /\ Return("Timeout")
    /\ UNCHANGED <<seq, buf, total_size, expired, teardown, device, history>>

(* poll or read fails.                                                     *)
RecvFails ==
    /\ pc = "receiving" /\ ~teardown /\ ~expired
    /\ IoFault
    /\ Return("Io")
    /\ UNCHANGED <<seq, buf, total_size, expired, teardown, device, history>>

(* The size in the header of a buffer; bytes that are not the start of one *)
(* response could declare anything.                                        *)
frame_size(b) ==
    IF b.first = 0 /\ b.from = {of} THEN {reply.declared} ELSE 0..TPM_MAX_COMMAND_SIZE

SizeInRange(n) == TPM_HEADER_SIZE <= n /\ n <= TPM_MAX_COMMAND_SIZE

(* Bytes that one read returns, and the buffer with them.                  *)
Chunk == IF left < ChunkSize THEN left ELSE ChunkSize

Collected ==
    [from |-> buf.from \cup {of},
     first |-> IF buf.len = 0 THEN off ELSE buf.first,
     len |-> buf.len + Chunk]

\* Mutant: a frame is taken as complete when at least the declared size is there.
EnoughBytes(n, size) == IF n >= size THEN "done" ELSE "more"

(* What n collected bytes mean once the declared size is known.            *)
Verdict(n, size) ==
    IF n = size THEN "done" ELSE IF n > size THEN "TrailingData" ELSE "more"

(* A chunk is read. The declared size is taken from the first bytes that   *)
(* complete a header; a complete frame is decoded, anything too long or    *)
(* out of range ends the call.                                             *)
RecvBytes ==
    /\ pc = "receiving" /\ ~teardown /\ ~expired
    /\ left > 0
    /\ off' = off + Chunk /\ left' = left - Chunk
    /\ buf' = Collected
    /\ \/ /\ total_size = None /\ Collected.len < TPM_HEADER_SIZE
          /\ UNCHANGED <<pc, result, total_size, answered>>
       \/ \E size \in IF total_size = None THEN frame_size(Collected)
                                           ELSE {total_size} :
          /\ total_size # None \/ Collected.len >= TPM_HEADER_SIZE
          /\ total_size' = size
          /\ \/ /\ ~SizeInRange(size)
                /\ Return("InvalidResponse")
                /\ UNCHANGED answered
             \/ /\ SizeInRange(size) /\ Verdict(Collected.len, size) = "done"
                /\ Return(reply.body)
                /\ answered' = answered \cup {seq}
             \/ /\ SizeInRange(size) /\ Verdict(Collected.len, size) = "TrailingData"
                /\ Return("TrailingData")
                /\ UNCHANGED answered
             \/ /\ SizeInRange(size) /\ Verdict(Collected.len, size) = "more"
                /\ UNCHANGED <<pc, result, answered>>
    /\ UNCHANGED <<seq, expired, teardown, queued, of, reply, refused, executed>>

-----------------------------------------------------------------------------
(* The world around it.                                                    *)

(* The TPM executes the queued command; its response can now be read.      *)
Execute ==
    /\ queued # None
    /\ \E r \in Reply : reply' = r /\ left' = r.length
    /\ of' = queued /\ off' = 0 /\ queued' = None
    /\ executed' = executed \cup {queued}
    /\ UNCHANGED <<host, teardown, answered, refused>>

(* The device driver drops a response nobody reads.                        *)
Discard ==
    /\ left > 0
    /\ left' = 0
    /\ UNCHANGED <<host, teardown, queued, of, reply, off, history>>

CtrlC ==
    /\ ~teardown /\ teardown' = TRUE
    /\ UNCHANGED <<host, device, history>>

Tick ==
    /\ pc = "receiving" /\ ~expired /\ expired' = TRUE
    /\ UNCHANGED <<pc, seq, buf, total_size, result, teardown, device, history>>

Recv == RecvInterrupted \/ RecvTimeout \/ RecvFails \/ RecvBytes

Host == transmit \/ Send \/ SendFails \/ Recv

Next == Host \/ Execute \/ Discard \/ CtrlC \/ Tick

Spec == Init /\ [][Next]_vars

(* The thread runs (a call in progress takes its next step) and time       *)
(* passes. Nothing is assumed of the TPM: it may never answer.             *)
FairSpec == Spec /\ WF_vars(Send \/ SendFails \/ Recv) /\ WF_vars(Tick)

-----------------------------------------------------------------------------
(* Correctness.                                                            *)

TypeOK ==
    /\ pc \in {"idle", "sending", "receiving"}
    /\ seq \in 0..MaxCommand
    /\ buf \in [from: SUBSET (0..MaxCommand), first: Nat, len: Nat]
    /\ total_size \in Nat \cup {None}
    /\ expired \in BOOLEAN /\ teardown \in BOOLEAN
    /\ result \in {"Ok", "TpmRc", "Unmarshal", "Io", "Interrupted", "Timeout",
                   "InvalidResponse", "TrailingData"}
    /\ queued \in (1..MaxCommand) \cup {None}
    /\ of \in 0..MaxCommand
    /\ reply \in Reply \cup {None}
    /\ off \in Nat /\ left \in Nat
    /\ answered \subseteq 1..MaxCommand
    /\ refused \subseteq 1..MaxCommand
    /\ executed \subseteq 1..MaxCommand

(* transmit returns a response (or the error code in one) only if it is    *)
(* the response to the command just sent, from its first byte and as long  *)
(* as its header says, whatever earlier transmissions left behind: recv    *)
(* that timed out or was interrupted in the middle of a response, a write  *)
(* that was refused, a response the driver dropped.                        *)
Paired ==
    pc = "idle" /\ seq \in answered =>
        /\ buf.from = {seq} /\ buf.first = 0
        /\ of = seq /\ buf.len = reply.declared /\ buf.len <= reply.length
        /\ SizeInRange(buf.len)
        /\ result = reply.body

(* A transmission is what the layers above take it for: executed if it was *)
(* answered, never executed if the write failed, and otherwise possibly    *)
(* executed later, at most once and in order.                              *)
E == INSTANCE Exchange WITH number <- seq, open <- (pc # "idle")
ImplementsExchange == E!Spec

(* Every transmit returns, also when the TPM never answers, stops in the   *)
(* middle of a response, or declares more bytes than it delivers.          *)
TransmitReturns == pc # "idle" ~> pc = "idle"
=============================================================================
