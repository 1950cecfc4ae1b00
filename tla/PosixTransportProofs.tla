--------------------------- MODULE PosixTransportProofs ---------------------------
(***************************************************************************)
(* Proofs about PosixTransport: for every header, chunk and frame size,    *)
(* every set of responses and any number of commands, a response is paired *)
(* with its command and a transmission implements Exchange.                *)
(***************************************************************************)
EXTENDS PosixTransport, TLAPS

(* What the history knows of the commands: only commands that were issued, *)
(* and the queued one has neither run nor been refused nor been overtaken. *)
Order ==
    /\ answered \subseteq 1..seq /\ refused \subseteq 1..seq
    /\ executed \subseteq 1..seq
    /\ queued # None =>
         /\ queued \in 1..seq
         /\ queued \notin executed \cup refused
         /\ \A m \in executed : m < queued
         /\ left = 0

(* Where the last command is while its transmission is in progress.        *)
Progress ==
    /\ pc = "sending" =>
         /\ seq >= 1
         /\ seq \notin answered \cup refused \cup executed
         /\ queued # seq
    /\ pc = "receiving" =>
         /\ seq >= 1
         /\ seq \notin answered \cup refused
         /\ queued = seq \/ (queued = None /\ of = seq)
    /\ pc = "idle" /\ seq \in answered => queued = None

(* The response the device holds, and the part of it that is in the        *)
(* buffer: always a prefix of the response to the last command.            *)
Prefix ==
    /\ pc = "receiving" /\ queued = seq => buf = Empty /\ total_size = None
    /\ pc = "receiving" /\ queued = None =>
         /\ reply \in Reply
         /\ seq \in executed
         /\ buf.len = off
         /\ buf.first = 0
         /\ buf.from = IF off = 0 THEN {} ELSE {seq}
         /\ off + left <= reply.length
         /\ total_size # None => total_size = reply.declared /\ SizeInRange(total_size)

Inv ==
    /\ TypeOK
    /\ Order
    /\ Progress
    /\ Prefix
    /\ Paired

(* The transport starts idle, with nothing sent and nothing held.          *)
LEMMA InitInv == Init => Inv
<1>. SUFFICES ASSUME Init PROVE Inv
    OBVIOUS
<1>1. TypeOK
  <2>1. Empty \in [from: SUBSET (0..MaxCommand), first: Nat, len: Nat]
      BY DEF Empty
  <2>2. buf \in [from: SUBSET (0..MaxCommand), first: Nat, len: Nat]
      BY <2>1, Zenon DEF Init
  <2>3. expired \in BOOLEAN /\ teardown \in BOOLEAN
      BY Zenon DEF Init
  <2>4. /\ seq \in 0..MaxCommand /\ of \in 0..MaxCommand
        /\ total_size \in Nat \cup {None} /\ queued \in (1..MaxCommand) \cup {None}
        /\ reply \in Reply \cup {None} /\ off \in Nat /\ left \in Nat
        /\ answered = {} /\ refused = {} /\ executed = {}
        /\ pc = "idle" /\ result = "Ok"
      BY SizeAssumption DEF Init
  <2>. QED  BY <2>2, <2>3, <2>4 DEF TypeOK
<1>2. Order  BY SizeAssumption DEF Init, Order
<1>3. Progress  BY DEF Init, Progress
<1>4. Prefix  BY DEF Init, Prefix
<1>5. Paired  BY DEF Init, Paired
<1>. QED  BY <1>1, <1>2, <1>3, <1>4, <1>5 DEF Inv

(* Starting and sending a command keeps the invariant.                     *)
LEMMA SendInv ==
    ASSUME Inv, transmit \/ Send \/ SendFails
    PROVE  Inv'
<1>1. CASE transmit
  <2>. USE <1>1 DEF transmit, device, history
  <2>1. TypeOK'  BY SizeAssumption DEF Inv, TypeOK
  <2>2. Order'  BY SizeAssumption DEF Inv, TypeOK, Order
  <2>3. Progress'  BY SizeAssumption DEF Inv, TypeOK, Order, Progress
  <2>4. Prefix'  BY DEF Prefix
  <2>5. Paired'  BY DEF Paired
  <2>. QED  BY <2>1, <2>2, <2>3, <2>4, <2>5 DEF Inv
<1>2. CASE Send
  <2>. USE <1>2 DEF Send, history
  <2>1. TypeOK'
    <3>1. Empty \in [from: SUBSET (0..MaxCommand), first: Nat, len: Nat]
        BY DEF Empty
    <3>2. buf' \in [from: SUBSET (0..MaxCommand), first: Nat, len: Nat]
        BY <3>1, Zenon
    <3>3. expired' \in BOOLEAN /\ teardown' \in BOOLEAN
        BY Zenon DEF Inv, TypeOK
    <3>4. /\ total_size' \in Nat \cup {None} /\ off' \in Nat /\ left' \in Nat
          /\ queued' \in (1..MaxCommand) \cup {None}
        BY SizeAssumption DEF Inv, TypeOK, Progress
    <3>. QED  BY <3>2, <3>3, <3>4 DEF Inv, TypeOK
  <2>2. Order'  BY SizeAssumption DEF Inv, TypeOK, Order, Progress
  <2>3. Progress'  BY SizeAssumption DEF Inv, TypeOK, Order, Progress
  <2>4. Prefix'  BY SizeAssumption DEF Inv, TypeOK, Prefix
  <2>5. Paired'  BY DEF Paired
  <2>. QED  BY <2>1, <2>2, <2>3, <2>4, <2>5 DEF Inv
<1>3. CASE SendFails
  <2>. USE <1>3 DEF SendFails, Return, device
  <2>1. TypeOK'  BY SizeAssumption DEF Inv, TypeOK, Progress
  <2>2. Order'  BY SizeAssumption DEF Inv, TypeOK, Order, Progress
  <2>3. Progress'  BY SizeAssumption DEF Inv, TypeOK, Order, Progress
  <2>4. Prefix'  BY DEF Prefix
  <2>5. Paired'  BY DEF Inv, Paired, Progress
  <2>. QED  BY <2>1, <2>2, <2>3, <2>4, <2>5 DEF Inv
<1>. QED  BY <1>1, <1>2, <1>3

(* So does a recv that gives up.                                           *)
LEMMA AbandonInv ==
    ASSUME Inv, RecvInterrupted \/ RecvTimeout \/ RecvFails
    PROVE  Inv'
<1>1. /\ pc = "receiving" /\ pc' = "idle"
      /\ result' \in {"Interrupted", "Timeout", "Io"}
      /\ UNCHANGED <<seq, buf, total_size, expired, teardown, device, history>>
    BY DEF RecvInterrupted, RecvTimeout, RecvFails, Return
<1>. USE <1>1 DEF device, history
<1>2. TypeOK'  BY DEF Inv, TypeOK
<1>3. Order'  BY DEF Inv, Order
<1>4. Progress'  BY DEF Inv, Progress
<1>5. Prefix'  BY DEF Prefix
<1>6. Paired'  BY DEF Inv, Paired, Progress
<1>. QED  BY <1>2, <1>3, <1>4, <1>5, <1>6 DEF Inv

(* A chunk that is read extends the prefix of the response to the last     *)
(* command; the declared size comes from that very response.               *)
LEMMA RecvBytesInv ==
    ASSUME Inv, RecvBytes
    PROVE  /\ Inv'
           /\ seq \in executed
           /\ \/ pc' = pc /\ answered' = answered
              \/ pc' = "idle" /\ answered' = answered
              \/ pc' = "idle" /\ answered' = answered \cup {seq}
<1>. USE DEF Return
<1>1. queued = None /\ of = seq /\ seq \in executed
    BY SizeAssumption DEF Inv, TypeOK, Order, Progress, Prefix, RecvBytes
<1>2. Chunk \in Nat /\ Chunk >= 1 /\ Chunk <= left
    BY SizeAssumption DEF Inv, TypeOK, RecvBytes, Chunk
<1>3. /\ reply \in Reply /\ reply.length \in Nat /\ reply.declared \in Nat
      /\ reply.body \in {"Ok", "TpmRc", "Unmarshal"}
    BY <1>1, ReplyAssumption DEF Inv, Prefix, RecvBytes
<1>4. /\ Collected.len = off + Chunk /\ Collected.first = 0
      /\ Collected.from = {seq}
      /\ off + Chunk + (left - Chunk) <= reply.length
      /\ off \in Nat /\ left \in Nat
  <2>1. /\ buf.len = off /\ buf.first = 0
        /\ buf.from = IF off = 0 THEN {} ELSE {seq}
        /\ off + left <= reply.length /\ off \in Nat /\ left \in Nat
      BY <1>1 DEF Inv, TypeOK, Prefix, RecvBytes
  <2>. QED  BY <1>1, <1>2, <1>3, <2>1 DEF Collected
<1>5. Collected \in [from: SUBSET (0..MaxCommand), first: Nat, len: Nat]
    BY <1>1, <1>2, <1>4 DEF Inv, TypeOK, Collected
<1>6. \A size \in IF total_size = None THEN frame_size(Collected) ELSE {total_size} :
        size = reply.declared
    BY <1>1, <1>4 DEF frame_size, Inv, Prefix, RecvBytes
<1>7. /\ pc = "receiving" /\ seq' = seq /\ of' = of /\ reply' = reply
      /\ queued' = None /\ off' = off + Chunk /\ left' = left - Chunk
      /\ buf' = Collected /\ refused' = refused /\ executed' = executed
      /\ expired' = expired /\ teardown' = teardown
    BY <1>1 DEF RecvBytes
<1>8. \/ /\ pc' = pc /\ result' = result /\ answered' = answered
         /\ total_size' = None /\ total_size = None
      \/ /\ pc' = pc /\ result' = result /\ answered' = answered
         /\ total_size' = reply.declared /\ SizeInRange(reply.declared)
      \/ /\ pc' = "idle" /\ answered' = answered
         /\ result' \in {"InvalidResponse", "TrailingData"}
         /\ total_size' = reply.declared
      \/ /\ pc' = "idle" /\ answered' = answered \cup {seq}
         /\ result' = reply.body
         /\ total_size' = reply.declared /\ SizeInRange(reply.declared)
         /\ Collected.len = reply.declared
  <2>1. CASE /\ total_size = None /\ Collected.len < TPM_HEADER_SIZE
             /\ UNCHANGED <<pc, result, total_size, answered>>
      BY <2>1
  <2>2. ASSUME NEW size \in IF total_size = None THEN frame_size(Collected)
                            ELSE {total_size},
               total_size' = size,
               \/ /\ ~SizeInRange(size)
                  /\ Return("InvalidResponse")
                  /\ UNCHANGED answered
               \/ /\ SizeInRange(size) /\ Verdict(Collected.len, size) = "done"
                  /\ Return(reply.body)
                  /\ answered' = answered \cup {seq}
               \/ /\ SizeInRange(size) /\ Verdict(Collected.len, size) = "TrailingData"
                  /\ Return("TrailingData")
                  /\ UNCHANGED answered
               \/ /\ SizeInRange(size) /\ Verdict(Collected.len, size) = "more"
                  /\ UNCHANGED <<pc, result, answered>>
        PROVE  \/ /\ pc' = pc /\ result' = result /\ answered' = answered
                  /\ total_size' = reply.declared /\ SizeInRange(reply.declared)
               \/ /\ pc' = "idle" /\ answered' = answered
                  /\ result' \in {"InvalidResponse", "TrailingData"}
                  /\ total_size' = reply.declared
               \/ /\ pc' = "idle" /\ answered' = answered \cup {seq}
                  /\ result' = reply.body
                  /\ total_size' = reply.declared /\ SizeInRange(reply.declared)
                  /\ Collected.len = reply.declared
    <3>1. size = reply.declared
        BY <1>6
    <3>. QED  BY <2>2, <3>1 DEF Verdict
  <2>. QED  BY <2>1, <2>2 DEF RecvBytes
<1>9. TypeOK'
  <2>1. off' \in Nat /\ left' \in Nat
      BY <1>2, <1>4, <1>7
  <2>2. total_size' \in Nat \cup {None}
      BY <1>3, <1>8
  <2>3. answered' \subseteq 1..MaxCommand
      BY <1>1, <1>8, SizeAssumption DEF Inv, TypeOK, Order
  <2>4. /\ pc' \in {"idle", "sending", "receiving"}
        /\ result' \in {"Ok", "TpmRc", "Unmarshal", "Io", "Interrupted", "Timeout",
                        "InvalidResponse", "TrailingData"}
      BY <1>3, <1>7, <1>8 DEF Inv, TypeOK
  <2>5. buf' \in [from: SUBSET (0..MaxCommand), first: Nat, len: Nat]
      BY <1>5, <1>7
  <2>. QED  BY <1>1, <1>7, <2>1, <2>2, <2>3, <2>4, <2>5 DEF Inv, TypeOK
<1>10. Order'
    BY <1>1, <1>7, <1>8, SizeAssumption DEF Inv, TypeOK, Order
<1>11. Progress'
    BY <1>1, <1>7, <1>8 DEF Inv, Progress
<1>12. Prefix'
  <2>1. queued' # seq'
      BY <1>7, SizeAssumption DEF Inv, TypeOK
  <2>2. /\ reply' \in Reply /\ seq' \in executed'
        /\ buf'.len = off' /\ buf'.first = 0 /\ off' >= 1
        /\ buf'.from = {seq'}
        /\ off' + left' <= reply'.length
      BY <1>1, <1>2, <1>3, <1>4, <1>7
  <2>3. pc' = "receiving" /\ total_size' # None =>
          total_size' = reply'.declared /\ SizeInRange(total_size')
      BY <1>7, <1>8
  <2>. QED  BY <2>1, <2>2, <2>3 DEF Prefix, SizeInRange
<1>13. Paired'
  <2>. SUFFICES ASSUME pc' = "idle", seq' \in answered'
                PROVE  /\ buf'.from = {seq'} /\ buf'.first = 0
                       /\ of' = seq' /\ buf'.len = reply'.declared
                       /\ buf'.len <= reply'.length
                       /\ SizeInRange(buf'.len)
                       /\ result' = reply'.body
      BY DEF Paired, SizeInRange
  <2>1. /\ answered' = answered \cup {seq}
        /\ result' = reply.body /\ SizeInRange(reply.declared)
        /\ Collected.len = reply.declared
      BY <1>7, <1>8 DEF Inv, Progress
  <2>. QED  BY <1>1, <1>2, <1>3, <1>4, <1>7, <2>1
<1>. QED  BY <1>1, <1>8, <1>9, <1>10, <1>11, <1>12, <1>13 DEF Inv

(* The TPM executing a command, the driver dropping a response, Ctrl-C and *)
(* the passing of time keep the invariant.                                 *)
LEMMA WorldInv ==
    ASSUME Inv, Execute \/ Discard \/ CtrlC \/ Tick
    PROVE  Inv'
<1>1. CASE Execute
  <2>0. PICK r \in Reply : reply' = r /\ left' = r.length
      BY <1>1 DEF Execute
  <2>. USE <1>1 DEF Execute, host
  <2>1. TypeOK'  BY <2>0, SizeAssumption, ReplyAssumption DEF Inv, TypeOK
  <2>2. Order'  BY SizeAssumption DEF Inv, TypeOK, Order
  <2>3. Progress'  BY SizeAssumption DEF Inv, TypeOK, Order, Progress
  <2>4. Prefix'
      BY <2>0, SizeAssumption, ReplyAssumption DEF Inv, TypeOK, Order, Progress, Prefix, Empty
  <2>5. Paired'  BY DEF Inv, Progress, Paired
  <2>. QED  BY <2>1, <2>2, <2>3, <2>4, <2>5 DEF Inv
<1>2. CASE Discard
  <2>. USE <1>2 DEF Discard, host, history
  <2>1. TypeOK'  BY DEF Inv, TypeOK
  <2>2. Order'  BY DEF Inv, Order
  <2>3. Progress'  BY DEF Inv, Progress
  <2>4. Prefix'  BY ReplyAssumption DEF Inv, TypeOK, Prefix
  <2>5. Paired'  BY DEF Inv, Paired
  <2>. QED  BY <2>1, <2>2, <2>3, <2>4, <2>5 DEF Inv
<1>3. CASE CtrlC \/ Tick
  <2>. USE <1>3 DEF CtrlC, Tick, host, device, history
  <2>1. TypeOK'  BY DEF Inv, TypeOK
  <2>2. Order'  BY DEF Inv, Order
  <2>3. Progress'  BY DEF Inv, Progress
  <2>4. Prefix'  BY DEF Inv, Prefix
  <2>5. Paired'  BY DEF Inv, Paired
  <2>. QED  BY <2>1, <2>2, <2>3, <2>4, <2>5 DEF Inv
<1>. QED  BY <1>1, <1>2, <1>3

(* Every step preserves the invariant.                                     *)
LEMMA NextInv == Inv /\ [Next]_vars => Inv'
<1>. SUFFICES ASSUME Inv, [Next]_vars PROVE Inv'
    OBVIOUS
<1>1. CASE UNCHANGED vars
  <2>. USE <1>1 DEF vars, host, device, history
  <2>1. TypeOK'  BY DEF Inv, TypeOK
  <2>2. Order'  BY DEF Inv, Order
  <2>3. Progress'  BY DEF Inv, Progress
  <2>4. Prefix'  BY DEF Inv, Prefix
  <2>5. Paired'  BY DEF Inv, Paired
  <2>. QED  BY <2>1, <2>2, <2>3, <2>4, <2>5 DEF Inv
<1>2. CASE Next
    BY <1>2, SendInv, AbandonInv, RecvBytesInv, WorldInv DEF Next, Host, Recv
<1>. QED  BY <1>1, <1>2

(* The inductive invariant of the transport holds in every reachable state.*)
THEOREM InvHolds == Spec => []Inv
BY InitInv, NextInv, PTL DEF Spec

(* A response returned by transmit is the complete response to the command *)
(* just sent, whatever went wrong before.                                  *)
THEOREM ResponsesArePaired == Spec => []Paired
BY InvHolds, PTL DEF Inv

(* Every step of the transport is a step of Exchange or invisible.         *)
LEMMA ExchangeStep ==
    ASSUME Inv, [Next]_vars
    PROVE  [E!Next]_<<seq, pc # "idle", answered, refused, executed>>
<1>. DEFINE Abstract == E!Next \/ UNCHANGED <<seq, pc # "idle", answered, refused, executed>>
<1>. SUFFICES Abstract
    OBVIOUS
<1>1. CASE transmit
  <2>1. E!Begin  BY <1>1 DEF transmit, history, E!Begin
  <2>. QED  BY <2>1 DEF E!Next
<1>2. CASE Send
    BY <1>2 DEF Send, history
<1>3. CASE SendFails
  <2>1. E!Refuse  BY <1>3 DEF SendFails, Return, Inv, Progress, E!Refuse
  <2>. QED  BY <2>1 DEF E!Next
<1>4. CASE RecvInterrupted \/ RecvTimeout \/ RecvFails
  <2>1. E!Abandon
      BY <1>4 DEF RecvInterrupted, RecvTimeout, RecvFails, Return, history, E!Abandon
  <2>. QED  BY <2>1 DEF E!Next
<1>5. CASE RecvBytes
  <2>1. /\ pc = "receiving" /\ seq' = seq /\ refused' = refused /\ executed' = executed
        /\ seq \in executed
        /\ \/ pc' = pc /\ answered' = answered
           \/ pc' = "idle" /\ answered' = answered
           \/ pc' = "idle" /\ answered' = answered \cup {seq}
      BY <1>5, RecvBytesInv DEF RecvBytes
  <2>2. CASE pc' = pc /\ answered' = answered
      BY <2>1, <2>2
  <2>3. CASE pc' = "idle" /\ answered' = answered
    <3>1. E!Abandon  BY <2>1, <2>3 DEF E!Abandon
    <3>. QED  BY <3>1 DEF E!Next
  <2>4. CASE pc' = "idle" /\ answered' = answered \cup {seq}
    <3>1. E!Answer  BY <2>1, <2>4 DEF E!Answer
    <3>. QED  BY <3>1 DEF E!Next
  <2>. QED  BY <2>1, <2>2, <2>3, <2>4
<1>6. CASE Execute
  <2>1. queued \in 1..seq  BY <1>6 DEF Execute, Inv, Order
  <2>2. E!Execute(queued)
      BY <1>6, <2>1 DEF Execute, host, Inv, Order, E!Execute
  <2>. QED  BY <2>1, <2>2 DEF E!Next
<1>7. CASE Discard \/ CtrlC \/ Tick
    BY <1>7 DEF Discard, CtrlC, Tick, host, history
<1>8. CASE UNCHANGED vars
    BY <1>8 DEF vars, host, history
<1>. QED
    BY <1>1, <1>2, <1>3, <1>4, <1>5, <1>6, <1>7, <1>8 DEF Next, Host, Recv

(* A transmission over the character device implements Exchange: answered  *)
(* commands have run, refused ones never do, none runs twice or before an  *)
(* earlier one.                                                            *)
THEOREM TransportRefinement == Spec => ImplementsExchange
<1>1. Init => E!Init
    BY DEF Init, E!Init
<1>2. Inv /\ [Next]_vars => [E!Next]_<<seq, pc # "idle", answered, refused, executed>>
    BY ExchangeStep
<1>. QED  BY <1>1, <1>2, InvHolds, PTL DEF Spec, ImplementsExchange, E!Spec
=============================================================================
