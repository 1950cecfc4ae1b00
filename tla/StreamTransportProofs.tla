------------------------- MODULE StreamTransportProofs -------------------------
(***************************************************************************)
(* Proofs about StreamTransport: while the two ends are in step, frames    *)
(* stay whole, and the host, the streams and the responder together        *)
(* implement the exchange.                                                 *)
(***************************************************************************)
EXTENDS StreamTransport, TLAPS

Byte == [of: Nat, at: Nat, size: Nat]

(* What is on the way to an end: what it has collected, what the stream    *)
(* holds, what its peer has still to write.                                *)
Got(e) == IF pc[e] \in {"header", "body"} THEN buf[e] ELSE <<>>
Left(e) == IF pc[e] = "write" THEN unsent[e] ELSE <<>>
Flow(e) == Got(e) \o (stream[e] \o Left(Peer(e)))

(* A prefix of a frame that belongs to command n.                          *)
Prefix(s, n) ==
    \E size \in Valid : /\ Len(s) <= size
                        /\ \A i \in 1..Len(s) : s[i] = [of |-> n, at |-> i, size |-> size]

Types ==
    /\ pc \in [End -> {"idle", "write", "header", "body", "stopped"}]
    /\ seq \in Nat
    /\ unsent \in [End -> Seq(Byte)]
    /\ buf \in [End -> Seq(Byte)]
    /\ want \in [End -> Nat]
    /\ stream \in [End -> Seq(Byte)]
    /\ closed \subseteq End /\ broken \in BOOLEAN /\ inStep \in BOOLEAN
    /\ \A e \in End : e \in closed <=> pc[e] = "stopped"

(* How much has been read, of a frame or of what is taken for one.         *)
Lengths ==
    \A e \in End :
        /\ pc[e] = "header" => want[e] = TPM_HEADER_SIZE /\ Len(buf[e]) <= TPM_HEADER_SIZE
        /\ pc[e] = "body" => /\ want[e] \in Valid /\ Len(buf[e]) <= want[e]
                             /\ Len(buf[e]) >= TPM_HEADER_SIZE

(* The rest holds while the ends are in step.                              *)
History == executed \subseteq 1..seq /\ answered \subseteq executed

Wants == \A e \in End : pc[e] = "body" => want[e] = buf[e][1].size

(* What has been read, also when the connection has failed since.          *)
HostHas ==
    Got(Host) # <<>> => Prefix(Got(Host), seq) /\ seq \in executed
TpmHas ==
    Got(Tpm) # <<>> =>
        \E n \in 1..seq : Prefix(Got(Tpm), n) /\ \A m \in executed : m < n

(* While the connection stands there is one command on its way, or one     *)
(* response, and nothing else.                                             *)
Fresh ==
    ~broken /\ pc[Host] = "write" /\ unsent[Host] # <<>> => seq \notin executed
Commands ==
    ~broken /\ Tpm \notin closed /\ Flow(Tpm) # <<>> =>
        Prefix(Flow(Tpm), seq) /\ seq \in 1..seq \ executed /\ pc[Host] # "idle"
Responses ==
    ~broken /\ Host \notin closed /\ Flow(Host) # <<>> =>
        Prefix(Flow(Host), seq) /\ seq \in executed /\ pc[Host] # "idle"

InStep == History /\ Wants /\ HostHas /\ TpmHas /\ Fresh /\ Commands /\ Responses
Inv == Types /\ Lengths /\ InStep
IInv == Types /\ Lengths /\ (inStep => InStep)

-----------------------------------------------------------------------------
(* Sequences of bytes.                                                     *)

LEMMA ItemsIn ==
    ASSUME NEW S, NEW s \in Seq(S)
    PROVE  \A i \in 1..Len(s) : s[i] \in S
OBVIOUS

LEMMA Parts ==
    ASSUME NEW s \in Seq(Byte), NEW k \in 1..Len(s)
    PROVE  /\ SubSeq(s, 1, k) \in Seq(Byte)
           /\ SubSeq(s, k + 1, Len(s)) \in Seq(Byte)
           /\ SubSeq(s, 1, k) \o SubSeq(s, k + 1, Len(s)) = s
OBVIOUS

LEMMA Assoc ==
    ASSUME NEW s \in Seq(Byte), NEW t \in Seq(Byte), NEW u \in Seq(Byte)
    PROVE  (s \o t) \o u = s \o (t \o u)
OBVIOUS

LEMMA ConcatType ==
    ASSUME NEW s \in Seq(Byte), NEW t \in Seq(Byte)
    PROVE  /\ s \o t \in Seq(Byte)
           /\ Len(s \o t) = Len(s) + Len(t)
           /\ \A i \in 1..Len(s) : (s \o t)[i] = s[i]
OBVIOUS

LEMMA EmptyConcat ==
    ASSUME NEW s \in Seq(Byte)
    PROVE  <<>> \o s = s /\ s \o <<>> = s /\ <<>> \in Seq(Byte)
OBVIOUS

LEMMA PrefixOfPrefix ==
    ASSUME NEW s \in Seq(Byte), NEW t \in Seq(Byte), NEW n, Prefix(s \o t, n)
    PROVE  Prefix(s, n)
<1>1. Len(s \o t) = Len(s) + Len(t) /\ Len(s) \in Nat /\ Len(t) \in Nat
      /\ \A i \in 1..Len(s) : (s \o t)[i] = s[i]
  BY ConcatType
<1>2. PICK size \in Valid :
          /\ Len(s \o t) <= size
          /\ \A i \in 1..Len(s \o t) : (s \o t)[i] = [of |-> n, at |-> i, size |-> size]
  BY DEF Prefix
<1>3. size \in Nat  BY StreamAssumption DEF Valid
<1>4. Len(s) <= size  BY <1>1, <1>2, <1>3
<1>5. \A i \in 1..Len(s) : i \in 1..Len(s \o t)  BY <1>1
<1>6. \A i \in 1..Len(s) : s[i] = [of |-> n, at |-> i, size |-> size]  BY <1>1, <1>2, <1>5, Zenon
<1>. QED  BY <1>4, <1>6, Zenon DEF Prefix

(* A complete frame leaves no room for more.                               *)
LEMMA CompleteIsAll ==
    ASSUME NEW s \in Seq(Byte), NEW t \in Seq(Byte), NEW n, Prefix(s \o t, n), s # <<>>,
           Len(s) = s[1].size
    PROVE  t = <<>>
<1>1. Len(s \o t) = Len(s) + Len(t) /\ Len(s) \in Nat /\ Len(t) \in Nat /\ Len(s) >= 1
      /\ \A i \in 1..Len(s) : (s \o t)[i] = s[i]
  BY ConcatType
<1>2. PICK size \in Valid :
          /\ Len(s \o t) <= size
          /\ \A i \in 1..Len(s \o t) : (s \o t)[i] = [of |-> n, at |-> i, size |-> size]
  BY DEF Prefix
<1>3. s[1] = [of |-> n, at |-> 1, size |-> size]  BY <1>1, <1>2
<1>4. Len(s) = size  BY <1>3
<1>5. Len(t) = 0  BY <1>1, <1>2, <1>4
<1>. QED  BY <1>5

(* A frame that is still whole leaves no room before it.                   *)
LEMMA WholeIsAll ==
    ASSUME NEW s \in Seq(Byte), NEW t \in Seq(Byte), NEW n, Prefix(s \o t, n), t # <<>>,
           Len(t) = t[1].size
    PROVE  s = <<>>
<1>1. Len(s \o t) = Len(s) + Len(t) /\ Len(s) \in Nat /\ Len(t) \in Nat /\ Len(t) >= 1
      /\ (s \o t)[Len(s) + 1] = t[1]
  OBVIOUS
<1>2. PICK size \in Valid :
          /\ Len(s \o t) <= size
          /\ \A i \in 1..Len(s \o t) : (s \o t)[i] = [of |-> n, at |-> i, size |-> size]
  BY DEF Prefix
<1>3. t[1] = [of |-> n, at |-> Len(s) + 1, size |-> size]
  <2>1. Len(s) + 1 \in 1..Len(s \o t)  BY <1>1
  <2>. QED  BY <1>1, <1>2, <2>1
<1>4. Len(t) = size  BY <1>3
<1>5. Len(s) = 0  BY <1>1, <1>2, <1>4
<1>. QED  BY <1>5

LEMMA FrameType ==
    ASSUME NEW n \in Nat, NEW len \in Nat, NEW size \in Nat
    PROVE  Frame(n, len, size) \in Seq(Byte) /\ Len(Frame(n, len, size)) = len
<1>1. \A i \in 1..len : [of |-> n, at |-> i, size |-> size] \in Byte  BY DEF Byte
<1>. QED  BY <1>1 DEF Frame

LEMMA FrameIsPrefix ==
    ASSUME NEW n \in Nat, NEW size \in Valid
    PROVE  /\ Frame(n, size, size) \in Seq(Byte) /\ Prefix(Frame(n, size, size), n)
           /\ Frame(n, size, size) # <<>>
<1>1. size \in Nat /\ size >= 1  BY StreamAssumption DEF Valid
<1>2. Frame(n, size, size) \in Seq(Byte) /\ Len(Frame(n, size, size)) = size
  BY <1>1, FrameType
<1>3. \A i \in 1..Len(Frame(n, size, size)) :
          Frame(n, size, size)[i] = [of |-> n, at |-> i, size |-> size]
  BY <1>2 DEF Frame
<1>. QED  BY <1>1, <1>2, <1>3 DEF Prefix

LEMMA SourceType ==
    ASSUME NEW s \in Seq(Byte)
    PROVE  Source(s) \in Nat
<1>1. s # <<>> => s[1] \in Byte  OBVIOUS
<1>. QED  BY <1>1 DEF Source, Byte

LEMMA PrefixItems ==
    ASSUME NEW s \in Seq(Byte), NEW n, Prefix(s, n), NEW i \in DOMAIN s
    PROVE  s[i].of = n /\ s[1].of = n /\ s[i].at = i /\ i <= s[i].size /\ s[1].size \in Valid
<1>1. PICK size \in Valid :
          /\ Len(s) <= size
          /\ \A j \in 1..Len(s) : s[j] = [of |-> n, at |-> j, size |-> size]
  BY DEF Prefix
<1>2. size \in Nat /\ i \in 1..Len(s) /\ 1 \in 1..Len(s) /\ Len(s) \in Nat
  BY StreamAssumption DEF Valid
<1>3. s[i] = [of |-> n, at |-> i, size |-> size] /\ s[1] = [of |-> n, at |-> 1, size |-> size]
  BY <1>1, <1>2
<1>4. i <= size  BY <1>1, <1>2
<1>. QED  BY <1>3, <1>4

LEMMA SourceOf ==
    ASSUME NEW s \in Seq(Byte), NEW n, Prefix(s, n), s # <<>>, Len(s) = s[1].size
    PROVE  Source(s) = n
<1>1. 1 \in DOMAIN s  OBVIOUS
<1>2. s[1].of = n  BY <1>1, PrefixItems
<1>3. \A i \in DOMAIN s : s[i].of = s[1].of /\ s[i].at = i  BY <1>2, PrefixItems
<1>. QED  BY <1>2, <1>3 DEF Source

-----------------------------------------------------------------------------
(* The two directions.                                                     *)

LEMMA Ends ==
    /\ Host \in End /\ Tpm \in End /\ Host # Tpm
    /\ Peer(Host) = Tpm /\ Peer(Tpm) = Host
    /\ \A e \in End : e = Host \/ e = Tpm
    /\ \A e \in End : Peer(e) \in End /\ Peer(e) # e /\ Peer(Peer(e)) = e
BY DEF Host, Tpm, End, Peer

LEMMA FlowType ==
    ASSUME Types, NEW e \in End
    PROVE  /\ Got(e) \in Seq(Byte) /\ stream[e] \in Seq(Byte) /\ Left(e) \in Seq(Byte)
           /\ Left(Peer(e)) \in Seq(Byte)
           /\ stream[e] \o Left(Peer(e)) \in Seq(Byte)
           /\ Flow(e) \in Seq(Byte)
<1>1. stream[e] \in Seq(Byte) /\ buf[e] \in Seq(Byte) /\ unsent[e] \in Seq(Byte)
      /\ unsent[Peer(e)] \in Seq(Byte)
  BY Ends DEF Types
<1>2. <<>> \in Seq(Byte)  OBVIOUS
<1>3. Got(e) \in Seq(Byte) /\ Left(e) \in Seq(Byte) /\ Left(Peer(e)) \in Seq(Byte)
  BY <1>1, <1>2 DEF Got, Left
<1>4. stream[e] \o Left(Peer(e)) \in Seq(Byte)  BY <1>1, <1>3, ConcatType
<1>5. Flow(e) \in Seq(Byte)  BY <1>3, <1>4, ConcatType DEF Flow
<1>. QED  BY <1>1, <1>3, <1>4, <1>5

LEMMA EmptyFlow ==
    ASSUME Types, NEW e \in End
    PROVE  Flow(e) = <<>> <=> Got(e) = <<>> /\ stream[e] = <<>> /\ Left(Peer(e)) = <<>>
<1>1. /\ Got(e) \in Seq(Byte) /\ stream[e] \in Seq(Byte) /\ Left(Peer(e)) \in Seq(Byte)
      /\ stream[e] \o Left(Peer(e)) \in Seq(Byte)
  BY FlowType
<1>2. Flow(e) = Got(e) \o (stream[e] \o Left(Peer(e)))  BY DEF Flow
<1>3. \A s, t \in Seq(Byte) : s \o t = <<>> <=> s = <<>> /\ t = <<>>  OBVIOUS
<1>. QED  BY <1>1, <1>2, <1>3, Zenon

(* A complete frame is all there is.                                       *)
LEMMA CompleteFlow ==
    ASSUME Types, Lengths, Wants, NEW e \in End, NEW n, Complete(e), Prefix(Flow(e), n)
    PROVE  stream[e] = <<>> /\ Left(Peer(e)) = <<>>
<1>1. /\ Got(e) \in Seq(Byte) /\ stream[e] \in Seq(Byte) /\ Left(Peer(e)) \in Seq(Byte)
      /\ stream[e] \o Left(Peer(e)) \in Seq(Byte)
  BY FlowType
<1>2. Got(e) = buf[e] /\ buf[e] # <<>> /\ Len(buf[e]) = buf[e][1].size
  <2>1. pc[e] = "body" /\ Len(buf[e]) = buf[e][1].size  BY DEF Complete, Wants
  <2>2. Len(buf[e]) >= TPM_HEADER_SIZE  BY <2>1 DEF Lengths
  <2>3. buf[e] # <<>>  BY <2>2, StreamAssumption
  <2>. QED  BY <2>1, <2>3 DEF Got
<1>3. stream[e] \o Left(Peer(e)) = <<>>  BY <1>1, <1>2, CompleteIsAll DEF Flow
<1>4. \A s, t \in Seq(Byte) : s \o t = <<>> <=> s = <<>> /\ t = <<>>  OBVIOUS
<1>. QED  BY <1>1, <1>3, <1>4, Zenon

(* While the ends are in step a full header is that of a valid frame.      *)
LEMMA HeaderIsGood ==
    ASSUME Inv, NEW e \in End, HasHeader(e)
    PROVE  frame_size(buf[e]) = {buf[e][1].size} /\ buf[e][1].size \in Valid
<1>1. pc[e] = "header" /\ Len(buf[e]) = TPM_HEADER_SIZE /\ buf[e] \in Seq(Byte)
  BY DEF HasHeader, Inv, Types, Lengths
<1>2. Got(e) = buf[e] /\ Got(e) # <<>> /\ 1 \in DOMAIN buf[e]
  BY <1>1, StreamAssumption DEF Got
<1>3. PICK n : Prefix(buf[e], n)
  <2>1. CASE e = Host  BY <1>2, <2>1 DEF Inv, InStep, HostHas
  <2>2. CASE e = Tpm  BY <1>2, <2>2 DEF Inv, InStep, TpmHas
  <2>. QED  BY <2>1, <2>2, Ends
<1>4. \A i \in DOMAIN buf[e] : buf[e][i].at = i /\ buf[e][1].size \in Valid
  BY <1>1, <1>3, PrefixItems
<1>. QED  BY <1>2, <1>4 DEF frame_size

(* A step that takes nothing from a flow and adds nothing to it.           *)
LEMMA Quiet ==
    ASSUME Inv, Types', Lengths', Wants',
           UNCHANGED <<seq, executed, answered, closed, broken>>,
           \A e \in End : Got(e)' = Got(e),
           \A e \in End : e \notin closed => Flow(e)' = Flow(e),
           pc'[Host] = "idle" => pc[Host] = "idle",
           pc'[Host] = "write" /\ unsent'[Host] # <<>> => pc[Host] = "write" /\ unsent[Host] # <<>>
    PROVE  Inv'
<1>1. Got(Host)' = Got(Host) /\ Got(Tpm)' = Got(Tpm)  BY Ends
<1>2. HostHas' /\ TpmHas'  BY <1>1 DEF Inv, InStep, HostHas, TpmHas
<1>3. Commands'
  <2>1. Tpm \notin closed => Flow(Tpm)' = Flow(Tpm)  BY Ends
  <2>. QED  BY <2>1 DEF Inv, InStep, Commands
<1>4. Responses'
  <2>1. Host \notin closed => Flow(Host)' = Flow(Host)  BY Ends
  <2>. QED  BY <2>1 DEF Inv, InStep, Responses
<1>5. History'  BY DEF Inv, InStep, History
<1>6. Fresh'  BY DEF Inv, InStep, Fresh
<1>. QED  BY <1>2, <1>3, <1>4, <1>5, <1>6 DEF Inv, InStep

-----------------------------------------------------------------------------
(* Types, in step or not.                                                  *)

LEMMA InitInv == Init => IInv
<1>. SUFFICES ASSUME Init PROVE IInv  OBVIOUS
<1>1. <<>> \in Seq(Byte) /\ Len(<<>>) = 0  OBVIOUS
<1>2. pc[Host] = "idle" /\ pc[Tpm] = "idle"  BY Ends DEF Init
<1>3. Types  BY <1>1, <1>2, Ends, StreamAssumption DEF Init, Types
<1>4. \A e \in End : Got(e) = <<>> /\ Left(e) = <<>> /\ stream[e] = <<>> /\ pc[e] = "idle"
  BY DEF Init, Got, Left
<1>5. Lengths /\ Wants  BY <1>4 DEF Lengths, Wants
<1>6. Flow(Host) = <<>> /\ Flow(Tpm) = <<>>  BY <1>3, <1>4, Ends, EmptyFlow
<1>7. HostHas /\ TpmHas  BY <1>4, Ends DEF HostHas, TpmHas
<1>8. Commands /\ Responses  BY <1>6 DEF Commands, Responses
<1>9. History /\ Fresh  BY <1>2 DEF Init, History, Fresh
<1>. QED  BY <1>3, <1>5, <1>7, <1>8, <1>9 DEF IInv, InStep

LEMMA MovesTypes ==
    ASSUME Types, Lengths, NEW e \in End, WriteBytes(e) \/ Fill(e)
    PROVE  Types' /\ Lengths'
<1>0. /\ unsent \in [End -> Seq(Byte)] /\ stream \in [End -> Seq(Byte)]
      /\ buf \in [End -> Seq(Byte)] /\ Peer(e) \in End
  BY Ends DEF Types
<1>1. CASE WriteBytes(e)
  <2>1. PICK k \in 1..Len(unsent[e]) :
         /\ unsent' = [unsent EXCEPT ![e] = SubSeq(@, k + 1, Len(@))]
         /\ stream' = IF Peer(e) \in closed THEN stream
                      ELSE [stream EXCEPT ![Peer(e)] = @ \o SubSeq(unsent[e], 1, k)]
    BY <1>1 DEF WriteBytes
  <2> DEFINE A == SubSeq(unsent[e], 1, k)
             B == SubSeq(unsent[e], k + 1, Len(unsent[e]))
  <2>2. unsent[e] \in Seq(Byte) /\ A \in Seq(Byte) /\ B \in Seq(Byte)  BY <1>0, Parts
  <2>3. unsent' = [unsent EXCEPT ![e] = B]
        /\ (stream' = stream \/ stream' = [stream EXCEPT ![Peer(e)] = stream[Peer(e)] \o A])
    BY <2>1
  <2>. HIDE DEF A, B
  <2>4. stream[Peer(e)] \o A \in Seq(Byte)  BY <1>0, <2>2, ConcatType
  <2>5. unsent' \in [End -> Seq(Byte)] /\ stream' \in [End -> Seq(Byte)]
    BY <1>0, <2>2, <2>3, <2>4
  <2>. QED  BY <1>1, <2>5 DEF WriteBytes, Types, Lengths
<1>2. CASE Fill(e)
  <2>1. PICK k \in 1..Len(stream[e]) :
         /\ Len(buf[e]) + k <= want[e]
         /\ buf' = [buf EXCEPT ![e] = @ \o SubSeq(stream[e], 1, k)]
         /\ stream' = [stream EXCEPT ![e] = SubSeq(@, k + 1, Len(@))]
    BY <1>2 DEF Fill
  <2> DEFINE A == SubSeq(stream[e], 1, k)
             B == SubSeq(stream[e], k + 1, Len(stream[e]))
  <2>2. stream[e] \in Seq(Byte) /\ A \in Seq(Byte) /\ B \in Seq(Byte)  BY <1>0, Parts
  <2>3. Len(A) = k /\ k \in Nat  BY <2>2
  <2>4. buf' = [buf EXCEPT ![e] = buf[e] \o A] /\ stream' = [stream EXCEPT ![e] = B]  BY <2>1
  <2>. HIDE DEF A, B
  <2>5. buf[e] \o A \in Seq(Byte) /\ Len(buf[e] \o A) = Len(buf[e]) + k /\ Len(buf[e]) \in Nat
    <3>1. buf[e] \in Seq(Byte)  BY <1>0
    <3>2. buf[e] \o A \in Seq(Byte) /\ Len(buf[e] \o A) = Len(buf[e]) + Len(A)
      BY <2>2, <3>1, ConcatType
    <3>. QED  BY <2>3, <3>1, <3>2
  <2>6. buf' \in [End -> Seq(Byte)] /\ stream' \in [End -> Seq(Byte)]
    BY <1>0, <2>2, <2>4, <2>5
  <2>7. Len(buf'[e]) = Len(buf[e]) + k /\ \A d \in End : d # e => buf'[d] = buf[d]
    BY <1>0, <2>4, <2>5
  <2>8. pc' = pc /\ want' = want /\ UNCHANGED <<seq, unsent, closed, broken, inStep>>
    BY <1>2 DEF Fill
  <2>9. Lengths'
    <3>. SUFFICES ASSUME NEW d \in End
                  PROVE /\ pc[d] = "header" => want[d] = TPM_HEADER_SIZE /\ Len(buf'[d]) <= TPM_HEADER_SIZE
                        /\ pc[d] = "body" => /\ want[d] \in Valid /\ Len(buf'[d]) <= want[d]
                                             /\ Len(buf'[d]) >= TPM_HEADER_SIZE
      BY <2>8 DEF Lengths
    <3>1. CASE d = e  BY <2>1, <2>3, <2>5, <2>7, <3>1, StreamAssumption DEF Lengths
    <3>2. CASE d # e  BY <2>7, <3>2 DEF Lengths
    <3>. QED  BY <3>1, <3>2
  <2>. QED  BY <2>6, <2>8, <2>9 DEF Types
<1>. QED  BY <1>1, <1>2

LEMMA BeginTypes ==
    ASSUME Types, Lengths, NEW e \in End, BeginRead(e), pc[e] \in {"idle", "write"}
    PROVE  Types' /\ Lengths'
<1>1. <<>> \in Seq(Byte) /\ Len(<<>>) = 0  OBVIOUS
<1>2. Types'  BY <1>1, StreamAssumption DEF BeginRead, Types
<1>3. /\ pc'[e] = "header" /\ buf'[e] = <<>> /\ want'[e] = TPM_HEADER_SIZE
      /\ \A d \in End : d # e => pc'[d] = pc[d] /\ buf'[d] = buf[d] /\ want'[d] = want[d]
  BY DEF BeginRead, Types
<1>. QED  BY <1>1, <1>2, <1>3, StreamAssumption DEF Lengths

LEMMA HeaderTypes ==
    ASSUME Types, Lengths, NEW e \in End, HeaderDone(e)
    PROVE  Types' /\ Lengths'
<1>1. PICK size \in Valid : want' = [want EXCEPT ![e] = size]  BY DEF HeaderDone
<1>2. size \in Nat /\ size >= TPM_HEADER_SIZE  BY StreamAssumption DEF Valid
<1>3. /\ pc[e] = "header" /\ Len(buf[e]) = TPM_HEADER_SIZE
      /\ pc' = [pc EXCEPT ![e] = "body"]
      /\ UNCHANGED <<seq, unsent, buf, stream, closed, broken, inStep>>
  BY DEF HeaderDone, HasHeader, Lengths
<1>4. Types'  BY <1>1, <1>2, <1>3 DEF Types
<1>5. /\ pc'[e] = "body" /\ want'[e] = size
      /\ \A d \in End : d # e => pc'[d] = pc[d] /\ want'[d] = want[d]
  BY <1>1, <1>3 DEF Types
<1>. QED  BY <1>2, <1>3, <1>4, <1>5, StreamAssumption DEF Lengths

LEMMA FailTypes ==
    ASSUME Types, Lengths, NEW e \in End, Fail(e), pc[e] \in {"write", "header", "body"}
    PROVE  Types' /\ Lengths'
<1>1. /\ pc' = [pc EXCEPT ![e] = "idle"] /\ inStep' = (inStep /\ (Dead(e) \/ Untouched(e)))
      /\ UNCHANGED <<seq, unsent, buf, want, stream, closed, broken>>
  BY DEF Fail
<1>2. inStep' \in BOOLEAN  BY <1>1
<1>3. Types'  BY <1>1, <1>2 DEF Types
<1>4. pc'[e] = "idle" /\ \A d \in End : d # e => pc'[d] = pc[d]  BY <1>1 DEF Types
<1>. QED  BY <1>1, <1>3, <1>4 DEF Lengths

LEMMA CallTypes ==
    ASSUME Types, Lengths, transmit \/ Handle
    PROVE  Types' /\ Lengths'
<1>1. CASE transmit
  <2>1. PICK size \in Sizes : unsent' = [unsent EXCEPT ![Host] = Frame(seq + 1, size, size)]
    BY <1>1 DEF transmit
  <2>2. size \in Nat /\ seq + 1 \in Nat  BY StreamAssumption DEF Types, Valid
  <2>3. Frame(seq + 1, size, size) \in Seq(Byte)  BY <2>2, FrameType
  <2>4. unsent' \in [End -> Seq(Byte)]  BY <2>1, <2>3 DEF Types
  <2>5. pc' = [pc EXCEPT ![Host] = "write"] /\ seq' \in Nat /\ pc[Host] = "idle"
        /\ UNCHANGED <<buf, want, stream, closed, broken, inStep>>
    BY <1>1 DEF transmit, Types
  <2>6. Types'  BY <2>4, <2>5, Ends DEF Types
  <2>7. \A d \in End : pc'[d] = pc[d] \/ pc'[d] = "write"  BY <2>5 DEF Types
  <2>. QED  BY <2>5, <2>6, <2>7 DEF Lengths
<1>2. CASE Handle
  <2>1. PICK r \in Replies :
            /\ unsent' = [unsent EXCEPT ![Tpm] = Frame(Source(buf[Tpm]), r.len, r.size)]
            /\ inStep' = (inStep /\ r.len = r.size /\ r.size \in Valid)
    BY <1>2 DEF Handle
  <2>2. r.len \in Nat /\ r.size \in Nat  BY StreamAssumption
  <2>3. Source(buf[Tpm]) \in Nat  BY SourceType, Ends DEF Types
  <2>4. Frame(Source(buf[Tpm]), r.len, r.size) \in Seq(Byte)  BY <2>2, <2>3, FrameType
  <2>5. unsent' \in [End -> Seq(Byte)] /\ inStep' \in BOOLEAN  BY <2>1, <2>4 DEF Types
  <2>6. pc' = [pc EXCEPT ![Tpm] = "write"] /\ pc[Tpm] = "body"
        /\ UNCHANGED <<seq, buf, want, stream, closed, broken>>
    BY <1>2 DEF Handle, Complete
  <2>7. Types'  BY <2>5, <2>6, Ends DEF Types
  <2>8. \A d \in End : pc'[d] = pc[d] \/ pc'[d] = "write"  BY <2>6 DEF Types
  <2>. QED  BY <2>6, <2>7, <2>8 DEF Lengths
<1>. QED  BY <1>1, <1>2

LEMMA ReturnTypes ==
    ASSUME Types, Lengths, RecvResponse
    PROVE  Types' /\ Lengths'
<1>1. pc' = [pc EXCEPT ![Host] = "idle"] /\ pc[Host] = "body"
      /\ UNCHANGED <<seq, unsent, buf, want, stream, closed, broken, inStep>>
  BY DEF RecvResponse, Complete
<1>2. Types'  BY <1>1, Ends DEF Types
<1>3. \A d \in End : pc'[d] = pc[d] \/ pc'[d] = "idle"  BY <1>1 DEF Types
<1>. QED  BY <1>1, <1>2, <1>3 DEF Lengths

LEMMA CloseTypes ==
    ASSUME Types, Lengths, NEW e \in End, Close(e)
    PROVE  Types' /\ Lengths'
<1>1. pc' = [pc EXCEPT ![e] = "stopped"] /\ closed' = closed \cup {e}
      /\ UNCHANGED <<seq, unsent, buf, want, stream, broken, inStep>>
  BY DEF Close
<1>2. pc'[e] = "stopped" /\ \A d \in End : d # e => pc'[d] = pc[d]  BY <1>1 DEF Types
<1>3. Types'  BY <1>1, <1>2 DEF Types
<1>. QED  BY <1>1, <1>2, <1>3 DEF Lengths

LEMMA BreakTypes ==
    ASSUME Types, Lengths, Break
    PROVE  Types' /\ Lengths'
<1>1. <<>> \in Seq(Byte)  OBVIOUS
<1>. QED  BY <1>1 DEF Break, Types, Lengths

(* The errors of an end.                                                   *)
LEMMA Errors ==
    ASSUME NEW e \in End, HeaderRejected(e) \/ AtEof(e) \/ IoFails(e) \/ FailsOnce(e)
    PROVE  Fail(e) /\ pc[e] \in {"write", "header", "body"}
BY DEF HeaderRejected, HasHeader, AtEof, IoFails, FailsOnce, Reading

LEMMA TypesNext ==
    ASSUME Types, Lengths, [Next]_vars
    PROVE  Types' /\ Lengths'
<1>1. CASE transmit \/ Handle  BY <1>1, CallTypes
<1>2. ASSUME NEW e \in End, Io(e) PROVE Types' /\ Lengths'
  <2>1. CASE WriteBytes(e) \/ Fill(e)  BY <2>1, MovesTypes
  <2>2. CASE WriteDone(e)  BY <2>2, BeginTypes DEF WriteDone
  <2>3. CASE HeaderDone(e)  BY <2>3, HeaderTypes
  <2>4. CASE HeaderRejected(e) \/ AtEof(e) \/ IoFails(e)
    <3>1. Fail(e) /\ pc[e] \in {"write", "header", "body"}  BY <2>4, Errors
    <3>. QED  BY <3>1, FailTypes
  <2>. QED  BY <1>2, <2>1, <2>2, <2>3, <2>4 DEF Io
<1>3. CASE RecvResponse  BY <1>3, ReturnTypes
<1>4. CASE serve  BY <1>4, BeginTypes, Ends DEF serve
<1>5. ASSUME NEW e \in End, FailsOnce(e) PROVE Types' /\ Lengths'
  <2>1. Fail(e) /\ pc[e] \in {"write", "header", "body"}  BY <1>5, Errors
  <2>. QED  BY <2>1, FailTypes
<1>6. ASSUME NEW e \in End, Close(e) PROVE Types' /\ Lengths'  BY <1>6, CloseTypes
<1>7. CASE Break  BY <1>7, BreakTypes
<1>8. CASE UNCHANGED vars  BY <1>8 DEF vars, Types, Lengths
<1>. QED  BY <1>1, <1>2, <1>3, <1>4, <1>5, <1>6, <1>7, <1>8, Ends
          DEF Next, HostStep, TpmStep

-----------------------------------------------------------------------------
(* The actions, while the ends are in step.                                *)

LEMMA WriteBytesInv ==
    ASSUME Inv, Types', Lengths', NEW e \in End, WriteBytes(e)
    PROVE  Inv'
<1>0. /\ Types /\ unsent \in [End -> Seq(Byte)] /\ stream \in [End -> Seq(Byte)]
      /\ Peer(e) \in End /\ Peer(e) # e /\ Peer(Peer(e)) = e
  BY Ends DEF Inv, Types
<1>1. /\ pc' = pc /\ buf' = buf /\ pc[e] = "write"
      /\ UNCHANGED <<seq, executed, answered, closed, broken, want>>
  BY DEF WriteBytes, history
<1>2. PICK k \in 1..Len(unsent[e]) :
         /\ unsent' = [unsent EXCEPT ![e] = SubSeq(@, k + 1, Len(@))]
         /\ stream' = IF Peer(e) \in closed THEN stream
                      ELSE [stream EXCEPT ![Peer(e)] = @ \o SubSeq(unsent[e], 1, k)]
  BY DEF WriteBytes
<1> DEFINE A == SubSeq(unsent[e], 1, k)
           B == SubSeq(unsent[e], k + 1, Len(unsent[e]))
<1>3. unsent[e] \in Seq(Byte) /\ A \in Seq(Byte) /\ B \in Seq(Byte) /\ A \o B = unsent[e]
  BY <1>0, Parts
<1>4. unsent' = [unsent EXCEPT ![e] = B]  BY <1>2
<1>5. Peer(e) \notin closed => stream' = [stream EXCEPT ![Peer(e)] = stream[Peer(e)] \o A]
  BY <1>2
<1>. HIDE DEF A, B
<1>6. stream[Peer(e)] \in Seq(Byte) /\ stream[Peer(e)] \o A \in Seq(Byte)
  BY <1>0, <1>3, ConcatType
<1>7. pc'[Host] = "write" /\ unsent'[Host] # <<>> => pc[Host] = "write" /\ unsent[Host] # <<>>
  BY <1>0, <1>1, <1>2, <1>3, <1>4, Ends
<1>8. Wants'  BY <1>1 DEF Inv, InStep, Wants
<1>9. \A d \in End : Got(d)' = Got(d)  BY <1>1 DEF Got
<1>10. Flow(e)' = Flow(e)
  <2>1. stream'[e] = stream[e] /\ unsent'[Peer(e)] = unsent[Peer(e)]
    BY <1>0, <1>2, <1>4, <1>5
  <2>. QED  BY <1>1, <1>9, <2>1 DEF Flow, Left
<1>11. Peer(e) \notin closed => Flow(Peer(e))' = Flow(Peer(e))
  <2>. SUFFICES ASSUME Peer(e) \notin closed PROVE Flow(Peer(e))' = Flow(Peer(e))  OBVIOUS
  <2>1. stream'[Peer(e)] = stream[Peer(e)] \o A  BY <1>0, <1>5
  <2>2. Left(e)' = B /\ Left(e) = unsent[e]  BY <1>0, <1>1, <1>4 DEF Left
  <2>3. (stream[Peer(e)] \o A) \o B = stream[Peer(e)] \o (A \o B)  BY <1>3, <1>6, Assoc, Zenon
  <2>. QED  BY <1>0, <1>3, <1>9, <2>1, <2>2, <2>3 DEF Flow
<1>12. \A d \in End : d \notin closed => Flow(d)' = Flow(d)  BY <1>0, <1>10, <1>11, Ends
<1>. QED  BY <1>1, <1>7, <1>8, <1>9, <1>12, Quiet

LEMMA BeginInv ==
    ASSUME Inv, Types', Lengths', NEW e \in End, BeginRead(e),
           \/ pc[e] = "write" /\ unsent[e] = <<>>
           \/ pc[e] = "idle" /\ e = Tpm
    PROVE  Inv'
<1>0. Types /\ Peer(e) \in End /\ Peer(e) # e
  BY Ends DEF Inv
<1>1. /\ pc' = [pc EXCEPT ![e] = "header"] /\ buf' = [buf EXCEPT ![e] = <<>>]
      /\ want' = [want EXCEPT ![e] = TPM_HEADER_SIZE]
      /\ UNCHANGED <<seq, executed, answered, closed, broken, unsent, stream>>
  BY DEF BeginRead, history
<1>5. \A d \in End : /\ pc'[d] = (IF d = e THEN "header" ELSE pc[d])
                     /\ buf'[d] = (IF d = e THEN <<>> ELSE buf[d])
                     /\ d # e => want'[d] = want[d]
  BY <1>0, <1>1 DEF Types
<1>4. Wants'  BY <1>5 DEF Inv, InStep, Wants
<1>6. \A d \in End : Got(d)' = Got(d)  BY <1>5 DEF Got
<1>7. \A d \in End : Left(d)' = Left(d)  BY <1>1, <1>5 DEF Left
<1>8. \A d \in End : Flow(d)' = Flow(d)  BY <1>1, <1>6, <1>7, Ends DEF Flow
<1>9. /\ pc'[Host] = "idle" => pc[Host] = "idle"
      /\ pc'[Host] = "write" => pc[Host] = "write"
  BY <1>5, Ends
<1>. QED  BY <1>1, <1>4, <1>6, <1>8, <1>9, Quiet

LEMMA HeaderDoneInv ==
    ASSUME Inv, Types', Lengths', NEW e \in End, HeaderDone(e)
    PROVE  Inv'
<1>0. Types /\ pc[e] = "header" /\ HasHeader(e)  BY DEF Inv, HeaderDone, HasHeader
<1>1. /\ pc' = [pc EXCEPT ![e] = "body"]
      /\ UNCHANGED <<seq, executed, answered, closed, broken, unsent, stream, buf>>
  BY DEF HeaderDone, history
<1>2. want' = [want EXCEPT ![e] = buf[e][1].size]  BY <1>0, HeaderIsGood DEF HeaderDone
<1>3. \A d \in End : /\ pc'[d] = IF d = e THEN "body" ELSE pc[d]
                     /\ want'[d] = IF d = e THEN buf[e][1].size ELSE want[d]
  BY <1>0, <1>1, <1>2 DEF Types
<1>4. Wants'  BY <1>1, <1>3 DEF Inv, InStep, Wants
<1>5. \A d \in End : Got(d)' = Got(d) /\ Left(d)' = Left(d)  BY <1>0, <1>1, <1>3 DEF Got, Left
<1>6. \A d \in End : Flow(d)' = Flow(d)  BY <1>1, <1>5, Ends DEF Flow
<1>7. /\ pc'[Host] = "idle" => pc[Host] = "idle"
      /\ pc'[Host] = "write" => pc[Host] = "write"
  BY <1>3, Ends
<1>. QED  BY <1>1, <1>4, <1>5, <1>6, <1>7, Quiet

LEMMA FillInv ==
    ASSUME Inv, Types', Lengths', NEW e \in End, Fill(e)
    PROVE  Inv'
<1>0. /\ Types /\ buf \in [End -> Seq(Byte)] /\ stream \in [End -> Seq(Byte)]
      /\ Peer(e) \in End /\ Peer(e) # e
  BY Ends DEF Inv, Types
<1>1. /\ pc' = pc /\ unsent' = unsent /\ want' = want /\ ~broken /\ e \notin closed
      /\ pc[e] \in {"header", "body"}
      /\ UNCHANGED <<seq, executed, answered, closed, broken>>
  BY DEF Fill, Reading, Inv, Types, history
<1>2. PICK k \in 1..Len(stream[e]) :
         /\ Len(buf[e]) + k <= want[e]
         /\ buf' = [buf EXCEPT ![e] = @ \o SubSeq(stream[e], 1, k)]
         /\ stream' = [stream EXCEPT ![e] = SubSeq(@, k + 1, Len(@))]
  BY DEF Fill
<1> DEFINE A == SubSeq(stream[e], 1, k)
           B == SubSeq(stream[e], k + 1, Len(stream[e]))
<1>3. stream[e] \in Seq(Byte) /\ A \in Seq(Byte) /\ B \in Seq(Byte) /\ A \o B = stream[e]
  BY <1>0, Parts
<1>a. Len(A) = k /\ k \in Nat /\ k >= 1  BY <1>3
<1>4. buf' = [buf EXCEPT ![e] = buf[e] \o A] /\ stream' = [stream EXCEPT ![e] = B]
  BY <1>2
<1>. HIDE DEF A, B
<1>5. /\ buf[e] \in Seq(Byte) /\ buf[e] \o A \in Seq(Byte)
      /\ Len(buf[e] \o A) = Len(buf[e]) + Len(A) /\ Len(buf[e]) \in Nat
  BY <1>0, <1>3, ConcatType
<1>7. /\ buf'[e] = buf[e] \o A /\ stream'[e] = B
      /\ buf'[Peer(e)] = buf[Peer(e)] /\ stream'[Peer(e)] = stream[Peer(e)]
  BY <1>0, <1>4
<1>9. Wants'
  <2>. SUFFICES ASSUME NEW d \in End, pc[d] = "body" PROVE want[d] = buf'[d][1].size
    BY <1>1 DEF Wants
  <2>1. CASE d = e
    <3>1. Len(buf[e]) >= 1  BY <1>5, <2>1, StreamAssumption DEF Inv, Lengths
    <3>2. (buf[e] \o A)[1] = buf[e][1]  BY <1>3, <1>5, <3>1, ConcatType
    <3>. QED  BY <1>7, <2>1, <3>2 DEF Inv, InStep, Wants
  <2>2. CASE d # e
    <3>1. d = Peer(e)  BY <2>2, Ends
    <3>. QED  BY <1>7, <3>1 DEF Inv, InStep, Wants
  <2>. QED  BY <2>1, <2>2
<1>10. Got(e) = buf[e] /\ Got(e)' = buf[e] \o A /\ Got(Peer(e))' = Got(Peer(e))
  BY <1>1, <1>7 DEF Got
<1>11. \A d \in End : Left(d)' = Left(d)  BY <1>1 DEF Left
<1>12. Flow(Peer(e))' = Flow(Peer(e))
  BY <1>0, <1>7, <1>10, <1>11, Ends DEF Flow
<1> DEFINE L == Left(Peer(e))
<1>13. Flow(e)' = (buf[e] \o A) \o (B \o L) /\ Flow(e) = buf[e] \o (stream[e] \o L)
  BY <1>0, <1>7, <1>10, <1>11 DEF Flow
<1>14. L \in Seq(Byte) /\ B \o L \in Seq(Byte)  BY <1>0, <1>3, FlowType, ConcatType
<1>. HIDE DEF L
<1>15. Flow(e)' = Flow(e)
  <2>1. (buf[e] \o A) \o (B \o L) = buf[e] \o (A \o (B \o L))  BY <1>3, <1>5, <1>14, Assoc, Zenon
  <2>2. (A \o B) \o L = A \o (B \o L)  BY <1>3, <1>14, Assoc, Zenon
  <2>. QED  BY <1>3, <1>13, <2>1, <2>2, Zenon
<1>16. Got(e)' # <<>>
  <2>1. Len(buf[e] \o A) # 0  BY <1>5, <1>a
  <2>. QED  BY <1>10, <2>1
<1>17. Flow(e) # <<>>
  <2>1. \A s, t \in Seq(Byte) : s # <<>> => s \o t # <<>>  OBVIOUS
  <2>. QED  BY <1>5, <1>10, <1>13, <1>14, <1>15, <1>16, <2>1, Zenon
<1>18. \A n : Prefix(Flow(e), n) => Prefix(Got(e)', n)
  <2>. TAKE n
  <2>. HAVE Prefix(Flow(e), n)
  <2>1. Prefix((buf[e] \o A) \o (B \o L), n)  BY <1>13, <1>15
  <2>. QED  BY <1>5, <1>10, <1>14, <2>1, PrefixOfPrefix
<1>19. HostHas'
  <2>1. CASE e = Host
    BY <1>1, <1>17, <1>18, <2>1 DEF Inv, InStep, Responses, HostHas
  <2>2. CASE e = Tpm  BY <1>1, <1>10, <2>2, Ends DEF Inv, InStep, HostHas
  <2>. QED  BY <2>1, <2>2, Ends
<1>20. TpmHas'
  <2>1. CASE e = Host  BY <1>1, <1>10, <2>1, Ends DEF Inv, InStep, TpmHas
  <2>2. CASE e = Tpm
    <3>1. Prefix(Flow(Tpm), seq) /\ seq \in 1..seq \ executed  BY <1>1, <1>17, <2>2 DEF Inv, InStep, Commands
    <3>2. executed \subseteq 1..seq /\ seq \in Nat  BY DEF Inv, InStep, History, Types
    <3>3. \A m \in executed : m < seq  BY <3>1, <3>2
    <3>. QED  BY <1>1, <1>18, <2>2, <3>1, <3>3 DEF TpmHas
  <2>. QED  BY <2>1, <2>2, Ends
<1>21. Commands'  BY <1>1, <1>12, <1>15, Ends DEF Inv, InStep, Commands
<1>22. Responses'  BY <1>1, <1>12, <1>15, Ends DEF Inv, InStep, Responses
<1>23. History'  BY <1>1 DEF Inv, InStep, History
<1>24. Fresh'  BY <1>1 DEF Inv, InStep, Fresh
<1>. QED  BY <1>9, <1>19, <1>20, <1>21, <1>22, <1>23, <1>24 DEF Inv, InStep

LEMMA NoBytes == <<>> \o (<<>> \o <<>>) = <<>>
OBVIOUS

LEMMA TransmitInv ==
    ASSUME Inv, Types', Lengths', transmit
    PROVE  Inv'
<1>0. Types /\ pc[Host] = "idle" /\ Host \notin closed /\ seq \in Nat
  BY Ends DEF Inv, Types, transmit
<1>1. PICK size \in Sizes : unsent' = [unsent EXCEPT ![Host] = Frame(seq + 1, size, size)]
  BY DEF transmit
<1>2. /\ pc' = [pc EXCEPT ![Host] = "write"] /\ seq' = seq + 1
      /\ UNCHANGED <<buf, want, stream, closed, broken, executed, answered>>
  BY DEF transmit, history
<1> DEFINE F == Frame(seq + 1, size, size)
<1>3. F \in Seq(Byte) /\ Prefix(F, seq + 1) /\ F # <<>>  BY <1>0, FrameIsPrefix, StreamAssumption
<1>. HIDE DEF F
<1>4. unsent' = [unsent EXCEPT ![Host] = F]  BY <1>1 DEF F
<1>5. /\ pc'[Host] = "write" /\ pc'[Tpm] = pc[Tpm]
      /\ unsent'[Host] = F /\ unsent'[Tpm] = unsent[Tpm]
  BY <1>0, <1>2, <1>4, Ends DEF Types
<1>6. Fresh'  BY <1>0, <1>2 DEF Inv, InStep, History, Fresh
<1>7. History'  BY <1>0, <1>2 DEF Inv, InStep, History
<1>8. Wants'  BY <1>2, <1>5, Ends DEF Inv, InStep, Wants
<1>9. /\ Got(Host) = <<>> /\ Got(Host)' = <<>> /\ Got(Tpm)' = Got(Tpm)
      /\ Left(Tpm)' = Left(Tpm) /\ Left(Host)' = F
  BY <1>0, <1>2, <1>5 DEF Got, Left
<1>10. HostHas'  BY <1>9 DEF HostHas
<1>11. TpmHas'
  <2>. SUFFICES ASSUME Got(Tpm) # <<>>
                PROVE  \E n \in 1..seq + 1 : Prefix(Got(Tpm), n) /\ \A m \in executed : m < n
    BY <1>2, <1>9 DEF TpmHas
  <2>. QED  BY <1>0 DEF Inv, InStep, TpmHas
<1>12. Commands'
  <2>. SUFFICES ASSUME ~broken, Tpm \notin closed
                PROVE  Prefix(Flow(Tpm)', seq + 1) /\ seq + 1 \in (1..seq + 1) \ executed
    BY <1>2, <1>5 DEF Commands
  <2>1. Flow(Tpm) = <<>>  BY <1>0 DEF Inv, InStep, Commands
  <2>2. Got(Tpm) = <<>> /\ stream[Tpm] = <<>>  BY <1>0, <2>1, EmptyFlow, Ends
  <2>3. Flow(Tpm)' = <<>> \o (<<>> \o F)  BY <1>2, <1>9, <2>2, Ends DEF Flow
  <2>4. Flow(Tpm)' = F  BY <1>3, <2>3, EmptyConcat
  <2>5. seq + 1 \notin executed  BY <1>0 DEF Inv, InStep, History
  <2>. QED  BY <1>0, <1>3, <2>4, <2>5
<1>13. Responses'
  <2>. SUFFICES ASSUME ~broken PROVE Flow(Host)' = <<>>  BY <1>2 DEF Responses
  <2>1. Flow(Host) = <<>>  BY <1>0 DEF Inv, InStep, Responses
  <2>2. Flow(Host)' = Flow(Host)  BY <1>2, <1>9, Ends DEF Flow
  <2>. QED  BY <2>1, <2>2
<1>. QED  BY <1>6, <1>7, <1>8, <1>10, <1>11, <1>12, <1>13 DEF Inv, InStep

(* The host returns, whatever the outcome: nothing is on the way any more. *)
LEMMA ReturnInv ==
    ASSUME Inv, Types', Lengths', History', pc' = [pc EXCEPT ![Host] = "idle"],
           UNCHANGED <<seq, unsent, buf, want, stream, closed, broken, executed>>,
           ~broken => /\ stream[Host] = <<>> /\ Left(Tpm) = <<>>
                      /\ Tpm \notin closed => Got(Tpm) = <<>> /\ stream[Tpm] = <<>>
    PROVE  Inv'
<1>0. Types  BY DEF Inv
<1>2. pc'[Host] = "idle" /\ pc'[Tpm] = pc[Tpm]  BY <1>0, Ends DEF Types
<1>4. Wants' /\ Fresh'  BY <1>2, Ends DEF Inv, InStep, Wants, Fresh
<1>5. Got(Host)' = <<>> /\ Left(Host)' = <<>> /\ Got(Tpm)' = Got(Tpm) /\ Left(Tpm)' = Left(Tpm)
  BY <1>2 DEF Got, Left
<1>6. HostHas' /\ TpmHas'  BY <1>5 DEF Inv, InStep, HostHas, TpmHas
<1>7. Commands'
  <2>. SUFFICES ASSUME ~broken, Tpm \notin closed PROVE Flow(Tpm)' = <<>>  BY DEF Commands
  <2>1. Flow(Tpm)' = <<>> \o (<<>> \o <<>>)  BY <1>5, Ends DEF Flow
  <2>. QED  BY <2>1, NoBytes
<1>8. Responses'
  <2>. SUFFICES ASSUME ~broken PROVE Flow(Host)' = <<>>  BY DEF Responses
  <2>1. Flow(Host)' = <<>> \o (<<>> \o <<>>)  BY <1>5, Ends DEF Flow
  <2>. QED  BY <2>1, NoBytes
<1>. QED  BY <1>4, <1>6, <1>7, <1>8 DEF Inv, InStep

(* What a complete frame is, at either end.                                *)
LEMMA CompleteIs ==
    ASSUME Inv, NEW e \in End, Complete(e)
    PROVE  /\ pc[e] = "body" /\ Got(e) = buf[e] /\ buf[e] \in Seq(Byte) /\ Got(e) # <<>>
           /\ \A n : Prefix(buf[e], n) => Source(buf[e]) = n
<1>1. pc[e] = "body" /\ buf[e] \in Seq(Byte) /\ Len(buf[e]) = buf[e][1].size
  BY DEF Complete, Inv, InStep, Types, Wants
<1>2. Got(e) = buf[e]  BY <1>1 DEF Got
<1>3. Len(buf[e]) >= TPM_HEADER_SIZE  BY <1>1 DEF Inv, Lengths
<1>4. buf[e] # <<>>  BY <1>1, <1>3, StreamAssumption
<1>. QED  BY <1>1, <1>2, <1>4, SourceOf

LEMMA RecvInv ==
    ASSUME Inv, Types', Lengths', RecvResponse
    PROVE  Inv' /\ Source(buf[Host]) = seq /\ seq \in executed
<1>0. Types /\ Complete(Host) /\ pc[Host] = "body"  BY DEF Inv, RecvResponse, Complete
<1>1. Got(Host) = buf[Host] /\ Got(Host) # <<>> /\ \A n : Prefix(buf[Host], n) => Source(buf[Host]) = n
  BY <1>0, CompleteIs, Ends
<1>4. Prefix(buf[Host], seq) /\ seq \in executed  BY <1>1 DEF Inv, InStep, HostHas
<1>5. Source(buf[Host]) = seq  BY <1>1, <1>4
<1>6. UNCHANGED <<seq, unsent, buf, want, stream, closed, broken, executed>>
      /\ pc' = [pc EXCEPT ![Host] = "idle"]
  BY DEF RecvResponse
<1>7. History'
  <2>1. answered' = answered \cup {seq} \/ answered' = answered  BY <1>5 DEF RecvResponse
  <2>. QED  BY <1>4, <1>6, <2>1 DEF Inv, InStep, History
<1>8. ~broken => stream[Host] = <<>> /\ Left(Tpm) = <<>>
  <2>. SUFFICES ASSUME ~broken PROVE stream[Host] = <<>> /\ Left(Tpm) = <<>>  OBVIOUS
  <2>1. Host \notin closed  BY <1>0, Ends DEF Types
  <2>2. Flow(Host) # <<>>  BY <1>0, <1>1, EmptyFlow, Ends
  <2>3. Prefix(Flow(Host), seq)  BY <2>1, <2>2 DEF Inv, InStep, Responses
  <2>. QED  BY <1>0, <2>3, CompleteFlow, Ends DEF Inv, InStep
<1>9. ~broken /\ Tpm \notin closed => Got(Tpm) = <<>> /\ stream[Tpm] = <<>>
  <2>1. ~broken /\ Tpm \notin closed => Flow(Tpm) = <<>>  BY <1>4 DEF Inv, InStep, Commands
  <2>. QED  BY <1>0, <2>1, EmptyFlow, Ends
<1>. QED  BY <1>4, <1>5, <1>6, <1>7, <1>8, <1>9, ReturnInv

(* An error after which the ends are still in step.                        *)
LEMMA HostFailInv ==
    ASSUME Inv, Types', Lengths', Fail(Host), inStep', pc[Host] \in {"write", "header", "body"}
    PROVE  Inv'
<1>0. Types /\ pc' = [pc EXCEPT ![Host] = "idle"] /\ (Dead(Host) \/ Untouched(Host))
      /\ UNCHANGED <<seq, unsent, buf, want, stream, closed, broken, executed, answered>>
  BY DEF Inv, Fail, history
<1>1. History'  BY <1>0 DEF Inv, InStep, History
<1>2. CASE Dead(Host)
  <2>. SUFFICES ASSUME ~broken
                PROVE  stream[Host] = <<>> /\ Left(Tpm) = <<>> /\ Tpm \in closed
    BY <1>0, <1>1, ReturnInv
  <2>1. Tpm \in closed /\ stream[Host] = <<>>  BY <1>2, Ends DEF Dead
  <2>2. pc[Tpm] = "stopped"  BY <1>0, <2>1, Ends DEF Types
  <2>. QED  BY <2>1, <2>2 DEF Left
<1>3. CASE Untouched(Host)
  <2>. SUFFICES ASSUME ~broken
                PROVE  /\ stream[Host] = <<>> /\ Left(Tpm) = <<>>
                       /\ Tpm \notin closed => Got(Tpm) = <<>> /\ stream[Tpm] = <<>>
    BY <1>0, <1>1, ReturnInv
  <2>1. /\ pc[Host] = "write" /\ unsent[Host] # <<>> /\ Len(unsent[Host]) = unsent[Host][1].size
        /\ unsent[Host] \in Seq(Byte)
    BY <1>0, <1>3, Ends DEF Untouched, Types
  <2>2. Left(Host) = unsent[Host] /\ Host \notin closed  BY <1>0, <2>1, Ends DEF Left, Types
  <2>3. seq \notin executed  BY <2>1 DEF Inv, InStep, Fresh
  <2>4. Flow(Host) = <<>>  BY <2>2, <2>3 DEF Inv, InStep, Responses
  <2>5. stream[Host] = <<>> /\ Left(Tpm) = <<>>  BY <1>0, <2>4, EmptyFlow, Ends
  <2>6. ASSUME Tpm \notin closed PROVE Got(Tpm) = <<>> /\ stream[Tpm] = <<>>
    <3>1. Flow(Tpm) # <<>>  BY <1>0, <2>1, <2>2, EmptyFlow, Ends
    <3>2. Prefix(Flow(Tpm), seq)  BY <2>6, <3>1 DEF Inv, InStep, Commands
    <3>3. /\ Got(Tpm) \in Seq(Byte) /\ stream[Tpm] \in Seq(Byte)
          /\ Got(Tpm) \o stream[Tpm] \in Seq(Byte)
      BY <1>0, FlowType, ConcatType, Ends
    <3>4. Flow(Tpm) = Got(Tpm) \o (stream[Tpm] \o unsent[Host])  BY <2>2, Ends DEF Flow
    <3>5. Flow(Tpm) = (Got(Tpm) \o stream[Tpm]) \o unsent[Host]
      BY <2>1, <3>3, <3>4, Assoc, Zenon
    <3>6. Prefix((Got(Tpm) \o stream[Tpm]) \o unsent[Host], seq)  BY <3>2, <3>5
    <3>7. Got(Tpm) \o stream[Tpm] = <<>>  BY <2>1, <3>3, <3>6, WholeIsAll
    <3>8. \A s, t \in Seq(Byte) : s \o t = <<>> <=> s = <<>> /\ t = <<>>  OBVIOUS
    <3>. QED  BY <3>3, <3>7, <3>8, Zenon
  <2>. QED  BY <2>5, <2>6
<1>. QED  BY <1>0, <1>2, <1>3

LEMMA TpmFailInv ==
    ASSUME Inv, Types', Lengths', Fail(Tpm), inStep', pc[Tpm] \in {"write", "header", "body"}
    PROVE  Inv'
<1>0. Types /\ pc' = [pc EXCEPT ![Tpm] = "idle"] /\ (Dead(Tpm) \/ Untouched(Tpm))
      /\ UNCHANGED <<seq, unsent, buf, want, stream, closed, broken, executed, answered>>
  BY DEF Inv, Fail, history
<1>1. pc'[Tpm] = "idle" /\ pc'[Host] = pc[Host]  BY <1>0, Ends DEF Types
<1>2. History' /\ Wants' /\ Fresh'
  BY <1>0, <1>1, Ends DEF Inv, InStep, History, Wants, Fresh
<1>3. Got(Tpm)' = <<>> /\ Left(Tpm)' = <<>> /\ Got(Host)' = Got(Host) /\ Left(Host)' = Left(Host)
  BY <1>0, <1>1 DEF Got, Left
<1>4. HostHas' /\ TpmHas'  BY <1>0, <1>3 DEF Inv, InStep, HostHas, TpmHas
<1>5. Untouched(Tpm) => Got(Tpm) = <<>> /\ Left(Tpm) = <<>>
  BY Ends DEF Untouched, Got, Left
<1>6. ~broken /\ ~Untouched(Tpm) => Host \in closed /\ stream[Tpm] = <<>> /\ Left(Host) = <<>>
  BY <1>0, Ends DEF Dead, Types, Left
<1>7. Commands'
  <2>1. CASE broken  BY <1>0, <2>1 DEF Commands
  <2>2. CASE Untouched(Tpm)
    <3>1. Flow(Tpm)' = Flow(Tpm)  BY <1>0, <1>3, <1>5, <2>2, Ends DEF Flow
    <3>. QED  BY <1>0, <1>1, <3>1 DEF Inv, InStep, Commands
  <2>3. CASE ~broken /\ ~Untouched(Tpm)
    <3>1. Flow(Tpm)' = <<>> \o (<<>> \o <<>>)  BY <1>0, <1>3, <1>6, <2>3, Ends DEF Flow
    <3>. QED  BY <3>1, NoBytes DEF Commands
  <2>. QED  BY <2>1, <2>2, <2>3
<1>8. Responses'
  <2>1. CASE broken \/ Host \in closed  BY <1>0, <2>1 DEF Responses
  <2>2. CASE Untouched(Tpm)
    <3>1. Flow(Host)' = Flow(Host)  BY <1>0, <1>3, <1>5, <2>2, Ends DEF Flow
    <3>. QED  BY <1>0, <1>1, <3>1 DEF Inv, InStep, Responses
  <2>. QED  BY <1>6, <2>1, <2>2
<1>. QED  BY <1>2, <1>4, <1>7, <1>8 DEF Inv, InStep

LEMMA HandleInv ==
    ASSUME Inv, Types', Lengths', Handle
    PROVE  /\ Source(buf[Tpm]) \in 1..seq /\ \A m \in executed : m < Source(buf[Tpm])
           /\ inStep' => Inv'
<1>0. Types /\ Complete(Tpm) /\ pc[Tpm] = "body" /\ seq \in Nat /\ Tpm \notin closed
  BY Ends DEF Inv, Handle, Complete, Types
<1> DEFINE n == Source(buf[Tpm])
<1>1. Got(Tpm) = buf[Tpm] /\ buf[Tpm] \in Seq(Byte) /\ Got(Tpm) # <<>>
      /\ \A k : Prefix(buf[Tpm], k) => n = k
  BY <1>0, CompleteIs, Ends
<1>3. Got(Tpm) # <<>>  BY <1>1
<1>4. \A k : Prefix(buf[Tpm], k) => n = k  BY <1>1
<1>5. PICK r \in Replies : /\ unsent' = [unsent EXCEPT ![Tpm] = Frame(n, r.len, r.size)]
                          /\ inStep' = (inStep /\ r.len = r.size /\ r.size \in Valid)
  BY DEF Handle
<1>6. /\ pc' = [pc EXCEPT ![Tpm] = "write"] /\ executed' = executed \cup {n}
      /\ UNCHANGED <<seq, buf, want, stream, closed, broken, answered>>
  BY DEF Handle
<1>. HIDE DEF n
<1>7. n \in 1..seq /\ \A m \in executed : m < n  BY <1>1, <1>3, <1>4 DEF Inv, InStep, TpmHas
<1>8. Tpm \notin closed /\ ~broken =>
          n = seq /\ stream[Tpm] = <<>> /\ Left(Host) = <<>> /\ pc[Host] # "idle" /\ seq \notin executed
  <2>. SUFFICES ASSUME ~broken
                PROVE  /\ n = seq /\ stream[Tpm] = <<>> /\ Left(Host) = <<>>
                       /\ pc[Host] # "idle" /\ seq \notin executed
    OBVIOUS
  <2>1. Flow(Tpm) # <<>>  BY <1>0, <1>3, EmptyFlow, Ends
  <2>2. Prefix(Flow(Tpm), seq) /\ seq \notin executed /\ pc[Host] # "idle"
    BY <1>0, <2>1 DEF Inv, InStep, Commands
  <2>3. stream[Tpm] = <<>> /\ Left(Host) = <<>>  BY <1>0, <2>2, CompleteFlow, Ends DEF Inv, InStep
  <2>4. Prefix(buf[Tpm], seq)
    <3>1. stream[Tpm] \o Left(Peer(Tpm)) \in Seq(Byte)  BY <1>0, FlowType, Ends
    <3>. QED  BY <1>1, <2>2, <3>1, PrefixOfPrefix DEF Flow
  <2>. QED  BY <1>4, <2>2, <2>3, <2>4
<1>. SUFFICES ASSUME inStep' PROVE Inv'  BY <1>7 DEF n
<1> DEFINE size == r.size
           F == Frame(n, size, size)
<1>a. size \in Valid /\ unsent' = [unsent EXCEPT ![Tpm] = F]  BY <1>5
<1>9. F \in Seq(Byte) /\ Prefix(F, n) /\ F # <<>>
  <2>1. n \in Nat  BY <1>0, <1>7
  <2>. QED  BY <1>a, <2>1, FrameIsPrefix
<1>. HIDE DEF F
<1>10. unsent' = [unsent EXCEPT ![Tpm] = F]  BY <1>a
<1>11. /\ pc'[Tpm] = "write" /\ pc'[Host] = pc[Host]
       /\ unsent'[Tpm] = F /\ unsent'[Host] = unsent[Host]
  BY <1>0, <1>6, <1>10, Ends DEF Types
<1>13. History'  BY <1>6, <1>7 DEF Inv, InStep, History
<1>14. Wants'  BY <1>6, <1>11, Ends DEF Inv, InStep, Wants
<1>15. /\ Got(Tpm)' = <<>> /\ Got(Host)' = Got(Host)
       /\ Left(Host)' = Left(Host) /\ Left(Tpm)' = F
  BY <1>6, <1>11 DEF Got, Left
<1>16. HostHas' /\ TpmHas'  BY <1>6, <1>15 DEF Inv, InStep, HostHas, TpmHas
<1>17. Commands'
  <2>. SUFFICES ASSUME ~broken PROVE Flow(Tpm)' = <<>>  BY <1>6 DEF Commands
  <2>1. Flow(Tpm)' = <<>> \o (<<>> \o <<>>)  BY <1>0, <1>6, <1>8, <1>15, Ends DEF Flow
  <2>. QED  BY <2>1, NoBytes
<1>18. Responses'
  <2>. SUFFICES ASSUME ~broken, Host \notin closed
                PROVE  Prefix(Flow(Host)', seq) /\ seq \in executed' /\ pc'[Host] # "idle"
    BY <1>6 DEF Responses
  <2>1. Flow(Host) = <<>>  BY <1>0, <1>8 DEF Inv, InStep, Responses
  <2>2. Got(Host) = <<>> /\ stream[Host] = <<>>  BY <1>0, <2>1, EmptyFlow, Ends
  <2>3. Flow(Host)' = <<>> \o (<<>> \o F)  BY <1>6, <1>15, <2>2, Ends DEF Flow
  <2>4. Flow(Host)' = F  BY <1>9, <2>3, EmptyConcat
  <2>. QED  BY <1>0, <1>6, <1>8, <1>9, <1>11, <2>4
<1>19. Fresh'
  <2>. SUFFICES ASSUME ~broken, pc[Host] = "write", unsent[Host] # <<>> PROVE FALSE
    BY <1>6, <1>11 DEF Fresh
  <2>1. Left(Host) = unsent[Host]  BY DEF Left
  <2>. QED  BY <1>0, <1>8, <2>1
<1>. QED  BY <1>13, <1>14, <1>16, <1>17, <1>18, <1>19 DEF Inv, InStep

(* An end stops: what its peer gets is what was already on the way.        *)
LEMMA CloseInv ==
    ASSUME Inv, Types', Lengths', NEW e \in End, Close(e)
    PROVE  Inv'
<1>a. /\ pc' = [pc EXCEPT ![e] = "stopped"] /\ closed' = closed \cup {e} /\ broken' = broken
      /\ UNCHANGED <<seq, unsent, buf, want, stream, answered, executed>>
  BY DEF Close, history
<1>0. Types /\ Peer(e) \in End /\ Peer(e) # e  BY Ends DEF Inv
<1>1. pc'[e] = "stopped" /\ \A d \in End : d # e => pc'[d] = pc[d]  BY <1>0, <1>a DEF Types
<1>3. Wants' /\ Fresh'
  <2>1. pc'[Host] = "write" => pc[Host] = "write"  BY <1>1, Ends
  <2>. QED  BY <1>1, <1>a, <2>1 DEF Inv, InStep, Wants, Fresh
<1>4. History'  BY <1>a DEF Inv, InStep, History
<1>5. /\ Got(e)' = <<>> /\ Left(e)' = <<>>
      /\ \A d \in End : d # e => Got(d)' = Got(d) /\ Left(d)' = Left(d)
  BY <1>1, <1>a DEF Got, Left
<1>6. HostHas' /\ TpmHas'
  <2>1. Got(Host)' = Got(Host) \/ Got(Host)' = <<>>  BY <1>5, Ends
  <2>2. Got(Tpm)' = Got(Tpm) \/ Got(Tpm)' = <<>>  BY <1>5, Ends
  <2>. QED  BY <1>a, <2>1, <2>2 DEF Inv, InStep, HostHas, TpmHas
<1> DEFINE p == Peer(e)
<1>7. /\ Flow(p) = Got(p) \o (stream[p] \o Left(e))
      /\ Flow(p)' = Got(p) \o (stream[p] \o <<>>)
  BY <1>0, <1>5, <1>a, Ends DEF Flow
<1>8. /\ Got(p) \in Seq(Byte) /\ stream[p] \in Seq(Byte) /\ Left(e) \in Seq(Byte)
      /\ Got(p) \o stream[p] \in Seq(Byte)
  BY <1>0, FlowType, ConcatType
<1>. HIDE DEF p
<1>9. Flow(p)' = Got(p) \o stream[p]  BY <1>7, <1>8, EmptyConcat
<1>10. Flow(p) = (Got(p) \o stream[p]) \o Left(e)  BY <1>7, <1>8, Assoc, Zenon
<1>11. \A n : Prefix(Flow(p), n) => Prefix(Flow(p)', n)
  BY <1>8, <1>9, <1>10, PrefixOfPrefix, Zenon
<1>12. Flow(p)' # <<>> => Flow(p) # <<>>
  <2>1. \A s, t \in Seq(Byte) : s # <<>> => s \o t # <<>>  OBVIOUS
  <2>. QED  BY <1>8, <1>9, <1>10, <2>1, Zenon
<1>13. Commands'
  <2>. SUFFICES ASSUME ~broken', Tpm \notin closed', Flow(Tpm)' # <<>>
                PROVE  Prefix(Flow(Tpm)', seq) /\ seq \in (1..seq) \ executed /\ pc'[Host] # "idle"
    BY <1>a DEF Commands
  <2>1. e = Host /\ p = Tpm  BY <1>a, Ends DEF p
  <2>2. Prefix(Flow(Tpm), seq) /\ seq \in (1..seq) \ executed
    BY <1>12, <1>a, <2>1 DEF Inv, InStep, Commands
  <2>. QED  BY <1>1, <1>11, <2>1, <2>2
<1>14. Responses'
  <2>. SUFFICES ASSUME ~broken', Host \notin closed', Flow(Host)' # <<>>
                PROVE  Prefix(Flow(Host)', seq) /\ seq \in executed /\ pc'[Host] # "idle"
    BY <1>a DEF Responses
  <2>1. e = Tpm /\ p = Host  BY <1>a, Ends DEF p
  <2>2. Prefix(Flow(Host), seq) /\ seq \in executed /\ pc[Host] # "idle"
    BY <1>12, <1>a, <2>1 DEF Inv, InStep, Responses
  <2>. QED  BY <1>1, <1>11, <2>1, <2>2, Ends
<1>. QED  BY <1>3, <1>4, <1>6, <1>13, <1>14 DEF Inv, InStep

LEMMA BreakInv ==
    ASSUME Inv, Types', Lengths', Break
    PROVE  Inv'
<1>1. /\ broken' = TRUE /\ stream' = [e \in End |-> <<>>]
      /\ UNCHANGED <<pc, seq, unsent, buf, want, closed, answered, executed>>
  BY DEF Break, history
<1>4. \A e \in End : Got(e)' = Got(e)  BY <1>1 DEF Got
<1>5. HostHas' /\ TpmHas'  BY <1>1, <1>4, Ends DEF Inv, InStep, HostHas, TpmHas
<1>. QED  BY <1>1, <1>5 DEF Inv, InStep, History, Wants, Fresh, Commands, Responses

(* No step puts the ends in step again.                                    *)
LEMMA StepIsLost == [Next]_vars /\ inStep' => inStep
BY DEF Next, HostStep, TpmStep, Io, transmit, serve, WriteBytes, WriteDone, BeginRead, Fill,
       HeaderDone, HeaderRejected, AtEof, IoFails, FailsOnce, Fail, RecvResponse, Handle,
       Close, Break, vars

LEMMA FailInv ==
    ASSUME Inv, Types', Lengths', inStep', NEW e \in End,
           HeaderRejected(e) \/ AtEof(e) \/ IoFails(e) \/ FailsOnce(e)
    PROVE  Inv'
<1>1. Fail(e) /\ pc[e] \in {"write", "header", "body"}  BY Errors
<1>. QED  BY <1>1, HostFailInv, TpmFailInv, Ends

LEMMA NextInv == IInv /\ [Next]_vars => IInv'
<1>. SUFFICES ASSUME IInv, [Next]_vars PROVE IInv'  OBVIOUS
<1>a. Types' /\ Lengths'  BY TypesNext DEF IInv
<1>. SUFFICES ASSUME inStep' PROVE Inv'  BY <1>a DEF IInv, Inv
<1>b. Inv  BY StepIsLost DEF IInv, Inv
<1>1. CASE transmit  BY <1>1, <1>a, <1>b, TransmitInv
<1>2. ASSUME NEW e \in End, Io(e) PROVE Inv'
  <2>1. CASE WriteDone(e)  BY <1>a, <1>b, <2>1, BeginInv DEF WriteDone
  <2>2. CASE HeaderRejected(e) \/ AtEof(e) \/ IoFails(e)  BY <1>a, <1>b, <2>2, FailInv
  <2>. QED  BY <1>2, <1>a, <1>b, <2>1, <2>2, WriteBytesInv, FillInv, HeaderDoneInv DEF Io
<1>3. CASE RecvResponse  BY <1>3, <1>a, <1>b, RecvInv
<1>4. CASE serve  BY <1>4, <1>a, <1>b, BeginInv, Ends DEF serve
<1>5. CASE Handle  BY <1>5, <1>a, <1>b, HandleInv
<1>6. ASSUME NEW e \in End, FailsOnce(e) PROVE Inv'  BY <1>6, <1>a, <1>b, FailInv
<1>7. ASSUME NEW e \in End, Close(e) PROVE Inv'  BY <1>7, <1>a, <1>b, CloseInv
<1>8. CASE Break  BY <1>8, <1>a, <1>b, BreakInv
<1>9. CASE UNCHANGED vars
  BY <1>9, <1>b DEF vars, Inv, InStep, Types, History, Lengths, Wants, HostHas, TpmHas, Fresh,
              Commands, Responses, Got, Left, Flow
<1>. QED  BY <1>1, <1>2, <1>3, <1>4, <1>5, <1>6, <1>7, <1>8, <1>9, Ends
          DEF Next, HostStep, TpmStep

-----------------------------------------------------------------------------

(* As long as no error has left them out of step, what an end has read is  *)
(* the beginning of one frame, at the host that of the response to the     *)
(* command in progress (read_frame), and nothing is executed that was not  *)
(* sent or answered that was not executed; and never, in step or not, is   *)
(* more read than the largest frame. For every size of frames, streams and *)
(* pieces, and whatever the handler returns and the streams carry.         *)
THEOREM FramesAreWhole == Spec => []FramesStayWhole
<1>1. IInv => FramesStayWhole
  <2>. SUFFICES ASSUME IInv PROVE FramesStayWhole  OBVIOUS
  <2>1. ASSUME NEW e \in End, pc[e] \in {"header", "body"}
        PROVE  Len(buf[e]) <= TPM_MAX_COMMAND_SIZE
    <3>1. Len(buf[e]) \in Nat /\ want[e] \in Nat  BY DEF IInv, Types
    <3>2. CASE pc[e] = "header"  BY <3>1, <3>2, StreamAssumption DEF IInv, Lengths
    <3>3. CASE pc[e] = "body"  BY <3>1, <3>3, StreamAssumption DEF IInv, Lengths, Valid
    <3>. QED  BY <2>1, <3>2, <3>3
  <2>2. ASSUME inStep, NEW e \in End, pc[e] \in {"header", "body"}, NEW i \in DOMAIN buf[e]
        PROVE  /\ buf[e][i].of = IF e = Host THEN seq ELSE buf[e][1].of
               /\ buf[e][i].at = i
               /\ i <= buf[e][i].size
    <3>1. Got(e) = buf[e] /\ buf[e] \in Seq(Byte)  BY <2>2 DEF Got, IInv, Types
    <3>2. buf[e] # <<>>  BY <2>2, <3>1
    <3>3. CASE e = Host
      <4>1. Prefix(buf[e], seq)  BY <2>2, <3>1, <3>2, <3>3 DEF IInv, InStep, HostHas
      <4>. QED  BY <2>2, <3>1, <3>3, <4>1, PrefixItems
    <3>4. CASE e = Tpm
      <4>1. PICK n \in 1..seq : Prefix(buf[e], n)
        BY <2>2, <3>1, <3>2, <3>4 DEF IInv, InStep, TpmHas
      <4>. QED  BY <2>2, <3>1, <3>4, <4>1, PrefixItems, Ends
    <3>. QED  BY <3>3, <3>4, Ends
  <2>3. inStep => executed \subseteq 1..seq /\ answered \subseteq executed
    BY DEF IInv, InStep, History
  <2>. QED  BY <2>1, <2>2, <2>3 DEF FramesStayWhole
<1>. QED  BY <1>1, InitInv, NextInv, PTL DEF Spec

open == pc[Host] \notin {"idle", "stopped"}

LEMMA ExchangeStep ==
    ASSUME IInv, [Next]_vars, inStep'
    PROVE  [Abstract!Next]_abstract
<1>a. Types' /\ Lengths' /\ Inv  BY TypesNext, StepIsLost DEF IInv, Inv
<1>0. Types /\ seq \in Nat  BY DEF IInv, Types
<1>b. UNCHANGED <<seq, open, answered, executed>> => UNCHANGED abstract  BY DEF abstract, open
<1>c. ASSUME NEW e \in End, Fail(e), pc[e] \in {"write", "header", "body"}
      PROVE  Abstract!Abandon \/ UNCHANGED <<seq, open, answered, executed>>
  <2>1. CASE e = Host
    <3>1. open /\ ~open'  BY <1>0, <1>c, <2>1, Ends DEF Fail, open, Types
    <3>. QED  BY <1>c, <2>1, <3>1 DEF Fail, history, open, Abstract!Abandon
  <2>2. CASE e = Tpm
    <3>1. UNCHANGED open  BY <1>0, <1>c, <2>2, Ends DEF Fail, open, Types
    <3>. QED  BY <1>c, <3>1 DEF Fail, history
  <2>. QED  BY <2>1, <2>2, Ends
<1>1. CASE transmit
  <2>1. pc'[Host] = "write" /\ pc[Host] = "idle"  BY <1>0, <1>1, Ends DEF transmit, Types
  <2>2. Abstract!Begin  BY <1>1, <2>1 DEF transmit, history, Abstract!Begin
  <2>. QED  BY <2>2 DEF Abstract!Next
<1>2. ASSUME NEW e \in End, Io(e)
      PROVE  Abstract!Abandon \/ UNCHANGED <<seq, open, answered, executed>>
  <2>1. CASE WriteBytes(e) \/ WriteDone(e) \/ Fill(e) \/ HeaderDone(e)
    <3>1. \/ pc' = pc
          \/ pc[e] = "write" /\ pc' = [pc EXCEPT ![e] = "header"]
          \/ pc[e] = "header" /\ pc' = [pc EXCEPT ![e] = "body"]
      BY <2>1 DEF WriteBytes, WriteDone, BeginRead, Fill, HeaderDone, HasHeader
    <3>2. UNCHANGED open  BY <1>0, <3>1, Ends DEF open, Types
    <3>. QED  BY <2>1, <3>2 DEF WriteBytes, WriteDone, BeginRead, Fill, HeaderDone, history
  <2>2. CASE HeaderRejected(e) \/ AtEof(e) \/ IoFails(e)  BY <1>c, <2>2, Errors
  <2>. QED  BY <1>2, <2>1, <2>2 DEF Io
<1>3. CASE RecvResponse
  <2>1. Source(buf[Host]) = seq /\ seq \in executed  BY <1>3, <1>a, RecvInv
  <2>2. open /\ ~open'
    BY <1>0, <1>3, Ends DEF RecvResponse, Complete, open, Types
  <2>3. Abstract!Answer \/ Abstract!Abandon
    BY <1>3, <2>1, <2>2 DEF RecvResponse, open, Abstract!Answer, Abstract!Abandon
  <2>. QED  BY <2>3 DEF Abstract!Next
<1>4. CASE serve
  <2>1. UNCHANGED open  BY <1>0, <1>4, Ends DEF serve, BeginRead, open, Types
  <2>. QED  BY <1>4, <1>b, <2>1 DEF serve, BeginRead, history
<1>5. CASE Handle
  <2>1. Source(buf[Tpm]) \in 1..seq /\ \A m \in executed : m < Source(buf[Tpm])
    BY <1>5, <1>a, HandleInv
  <2>2. UNCHANGED open  BY <1>0, <1>5, Ends DEF Handle, open, Types
  <2>3. Abstract!Execute(Source(buf[Tpm]))
    BY <1>5, <2>1, <2>2 DEF Handle, open, Abstract!Execute
  <2>. QED  BY <2>1, <2>3 DEF Abstract!Next
<1>6. ASSUME NEW e \in End, FailsOnce(e)
      PROVE  Abstract!Abandon \/ UNCHANGED <<seq, open, answered, executed>>
  BY <1>6, <1>c, Errors
<1>7. ASSUME NEW e \in End, Close(e)
      PROVE  Abstract!Abandon \/ UNCHANGED <<seq, open, answered, executed>>
  <2>1. CASE e = Host
    <3>1. ~open'  BY <1>0, <1>7, <2>1, Ends DEF Close, open, Types
    <3>2. CASE open  BY <1>7, <3>1, <3>2 DEF Close, history, open, Abstract!Abandon
    <3>3. CASE ~open
      <4>1. UNCHANGED open  BY <3>1, <3>3 DEF open
      <4>. QED  BY <1>7, <4>1 DEF Close, history
    <3>. QED  BY <3>2, <3>3
  <2>2. CASE e = Tpm
    <3>1. UNCHANGED open  BY <1>0, <1>7, <2>2, Ends DEF Close, open, Types
    <3>. QED  BY <1>7, <3>1 DEF Close, history
  <2>. QED  BY <2>1, <2>2, Ends
<1>8. CASE Break  BY <1>8, <1>b DEF Break, open, history
<1>9. CASE UNCHANGED vars  BY <1>9, <1>b DEF vars, open
<1>. QED  BY <1>1, <1>2, <1>3, <1>4, <1>5, <1>6, <1>7, <1>8, <1>9, <1>b, Ends
          DEF Next, HostStep, TpmStep, Abstract!Next

(* Host, streams and responder together implement the exchange as long as  *)
(* no error has left them out of step: a response is that of the command   *)
(* it is returned for, and commands are executed at most once and in       *)
(* order, however the streams cut, stall, close or break, and also after   *)
(* errors met before a frame is begun.                                     *)
THEOREM StreamRefinement == Spec => ImplementsExchange
<1>1. Init => Abstract!Init
  BY Ends DEF Init, Abstract!Init
<1>2. IInv /\ [Next]_vars => [inStep' => [Abstract!Next]_abstract]_vars
  BY ExchangeStep
<1>. QED  BY <1>1, <1>2, InitInv, NextInv, PTL DEF Spec, ImplementsExchange

=============================================================================
