------------------------------ MODULE WireProofs ------------------------------
(***************************************************************************)
(* Proofs about Wire: the areas of a command view, which are found again   *)
(* at every access, stay inside the frame whatever is written, writes      *)
(* through them stay inside their area, and a frame that was marshalled is *)
(* read back as what it was made of.                                       *)
(***************************************************************************)
EXTENDS Wire, WellFoundedInduction, TLAPS

BufferOk ==
    /\ buf \in Seq(Byte)
    /\ view \in [kind: {"none", "command", "response"}, len: Nat, fresh: BOOLEAN]
    /\ view.len <= Len(buf)
    /\ view.kind = "none" => view = NoView

(* There is no view of an empty buffer.                                    *)
Idle == sent = NoRequest => buf = <<>> /\ view = NoView

(* A view that was cast and written to only through its areas is one that  *)
(* could be cast again.                                                    *)
Fresh == view.kind = "command" /\ view.fresh => CommandEnvelopeOk(Frame)

Inv == BufferOk /\ Idle /\ Fresh

-----------------------------------------------------------------------------
(* Byte strings.                                                           *)

LEMMA ItemsIn ==
    ASSUME NEW S, NEW s \in Seq(S)
    PROVE  \A i \in 1..Len(s) : s[i] \in S
OBVIOUS

LEMMA NumberNat ==
    ASSUME NEW s \in Seq(Byte), Len(s) = 4
    PROVE  Number(s) \in Nat
<1>. \A i \in 1..Len(s) : s[i] \in Byte  BY ItemsIn
<1>1. s[1] \in Byte /\ s[2] \in Byte /\ s[3] \in Byte /\ s[4] \in Byte  OBVIOUS
<1>2. \A b \in Byte : b \in Nat  BY DEF Byte
<1>3. MAX_NUMBER \in Nat  BY SMT DEF MAX_NUMBER
<1>. QED  BY <1>1, <1>2, <1>3, SMT DEF Number

LEMMA TakeProperties ==
    ASSUME NEW s \in Seq(Byte), NEW n \in Nat, n <= Len(s)
    PROVE  /\ Take(s, n) \in Seq(Byte)
           /\ Len(Take(s, n)) = n
           /\ \A i \in 1..n : Take(s, n)[i] = s[i]
BY DEF Take

LEMMA SubSeqSame ==
    ASSUME NEW s \in Seq(Byte), NEW t \in Seq(Byte), NEW m \in Nat \ {0}, NEW n \in Nat,
           n <= Len(s), n <= Len(t), \A i \in m..n : s[i] = t[i]
    PROVE  SubSeq(s, m, n) = SubSeq(t, m, n)
OBVIOUS

LEMMA SubSeqBytes ==
    ASSUME NEW s \in Seq(Byte), NEW m \in Nat \ {0}, NEW n \in Nat, n <= Len(s), m <= n
    PROVE  SubSeq(s, m, n) \in Seq(Byte) /\ Len(SubSeq(s, m, n)) = n - m + 1
OBVIOUS

-----------------------------------------------------------------------------
(* The ranges of the areas.                                                *)

LEMMA HandleBounds ==
    ASSUME NEW f \in Seq(Byte), CcOk(f)
    PROVE  HandleEnd(f) \in Nat /\ HEADER_SIZE <= HandleEnd(f)
BY WireAssumption DEF CcOk, HandleEnd, HEADER_SIZE

(* The authorization area lies between the handles and the end.            *)
LEMMA AuthBounds ==
    ASSUME NEW f \in Seq(Byte), RangesOk(f)
    PROVE  /\ AuthEnd(f) \in Nat /\ AuthStart(f) \in Nat
           /\ HandleEnd(f) < AuthStart(f)
           /\ AuthStart(f) <= AuthEnd(f) + 1
           /\ AuthEnd(f) <= Len(f)
           /\ TagOf(f) = Sessions => HandleEnd(f) + 5 = AuthStart(f) /\ HandleEnd(f) + 4 <= Len(f)
<1>1. HandleEnd(f) \in Nat /\ HandleEnd(f) <= Len(f) /\ Len(f) \in Nat
  BY HandleBounds DEF RangesOk, HandleAreaOk
<1>2. CASE TagOf(f) # Sessions  BY <1>1, <1>2 DEF AuthEnd, AuthStart
<1>3. CASE TagOf(f) = Sessions
  <2>1. HandleEnd(f) + 4 <= Len(f) /\ AuthSize(f) <= Len(f) - HandleEnd(f) - 4
    BY <1>1, <1>3 DEF RangesOk, AuthSizeOk
  <2>2. SubSeq(f, HandleEnd(f) + 1, HandleEnd(f) + 4) \in Seq(Byte)
        /\ Len(SubSeq(f, HandleEnd(f) + 1, HandleEnd(f) + 4)) = 4
    BY <1>1, <2>1, SubSeqBytes
  <2>3. AuthSize(f) \in Nat  BY <2>2, NumberNat DEF AuthSize
  <2>. QED  BY <1>1, <1>3, <2>1, <2>3 DEF AuthEnd, AuthStart
<1>. QED  BY <1>2, <1>3

(* What can be cast has its areas.                                         *)
LEMMA EnvelopeRanges ==
    ASSUME NEW f \in Seq(Byte), CommandEnvelopeOk(f)
    PROVE  RangesOk(f) /\ Len(f) >= HEADER_SIZE /\ HandleEnd(f) <= Len(f)
<1>1. CcOk(f) /\ Len(f) - HEADER_SIZE >= 4 * Handles[Number(CodeOf(f))] /\ Len(f) >= HEADER_SIZE
  BY DEF CommandEnvelopeOk, FrameSizeOk, PrefixOk
<1>2. Handles[Number(CodeOf(f))] \in Nat  BY <1>1, WireAssumption DEF CcOk
<1>3. Len(f) >= HandleEnd(f)  BY <1>1, <1>2 DEF HandleEnd, HEADER_SIZE
<1>4. TagOf(f) \in Tags /\ (TagOf(f) = Sessions => AuthSizeOk(f))
  BY WireAssumption DEF CommandEnvelopeOk
<1>. QED  BY <1>1, <1>3, <1>4 DEF RangesOk, HandleAreaOk

(* A frame that differs from one that can be cast in one byte of an area   *)
(* has the same header and the same ranges.                                *)
LEMMA AreaByte ==
    ASSUME NEW f \in Seq(Byte), NEW g \in Seq(Byte), Len(f) = Len(g), CommandEnvelopeOk(f),
           NEW k \in Nat,
           \/ k \in HEADER_SIZE + 1..HandleEnd(f)
           \/ k \in AuthStart(f)..AuthEnd(f)
           \/ k \in AuthEnd(f) + 1..Len(f),
           \A i \in 1..Len(f) : i # k => g[i] = f[i]
    PROVE  /\ CommandEnvelopeOk(g)
           /\ HandleEnd(g) = HandleEnd(f)
           /\ AuthStart(g) = AuthStart(f)
           /\ AuthEnd(g) = AuthEnd(f)
<1>1. RangesOk(f) /\ Len(f) >= HEADER_SIZE /\ HandleEnd(f) <= Len(f) /\ Len(f) \in Nat
  BY EnvelopeRanges
<1>2. HandleEnd(f) \in Nat /\ HEADER_SIZE <= HandleEnd(f)
  BY <1>1, HandleBounds DEF RangesOk, HandleAreaOk
<1>3. /\ AuthEnd(f) \in Nat /\ AuthStart(f) \in Nat /\ HandleEnd(f) < AuthStart(f)
      /\ AuthStart(f) <= AuthEnd(f) + 1 /\ AuthEnd(f) <= Len(f)
      /\ TagOf(f) = Sessions => HandleEnd(f) + 5 = AuthStart(f) /\ HandleEnd(f) + 4 <= Len(f)
  BY <1>1, AuthBounds
<1>4. k > HEADER_SIZE  BY <1>2, <1>3 DEF HEADER_SIZE
<1>5. TagOf(g) = TagOf(f) /\ SizeOf(g) = SizeOf(f) /\ CodeOf(g) = CodeOf(f)
  <2>1. \A i \in 1..10 : f[i] = g[i]  BY <1>1, <1>4 DEF HEADER_SIZE
  <2>2. Len(f) >= 10 /\ Len(g) >= 10  BY <1>1 DEF HEADER_SIZE
  <2>3. SubSeq(f, 1, 2) = SubSeq(g, 1, 2)  BY <2>1, <2>2, SubSeqSame
  <2>4. SubSeq(f, 3, 6) = SubSeq(g, 3, 6)  BY <2>1, <2>2, SubSeqSame
  <2>5. SubSeq(f, 7, 10) = SubSeq(g, 7, 10)  BY <2>1, <2>2, SubSeqSame
  <2>. QED  BY <2>3, <2>4, <2>5 DEF TagOf, SizeOf, CodeOf
<1>6. HandleEnd(g) = HandleEnd(f)  BY <1>5 DEF HandleEnd
<1>7. TagOf(f) = Sessions => AuthSize(g) = AuthSize(f)
  <2>. SUFFICES ASSUME TagOf(f) = Sessions PROVE AuthSize(g) = AuthSize(f)  OBVIOUS
  <2>1. \A i \in HandleEnd(f) + 1..HandleEnd(f) + 4 : f[i] = g[i]
    BY <1>1, <1>2, <1>3 DEF HEADER_SIZE
  <2>2. SubSeq(f, HandleEnd(f) + 1, HandleEnd(f) + 4) = SubSeq(g, HandleEnd(f) + 1, HandleEnd(f) + 4)
    BY <1>2, <1>3, <2>1, SubSeqSame
  <2>. QED  BY <1>6, <2>2 DEF AuthSize
<1>8. AuthStart(g) = AuthStart(f) /\ AuthEnd(g) = AuthEnd(f)
  BY <1>5, <1>6, <1>7 DEF AuthStart, AuthEnd
<1>9. CommandEnvelopeOk(g)
  BY <1>5, <1>6, <1>7 DEF CommandEnvelopeOk, FrameSizeOk, PrefixOk, CcOk, AuthSizeOk
<1>. QED  BY <1>6, <1>8, <1>9

-----------------------------------------------------------------------------
(* Writes.                                                                 *)

LEMMA OverwriteBytes ==
    ASSUME buf \in Seq(Byte), NEW offset \in Nat, NEW s \in Seq(Byte), Overwrite(offset, s)
    PROVE  /\ buf' \in Seq(Byte)
           /\ Len(buf') = Len(buf)
           /\ \A i \in 1..Len(buf) : i \notin offset + 1..offset + Len(s) => buf'[i] = buf[i]
<1>1. /\ \A i \in 1..Len(buf) : buf[i] \in Byte
      /\ \A i \in 1..Len(s) : s[i] \in Byte
  BY ItemsIn
<1>2. Len(buf) \in Nat /\ Len(s) \in Nat /\ DOMAIN buf = 1..Len(buf)  OBVIOUS
<1> DEFINE item(i) == IF i \in offset + 1..offset + Len(s) THEN s[i - offset] ELSE buf[i]
<1>3. buf' = [i \in 1..Len(buf) |-> item(i)]  BY <1>2 DEF Overwrite
<1>4. \A i \in 1..Len(buf) : item(i) \in Byte
  <2>. TAKE i \in 1..Len(buf)
  <2>1. CASE i \in offset + 1..offset + Len(s)
    <3>1. i - offset \in 1..Len(s)  BY <1>2, <2>1
    <3>. QED  BY <1>1, <2>1, <3>1
  <2>2. CASE i \notin offset + 1..offset + Len(s)  BY <1>1, <2>2
  <2>. QED  BY <2>1, <2>2
<1>. HIDE DEF item
<1>5. buf' \in Seq(Byte) /\ Len(buf') = Len(buf)  BY <1>2, <1>3, <1>4
<1>6. \A i \in 1..Len(buf) : buf'[i] = item(i)  BY <1>3
<1>. QED  BY <1>5, <1>6 DEF item

-----------------------------------------------------------------------------
(* The actions.                                                            *)

LEMMA InitInv == Init => Inv
BY DEF Init, Inv, BufferOk, Idle, Fresh, NoView

LEMMA MarshalInv ==
    ASSUME Inv, NEW id \in Requests, MarshalFrame(Request(id))
    PROVE  Inv'
<1> DEFINE fs == Marshalled(Request(id))
<1>1. fs \subseteq Seq(Byte) /\ Request(id).kind \in {"command", "response"}
  BY ByteAssumption
<1>2. buf' = IF fs = {} THEN <<>> ELSE CHOOSE f \in fs : TRUE  BY DEF MarshalFrame
<1>3. view' = view /\ view = NoView /\ sent' = Request(id)  BY DEF MarshalFrame, Inv, Idle
<1>. HIDE DEF fs
<1>4. buf' \in Seq(Byte)  BY <1>1, <1>2
<1>5. Len(buf') \in Nat  BY <1>4
<1>6. Request(id) # NoRequest  BY <1>1 DEF NoRequest
<1>. QED  BY <1>3, <1>4, <1>5, <1>6 DEF Inv, BufferOk, Idle, Fresh, NoView

(* Without a view, any bytes will do.                                      *)
LEMMA NoViewInv ==
    ASSUME Inv, view = NoView, view' = view, sent' = sent, sent # NoRequest, buf' \in Seq(Byte)
    PROVE  Inv'
<1>1. Len(buf') \in Nat  OBVIOUS
<1>. QED  BY <1>1 DEF Inv, BufferOk, Idle, Fresh, NoView

LEMMA WayInv ==
    ASSUME Inv,
           \/ \E i \in Places : Cut(i - 1)
           \/ \E n \in {1, Len(buf)} : Follow(n)
           \/ \E i \in Places, b \in EditBytes : Alter(i, b)
    PROVE  Inv'
<1>0. buf \in Seq(Byte)  BY DEF Inv, BufferOk
<1>1. ASSUME NEW i \in Places, Cut(i - 1) PROVE Inv'
  <2>1. i \in 1..Len(buf)  BY <1>0 DEF Places
  <2>2. Take(buf, i - 1) \in Seq(Byte)  BY <1>0, <2>1, TakeProperties
  <2>. QED  BY <1>1, <2>2, NoViewInv DEF Cut, Edit, MayEdit
<1>2. ASSUME NEW n \in {1, Len(buf)}, Follow(n) PROVE Inv'
  <2>1. n \in 1..Len(buf)  BY <1>2 DEF Follow
  <2>2. Take(buf, n) \in Seq(Byte)  BY <1>0, <2>1, TakeProperties
  <2>3. buf \o Take(buf, n) \in Seq(Byte)  BY <1>0, <2>2
  <2>. QED  BY <1>2, <2>3, NoViewInv DEF Follow, Edit, MayEdit
<1>3. ASSUME NEW i \in Places, NEW b \in EditBytes, Alter(i, b) PROVE Inv'
  <2>1. b \in Byte  BY WireAssumption
  <2>2. [buf EXCEPT ![i] = b] \in Seq(Byte)
    <3> DEFINE item(j) == IF j = i THEN b ELSE buf[j]
    <3>1. DOMAIN buf = 1..Len(buf) /\ Len(buf) \in Nat  BY <1>0
    <3>2. [buf EXCEPT ![i] = b] = [j \in 1..Len(buf) |-> item(j)]  BY <3>1
    <3>3. \A j \in 1..Len(buf) : item(j) \in Byte  BY <1>0, <2>1, ItemsIn
    <3>. HIDE DEF item
    <3>4. [j \in 1..Len(buf) |-> item(j)] \in Seq(Byte)  BY <3>1, <3>3
    <3>. QED  BY <3>2, <3>4
  <2>. QED  BY <1>3, <2>2, NoViewInv DEF Alter, Edit, MayEdit
<1>. QED  BY <1>1, <1>2, <1>3

LEMMA CastInv ==
    ASSUME Inv, CastCommand \/ CastPrefixCommand \/ CastResponse \/ CastPrefixResponse
    PROVE  Inv'
<1>0. buf \in Seq(Byte) /\ Len(buf) \in Nat  BY DEF Inv, BufferOk
<1>1. buf' = buf /\ sent' = sent
  BY DEF CastCommand, CastPrefixCommand, CastResponse, CastPrefixResponse
<1>2. PICK kind \in {"command", "response"}, n \in Nat :
          /\ view' = View(kind, n) /\ HEADER_SIZE <= n /\ n <= Len(buf)
          /\ kind = "command" => CommandEnvelopeOk(Take(buf, n))
  <2>1. Take(buf, Len(buf)) = buf  BY <1>0, TakeProperties DEF Take
  <2>2. PrefixOk(buf) => SizeOf(buf) \in Nat
    <3>. SUFFICES ASSUME PrefixOk(buf) PROVE SizeOf(buf) \in Nat  OBVIOUS
    <3>1. Len(buf) >= 6  BY <1>0 DEF PrefixOk, HEADER_SIZE
    <3>2. SubSeq(buf, 3, 6) \in Seq(Byte) /\ Len(SubSeq(buf, 3, 6)) = 4
      BY <1>0, <3>1, SubSeqBytes
    <3>. QED  BY <3>2, NumberNat DEF SizeOf
  <2>3. CASE CastCommand
    BY <1>0, <2>1, <2>3 DEF CastCommand, CommandEnvelopeOk, FrameSizeOk, PrefixOk
  <2>4. CASE CastPrefixCommand  BY <1>0, <2>2, <2>4 DEF CastPrefixCommand, PrefixOk
  <2>5. CASE CastResponse
    BY <1>0, <2>5 DEF CastResponse, ResponseEnvelopeOk, FrameSizeOk, PrefixOk
  <2>6. CASE CastPrefixResponse  BY <1>0, <2>2, <2>6 DEF CastPrefixResponse, PrefixOk
  <2>. QED  BY <2>3, <2>4, <2>5, <2>6
<1>3. sent # NoRequest
  <2>. SUFFICES ASSUME sent = NoRequest PROVE FALSE  OBVIOUS
  <2>1. buf = <<>>  BY DEF Inv, Idle
  <2>. QED  BY <1>2, <2>1 DEF HEADER_SIZE
<1>4. BufferOk'  BY <1>0, <1>1, <1>2 DEF BufferOk, View
<1>5. Fresh'  BY <1>1, <1>2 DEF Fresh, View, Frame
<1>. QED  BY <1>1, <1>3, <1>4, <1>5 DEF Inv, Idle

LEMMA HeaderInv ==
    ASSUME Inv, NEW kind \in {"command", "response"}, NEW offset \in Nat, NEW s \in Seq(Byte),
           SetHeader(kind, offset, s)
    PROVE  Inv'
<1>0. buf \in Seq(Byte) /\ Overwrite(offset, s)  BY DEF Inv, BufferOk, SetHeader
<1>1. buf' \in Seq(Byte) /\ Len(buf') = Len(buf)  BY <1>0, OverwriteBytes
<1>2. sent' = sent /\ sent # NoRequest /\ view' = [view EXCEPT !.fresh = FALSE]
  BY DEF SetHeader, Edit, MayEdit
<1>3. BufferOk'  BY <1>1, <1>2 DEF Inv, BufferOk, SetHeader
<1>4. ~view'.fresh  BY <1>2 DEF Inv, BufferOk
<1>. QED  BY <1>2, <1>3, <1>4 DEF Inv, Idle, Fresh

LEMMA FrameBytes ==
    ASSUME Inv
    PROVE  /\ Frame \in Seq(Byte) /\ Len(Frame) = view.len
           /\ \A i \in 1..view.len : Frame[i] = buf[i]
           /\ buf \in Seq(Byte) /\ view.len \in Nat /\ view.len <= Len(buf)
<1>1. buf \in Seq(Byte) /\ view.len \in Nat /\ view.len <= Len(buf)  BY DEF Inv, BufferOk
<1>. QED  BY <1>1, TakeProperties DEF Frame

(* The byte that is written through an area is a byte of that area.        *)
LEMMA AreaPlace ==
    ASSUME Inv, NEW b \in EditBytes, WriteHandles(b) \/ WriteAuth(b) \/ WriteParameters(b)
    PROVE  /\ view.kind = "command" /\ view' = view /\ sent' = sent /\ sent # NoRequest
           /\ \E k \in Nat \ {0} :
                  /\ Overwrite(k - 1, <<b>>)
                  /\ k <= Len(Frame)
                  /\ \/ k \in HEADER_SIZE + 1..HandleEnd(Frame)
                     \/ k \in AuthStart(Frame)..AuthEnd(Frame)
                     \/ k \in AuthEnd(Frame) + 1..Len(Frame)
<1>0. Frame \in Seq(Byte) /\ Len(Frame) \in Nat  BY FrameBytes
<1>1. view.kind = "command" /\ view' = view /\ sent' = sent /\ sent # NoRequest
  BY DEF WriteHandles, WriteAuth, WriteParameters, WriteArea, Edit, MayEdit
<1>2. CASE WriteHandles(b)
  <2>1. HandleAreaOk(Frame)  BY <1>2 DEF WriteHandles, WriteArea
  <2>2. HandleEnd(Frame) \in Nat /\ HandleEnd(Frame) <= Len(Frame)
    BY <1>0, <2>1, HandleBounds DEF HandleAreaOk
  <2>3. PICK k \in HEADER_SIZE + 1..HandleEnd(Frame) : Overwrite(k - 1, <<b>>)
    BY <1>2 DEF WriteHandles, WriteArea
  <2>4. k \in Nat \ {0} /\ k <= Len(Frame)  BY <1>0, <2>2 DEF HEADER_SIZE
  <2>. QED  BY <1>1, <2>3, <2>4
<1>3. CASE WriteAuth(b) \/ WriteParameters(b)
  <2>1. RangesOk(Frame)  BY <1>3 DEF WriteAuth, WriteParameters, WriteArea
  <2>2. /\ AuthEnd(Frame) \in Nat /\ AuthStart(Frame) \in Nat
        /\ HandleEnd(Frame) < AuthStart(Frame) /\ AuthEnd(Frame) <= Len(Frame)
    BY <1>0, <2>1, AuthBounds
  <2>3. HandleEnd(Frame) \in Nat  BY <1>0, <2>1, HandleBounds DEF RangesOk, HandleAreaOk
  <2>4. \E k \in AuthStart(Frame)..AuthEnd(Frame) \union (AuthEnd(Frame) + 1..Len(Frame)) :
            Overwrite(k - 1, <<b>>)
    BY <1>3 DEF WriteAuth, WriteParameters, WriteArea
  <2>5. PICK k \in AuthStart(Frame)..AuthEnd(Frame) \union (AuthEnd(Frame) + 1..Len(Frame)) :
            Overwrite(k - 1, <<b>>)
    BY <2>4
  <2>6. k \in Nat \ {0} /\ k <= Len(Frame)  BY <1>0, <2>2, <2>3
  <2>. QED  BY <1>1, <2>5, <2>6
<1>. QED  BY <1>2, <1>3

(* What such a write leaves alone in a view that is fresh.                 *)
LEMMA AreaStep ==
    ASSUME Inv, view' = view, NEW b \in Byte, NEW k \in Nat \ {0}, Overwrite(k - 1, <<b>>),
           k <= Len(Frame)
    PROVE  /\ BufferOk'
           /\ Len(buf') = Len(buf)
           /\ Frame' \in Seq(Byte) /\ Len(Frame') = Len(Frame)
           /\ \A i \in 1..Len(buf) : i # k => buf'[i] = buf[i]
           /\ \A i \in 1..Len(Frame) : i # k => Frame'[i] = Frame[i]
<1>1. <<b>> \in Seq(Byte) /\ Len(<<b>>) = 1 /\ k - 1 \in Nat  OBVIOUS
<1>2. /\ buf' \in Seq(Byte) /\ Len(buf') = Len(buf)
      /\ \A i \in 1..Len(buf) : i \notin k - 1 + 1..k - 1 + Len(<<b>>) => buf'[i] = buf[i]
  BY <1>1, FrameBytes, OverwriteBytes
<1>3. \A i \in 1..Len(buf) : i # k => buf'[i] = buf[i]  BY <1>1, <1>2
<1>4. BufferOk'  BY <1>2 DEF Inv, BufferOk
<1>5. /\ Frame' \in Seq(Byte) /\ Len(Frame') = view.len
      /\ \A i \in 1..view.len : Frame'[i] = buf'[i]
  BY <1>2, FrameBytes, TakeProperties DEF Frame
<1>6. \A i \in 1..view.len : i \in 1..Len(buf) /\ Frame[i] = buf[i]  BY FrameBytes
<1>7. \A i \in 1..view.len : i # k => Frame'[i] = Frame[i]
  <2>. TAKE i \in 1..view.len
  <2>. HAVE i # k
  <2>. QED  BY <1>3, <1>5, <1>6, Zenon
<1>8. Len(Frame) = view.len  BY FrameBytes
<1>. QED  BY <1>2, <1>3, <1>4, <1>5, <1>7, <1>8, Zenon

LEMMA AreaInv ==
    ASSUME Inv, NEW b \in EditBytes, WriteHandles(b) \/ WriteAuth(b) \/ WriteParameters(b)
    PROVE  Inv'
<1>1. b \in Byte  BY WireAssumption
<1>2. view.kind = "command" /\ view' = view /\ sent' = sent /\ sent # NoRequest  BY AreaPlace
<1>3. PICK k \in Nat \ {0} :
          /\ Overwrite(k - 1, <<b>>)
          /\ k <= Len(Frame)
          /\ \/ k \in HEADER_SIZE + 1..HandleEnd(Frame)
             \/ k \in AuthStart(Frame)..AuthEnd(Frame)
             \/ k \in AuthEnd(Frame) + 1..Len(Frame)
  BY AreaPlace
<1>4. /\ BufferOk' /\ Frame' \in Seq(Byte) /\ Len(Frame') = Len(Frame)
      /\ \A i \in 1..Len(Frame) : i # k => Frame'[i] = Frame[i]
  BY <1>1, <1>2, <1>3, AreaStep
<1>5. view.fresh => CommandEnvelopeOk(Frame')
  <2>. SUFFICES ASSUME view.fresh PROVE CommandEnvelopeOk(Frame')  OBVIOUS
  <2>1. CommandEnvelopeOk(Frame)  BY <1>2 DEF Inv, Fresh
  <2>. QED  BY <1>3, <1>4, <2>1, FrameBytes, AreaByte
<1>6. Fresh'  BY <1>2, <1>5 DEF Fresh, Frame
<1>. QED  BY <1>2, <1>4, <1>6 DEF Inv, Idle

LEMMA NextInv == Inv /\ [Next]_vars => Inv'
<1>. SUFFICES ASSUME Inv, [Next]_vars PROVE Inv'  OBVIOUS
<1>1. CASE \E id \in Requests : MarshalFrame(Request(id))  BY <1>1, MarshalInv
<1>2. CASE Reuse  BY <1>2 DEF Reuse, Inv, BufferOk, Idle, Fresh, NoView
<1>3. CASE \/ \E i \in Places : Cut(i - 1)
           \/ \E n \in {1, Len(buf)} : Follow(n)
           \/ \E i \in Places, b \in EditBytes : Alter(i, b)
  BY <1>3, WayInv
<1>4. CASE CastCommand \/ CastPrefixCommand \/ CastResponse \/ CastPrefixResponse
  BY <1>4, CastInv
<1>5. CASE Release
  <2>1. view' = NoView /\ buf' = buf /\ sent' = sent  BY <1>5 DEF Release
  <2>2. Len(buf) \in Nat  BY DEF Inv, BufferOk
  <2>. QED  BY <2>1, <2>2 DEF Inv, BufferOk, Idle, Fresh, NoView
<1>6. ASSUME NEW kind \in {"command", "response"}, NEW tag \in {NoSessions, Sessions, NullTag},
             SetTag(kind, tag)
      PROVE  Inv'
  <2>1. 128 \in Byte /\ 0 \in Byte /\ 1 \in Byte /\ 2 \in Byte  BY SMT DEF Byte
  <2>2. tag \in Seq(Byte)
    <3>1. NoSessions \in Seq(Byte)  BY <2>1, SMT DEF NoSessions
    <3>2. Sessions \in Seq(Byte)  BY <2>1, SMT DEF Sessions
    <3>3. NullTag \in Seq(Byte)  BY <2>1, SMT DEF NullTag
    <3>. QED  BY <3>1, <3>2, <3>3
  <2>. QED  BY <1>6, <2>2, HeaderInv DEF SetTag
<1>7. ASSUME NEW cc \in NewCodes, SetCc(cc) PROVE Inv'
  <2>1. Be(4, cc) \in Seq(Byte) /\ 6 \in Nat  BY ByteAssumption
  <2>2. SetHeader("command", 6, Be(4, cc))  BY <1>7 DEF SetCc
  <2>. QED  BY <2>1, <2>2, HeaderInv, Zenon
<1>8. ASSUME NEW rc \in NewRcs, SetRc(rc) PROVE Inv'
  <2>1. rc_value(rc) \in Seq(Byte) /\ 6 \in Nat  BY ByteAssumption
  <2>2. SetHeader("response", 6, rc_value(rc))  BY <1>8 DEF SetRc
  <2>. QED  BY <2>1, <2>2, HeaderInv, Zenon
<1>9. CASE \E b \in EditBytes : WriteHandles(b) \/ WriteAuth(b) \/ WriteParameters(b)
  BY <1>9, AreaInv
<1>10. ASSUME NEW b \in EditBytes, WriteBody(b) \/ WriteBytes(b) PROVE Inv'
  <2>1. <<b>> \in Seq(Byte)  BY WireAssumption
  <2>2. view.len \in Nat /\ view.kind \in {"none", "command", "response"}  BY DEF Inv, BufferOk
  <2>3. view # NoView  BY <1>10 DEF WriteBody, WriteBytes, NoView
  <2>4. view.kind \in {"command", "response"}  BY <2>2, <2>3 DEF Inv, BufferOk
  <2>5. PICK offset \in Nat : SetHeader(view.kind, offset, <<b>>)
    BY <1>10, <2>2 DEF WriteBody, WriteBytes, HEADER_SIZE
  <2>. QED  BY <2>1, <2>4, <2>5, HeaderInv
<1>11. CASE UNCHANGED vars  BY <1>11 DEF vars, Inv, BufferOk, Idle, Fresh, Frame
<1>. QED  BY <1>1, <1>2, <1>3, <1>4, <1>5, <1>6, <1>7, <1>8, <1>9, <1>10, <1>11 DEF Next

(* The areas of a command view never reach past its frame, and a view that *)
(* was written to only through its areas still has all of them             *)
(* (handles, auth_area, parameters), for every command table, every        *)
(* request and every sequence of damages, casts and writes.                *)
THEOREM AreasAreInside == Spec => []AreasTile
<1>1. Inv => AreasTile
  <2>. SUFFICES ASSUME Inv, view.kind = "command" PROVE AreasTile  BY DEF AreasTile
  <2>1. Frame \in Seq(Byte) /\ Len(Frame) = view.len  BY FrameBytes
  <2>2. HandleAreaOk(Frame) => HandleEnd(Frame) <= view.len  BY <2>1 DEF HandleAreaOk
  <2>3. RangesOk(Frame) => /\ HandleEnd(Frame) < AuthStart(Frame)
                           /\ AuthStart(Frame) <= AuthEnd(Frame) + 1
                           /\ AuthEnd(Frame) <= view.len
    BY <2>1, AuthBounds
  <2>4. ASSUME view.fresh
        PROVE  /\ CommandEnvelopeOk(Frame)
               /\ RangesOk(Frame)
               /\ TagOf(Frame) = NoSessions => AuthArea(Frame) = <<>>
    <3>1. CommandEnvelopeOk(Frame)  BY <2>4 DEF Inv, Fresh
    <3>2. RangesOk(Frame)  BY <2>1, <3>1, EnvelopeRanges
    <3>3. ASSUME TagOf(Frame) = NoSessions PROVE AuthArea(Frame) = <<>>
      <4>1. TagOf(Frame) # Sessions
        <5>1. 1 # 2 /\ NoSessions[2] = 1 /\ Sessions[2] = 2  BY SMT DEF NoSessions, Sessions
        <5>. QED  BY <3>3, <5>1
      <4>2. HandleEnd(Frame) \in Nat  BY <2>1, <3>2, HandleBounds DEF RangesOk, HandleAreaOk
      <4>3. AuthStart(Frame) = HandleEnd(Frame) + 1 /\ AuthEnd(Frame) = HandleEnd(Frame)
        BY <4>1 DEF AuthStart, AuthEnd
      <4>. QED  BY <2>1, <4>2, <4>3 DEF AuthArea
    <3>. QED  BY <3>1, <3>2, <3>3
  <2>. QED  BY <2>2, <2>3, <2>4 DEF AreasTile
<1>. QED  BY <1>1, InitInv, NextInv, PTL DEF Spec

(* Only the area accessors change the bytes of a view and leave it fresh.  *)
LEMMA OnlyAreasWrite ==
    ASSUME Inv, Next, view.kind = "command", view.fresh, view' = view, buf' # buf
    PROVE  \E b \in EditBytes : WriteHandles(b) \/ WriteAuth(b) \/ WriteParameters(b)
<1>0. view # NoView /\ sent # NoRequest  BY DEF NoView, Inv, Idle
<1>1. \A kind, offset, s : ~SetHeader(kind, offset, s)
  <2>. SUFFICES ASSUME NEW kind, NEW offset, NEW s, SetHeader(kind, offset, s) PROVE FALSE
    OBVIOUS
  <2>1. view' = [view EXCEPT !.fresh = FALSE]  BY DEF SetHeader
  <2>. QED  BY <2>1 DEF Inv, BufferOk
<1>2. ~\E id \in Requests : MarshalFrame(Request(id))  BY <1>0 DEF MarshalFrame
<1>3. ~Reuse /\ ~Release  BY <1>0 DEF Reuse, Release
<1>4. /\ ~\E i \in Places : Cut(i - 1)
      /\ ~\E n \in {1, Len(buf)} : Follow(n)
      /\ ~\E i \in Places, b \in EditBytes : Alter(i, b)
  BY <1>0 DEF Cut, Follow, Alter
<1>5. ~(CastCommand \/ CastPrefixCommand \/ CastResponse \/ CastPrefixResponse)
  BY DEF CastCommand, CastPrefixCommand, CastResponse, CastPrefixResponse
<1>6. /\ ~\E kind \in {"command", "response"}, tag \in {NoSessions, Sessions, NullTag} :
              SetTag(kind, tag)
      /\ ~\E cc \in NewCodes : SetCc(cc)
      /\ ~\E rc \in NewRcs : SetRc(rc)
      /\ ~\E b \in EditBytes : WriteBody(b) \/ WriteBytes(b)
  BY <1>1, Zenon DEF SetTag, SetCc, SetRc, WriteBody, WriteBytes
<1>. QED  BY <1>2, <1>3, <1>4, <1>5, <1>6, Zenon DEF Next

(* An area that does not hold the byte that is written stays the same.     *)
LEMMA AreaSame ==
    ASSUME NEW f \in Seq(Byte), NEW g \in Seq(Byte), Len(g) = Len(f),
           NEW k \in Nat, \A i \in 1..Len(f) : i # k => g[i] = f[i]
    PROVE  \A m \in Nat \ {0}, n \in Nat :
               n <= Len(f) /\ k \notin m..n => SubSeq(g, m, n) = SubSeq(f, m, n)
<1>. TAKE m \in Nat \ {0}, n \in Nat
<1>. HAVE n <= Len(f) /\ k \notin m..n
<1>1. Len(f) \in Nat  OBVIOUS
<1>2. \A i \in m..n : g[i] = f[i]  BY <1>1
<1>. QED  BY <1>2, SubSeqSame

(* A write through the handles, the authorization area or the parameters   *)
(* of a command view (handles_mut, auth_area_mut, parameters_mut) leaves   *)
(* the header, the other areas, the bytes after the frame and the place of *)
(* every area alone, for every command table and every byte.               *)
THEOREM AreaWritesStayInside == Spec => AreaWritesStay
<1> DEFINE Kept ==
        view.kind = "command" /\ view.fresh /\ view' = view /\ buf' # buf =>
            /\ Take(buf', HEADER_SIZE) = Take(buf, HEADER_SIZE)
            /\ Drop(buf', view.len) = Drop(buf, view.len)
            /\ HandleEnd(Frame') = HandleEnd(Frame)
            /\ RangesOk(Frame) =>
                   /\ RangesOk(Frame')
                   /\ AuthStart(Frame') = AuthStart(Frame)
                   /\ AuthEnd(Frame') = AuthEnd(Frame)
                   /\ \/ AuthArea(Frame') = AuthArea(Frame) /\ ParamArea(Frame') = ParamArea(Frame)
                      \/ HandleArea(Frame') = HandleArea(Frame) /\ ParamArea(Frame') = ParamArea(Frame)
                      \/ HandleArea(Frame') = HandleArea(Frame) /\ AuthArea(Frame') = AuthArea(Frame)
<1>1. Inv /\ [Next]_vars => [Kept]_vars
  <2>. SUFFICES ASSUME Inv, Next, view.kind = "command", view.fresh, view' = view, buf' # buf
                PROVE  Kept
    OBVIOUS
  <2>1. PICK b \in EditBytes : WriteHandles(b) \/ WriteAuth(b) \/ WriteParameters(b)
    BY OnlyAreasWrite
  <2>2. b \in Byte  BY WireAssumption
  <2>3. PICK k \in Nat \ {0} :
            /\ Overwrite(k - 1, <<b>>)
            /\ k <= Len(Frame)
            /\ \/ k \in HEADER_SIZE + 1..HandleEnd(Frame)
               \/ k \in AuthStart(Frame)..AuthEnd(Frame)
               \/ k \in AuthEnd(Frame) + 1..Len(Frame)
    BY <2>1, AreaPlace
  <2>0. k \in Nat  OBVIOUS
  <2>4. /\ BufferOk' /\ Len(buf') = Len(buf) /\ Frame' \in Seq(Byte) /\ Len(Frame') = Len(Frame)
        /\ \A i \in 1..Len(buf) : i # k => buf'[i] = buf[i]
        /\ \A i \in 1..Len(Frame) : i # k => Frame'[i] = Frame[i]
    BY <2>2, <2>3, AreaStep
  <2>5. /\ Frame \in Seq(Byte) /\ Len(Frame) = view.len /\ buf \in Seq(Byte)
        /\ view.len \in Nat /\ view.len <= Len(buf) /\ Len(buf) \in Nat
    BY FrameBytes
  <2>6. buf' \in Seq(Byte)  BY <2>4 DEF BufferOk
  <2>7. CommandEnvelopeOk(Frame)  BY DEF Inv, Fresh
  <2>8. /\ CommandEnvelopeOk(Frame') /\ HandleEnd(Frame') = HandleEnd(Frame)
        /\ AuthStart(Frame') = AuthStart(Frame) /\ AuthEnd(Frame') = AuthEnd(Frame)
    BY <2>3, <2>4, <2>5, <2>7, AreaByte
  <2>9. RangesOk(Frame) /\ RangesOk(Frame') /\ Len(Frame) >= HEADER_SIZE
    BY <2>4, <2>5, <2>7, <2>8, EnvelopeRanges
  <2>10. /\ HandleEnd(Frame) \in Nat /\ HEADER_SIZE <= HandleEnd(Frame)
         /\ HandleEnd(Frame) <= Len(Frame)
    BY <2>5, <2>9, HandleBounds DEF RangesOk, HandleAreaOk
  <2>11. /\ AuthEnd(Frame) \in Nat /\ AuthStart(Frame) \in Nat
         /\ HandleEnd(Frame) < AuthStart(Frame)
         /\ AuthStart(Frame) <= AuthEnd(Frame) + 1
         /\ AuthEnd(Frame) <= Len(Frame)
    BY <2>5, <2>9, AuthBounds
  <2>12. k > HEADER_SIZE  BY <2>3, <2>10, <2>11 DEF HEADER_SIZE
  <2>a. \A m \in Nat \ {0}, n \in Nat :
            n <= Len(Frame) /\ k \notin m..n => SubSeq(Frame', m, n) = SubSeq(Frame, m, n)
    BY <2>0, <2>4, <2>5, AreaSame, Zenon
  <2>b. \A m \in Nat \ {0}, n \in Nat :
            n <= Len(buf) /\ k \notin m..n => SubSeq(buf', m, n) = SubSeq(buf, m, n)
    <3>1. \A f, g \in Seq(Byte) :
              Len(g) = Len(f) /\ (\A i \in 1..Len(f) : i # k => g[i] = f[i]) =>
                  \A m \in Nat \ {0}, n \in Nat :
                      n <= Len(f) /\ k \notin m..n => SubSeq(g, m, n) = SubSeq(f, m, n)
      BY <2>0, AreaSame, Zenon
    <3>2. buf \in Seq(Byte) /\ Len(buf') = Len(buf)  BY <2>4, <2>5
    <3>3. \A i \in 1..Len(buf) : i # k => buf'[i] = buf[i]  BY <2>4
    <3>. QED  BY <2>6, <3>1, <3>2, <3>3, Zenon
  <2>13. Take(buf', HEADER_SIZE) = Take(buf, HEADER_SIZE)
    <3>1. HEADER_SIZE \in Nat /\ HEADER_SIZE <= Len(buf) /\ k \notin 1..HEADER_SIZE
      BY <2>5, <2>9, <2>12 DEF HEADER_SIZE
    <3>2. 1 \in Nat \ {0}  OBVIOUS
    <3>. QED  BY <2>b, <3>1, <3>2, Zenon DEF Take
  <2>14. Drop(buf', view.len) = Drop(buf, view.len)
    <3>1. view.len + 1 \in Nat \ {0} /\ k \notin view.len + 1..Len(buf) /\ Len(buf) <= Len(buf)
      BY <2>3, <2>5
    <3>2. SubSeq(buf', view.len + 1, Len(buf)) = SubSeq(buf, view.len + 1, Len(buf))
      BY <2>5, <2>b, <3>1, Zenon
    <3>. QED  BY <2>4, <3>2, Zenon DEF Drop
  <2>15. k \notin HEADER_SIZE + 1..HandleEnd(Frame) => HandleArea(Frame') = HandleArea(Frame)
    <3>. SUFFICES ASSUME k \notin HEADER_SIZE + 1..HandleEnd(Frame)
                  PROVE  HandleArea(Frame') = HandleArea(Frame)
      OBVIOUS
    <3>1. HEADER_SIZE + 1 \in Nat \ {0}  BY DEF HEADER_SIZE
    <3>2. SubSeq(Frame', HEADER_SIZE + 1, HandleEnd(Frame))
              = SubSeq(Frame, HEADER_SIZE + 1, HandleEnd(Frame))
      BY <2>10, <2>a, <3>1, Zenon
    <3>. QED  BY <2>8, <3>2, Zenon DEF HandleArea
  <2>16. k \notin AuthStart(Frame)..AuthEnd(Frame) => AuthArea(Frame') = AuthArea(Frame)
    <3>. SUFFICES ASSUME k \notin AuthStart(Frame)..AuthEnd(Frame)
                  PROVE  AuthArea(Frame') = AuthArea(Frame)
      OBVIOUS
    <3>1. AuthStart(Frame) \in Nat \ {0}  BY <2>10, <2>11
    <3>2. SubSeq(Frame', AuthStart(Frame), AuthEnd(Frame))
              = SubSeq(Frame, AuthStart(Frame), AuthEnd(Frame))
      BY <2>11, <2>a, <3>1, Zenon
    <3>. QED  BY <2>8, <3>2, Zenon DEF AuthArea
  <2>17. k \notin AuthEnd(Frame) + 1..Len(Frame) => ParamArea(Frame') = ParamArea(Frame)
    <3>. SUFFICES ASSUME k \notin AuthEnd(Frame) + 1..Len(Frame)
                  PROVE  ParamArea(Frame') = ParamArea(Frame)
      OBVIOUS
    <3>1. AuthEnd(Frame) + 1 \in Nat \ {0} /\ Len(Frame) \in Nat /\ Len(Frame) <= Len(Frame)
      BY <2>5, <2>11
    <3>2. SubSeq(Frame', AuthEnd(Frame) + 1, Len(Frame))
              = SubSeq(Frame, AuthEnd(Frame) + 1, Len(Frame))
      BY <2>a, <3>1, Zenon
    <3>. QED  BY <2>4, <2>8, <3>2, Zenon DEF ParamArea
  <2>18. \/ k \notin AuthStart(Frame)..AuthEnd(Frame) /\ k \notin AuthEnd(Frame) + 1..Len(Frame)
         \/ k \notin HEADER_SIZE + 1..HandleEnd(Frame) /\ k \notin AuthEnd(Frame) + 1..Len(Frame)
         \/ k \notin HEADER_SIZE + 1..HandleEnd(Frame) /\ k \notin AuthStart(Frame)..AuthEnd(Frame)
    BY <2>3, <2>5, <2>10, <2>11 DEF HEADER_SIZE
  <2>. QED  BY <2>8, <2>9, <2>13, <2>14, <2>15, <2>16, <2>17, <2>18
<1>. QED  BY <1>1, InitInv, NextInv, PTL DEF Spec, AreaWritesStay

-----------------------------------------------------------------------------
(* Induction over the natural numbers, as the least element of a set.      *)
Below == {ss \in Nat \X Nat : ss[1] < ss[2]}

LEMMA Least == ASSUME NEW S \in SUBSET Nat, S # {} PROVE \E x \in S : \A y \in S : x <= y
<1>1. OpToRel(<, Nat) = Below  BY Zenon DEF OpToRel, Below
<1>2. IsWellFoundedOn(Below, Nat)  BY Zenon, <1>1, NatLessThanWellFounded
<1>3. \E x \in S : \A y \in S : ~(<<y, x>> \in Below)  BY Zenon, <1>2, WFMin
<1>4. \A x, y \in Nat : y < x => <<y, x>> \in Below  BY DEF Below
<1>5. \A x, y \in Nat : ~(y < x) => x <= y  OBVIOUS
<1>. QED  BY <1>3, <1>4, <1>5

(* A set of numbers that has 0 and, below n, the successor of each of its  *)
(* members has all numbers up to n.                                        *)
LEMMA UpTo ==
    ASSUME NEW n \in Nat, NEW T, 0 \in T,
           \A i \in 1..n : i - 1 \in T => i \in T
    PROVE  \A i \in 0..n : i \in T
<1>. DEFINE S == {i \in 0..n : i \notin T}
<1>. SUFFICES ASSUME S # {} PROVE FALSE  OBVIOUS
<1>1. S \in SUBSET Nat  OBVIOUS
<1>2. PICK x \in S : \A y \in S : x <= y  BY <1>1, Least
<1>3. x # 0 /\ x \in 1..n  OBVIOUS
<1>4. x - 1 \in 0..n /\ ~(x <= x - 1)  BY <1>3
<1>5. x - 1 \in T  BY <1>2, <1>4
<1>. QED  BY <1>3, <1>5

-----------------------------------------------------------------------------
(* Big-endian numbers.                                                     *)
LEMMA FunctionIsSeq ==
    ASSUME NEW n \in Nat, NEW f \in [1..n -> Byte]
    PROVE  f \in Seq(Byte)
OBVIOUS

LEMMA Word4Bytes ==
    ASSUME NEW n \in Nat
    PROVE  Be(4, n) \in Seq(Byte) /\ Len(Be(4, n)) = 4
<1> DEFINE item(i) == (n \div 256 ^ (4 - i)) % 256
<1>1. \A i \in 1..4 : item(i) \in Byte  BY SMT DEF Byte
<1>2. Be(4, n) = [i \in 1..4 |-> item(i)]  BY DEF Be
<1> HIDE DEF item
<1>3. Be(4, n) \in [1..4 -> Byte] /\ Len(Be(4, n)) = 4  BY <1>1, <1>2
<1>. QED  BY <1>3, FunctionIsSeq

LEMMA Word4 ==
    ASSUME NEW n \in Nat, n <= MAX_NUMBER
    PROVE  Number(Be(4, n)) = n
<1>0. n < 2147483648  BY SMT DEF MAX_NUMBER
<1>1. /\ Len(Be(4, n)) = 4
      /\ Be(4, n)[1] = (n \div 16777216) % 256
      /\ Be(4, n)[2] = (n \div 65536) % 256
      /\ Be(4, n)[3] = (n \div 256) % 256
      /\ Be(4, n)[4] = n % 256
  BY SMT DEF Be
<1>2. (n \div 16777216) % 256 < 128  BY <1>0, SMT
<1>3. 256 * (256 * (256 * ((n \div 16777216) % 256) + ((n \div 65536) % 256))
             + ((n \div 256) % 256)) + (n % 256) = n
  BY <1>0, SMT
<1>4. Number(Be(4, n)) = 256 * (256 * (256 * Be(4, n)[1] + Be(4, n)[2]) + Be(4, n)[3]) + Be(4, n)[4]
  <2>1. ~(Be(4, n)[1] > 127)  BY <1>1, <1>2, SMT
  <2>2. Len(Be(4, n)) # 1 /\ Len(Be(4, n)) # 2  BY <1>1
  <2>. QED  BY <2>1, <2>2, Zenon DEF Number
<1>. QED  BY <1>1, <1>3, <1>4, SMT

LEMMA Word2 ==
    ASSUME NEW n \in Nat, n < 65536
    PROVE  /\ Be(2, n) \in Seq(Byte) /\ Len(Be(2, n)) = 2
           /\ Number(Be(2, n)) = n
<1>1. /\ Len(Be(2, n)) = 2
      /\ Be(2, n)[1] = (n \div 256) % 256
      /\ Be(2, n)[2] = n % 256
  BY SMT DEF Be
<1>2. Be(2, n) \in Seq(Byte)
  <2> DEFINE item(i) == (n \div 256 ^ (2 - i)) % 256
  <2>1. \A i \in 1..2 : item(i) \in Byte  BY SMT DEF Byte
  <2>2. Be(2, n) = [i \in 1..2 |-> item(i)]  BY DEF Be
  <2> HIDE DEF item
  <2>3. Be(2, n) \in [1..2 -> Byte]  BY <2>1, <2>2
  <2>. QED  BY <2>3, FunctionIsSeq
<1>3. 256 * ((n \div 256) % 256) + (n % 256) = n  BY SMT
<1>4. Number(Be(2, n)) = n  BY <1>1, <1>3, SMT DEF Number
<1>. QED  BY <1>1, <1>2, <1>4

-----------------------------------------------------------------------------
(* Parts of joined byte strings.                                           *)
LEMMA JoinFacts ==
    ASSUME NEW a \in Seq(Byte), NEW b \in Seq(Byte)
    PROVE  /\ a \o b \in Seq(Byte)
           /\ Len(a \o b) = Len(a) + Len(b)
           /\ \A i \in 1..Len(a) : (a \o b)[i] = a[i]
           /\ \A i \in 1..Len(b) : (a \o b)[Len(a) + i] = b[i]
OBVIOUS

LEMMA JoinAssoc ==
    ASSUME NEW a \in Seq(Byte), NEW b \in Seq(Byte), NEW c \in Seq(Byte)
    PROVE  (a \o b) \o c = a \o (b \o c)
OBVIOUS

LEMMA JoinEmpty ==
    ASSUME NEW a \in Seq(Byte)
    PROVE  a \o <<>> = a /\ <<>> \o a = a /\ <<>> \in Seq(Byte)
OBVIOUS

LEMMA SeqSame ==
    ASSUME NEW a \in Seq(Byte), NEW b \in Seq(Byte), Len(a) = Len(b),
           \A i \in 1..Len(a) : a[i] = b[i]
    PROVE  a = b
OBVIOUS

LEMMA Slice ==
    ASSUME NEW a \in Seq(Byte), NEW b \in Seq(Byte), NEW c \in Seq(Byte)
    PROVE  SubSeq((a \o b) \o c, Len(a) + 1, Len(a) + Len(b)) = b
<1>. DEFINE s == (a \o b) \o c
            t == SubSeq(s, Len(a) + 1, Len(a) + Len(b))
<1>1. a \o b \in Seq(Byte) /\ Len(a \o b) = Len(a) + Len(b)  OBVIOUS
<1>2. s \in Seq(Byte) /\ Len(s) = Len(a) + Len(b) + Len(c)  BY <1>1
<1>3. \A i \in 1..Len(b) : s[Len(a) + i] = b[i]
  <2>. TAKE i \in 1..Len(b)
  <2>1. Len(a) + i \in 1..Len(a \o b)  BY <1>1
  <2>2. s[Len(a) + i] = (a \o b)[Len(a) + i]  BY <1>1, <2>1, JoinFacts
  <2>. QED  BY <2>2, JoinFacts
<1>4. Len(a) \in Nat /\ Len(b) \in Nat /\ Len(c) \in Nat  OBVIOUS
<1>. HIDE DEF s
<1>5. t \in Seq(Byte) /\ Len(t) = Len(b) /\ \A i \in 1..Len(b) : t[i] = s[Len(a) + i]
  BY <1>2, <1>4
<1>. HIDE DEF t
<1>6. t = b  BY <1>3, <1>4, <1>5, SeqSame
<1>. QED  BY <1>6 DEF s, t

LEMMA TakeDrop ==
    ASSUME NEW a \in Seq(Byte), NEW b \in Seq(Byte)
    PROVE  /\ Take(a \o b, Len(a)) = a
           /\ Drop(a \o b, Len(a)) = b
<1>1. SubSeq((<<>> \o a) \o b, Len(<<>>) + 1, Len(<<>>) + Len(a)) = a  BY Slice, JoinEmpty
<1>2. Len(<<>>) + 1 = 1 /\ Len(<<>>) + Len(a) = Len(a)  OBVIOUS
<1>3. Take(a \o b, Len(a)) = a  BY <1>1, <1>2, JoinEmpty DEF Take
<1>4. SubSeq((a \o b) \o <<>>, Len(a) + 1, Len(a) + Len(b)) = b  BY Slice, JoinEmpty
<1>5. a \o b \in Seq(Byte) /\ Len(a \o b) = Len(a) + Len(b)  OBVIOUS
<1>6. (a \o b) \o <<>> = a \o b  BY <1>5, JoinEmpty
<1>. QED  BY <1>3, <1>4, <1>5, <1>6 DEF Drop

-----------------------------------------------------------------------------
(* Joined parts.                                                           *)
JoinsOf(g, ss, n) == g = [i \in 0..n |-> IF i = 0 THEN <<>> ELSE g[i - 1] \o ss[i]]

LEMMA JoinsExtend ==
    ASSUME NEW ss, NEW n \in Nat, NEW g, JoinsOf(g, ss, n)
    PROVE  \E h : JoinsOf(h, ss, n + 1)
<1>. DEFINE val(i) == IF i = n + 1 THEN g[n] \o ss[n + 1] ELSE g[i]
            h == [i \in 0..n + 1 |-> val(i)]
            step(i) == IF i = 0 THEN <<>> ELSE h[i - 1] \o ss[i]
            old(i) == IF i = 0 THEN <<>> ELSE g[i - 1] \o ss[i]
<1>0. g = [i \in 0..n |-> old(i)]  BY Zenon DEF JoinsOf
<1>1. \A i \in 0..n : g[i] = old(i)
  <2>. HIDE DEF old
  <2>. QED  BY <1>0
<1>2. \A i \in 0..n : h[i] = g[i]
  <2>1. \A i \in 0..n : i \in 0..n + 1 /\ i # n + 1  BY SMT
  <2>. QED  BY <2>1, Zenon
<1>3. \A i \in 0..n + 1 : val(i) = step(i)
  <2>. TAKE i \in 0..n + 1
  <2>1. CASE i = n + 1
    <3>1. n + 1 # 0 /\ (n + 1) - 1 = n /\ n \in 0..n  BY SMT
    <3>. QED  BY <1>2, <2>1, <3>1, Zenon
  <2>2. CASE i # n + 1 /\ i # 0
    <3>1. i \in 0..n /\ i - 1 \in 0..n  BY <2>2, SMT
    <3>2. h[i - 1] = g[i - 1] /\ g[i] = old(i)  BY <1>1, <1>2, <3>1, Zenon
    <3>. HIDE DEF h
    <3>. QED  BY <2>2, <3>2, Zenon
  <2>3. CASE i # n + 1 /\ i = 0
    <3>1. i \in 0..n  BY <2>3, SMT
    <3>2. g[i] = old(i)  BY <1>1, <3>1, Zenon
    <3>. HIDE DEF h
    <3>. QED  BY <2>3, <3>2, Zenon
  <2>. QED  BY <2>1, <2>2, <2>3, Zenon
<1>4. h = [i \in 0..n + 1 |-> step(i)]
  <2>. HIDE DEF val, step
  <2>. QED  BY <1>3, Zenon
<1>. QED  BY <1>4, Zenon DEF JoinsOf

LEMMA JoinsExist == \A ss : \A n \in Nat : \E g : JoinsOf(g, ss, n)
<1>. SUFFICES ASSUME NEW ss, NEW n \in Nat PROVE \E g : JoinsOf(g, ss, n)  OBVIOUS
<1>. DEFINE T == {m \in Nat : \E g : JoinsOf(g, ss, m)}
<1>1. 0 \in T
  <2>1. JoinsOf([i \in 0..0 |-> <<>>], ss, 0)  BY DEF JoinsOf
  <2>. QED  BY <2>1
<1>2. \A i \in 1..n : i - 1 \in T => i \in T
  <2>. SUFFICES ASSUME NEW i \in 1..n, i - 1 \in T PROVE i \in T  OBVIOUS
  <2>1. i - 1 \in Nat /\ (i - 1) + 1 = i /\ i \in Nat  BY SMT
  <2>2. PICK g : JoinsOf(g, ss, i - 1)  OBVIOUS
  <2>3. \E h : JoinsOf(h, ss, (i - 1) + 1)  BY <2>1, <2>2, JoinsExtend, Zenon
  <2>. QED  BY <2>1, <2>3
<1>3. n \in 0..n  OBVIOUS
<1>. HIDE DEF T
<1>4. n \in T  BY <1>1, <1>2, <1>3, UpTo, Zenon
<1>. QED  BY <1>4 DEF T

LEMMA JoinsDef ==
    ASSUME NEW ss, Len(ss) \in Nat
    PROVE  /\ Joins(ss)[0] = <<>>
           /\ \A i \in 1..Len(ss) : Joins(ss)[i] = Joins(ss)[i - 1] \o ss[i]
<1>. DEFINE J == Joins(ss)
            n == Len(ss)
<1>1. J = CHOOSE g : g = [i \in 0..Len(ss) |-> IF i = 0 THEN <<>> ELSE g[i - 1] \o ss[i]]
  BY Zenon DEF Joins
<1>2. JoinsOf(J, ss, n)
  <2>1. \E g : JoinsOf(g, ss, n)  BY JoinsExist
  <2>. QED  BY <1>1, <2>1, Zenon DEF JoinsOf
<1>. HIDE DEF J, n
<1>. DEFINE step(i) == IF i = 0 THEN <<>> ELSE J[i - 1] \o ss[i]
<1>3. J = [i \in 0..n |-> step(i)]  BY <1>2, Zenon DEF JoinsOf
<1>4. \A i \in 0..n : J[i] = step(i)
  <2>. HIDE DEF step
  <2>. QED  BY <1>3, Zenon
<1>5. 0 \in 0..n /\ \A i \in 1..n : i \in 0..n /\ i # 0  BY SMT DEF n
<1>. QED  BY <1>4, <1>5, Zenon DEF J, n

LEMMA JoinsBytes ==
    ASSUME NEW ss \in Seq(Seq(Byte))
    PROVE  \A i \in 0..Len(ss) : Joins(ss)[i] \in Seq(Byte)
<1>. DEFINE n == Len(ss)
            T == {i \in 0..n : Joins(ss)[i] \in Seq(Byte)}
<1>1. n \in Nat /\ \A i \in 1..n : ss[i] \in Seq(Byte)  BY ItemsIn
<1>2. Joins(ss)[0] = <<>> /\ \A i \in 1..n : Joins(ss)[i] = Joins(ss)[i - 1] \o ss[i]
  BY <1>1, JoinsDef
<1>. HIDE DEF n
<1>3. 0 \in T
  <2>1. <<>> \in Seq(Byte) /\ 0 \in 0..n  BY <1>1
  <2>. QED  BY <1>2, <2>1
<1>4. \A i \in 1..n : i - 1 \in T => i \in T
  <2>. SUFFICES ASSUME NEW i \in 1..n, i - 1 \in T PROVE i \in T  OBVIOUS
  <2>1. i \in 0..n  BY <1>1
  <2>2. Joins(ss)[i - 1] \in Seq(Byte)  OBVIOUS
  <2>3. Joins(ss)[i - 1] \o ss[i] \in Seq(Byte)  BY <1>1, <2>2, JoinFacts, Zenon
  <2>. QED  BY <1>2, <2>1, <2>3
<1>. HIDE DEF T
<1>5. \A i \in 0..n : i \in T  BY <1>1, <1>3, <1>4, UpTo, Zenon
<1>. QED  BY <1>5, Zenon DEF T, n

LEMMA JoinsSplit ==
    ASSUME NEW ss \in Seq(Seq(Byte)), NEW i \in 0..Len(ss)
    PROVE  \E t \in Seq(Byte) : Joined(ss) = Joins(ss)[i] \o t
<1>. DEFINE n == Len(ss)
            J == Joins(ss)
            k == n - i
            T == {m \in 0..k : \E t \in Seq(Byte) : J[i + m] = J[i] \o t}
<1>1. n \in Nat /\ i \in Nat /\ k \in Nat /\ i <= n /\ i + k = n /\ \A j \in 1..n : ss[j] \in Seq(Byte)
  BY ItemsIn
<1>2. \A j \in 1..n : J[j] = J[j - 1] \o ss[j]  BY <1>1, JoinsDef
<1>3. \A j \in 0..n : J[j] \in Seq(Byte)  BY JoinsBytes
<1>. HIDE DEF n, J, k
<1>4. 0 \in T
  <2>1. i + 0 = i /\ i \in 0..n /\ 0 \in 0..k  BY <1>1
  <2>2. J[i + 0] = J[i] \o <<>> /\ <<>> \in Seq(Byte)  BY <1>3, <2>1, JoinEmpty
  <2>. QED  BY <2>1, <2>2
<1>5. \A m \in 1..k : m - 1 \in T => m \in T
  <2>. SUFFICES ASSUME NEW m \in 1..k, m - 1 \in T PROVE m \in T  OBVIOUS
  <2>1. m \in 0..k /\ i + m \in 1..n /\ (i + m) - 1 = i + (m - 1) /\ i \in 0..n  BY <1>1
  <2>2. PICK t \in Seq(Byte) : J[i + (m - 1)] = J[i] \o t  OBVIOUS
  <2>3. J[i + m] = (J[i] \o t) \o ss[i + m]  BY <1>2, <2>1, <2>2
  <2>4. ss[i + m] \in Seq(Byte) /\ J[i] \in Seq(Byte)  BY <1>1, <1>3, <2>1
  <2>5. J[i + m] = J[i] \o (t \o ss[i + m])  BY <2>3, <2>4, JoinAssoc, Zenon
  <2>6. t \o ss[i + m] \in Seq(Byte)  BY <2>4, JoinFacts, Zenon
  <2>. QED  BY <2>1, <2>5, <2>6
<1>. HIDE DEF T
<1>6. \A m \in 0..k : m \in T  BY <1>1, <1>4, <1>5, UpTo, Zenon
<1>7. k \in T  BY <1>1, <1>6
<1>. QED  BY <1>1, <1>7 DEF T, J, n, Joined

LEMMA JoinsPart ==
    ASSUME NEW ss \in Seq(Seq(Byte)), NEW i \in 1..Len(ss)
    PROVE  \E t \in Seq(Byte) : /\ Joined(ss) = (Joins(ss)[i - 1] \o ss[i]) \o t
                                /\ Joined(ss) = Joins(ss)[i] \o t
<1>1. Len(ss) \in Nat /\ i \in 0..Len(ss)  OBVIOUS
<1>2. Joins(ss)[i] = Joins(ss)[i - 1] \o ss[i]  BY <1>1, JoinsDef
<1>. QED  BY <1>1, <1>2, JoinsSplit

(* Handles, four bytes each.                                               *)
LEMMA HandleLengths ==
    ASSUME NEW hs \in Seq(Seq(Byte)), \A i \in 1..Len(hs) : Len(hs[i]) = 4
    PROVE  \A i \in 0..Len(hs) : Len(Joins(hs)[i]) = 4 * i
<1>. DEFINE n == Len(hs)
            J == Joins(hs)
            T == {i \in 0..n : Len(J[i]) = 4 * i}
<1>1. n \in Nat /\ \A i \in 1..n : hs[i] \in Seq(Byte)  BY ItemsIn
<1>2. J[0] = <<>> /\ \A i \in 1..n : J[i] = J[i - 1] \o hs[i]  BY <1>1, JoinsDef
<1>3. \A i \in 0..n : J[i] \in Seq(Byte)  BY JoinsBytes
<1>4. \A i \in 1..n : Len(hs[i]) = 4  OBVIOUS
<1>. HIDE DEF n, J
<1>5. 0 \in T  BY <1>1, <1>2
<1>6. \A i \in 1..n : i - 1 \in T => i \in T
  <2>. SUFFICES ASSUME NEW i \in 1..n, i - 1 \in T PROVE i \in T  OBVIOUS
  <2>1. i \in 0..n /\ i - 1 \in 0..n  BY <1>1
  <2>2. J[i - 1] \in Seq(Byte) /\ hs[i] \in Seq(Byte) /\ Len(J[i - 1]) = 4 * (i - 1)
    BY <1>1, <1>3, <2>1
  <2>3. Len(J[i]) = Len(J[i - 1]) + Len(hs[i])
    <3>1. Len(J[i - 1] \o hs[i]) = Len(J[i - 1]) + Len(hs[i])  BY <2>2, JoinFacts, Zenon
    <3>. QED  BY <1>2, <3>1
  <2>4. Len(hs[i]) = 4 /\ i \in Nat  BY <1>1, <1>4
  <2>5. Len(J[i]) = 4 * (i - 1) + 4  BY <2>2, <2>3, <2>4
  <2>6. Len(J[i]) = 4 * i  BY <2>4, <2>5, SMT
  <2>. QED  BY <2>1, <2>6
<1>. HIDE DEF T
<1>7. \A i \in 0..n : i \in T  BY <1>1, <1>5, <1>6, UpTo, Zenon
<1>. QED  BY <1>7, Zenon DEF T, n, J

LEMMA HandlesRead ==
    ASSUME NEW hs \in Seq(Seq(Byte)), \A i \in 1..Len(hs) : Len(hs[i]) = 4
    PROVE  /\ Joined(hs) \in Seq(Byte) /\ Len(Joined(hs)) = 4 * Len(hs)
           /\ HandlesIn(Joined(hs)) = hs
<1>. DEFINE n == Len(hs)
            s == Joined(hs)
<1>1. n \in Nat /\ n \in 0..n /\ hs = [i \in 1..n |-> hs[i]]  OBVIOUS
<1>2. s \in Seq(Byte) /\ Len(s) = 4 * n  BY <1>1, JoinsBytes, HandleLengths DEF Joined
<1>3. Len(s) \div 4 = n
  <2>1. \A m \in Nat : (4 * m) \div 4 = m  BY SMT
  <2>. QED  BY <1>1, <1>2, <2>1, Zenon
<1>4. \A i \in 1..n : SubSeq(s, 4 * i - 3, 4 * i) = hs[i]
  <2>. TAKE i \in 1..n
  <2>1. PICK t \in Seq(Byte) : s = (Joins(hs)[i - 1] \o hs[i]) \o t  BY JoinsPart
  <2>2. i - 1 \in 0..n  BY <1>1
  <2>3. Joins(hs)[i - 1] \in Seq(Byte) /\ hs[i] \in Seq(Byte)  BY <2>2, JoinsBytes, ItemsIn
  <2>4. Len(Joins(hs)[i - 1]) = 4 * (i - 1) /\ Len(hs[i]) = 4  BY <2>2, HandleLengths
  <2>5. Len(Joins(hs)[i - 1]) + 1 = 4 * i - 3 /\ Len(Joins(hs)[i - 1]) + Len(hs[i]) = 4 * i
    BY <2>4
  <2>6. SubSeq(s, Len(Joins(hs)[i - 1]) + 1, Len(Joins(hs)[i - 1]) + Len(hs[i])) = hs[i]
    <3>1. SubSeq((Joins(hs)[i - 1] \o hs[i]) \o t, Len(Joins(hs)[i - 1]) + 1,
                 Len(Joins(hs)[i - 1]) + Len(hs[i])) = hs[i]
      BY <2>3, Slice, Zenon
    <3>. QED  BY <2>1, <3>1, Zenon
  <2>. QED  BY <2>5, <2>6, Zenon
<1>. HIDE DEF s, n
<1>. DEFINE item(i) == SubSeq(s, 4 * i - 3, 4 * i)
<1>5. HandlesIn(s) = [i \in 1..n |-> item(i)]  BY <1>3 DEF HandlesIn
<1>6. \A i \in 1..n : item(i) = hs[i]  BY <1>4
<1>. HIDE DEF item
<1>7. HandlesIn(s) = hs  BY <1>1, <1>5, <1>6
<1>. QED  BY <1>2, <1>7 DEF s, n

-----------------------------------------------------------------------------
(* Authorization areas.                                                    *)
LEMMA BytesAreWellFormed == ASSUME NEW s \in Seq(Byte) PROVE s # Malformed
<1>. SUFFICES ASSUME s = Malformed PROVE FALSE  OBVIOUS
<1>1. Len(s) = 1 /\ s[1] = -1  BY DEF Malformed
<1>2. s[1] \in Byte  BY <1>1, ItemsIn
<1>. QED  BY <1>1, <1>2 DEF Byte

LEMMA SkipsBytes ==
    ASSUME NEW a \in Seq(Byte), NEW b \in Seq(Byte)
    PROVE  SkipBytes(a \o b, Len(a)) = b
<1>1. a \o b \in Seq(Byte) /\ Len(a \o b) = Len(a) + Len(b)  BY JoinFacts
<1>2. a \o b # Malformed  BY <1>1, BytesAreWellFormed
<1>3. ~(Len(a \o b) < Len(a))  BY <1>1
<1>4. Drop(a \o b, Len(a)) = b  BY TakeDrop, Zenon
<1>. QED  BY <1>2, <1>3, <1>4, Zenon DEF SkipBytes

LEMMA Sized2bBytes ==
    ASSUME NEW x \in Seq(Byte), Fits2b(x)
    PROVE  Sized2b(x) \in Seq(Byte) /\ Len(Sized2b(x)) = 2 + Len(x)
<1>1. Len(x) \in Nat  OBVIOUS
<1>2. Be(2, Len(x)) \in Seq(Byte) /\ Len(Be(2, Len(x))) = 2  BY <1>1, Word2 DEF Fits2b
<1>3. /\ Be(2, Len(x)) \o x \in Seq(Byte)
      /\ Len(Be(2, Len(x)) \o x) = Len(Be(2, Len(x))) + Len(x)
  BY <1>2, JoinFacts, Zenon
<1>. QED  BY <1>2, <1>3 DEF Sized2b

LEMMA SkipsTpm2b ==
    ASSUME NEW x \in Seq(Byte), Fits2b(x), NEW b \in Seq(Byte)
    PROVE  skip_tpm2b(Sized2b(x) \o b) = b
<1>. DEFINE n == Be(2, Len(x))
            s == Sized2b(x) \o b
<1>1. Len(x) \in Nat /\ Len(b) \in Nat  OBVIOUS
<1>2. n \in Seq(Byte) /\ Len(n) = 2 /\ Number(n) = Len(x)  BY <1>1, Word2 DEF Fits2b
<1>3. Sized2b(x) \in Seq(Byte) /\ Len(Sized2b(x)) = 2 + Len(x)  BY Sized2bBytes
<1>4. s \in Seq(Byte) /\ Len(s) = 2 + Len(x) + Len(b)  BY <1>3, JoinFacts
<1>5. Take(s, 2) = n
  <2>. HIDE DEF n
  <2>1. s = n \o (x \o b)  BY <1>2, JoinAssoc, Zenon DEF Sized2b, n
  <2>2. x \o b \in Seq(Byte)  BY JoinFacts, Zenon
  <2>3. Take(n \o (x \o b), Len(n)) = n  BY <1>2, <2>2, TakeDrop, Zenon
  <2>. HIDE DEF s
  <2>. QED  BY <1>2, <2>1, <2>3, Zenon
<1>6. Drop(s, 2 + Len(x)) = b
  <2>1. Drop(Sized2b(x) \o b, Len(Sized2b(x))) = b  BY <1>3, TakeDrop, Zenon
  <2>. QED  BY <1>3, <2>1
<1>7. s # Malformed  BY <1>4, BytesAreWellFormed
<1>. HIDE DEF s, n
<1>8. ~(Len(s) < 2) /\ ~(Len(s) - 2 < Number(Take(s, 2)))  BY <1>1, <1>2, <1>4, <1>5
<1>9. skip_tpm2b(s) = Drop(s, 2 + Number(Take(s, 2)))  BY <1>7, <1>8, Zenon DEF skip_tpm2b
<1>10. skip_tpm2b(s) = b  BY <1>2, <1>5, <1>6, <1>9, Zenon
<1>. QED  BY <1>10 DEF s

(* Five parts, with the join as an opaque operation.                       *)
Str == Seq(Byte)
Cat(a, b) == a \o b

LEMMA CatIn == \A a, b \in Str : Cat(a, b) \in Str
BY DEF Cat, Str

LEMMA CatAssoc == \A a, b, c \in Str : Cat(Cat(a, b), c) = Cat(a, Cat(b, c))
BY DEF Cat, Str

LEMMA CatAssoc5 ==
    ASSUME NEW a \in Str, NEW b \in Str, NEW c \in Str, NEW d \in Str, NEW e \in Str
    PROVE  Cat(Cat(Cat(Cat(a, b), c), d), e) = Cat(a, Cat(b, Cat(c, Cat(d, e))))
<1>1. /\ Cat(a, b) \in Str /\ Cat(Cat(a, b), c) \in Str
      /\ Cat(d, e) \in Str /\ Cat(c, Cat(d, e)) \in Str
  BY CatIn
<1>2. Cat(Cat(Cat(Cat(a, b), c), d), e) = Cat(Cat(Cat(a, b), c), Cat(d, e))  BY <1>1, CatAssoc
<1>3. @ = Cat(Cat(a, b), Cat(c, Cat(d, e)))  BY <1>1, CatAssoc
<1>4. @ = Cat(a, Cat(b, Cat(c, Cat(d, e))))  BY <1>1, CatAssoc
<1>. QED  BY <1>2, <1>3, <1>4

(* One session, and what is left after it.                                 *)
SessionBytes(h, x, b, y) == ((h \o Sized2b(x)) \o <<b>>) \o Sized2b(y)

LEMMA SkipsFields ==
    ASSUME NEW h \in Seq(Byte), NEW x \in Seq(Byte), Fits2b(x),
           NEW b \in Byte, NEW y \in Seq(Byte), Fits2b(y), NEW t \in Seq(Byte)
    PROVE  /\ SessionBytes(h, x, b, y) \in Seq(Byte)
           /\ SessionBytes(h, x, b, y) # <<>>
           /\ SkipSession(SessionBytes(h, x, b, y) \o t, Len(h)) = t
<1>. DEFINE X == Sized2b(x)
            A == <<b>>
            Y == Sized2b(y)
<1>1. X \in Seq(Byte) /\ Y \in Seq(Byte) /\ Len(Y) = 2 + Len(y)  BY Sized2bBytes
<1>2. A \in Seq(Byte) /\ Len(A) = 1  OBVIOUS
<1>0. skip_tpm2b(Y \o t) = t  BY SkipsTpm2b
<1>. HIDE DEF A, Y
<1>3. /\ h \o X \in Seq(Byte) /\ Y \o t \in Seq(Byte)
      /\ (h \o X) \o A \in Seq(Byte) /\ A \o (Y \o t) \in Seq(Byte)
      /\ X \o (A \o (Y \o t)) \in Seq(Byte)
      /\ ((h \o X) \o A) \o Y \in Seq(Byte)
  <2>. HIDE DEF X
  <2>1. h \o X \in Seq(Byte) /\ Y \o t \in Seq(Byte)  BY <1>1, JoinFacts, Zenon
  <2>2. (h \o X) \o A \in Seq(Byte) /\ A \o (Y \o t) \in Seq(Byte)  BY <1>2, <2>1, JoinFacts, Zenon
  <2>3. X \o (A \o (Y \o t)) \in Seq(Byte)  BY <1>1, <2>2, JoinFacts, Zenon
  <2>4. ((h \o X) \o A) \o Y \in Seq(Byte)  BY <1>1, <2>2, JoinFacts, Zenon
  <2>. QED  BY <2>1, <2>2, <2>3, <2>4
<1>4. (((h \o X) \o A) \o Y) \o t = h \o (X \o (A \o (Y \o t)))
  <2>. HIDE DEF X
  <2>1. h \in Str /\ X \in Str /\ A \in Str /\ Y \in Str /\ t \in Str  BY <1>1, <1>2 DEF Str
  <2>2. Cat(Cat(Cat(Cat(h, X), A), Y), t) = Cat(h, Cat(X, Cat(A, Cat(Y, t))))  BY <2>1, CatAssoc5
  <2>. QED  BY <2>2, Zenon DEF Cat
<1>5. SkipBytes(h \o (X \o (A \o (Y \o t))), Len(h)) = X \o (A \o (Y \o t))
  <2>. HIDE DEF X
  <2>. QED  BY <1>3, SkipsBytes, Zenon
<1>6. skip_tpm2b(X \o (A \o (Y \o t))) = A \o (Y \o t)  BY <1>3, SkipsTpm2b, Zenon
<1>7. SkipBytes(A \o (Y \o t), 1) = Y \o t
  <2>1. SkipBytes(A \o (Y \o t), Len(A)) = Y \o t  BY <1>2, <1>3, SkipsBytes, Zenon
  <2>. QED  BY <1>2, <2>1, Zenon
<1>8. SkipSession((((h \o X) \o A) \o Y) \o t, Len(h)) = t
  <2>. HIDE DEF X
  <2>. QED  BY <1>0, <1>4, <1>5, <1>6, <1>7, Zenon DEF SkipSession
<1>9. ((h \o X) \o A) \o Y # <<>>
  <2>1. Len(((h \o X) \o A) \o Y) = Len((h \o X) \o A) + Len(Y)  BY <1>1, <1>3, JoinFacts, Zenon
  <2>2. Len((h \o X) \o A) \in Nat /\ Len(y) \in Nat  BY <1>3
  <2>3. Len(((h \o X) \o A) \o Y) # 0  BY <1>1, <2>1, <2>2
  <2>. QED  BY <2>3
<1>. QED  BY <1>3, <1>8, <1>9, Zenon DEF X, A, Y, SessionBytes

(* The authorization area as the parts it is joined from.                  *)
AuthParts(r) ==
    [i \in DOMAIN r.sessions |->
        IF r.kind = "command" THEN AuthCommand(r.sessions[i]) ELSE AuthResponse(r.sessions[i])]

SessionSize(kind) == IF kind = "command" THEN 4 ELSE 0

LEMMA PartSkips ==
    ASSUME NEW r, r.kind \in {"command", "response"}, SessionsOk(r.sessions),
           NEW i \in 1..Len(r.sessions), NEW t \in Seq(Byte)
    PROVE  /\ AuthParts(r)[i] \in Seq(Byte)
           /\ AuthParts(r)[i] # <<>>
           /\ SkipSession(AuthParts(r)[i] \o t, SessionSize(r.kind)) = t
<1>. DEFINE s == r.sessions[i]
            h == IF r.kind = "command" THEN s.handle ELSE <<>>
            p == SessionBytes(h, s.nonce, s.attributes, s.hmac)
<1>0. r.sessions \in Seq(AuthSession)  BY DEF SessionsOk
<1>1. s \in AuthSession /\ i \in DOMAIN r.sessions  BY <1>0
<1>2. /\ s.handle \in Seq(Byte) /\ s.nonce \in Seq(Byte) /\ s.hmac \in Seq(Byte)
      /\ s.attributes \in Byte
  BY <1>1 DEF AuthSession
<1>3. Len(s.handle) = 4 /\ Fits2b(s.nonce) /\ Fits2b(s.hmac)  BY DEF SessionsOk
<1>4. h \in Seq(Byte) /\ Len(h) = SessionSize(r.kind)
  <2>1. CASE r.kind = "command"  BY <1>2, <1>3, <2>1, Zenon DEF SessionSize
  <2>2. CASE r.kind # "command"
    <3>1. <<>> \in Seq(Byte) /\ Len(<<>>) = 0  OBVIOUS
    <3>2. h = <<>> /\ SessionSize(r.kind) = 0  BY <2>2, Zenon DEF SessionSize
    <3>. HIDE DEF h
    <3>. QED  BY <3>1, <3>2
  <2>. QED  BY <2>1, <2>2
<1>5. AuthParts(r)[i] = p
  <2>1. AuthParts(r)[i] = IF r.kind = "command" THEN AuthCommand(s) ELSE AuthResponse(s)
    BY <1>1 DEF AuthParts
  <2>2. CASE r.kind = "command"  BY <2>1, <2>2, Zenon DEF AuthCommand, SessionBytes
  <2>3. CASE r.kind # "command"
    <3>1. Sized2b(s.nonce) \in Seq(Byte)  BY <1>2, <1>3, Sized2bBytes
    <3>2. <<>> \o Sized2b(s.nonce) = Sized2b(s.nonce)  BY <3>1, JoinEmpty, Zenon
    <3>. QED  BY <2>1, <2>3, <3>2, Zenon DEF AuthResponse, SessionBytes
  <2>. QED  BY <2>2, <2>3
<1>. HIDE DEF h, s
<1>6. p \in Seq(Byte) /\ p # <<>> /\ SkipSession(p \o t, Len(h)) = t
  <2>. DEFINE x == s.nonce
              b == s.attributes
              y == s.hmac
  <2>1. x \in Seq(Byte) /\ b \in Byte /\ y \in Seq(Byte) /\ Fits2b(x) /\ Fits2b(y)
    BY <1>2, <1>3
  <2>2. p = SessionBytes(h, x, b, y)  OBVIOUS
  <2>. HIDE DEF x, b, y, p
  <2>. QED  BY <1>4, <2>1, <2>2, SkipsFields
<1>. HIDE DEF p
<1>. QED  BY <1>4, <1>5, <1>6, Zenon

(* The area after each session, as a function.                             *)
AfterOne(s, handleSize) == IF s = <<>> THEN <<>> ELSE SkipSession(s, handleSize)
AfterOf(g, s, z, n) == g = [i \in 0..n |-> IF i = 0 THEN s ELSE AfterOne(g[i - 1], z)]

LEMMA AfterExtend ==
    ASSUME NEW s, NEW z, NEW n \in Nat, NEW g, AfterOf(g, s, z, n)
    PROVE  \E h : AfterOf(h, s, z, n + 1)
<1>. DEFINE val(i) == IF i = n + 1 THEN AfterOne(g[n], z) ELSE g[i]
            h == [i \in 0..n + 1 |-> val(i)]
            step(i) == IF i = 0 THEN s ELSE AfterOne(h[i - 1], z)
            old(i) == IF i = 0 THEN s ELSE AfterOne(g[i - 1], z)
<1>0. g = [i \in 0..n |-> old(i)]  BY Zenon DEF AfterOf
<1>1. \A i \in 0..n : g[i] = old(i)
  <2>. HIDE DEF old
  <2>. QED  BY <1>0
<1>2. \A i \in 0..n : h[i] = g[i]
  <2>1. \A i \in 0..n : i \in 0..n + 1 /\ i # n + 1  BY SMT
  <2>. QED  BY <2>1, Zenon
<1>3. \A i \in 0..n + 1 : val(i) = step(i)
  <2>. TAKE i \in 0..n + 1
  <2>1. CASE i = n + 1
    <3>1. n + 1 # 0 /\ (n + 1) - 1 = n /\ n \in 0..n  BY SMT
    <3>. QED  BY <1>2, <2>1, <3>1, Zenon
  <2>2. CASE i # n + 1 /\ i # 0
    <3>1. i \in 0..n /\ i - 1 \in 0..n  BY <2>2, SMT
    <3>2. h[i - 1] = g[i - 1] /\ g[i] = old(i)  BY <1>1, <1>2, <3>1, Zenon
    <3>. HIDE DEF h
    <3>. QED  BY <2>2, <3>2, Zenon
  <2>3. CASE i # n + 1 /\ i = 0
    <3>1. i \in 0..n  BY <2>3, SMT
    <3>2. g[i] = old(i)  BY <1>1, <3>1, Zenon
    <3>. HIDE DEF h
    <3>. QED  BY <2>3, <3>2, Zenon
  <2>. QED  BY <2>1, <2>2, <2>3, Zenon
<1>4. h = [i \in 0..n + 1 |-> step(i)]
  <2>. HIDE DEF val, step
  <2>. QED  BY <1>3, Zenon
<1>. QED  BY <1>4, Zenon DEF AfterOf

LEMMA AfterExist == \A s, z : \A n \in Nat : \E g : AfterOf(g, s, z, n)
<1>. SUFFICES ASSUME NEW s, NEW z, NEW n \in Nat PROVE \E g : AfterOf(g, s, z, n)  OBVIOUS
<1>. DEFINE T == {m \in Nat : \E g : AfterOf(g, s, z, m)}
<1>1. 0 \in T
  <2>1. AfterOf([i \in 0..0 |-> s], s, z, 0)  BY DEF AfterOf
  <2>. QED  BY <2>1
<1>2. \A i \in 1..n : i - 1 \in T => i \in T
  <2>. SUFFICES ASSUME NEW i \in 1..n, i - 1 \in T PROVE i \in T  OBVIOUS
  <2>1. i - 1 \in Nat /\ (i - 1) + 1 = i /\ i \in Nat  BY SMT
  <2>2. PICK g : AfterOf(g, s, z, i - 1)  OBVIOUS
  <2>3. \E h : AfterOf(h, s, z, (i - 1) + 1)  BY <2>1, <2>2, AfterExtend, Zenon
  <2>. QED  BY <2>1, <2>3
<1>3. n \in 0..n  OBVIOUS
<1>. HIDE DEF T
<1>4. n \in T  BY <1>1, <1>2, <1>3, UpTo, Zenon
<1>. QED  BY <1>4 DEF T

LEMMA AfterDef ==
    ASSUME NEW s, NEW z
    PROVE  /\ AfterSessions(s, z)[0] = s
           /\ \A i \in 1..MAX_SESSIONS :
                  AfterSessions(s, z)[i] = AfterOne(AfterSessions(s, z)[i - 1], z)
<1>. DEFINE J == AfterSessions(s, z)
            n == MAX_SESSIONS
<1>0. n \in Nat  BY DEF MAX_SESSIONS
<1>1. J = CHOOSE g : g = [i \in 0..n |-> IF i = 0 THEN s
                                         ELSE IF g[i - 1] = <<>> THEN <<>>
                                         ELSE SkipSession(g[i - 1], z)]
  BY Zenon DEF AfterSessions
<1>2. AfterOf(J, s, z, n)
  <2>1. \E g : AfterOf(g, s, z, n)  BY <1>0, AfterExist
  <2>. HIDE DEF n
  <2>. QED  BY <1>1, <2>1, Zenon DEF AfterOf, AfterOne
<1>. HIDE DEF J, n
<1>. DEFINE step(i) == IF i = 0 THEN s ELSE AfterOne(J[i - 1], z)
<1>3. J = [i \in 0..n |-> step(i)]  BY <1>2, Zenon DEF AfterOf
<1>4. \A i \in 0..n : J[i] = step(i)
  <2>. HIDE DEF step
  <2>. QED  BY <1>3, Zenon
<1>5. 0 \in 0..n /\ \A i \in 1..n : i \in 0..n /\ i # 0  BY <1>0, SMT
<1>. QED  BY <1>4, <1>5, Zenon DEF J, n

(* An area of at most MAX_SESSIONS sessions is validated.                  *)
LEMMA PartsInSeq ==
    ASSUME NEW r, r.kind \in {"command", "response"}, SessionsOk(r.sessions)
    PROVE  /\ AuthParts(r) \in Seq(Seq(Byte))
           /\ Len(AuthParts(r)) = Len(r.sessions)
           /\ AuthBytes(r) = Joined(AuthParts(r))
           /\ AuthBytes(r) \in Seq(Byte)
<1>. DEFINE n == Len(r.sessions)
            part(i) == IF r.kind = "command" THEN AuthCommand(r.sessions[i])
                       ELSE AuthResponse(r.sessions[i])
<1>1. DOMAIN r.sessions = 1..n /\ n \in Nat  BY DEF SessionsOk
<1>2. AuthParts(r) = [i \in 1..n |-> part(i)]  BY <1>1, Zenon DEF AuthParts
<1>3. \A i \in 1..n : AuthParts(r)[i] \in Seq(Byte)
  <2>. SUFFICES ASSUME NEW i \in 1..n, NEW t \in Seq(Byte) PROVE AuthParts(r)[i] \in Seq(Byte)
    <3>1. <<>> \in Seq(Byte)  OBVIOUS
    <3>. QED  BY <3>1
  <2>. QED  BY PartSkips
<1>. HIDE DEF n, part
<1>4. AuthParts(r) \in Seq(Seq(Byte)) /\ Len(AuthParts(r)) = n  BY <1>1, <1>2, <1>3
<1>5. AuthBytes(r) = Joined(AuthParts(r))  BY Zenon DEF AuthBytes, AuthParts
<1>6. Joined(AuthParts(r)) \in Seq(Byte)
  <2>1. n \in 0..n  BY <1>1
  <2>. QED  BY <1>4, <2>1, JoinsBytes DEF Joined
<1>. QED  BY <1>4, <1>5, <1>6 DEF n

LEMMA AreaIsValid ==
    ASSUME NEW r, r.kind \in {"command", "response"}, SessionsOk(r.sessions),
           Len(r.sessions) <= MAX_SESSIONS
    PROVE  validate_auth(AuthBytes(r), SessionSize(r.kind))
<1>. DEFINE n == Len(r.sessions)
            ss == AuthParts(r)
            s == AuthBytes(r)
            z == SessionSize(r.kind)
            A == AfterSessions(s, z)
            Left(i) == \A t \in Seq(Byte) : s = Joins(ss)[i] \o t => A[i] = t
            T == {i \in 0..n : Left(i)}
            U == {i \in 0..MAX_SESSIONS - n : A[n + i] = <<>>}
<1>0. n \in Nat /\ MAX_SESSIONS \in Nat /\ MAX_SESSIONS - n \in Nat /\ n + (MAX_SESSIONS - n) = MAX_SESSIONS
  BY DEF SessionsOk, MAX_SESSIONS
<1>1. ss \in Seq(Seq(Byte)) /\ Len(ss) = n /\ s = Joined(ss) /\ s \in Seq(Byte)  BY PartsInSeq
<1>2. A[0] = s /\ \A i \in 1..MAX_SESSIONS : A[i] = AfterOne(A[i - 1], z)  BY AfterDef
<1>3. Joins(ss)[0] = <<>> /\ \A i \in 1..n : Joins(ss)[i] = Joins(ss)[i - 1] \o ss[i]
  BY <1>0, <1>1, JoinsDef
<1>4. \A i \in 0..n : Joins(ss)[i] \in Seq(Byte)  BY <1>1, JoinsBytes
<1>5. \A i \in 1..n : /\ ss[i] \in Seq(Byte) /\ ss[i] # <<>>
                      /\ \A t \in Seq(Byte) : SkipSession(ss[i] \o t, z) = t
  <2>. SUFFICES ASSUME NEW i \in 1..n, NEW t \in Seq(Byte)
                PROVE  ss[i] \in Seq(Byte) /\ ss[i] # <<>> /\ SkipSession(ss[i] \o t, z) = t
    <3>1. <<>> \in Seq(Byte)  OBVIOUS
    <3>. QED  BY <3>1
  <2>. QED  BY PartSkips
<1>. HIDE DEF n, ss, s, z, A
<1>7. 0 \in T
  <2>1. ASSUME NEW t \in Seq(Byte), s = Joins(ss)[0] \o t PROVE A[0] = t
    <3>1. <<>> \o t = t  BY JoinEmpty, Zenon
    <3>. QED  BY <1>2, <1>3, <2>1, <3>1, Zenon
  <2>. QED  BY <1>0, <2>1
<1>8. \A i \in 1..n : i - 1 \in T => i \in T
  <2>. SUFFICES ASSUME NEW i \in 1..n, i - 1 \in T PROVE Left(i)
    <3>. HIDE DEF Left
    <3>. QED  BY <1>0
  <2>. SUFFICES ASSUME NEW t \in Seq(Byte), s = Joins(ss)[i] \o t PROVE A[i] = t  OBVIOUS
  <2>. DEFINE a == Joins(ss)[i - 1]
              b == ss[i]
  <2>0. i - 1 \in 0..n /\ i \in 1..MAX_SESSIONS  BY <1>0
  <2>1. a \in Seq(Byte) /\ b \in Seq(Byte) /\ b # <<>> /\ SkipSession(b \o t, z) = t
    BY <1>4, <1>5, <2>0
  <2>2. s = (a \o b) \o t  BY <1>3
  <2>3. s = a \o (b \o t)
    <3>1. (a \o b) \o t = a \o (b \o t)  BY <2>1, JoinAssoc, Zenon
    <3>. QED  BY <2>2, <3>1, Zenon
  <2>4. b \o t \in Seq(Byte) /\ b \o t # <<>>
    <3>1. b \o t \in Seq(Byte) /\ Len(b \o t) = Len(b) + Len(t)  BY <2>1, JoinFacts, Zenon
    <3>2. Len(b) \in Nat /\ Len(b) # 0 /\ Len(t) \in Nat  BY <2>1
    <3>3. Len(b \o t) # 0  BY <3>1, <3>2
    <3>. QED  BY <3>1, <3>3
  <2>5. A[i - 1] = b \o t  BY <2>3, <2>4, Zenon
  <2>6. A[i] = AfterOne(b \o t, z)  BY <1>2, <2>0, <2>5, Zenon
  <2>. QED  BY <2>1, <2>4, <2>6, Zenon DEF AfterOne
<1>9. n \in T
  <2>. HIDE DEF T
  <2>1. \A i \in 0..n : i \in T  BY <1>0, <1>7, <1>8, UpTo, Zenon
  <2>. QED  BY <1>0, <2>1
<1>10. A[n] = <<>>
  <2>1. s = Joins(ss)[n] \o <<>> /\ <<>> \in Seq(Byte)
    <3>1. Joins(ss)[n] \in Seq(Byte) /\ s = Joins(ss)[n]  BY <1>0, <1>1, <1>4 DEF Joined
    <3>2. Joins(ss)[n] \o <<>> = Joins(ss)[n] /\ <<>> \in Seq(Byte)  BY <3>1, JoinEmpty, Zenon
    <3>. QED  BY <3>1, <3>2, Zenon
  <2>. QED  BY <1>9, <2>1, Zenon
<1>11. 0 \in U
  <2>1. n + 0 = n /\ 0 \in 0..MAX_SESSIONS - n  BY <1>0
  <2>. QED  BY <1>10, <2>1
<1>12. \A i \in 1..MAX_SESSIONS - n : i - 1 \in U => i \in U
  <2>. SUFFICES ASSUME NEW i \in 1..MAX_SESSIONS - n, i - 1 \in U PROVE i \in U  OBVIOUS
  <2>1. n + i \in 1..MAX_SESSIONS /\ (n + i) - 1 = n + (i - 1) /\ i \in 0..MAX_SESSIONS - n
    BY <1>0
  <2>2. A[n + (i - 1)] = <<>>  OBVIOUS
  <2>3. A[n + i] = AfterOne(<<>>, z)  BY <1>2, <2>1, <2>2
  <2>. QED  BY <2>1, <2>3 DEF AfterOne
<1>13. MAX_SESSIONS - n \in U
  <2>. HIDE DEF U
  <2>1. \A i \in 0..MAX_SESSIONS - n : i \in U
    <3>. DEFINE k == MAX_SESSIONS - n
    <3>1. k \in Nat  BY <1>0
    <3>. HIDE DEF k
    <3>2. \A i \in 1..k : i - 1 \in U => i \in U  BY <1>12 DEF k
    <3>3. \A i \in 0..k : i \in U  BY <1>11, <3>1, <3>2, UpTo, Zenon
    <3>. QED  BY <3>3 DEF k
  <2>. QED  BY <1>0, <2>1
<1>14. A[MAX_SESSIONS] = <<>>  BY <1>0, <1>13
<1>. QED  BY <1>14, Zenon DEF validate_auth, A, s, z

-----------------------------------------------------------------------------
(* Response codes.                                                         *)
LEMMA Bases ==
    /\ \A b \in Fmt0Bases : b \in 0..512 /\ b % 256 < 128
    /\ \A b \in WarnBases : b \in 2304..2400 /\ b % 256 < 128
    /\ Fmt1Bases \subseteq 1..63
<1>1. TPM_RC_VER1 = 256 /\ TPM_RC_WARN = 2304  BY SMT DEF TPM_RC_VER1, TPM_RC_WARN
<1>2. ASSUME NEW b \in Fmt0Bases PROVE b \in 0..512 /\ b % 256 < 128
  <2>1. b = 0 \/ b = 30 \/ \E n \in 0..86 : b = 256 + n  BY <1>1, <1>2, SMT DEF Fmt0Bases
  <2>. QED  BY <2>1, SMT
<1>3. ASSUME NEW b \in WarnBases PROVE b \in 2304..2400 /\ b % 256 < 128
  <2>1. \E n \in 0..35 : b = 2304 + n  BY <1>1, <1>3, SMT DEF WarnBases
  <2>. QED  BY <2>1, SMT
<1>4. Fmt1Bases \subseteq 1..63  BY SMT DEF Fmt1Bases
<1>. QED  BY <1>2, <1>3, <1>4, Zenon

LEMMA Format0 ==
    ASSUME NEW b \in Nat, b <= 2400, b % 256 < 128
    PROVE  /\ Be(4, b) \in Seq(Byte) /\ Len(Be(4, b)) = 4
           /\ rc_try_from(Be(4, b)) = {Fmt0(c) : c \in {b} \cap Fmt0Bases}
                                      \union {Warn(c) : c \in {b} \cap WarnBases}
<1>0. b <= MAX_NUMBER  BY SMT DEF MAX_NUMBER
<1>1. Be(4, b) \in Seq(Byte) /\ Len(Be(4, b)) = 4  BY Word4Bytes
<1>a. Number(Be(4, b)) = b  BY <1>0, Word4
<1>2. Be(4, b)[4] = b % 256  BY SMT DEF Be
<1>3. ~(Be(4, b)[4] >= 128)  BY <1>2, SMT
<1>. DEFINE raw == Be(4, b)
<1>. HIDE DEF raw
<1>4. rc_try_from(raw) = {Fmt0(c) : c \in {Number(raw)} \cap Fmt0Bases}
                         \union {Warn(c) : c \in {Number(raw)} \cap WarnBases}
  <2>1. ~(raw[4] >= 128)  BY <1>3 DEF raw
  <2>. QED  BY <2>1 DEF rc_try_from
<1>. QED  BY <1>1, <1>a, <1>4 DEF raw

Format1Bytes(b, p, n) == <<0, 0, n % 16, 128 + (IF p THEN 64 ELSE 0) + b>>

LEMMA Format1 ==
    ASSUME NEW b \in Fmt1Bases, NEW p \in BOOLEAN, NEW n \in 0..15
    PROVE  /\ Format1Bytes(b, p, n) \in Seq(Byte)
           /\ Len(Format1Bytes(b, p, n)) = 4
           /\ rc_try_from(Format1Bytes(b, p, n)) = {Fmt1(b, i) : i \in Fmt1Index(p, n)}
<1>. DEFINE low == 128 + (IF p THEN 64 ELSE 0) + b
            raw == <<0, 0, n % 16, low>>
<1>0. b \in 1..63  BY Bases
<1>1. low \in Byte /\ low >= 128 /\ (low >= 192 <=> p) /\ low % 64 = b  BY <1>0, SMT DEF Byte
<1>2. n % 16 = n /\ n \in Byte /\ 0 \in Byte /\ n < 16  BY SMT DEF Byte
<1>. HIDE DEF low
<1>3. raw[1] = 0 /\ raw[2] = 0 /\ raw[3] = n /\ raw[4] = low  BY <1>2
<1>4. raw \in Seq(Byte) /\ Len(raw) = 4  BY <1>1, <1>2
<1>. HIDE DEF raw
<1>5. rc_try_from(raw) = {Fmt1(raw[4] % 64, i) : i \in Fmt1Index(raw[4] >= 192, raw[3])}
  BY <1>1, <1>2, <1>3 DEF rc_try_from
<1>6. rc_try_from(raw) = {Fmt1(b, i) : i \in Fmt1Index(p, n)}
  <2>1. (raw[4] >= 192) = p  BY <1>1, <1>3
  <2>2. raw[4] % 64 = b  BY <1>1, <1>3
  <2>. QED  BY <1>3, <1>5, <2>1, <2>2
<1>. QED  BY <1>4, <1>6 DEF raw, low, Format1Bytes

LEMMA CodesRead ==
    ASSUME NEW rc \in TpmRcs
    PROVE  rc_value(rc) \in Seq(Byte) /\ Len(rc_value(rc)) = 4 /\ rc_try_from(rc_value(rc)) = {rc}
<1>1. ASSUME NEW b \in Fmt0Bases, rc = Fmt0(b)
      PROVE  rc_value(rc) \in Seq(Byte) /\ Len(rc_value(rc)) = 4 /\ rc_try_from(rc_value(rc)) = {rc}
  <2>1. b \in 0..512 /\ b % 256 < 128 /\ b \in Nat /\ b <= 2400  BY Bases
  <2>2. b \notin WarnBases
    <3>. SUFFICES ASSUME b \in WarnBases PROVE FALSE  OBVIOUS
    <3>1. b \in 2304..2400  BY Bases
    <3>. QED  BY <2>1, <3>1
  <2>3. rc_value(rc) = Be(4, b)  BY <1>1 DEF rc_value, Fmt0
  <2>4. {Fmt0(c) : c \in {b} \cap Fmt0Bases} \union {Warn(c) : c \in {b} \cap WarnBases} = {rc}
    BY <1>1, <2>2
  <2>5. /\ Be(4, b) \in Seq(Byte) /\ Len(Be(4, b)) = 4
        /\ rc_try_from(Be(4, b)) = {Fmt0(c) : c \in {b} \cap Fmt0Bases}
                                   \union {Warn(c) : c \in {b} \cap WarnBases}
    BY <2>1, Format0
  <2>. QED  BY <2>3, <2>4, <2>5, Zenon
<1>2. ASSUME NEW b \in WarnBases, rc = Warn(b)
      PROVE  rc_value(rc) \in Seq(Byte) /\ Len(rc_value(rc)) = 4 /\ rc_try_from(rc_value(rc)) = {rc}
  <2>1. b \in 2304..2400 /\ b % 256 < 128 /\ b \in Nat /\ b <= 2400  BY Bases
  <2>2. b \notin Fmt0Bases
    <3>. SUFFICES ASSUME b \in Fmt0Bases PROVE FALSE  OBVIOUS
    <3>1. b \in 0..512  BY Bases
    <3>. QED  BY <2>1, <3>1
  <2>3. rc_value(rc) = Be(4, b)  BY <1>2 DEF rc_value, Warn
  <2>4. {Fmt0(c) : c \in {b} \cap Fmt0Bases} \union {Warn(c) : c \in {b} \cap WarnBases} = {rc}
    BY <1>2, <2>2
  <2>5. /\ Be(4, b) \in Seq(Byte) /\ Len(Be(4, b)) = 4
        /\ rc_try_from(Be(4, b)) = {Fmt0(c) : c \in {b} \cap Fmt0Bases}
                                   \union {Warn(c) : c \in {b} \cap WarnBases}
    BY <2>1, Format0
  <2>. QED  BY <2>3, <2>4, <2>5, Zenon
<1>3. ASSUME NEW b \in Fmt1Bases, NEW i \in RcIndex, rc = Fmt1(b, i)
      PROVE  rc_value(rc) \in Seq(Byte) /\ Len(rc_value(rc)) = 4 /\ rc_try_from(rc_value(rc)) = {rc}
  <2>. DEFINE p == i[1] = "parameter"
              n == IF i[1] = "session" THEN i[2] + SESSION_INDEX_OFFSET ELSE i[2]
  <2>0. rc.fmt = "fmt1" /\ rc.base = b /\ rc.index = i  BY <1>3 DEF Fmt1
  <2>1. n \in 0..15 /\ Fmt1Index(p, n) = {i}
    <3>1. CASE i = <<"none", 0>>
      <4>1. n = 0 /\ ~p  BY <3>1
      <4>. QED  BY <3>1, <4>1 DEF Fmt1Index, MAX_HANDLE_INDEX
    <3>2. ASSUME NEW m \in 1..15, i = <<"parameter", m>> PROVE n \in 0..15 /\ Fmt1Index(p, n) = {i}
      <4>1. n = m /\ p /\ m # 0 /\ m > 0  BY <3>2
      <4>. QED  BY <3>2, <4>1 DEF Fmt1Index
    <3>3. ASSUME NEW m \in 1..7, i = <<"handle", m>> PROVE n \in 0..15 /\ Fmt1Index(p, n) = {i}
      <4>1. n = m /\ ~p /\ m # 0  BY <3>3
      <4>. QED  BY <3>3, <4>1 DEF Fmt1Index, MAX_HANDLE_INDEX
    <3>4. ASSUME NEW m \in 0..7, i = <<"session", m>> PROVE n \in 0..15 /\ Fmt1Index(p, n) = {i}
      <4>1. n = m + 8 /\ ~p /\ m + 8 > 7 /\ (m + 8) - 8 = m  BY <3>4 DEF SESSION_INDEX_OFFSET
      <4>. QED  BY <3>4, <4>1 DEF Fmt1Index, MAX_HANDLE_INDEX, SESSION_INDEX_OFFSET
    <3>. QED  BY <3>1, <3>2, <3>3, <3>4 DEF RcIndex, MAX_HANDLE_INDEX
  <2>2. rc_value(rc) = Format1Bytes(b, p, n)  BY <2>0 DEF rc_value, Format1Bytes
  <2>3. p \in BOOLEAN  OBVIOUS
  <2>. HIDE DEF n, p
  <2>4. /\ rc_value(rc) \in Seq(Byte) /\ Len(rc_value(rc)) = 4
        /\ rc_try_from(rc_value(rc)) = {Fmt1(b, j) : j \in Fmt1Index(p, n)}
    BY <2>1, <2>2, <2>3, Format1
  <2>6. {Fmt1(b, j) : j \in Fmt1Index(p, n)} = {rc}  BY <1>3, <2>1
  <2>. QED  BY <2>4, <2>6
<1>. QED  BY <1>1, <1>2, <1>3 DEF TpmRcs

-----------------------------------------------------------------------------
(* A frame as its seven parts: tag, size, code, handles, the size of an    *)
(* area, and two areas.  Lengths and slices are opaque here, too.          *)
Parts(a, b, c, d, x, y, z) == (((((a \o b) \o c) \o d) \o x) \o y) \o z
Width(s) == Len(s)
Cut3(s, i, j) == SubSeq(s, i, j)
Empty == <<>>

LEMMA CatSize == \A a, b \in Str : Width(a) \in Nat /\ Width(Cat(a, b)) = Width(a) + Width(b)
BY DEF Cat, Str, Width

LEMMA CatCut ==
    \A a, b, c \in Str : Cut3(Cat(Cat(a, b), c), Width(a) + 1, Width(a) + Width(b)) = b
BY Slice, Zenon DEF Cat, Str, Width, Cut3

LEMMA CatEmpty == Empty \in Str /\ Width(Empty) = 0 /\ \A s \in Str : Cat(Empty, s) = s /\ Cat(s, Empty) = s
BY DEF Cat, Str, Width, Empty

(* The last part of the first one, cut off.                                *)
LEMMA Parting ==
    ASSUME NEW a \in Str, NEW b \in Str, NEW c \in Str, NEW ab, ab = Cat(a, b),
           NEW f, f = Cat(ab, c), NEW n \in Nat, Width(a) = n
    PROVE  /\ Cat(b, c) \in Str /\ f = Cat(a, Cat(b, c))
           /\ Cut3(f, n + 1, n + Width(b)) = b
BY CatIn, CatAssoc, CatCut

LEMMA Growing ==
    ASSUME NEW a \in Str, NEW b \in Str, NEW n \in Nat, Width(a) = n
    PROVE  Cat(a, b) \in Str /\ n + Width(b) \in Nat /\ Width(Cat(a, b)) = n + Width(b)
BY CatIn, CatSize

PartsFound(f, a, b, c, d, x, y, z) ==
    /\ f \in Str
    /\ Width(f) = 10 + Width(d) + Width(x) + Width(y) + Width(z)
    /\ Cut3(f, 1, 2) = a /\ Cut3(f, 3, 6) = b /\ Cut3(f, 7, 10) = c
    /\ Cut3(f, 11, 10 + Width(d)) = d
    /\ Cut3(f, 10 + Width(d) + 1, 10 + Width(d) + Width(x)) = x
    /\ Cut3(f, 10 + Width(d) + Width(x) + 1, 10 + Width(d) + Width(x) + Width(y)) = y
    /\ Cut3(f, 10 + Width(d) + Width(x) + Width(y) + 1, Width(f)) = z

LEMMA PartsSlices ==
    ASSUME NEW a \in Str, NEW b \in Str, NEW c \in Str, NEW d \in Str,
           NEW x \in Str, NEW y \in Str, NEW z \in Str,
           Width(a) = 2, Width(b) = 4, Width(c) = 4,
           NEW f, f = Parts(a, b, c, d, x, y, z)
    PROVE  PartsFound(f, a, b, c, d, x, y, z)
<1>. DEFINE l2 == Cat(a, b)
            l3 == Cat(l2, c)
            l4 == Cat(l3, d)
            l5 == Cat(l4, x)
            l6 == Cat(l5, y)
            n4 == 10 + Width(d)
            n5 == n4 + Width(x)
            n6 == n5 + Width(y)
            r6 == Cat(y, z)
            r5 == Cat(x, r6)
            r4 == Cat(d, r5)
            r3 == Cat(c, r4)
            r2 == Cat(b, r3)
<1>0. f = Cat(l6, z)  BY Zenon DEF Parts, Cat
<1>1. l2 \in Str /\ Width(l2) = 6 /\ 6 \in Nat /\ 2 \in Nat /\ 10 \in Nat  BY Growing
<1>. HIDE DEF l2
<1>2. l3 \in Str /\ Width(l3) = 10  BY <1>1, Growing
<1>. HIDE DEF l3
<1>3. l4 \in Str /\ n4 \in Nat /\ Width(l4) = n4  BY <1>1, <1>2, Growing
<1>. HIDE DEF l4, n4
<1>4. l5 \in Str /\ n5 \in Nat /\ Width(l5) = n5  BY <1>3, Growing
<1>. HIDE DEF l5, n5
<1>5. l6 \in Str /\ n6 \in Nat /\ Width(l6) = n6  BY <1>4, Growing
<1>. HIDE DEF l6, n6
<1>6. f \in Str /\ Width(f) = n6 + Width(z)  BY <1>0, <1>5, Growing
<1>7. r6 \in Str /\ f = Cat(l5, r6) /\ Cut3(f, n5 + 1, n6) = y
  BY <1>0, <1>4, Parting DEF l6, n6
<1>. HIDE DEF r6
<1>8. r5 \in Str /\ f = Cat(l4, r5) /\ Cut3(f, n4 + 1, n5) = x
  BY <1>3, <1>7, Parting DEF l5, n5
<1>. HIDE DEF r5
<1>9. r4 \in Str /\ f = Cat(l3, r4) /\ Cut3(f, 10 + 1, n4) = d
  BY <1>1, <1>2, <1>8, Parting DEF l4, n4
<1>. HIDE DEF r4
<1>10. r3 \in Str /\ f = Cat(l2, r3) /\ Cut3(f, 6 + 1, 6 + Width(c)) = c
  BY <1>1, <1>9, Parting DEF l3
<1>. HIDE DEF r3
<1>11. r2 \in Str /\ f = Cat(a, r2) /\ Cut3(f, 2 + 1, 2 + Width(b)) = b
  BY <1>1, <1>10, Parting DEF l2
<1>. HIDE DEF r2
<1>12. Cut3(f, 0 + 1, 0 + Width(a)) = a  BY <1>11, CatEmpty, Parting
<1>13. Cut3(f, n6 + 1, n6 + Width(z)) = z  BY <1>0, <1>5, <1>6, CatEmpty, Parting
<1>14. 6 + 1 = 7 /\ 6 + Width(c) = 10 /\ 2 + 1 = 3 /\ 2 + Width(b) = 6 /\ 0 + 1 = 1 /\ 0 + Width(a) = 2 /\ 10 + 1 = 11
  OBVIOUS
<1>. QED  BY <1>6, <1>7, <1>8, <1>9, <1>10, <1>11, <1>12, <1>13, <1>14 DEF n4, n5, n6, PartsFound

(* What is left of a frame after its handles.                              *)
LEMMA BehindHandles ==
    \A d, y, z \in Nat : \A x, n, e : x = 4 /\ n = 10 + d + x + y + z /\ e = 10 + d => n - e = 4 + y + z
OBVIOUS

-----------------------------------------------------------------------------
(* Command frames.                                                         *)
AuthSizeBytes(r) == IF r.tag = Sessions THEN Be(4, Len(AuthBytes(r))) ELSE Empty
CommandSize(r) ==
    HEADER_SIZE + 4 * Len(r.handles)
        + Len(IF r.tag = Sessions THEN Be(4, Len(AuthBytes(r))) \o AuthBytes(r) ELSE <<>>)
        + ParamsLen(r)
CommandFrame(r) ==
    Parts(r.tag, Be(4, CommandSize(r)), Be(4, r.cc), Joined(r.handles), AuthSizeBytes(r),
          AuthBytes(r), ParamsBytes(r))
CommandWritable(r) ==
    /\ r.tag \in {NoSessions, Sessions}
    /\ (r.tag = Sessions) # (r.sessions = <<>>)
    /\ Len(r.sessions) <= MAX_SESSIONS
    /\ ParamsMarshal(r)
CommandRequest(r) ==
    /\ r.kind = "command"
    /\ r.cc \in CommandCodes
    /\ SessionsOk(r.sessions)
    /\ HandlesOk(r.handles, Handles[r.cc])
    /\ CodecOk(r)

LEMMA TagBytes ==
    /\ NoSessions \in Str /\ Width(NoSessions) = 2
    /\ Sessions \in Str /\ Width(Sessions) = 2
    /\ NoSessions # Sessions
<1>1. 128 \in Byte /\ 1 \in Byte /\ 2 \in Byte  BY SMT DEF Byte
<1>2. NoSessions \in Str /\ Width(NoSessions) = 2  BY <1>1, SMT DEF NoSessions, Str, Width
<1>3. Sessions \in Str /\ Width(Sessions) = 2  BY <1>1, SMT DEF Sessions, Str, Width
<1>4. NoSessions[2] = 1 /\ Sessions[2] = 2  BY SMT DEF NoSessions, Sessions
<1>5. NoSessions # Sessions  BY <1>4
<1>. QED  BY <1>2, <1>3, <1>5

LEMMA NoSessionsNoArea ==
    ASSUME NEW r, r.kind \in {"command", "response"}, SessionsOk(r.sessions), r.sessions = <<>>
    PROVE  AuthBytes(r) = Empty
<1>1. Len(AuthParts(r)) = 0 /\ AuthBytes(r) = Joined(AuthParts(r))  BY PartsInSeq
<1>2. Joins(AuthParts(r))[0] = <<>>
  <2>1. Len(AuthParts(r)) \in Nat  BY <1>1
  <2>. QED  BY <2>1, JoinsDef, Zenon
<1>. QED  BY <1>1, <1>2 DEF Joined, Empty

LEMMA CommandParts ==
    ASSUME NEW r, CommandRequest(r), CommandWritable(r)
    PROVE  /\ tpm_marshal_command(r) = Written(CommandFrame(r))
           /\ r.tag \in Str /\ Width(r.tag) = 2
           /\ CommandSize(r) \in Nat
           /\ Be(4, CommandSize(r)) \in Str /\ Width(Be(4, CommandSize(r))) = 4
           /\ Be(4, r.cc) \in Str /\ Width(Be(4, r.cc)) = 4 /\ Number(Be(4, r.cc)) = r.cc
           /\ Joined(r.handles) \in Str /\ Width(Joined(r.handles)) = 4 * Handles[r.cc]
           /\ HandlesIn(Joined(r.handles)) = r.handles
           /\ Handles[r.cc] \in Nat
           /\ AuthSizeBytes(r) \in Str /\ AuthBytes(r) \in Str /\ ParamsBytes(r) \in Str
           /\ r.tag = Sessions => Width(AuthSizeBytes(r)) = 4
           /\ r.tag # Sessions => AuthSizeBytes(r) = Empty /\ AuthBytes(r) = Empty
           /\ CommandSize(r) = 10 + Width(Joined(r.handles)) + Width(AuthSizeBytes(r))
                               + Width(AuthBytes(r)) + Width(ParamsBytes(r))
<1>. DEFINE au == IF r.tag = Sessions THEN Be(4, Len(AuthBytes(r))) \o AuthBytes(r) ELSE <<>>
<1>1. r.tag \in Str /\ Width(r.tag) = 2  BY TagBytes DEF CommandWritable
<1>2. AuthBytes(r) \in Seq(Byte)  BY PartsInSeq DEF CommandRequest
<1>3. Len(AuthBytes(r)) \in Nat  BY <1>2
<1>4. /\ Be(4, Len(AuthBytes(r))) \in Seq(Byte) /\ Len(Be(4, Len(AuthBytes(r)))) = 4
  BY <1>3, Word4Bytes
<1>5. r.tag # Sessions => AuthBytes(r) = Empty
  BY NoSessionsNoArea DEF CommandWritable, CommandRequest
<1>6. AuthSizeBytes(r) \in Str /\ AuthBytes(r) \in Str  BY <1>2, <1>4, CatEmpty DEF AuthSizeBytes, Str
<1>7. r.tag = Sessions => Width(AuthSizeBytes(r)) = 4  BY <1>4 DEF AuthSizeBytes, Width
<1>8. r.tag # Sessions => AuthSizeBytes(r) = Empty  BY DEF AuthSizeBytes
<1>9. au = Cat(AuthSizeBytes(r), AuthBytes(r))
  <2>1. CASE r.tag = Sessions  BY <2>1, Zenon DEF AuthSizeBytes, Cat
  <2>2. CASE r.tag # Sessions
    <3>1. au = Empty  BY <2>2 DEF Empty
    <3>2. Cat(Empty, Empty) = Empty  BY CatEmpty
    <3>. QED  BY <1>5, <1>8, <2>2, <3>1, <3>2, Zenon
  <2>. QED  BY <2>1, <2>2
<1>10. Len(au) = Width(AuthSizeBytes(r)) + Width(AuthBytes(r))
  BY <1>6, <1>9, CatSize DEF Width
<1>11. /\ Joined(r.handles) \in Seq(Byte) /\ Len(Joined(r.handles)) = 4 * Len(r.handles)
       /\ HandlesIn(Joined(r.handles)) = r.handles /\ Len(r.handles) = Handles[r.cc]
  BY HandlesRead DEF CommandRequest, HandlesOk
<1>12. Handles[r.cc] \in Nat  BY WireAssumption DEF CommandRequest
<1>13. ParamsBytes(r) \in Seq(Byte) /\ ParamsLen(r) = Len(ParamsBytes(r))
  BY DEF CommandRequest, CommandWritable, CodecOk
<1>14. r.cc \in Nat /\ r.cc <= MAX_NUMBER
  <2>1. r.cc \in 0..MAX_NUMBER  BY RequestAssumption DEF CommandRequest
  <2>2. MAX_NUMBER \in Nat  BY SMT DEF MAX_NUMBER
  <2>. QED  BY <2>1, <2>2
<1>15. Be(4, r.cc) \in Seq(Byte) /\ Len(Be(4, r.cc)) = 4 /\ Number(Be(4, r.cc)) = r.cc
  BY <1>14, Word4, Word4Bytes
<1>16. CommandSize(r) = 10 + Width(Joined(r.handles)) + Width(AuthSizeBytes(r))
                        + Width(AuthBytes(r)) + Width(ParamsBytes(r))
  <2>1. CommandSize(r) = HEADER_SIZE + 4 * Len(r.handles) + Len(au) + ParamsLen(r)
    BY Zenon DEF CommandSize
  <2>. HIDE DEF au
  <2>2. HEADER_SIZE = 10  BY DEF HEADER_SIZE
  <2>3. Width(Joined(r.handles)) = 4 * Len(r.handles) /\ Width(ParamsBytes(r)) = ParamsLen(r)
    BY <1>11, <1>13 DEF Width
  <2>4. Width(AuthSizeBytes(r)) \in Nat /\ Width(AuthBytes(r)) \in Nat  BY <1>6, CatSize
  <2>5. Len(r.handles) \in Nat /\ ParamsLen(r) \in Nat  BY <1>11, <1>12, <1>13
  <2>. QED  BY <1>10, <2>1, <2>2, <2>3, <2>4, <2>5
<1>17. CommandSize(r) \in Nat
  <2>1. /\ Width(AuthSizeBytes(r)) \in Nat /\ Width(AuthBytes(r)) \in Nat
        /\ Width(ParamsBytes(r)) \in Nat /\ Width(Joined(r.handles)) \in Nat
    BY <1>6, <1>11, <1>13, CatSize DEF Str
  <2>. QED  BY <1>16, <2>1
<1>18. Be(4, CommandSize(r)) \in Seq(Byte) /\ Len(Be(4, CommandSize(r))) = 4
  BY <1>17, Word4Bytes
<1>19. tpm_marshal_command(r) = Written(CommandFrame(r))
  <2>. DEFINE l4 == ((r.tag \o Be(4, CommandSize(r))) \o Be(4, r.cc)) \o Joined(r.handles)
              p == ParamsBytes(r)
  <2>1. tpm_marshal_command(r) = Written((l4 \o au) \o p)
    BY Zenon DEF tpm_marshal_command, CommandWritable, CommandSize
  <2>2. l4 = Cat(Cat(Cat(r.tag, Be(4, CommandSize(r))), Be(4, r.cc)), Joined(r.handles))
    BY Zenon DEF Cat
  <2>3. l4 \in Str
    <3>1. /\ r.tag \in Str /\ Be(4, CommandSize(r)) \in Str /\ Be(4, r.cc) \in Str
          /\ Joined(r.handles) \in Str
      BY <1>1, <1>11, <1>15, <1>18 DEF Str
    <3>2. Cat(r.tag, Be(4, CommandSize(r))) \in Str  BY <3>1, CatIn
    <3>3. Cat(Cat(r.tag, Be(4, CommandSize(r))), Be(4, r.cc)) \in Str  BY <3>1, <3>2, CatIn
    <3>. HIDE DEF l4
    <3>. QED  BY <2>2, <3>1, <3>3, CatIn
  <2>4. CommandFrame(r) = Cat(Cat(Cat(l4, AuthSizeBytes(r)), AuthBytes(r)), p)
    BY Zenon DEF CommandFrame, Parts, Cat
  <2>5. (l4 \o au) \o p = Cat(Cat(l4, au), p)  BY Zenon DEF Cat
  <2>. HIDE DEF l4, au, p
  <2>6. Cat(l4, au) = Cat(Cat(l4, AuthSizeBytes(r)), AuthBytes(r))
    BY <1>6, <1>9, <2>3, CatAssoc
  <2>. QED  BY <2>1, <2>4, <2>5, <2>6, Zenon
<1>. QED  BY <1>1, <1>5, <1>6, <1>7, <1>8, <1>11, <1>12, <1>13, <1>15, <1>16, <1>17, <1>18, <1>19 DEF Str, Width

LEMMA CommandFrameReads ==
    ASSUME NEW r, CommandRequest(r), CommandWritable(r),
           NEW f, f = CommandFrame(r), Len(f) <= TPM_MAX_COMMAND_SIZE
    PROVE  /\ f \in Seq(Byte) /\ SizeOf(f) = Len(f) /\ Len(f) >= HEADER_SIZE
           /\ CommandOk(f)
           /\ Number(CodeOf(f)) = r.cc
           /\ HandlesIn(HandleArea(f)) = r.handles
           /\ AuthArea(f) = AuthBytes(r)
           /\ ParamArea(f) = ParamsBytes(r)
<1>. DEFINE a == r.tag
            b == Be(4, CommandSize(r))
            c == Be(4, r.cc)
            d == Joined(r.handles)
            x == AuthSizeBytes(r)
            y == AuthBytes(r)
            z == ParamsBytes(r)
            n == Handles[r.cc]
<1>1. /\ a \in Str /\ Width(a) = 2 /\ b \in Str /\ Width(b) = 4 /\ c \in Str /\ Width(c) = 4
      /\ d \in Str /\ x \in Str /\ y \in Str /\ z \in Str
      /\ Number(c) = r.cc /\ Width(d) = 4 * n /\ n \in Nat /\ HandlesIn(d) = r.handles
      /\ CommandSize(r) \in Nat
      /\ CommandSize(r) = 10 + Width(d) + Width(x) + Width(y) + Width(z)
  BY CommandParts
<1>2. a = Sessions => Width(x) = 4 /\ x = Be(4, Width(y))  BY CommandParts DEF AuthSizeBytes, Width
<1>3. a # Sessions => x = Empty /\ y = Empty  BY CommandParts
<1>4. a \in {NoSessions, Sessions}  BY DEF CommandWritable
<1>5. f = Parts(a, b, c, d, x, y, z)  BY DEF CommandFrame
<1>6. HEADER_SIZE = 10 /\ TPM_MAX_COMMAND_SIZE \in Nat /\ TPM_MAX_COMMAND_SIZE <= MAX_NUMBER
      /\ MAX_NUMBER \in Nat
  BY SMT DEF HEADER_SIZE, TPM_MAX_COMMAND_SIZE, MAX_NUMBER
<1>7. /\ Number(b) = CommandSize(r) \/ ~(CommandSize(r) <= MAX_NUMBER)
      /\ x = Be(4, Width(y)) => Number(x) = Width(y) \/ ~(Width(y) <= MAX_NUMBER)
  <2>1. Width(y) \in Nat  BY <1>1, CatSize
  <2>. QED  BY <1>1, <2>1, Word4
<1>8. validate_auth(y, 4)
  <2>1. validate_auth(y, SessionSize(r.kind))
    BY AreaIsValid DEF CommandRequest, CommandWritable
  <2>. QED  BY <2>1 DEF SessionSize, CommandRequest
<1>. HIDE DEF a, b, c, d, x, y, z, n
<1>a. PartsFound(f, a, b, c, d, x, y, z)  BY <1>1, <1>5, PartsSlices
<1>9. /\ f \in Str
      /\ Width(f) = 10 + Width(d) + Width(x) + Width(y) + Width(z)
      /\ Cut3(f, 1, 2) = a /\ Cut3(f, 3, 6) = b /\ Cut3(f, 7, 10) = c
      /\ Cut3(f, 11, 10 + Width(d)) = d
      /\ Cut3(f, 10 + Width(d) + 1, 10 + Width(d) + Width(x)) = x
      /\ Cut3(f, 10 + Width(d) + Width(x) + 1, 10 + Width(d) + Width(x) + Width(y)) = y
      /\ Cut3(f, 10 + Width(d) + Width(x) + Width(y) + 1, Width(f)) = z
  BY <1>a DEF PartsFound
<1>b. Width(f) = 10 + Width(d) + Width(x) + Width(y) + Width(z)  BY <1>a DEF PartsFound
<1>c. CommandSize(r) = 10 + Width(d) + Width(x) + Width(y) + Width(z)  BY <1>1
<1>10. Width(x) \in Nat /\ Width(y) \in Nat /\ Width(z) \in Nat /\ Width(d) \in Nat
  BY <1>1, CatSize
<1>11. Len(f) = Width(f) /\ f \in Seq(Byte)  BY <1>9 DEF Width, Str
<1>12. Width(f) = CommandSize(r) /\ Width(f) <= MAX_NUMBER /\ Width(f) >= 10 /\ Width(y) <= MAX_NUMBER
  <2>1. Width(f) = CommandSize(r) /\ Width(f) >= 10 /\ Width(f) \in Nat /\ Width(y) <= Width(f)
    BY <1>b, <1>c, <1>10
  <2>2. Width(f) <= TPM_MAX_COMMAND_SIZE  BY <1>11
  <2>. QED  BY <1>6, <1>10, <2>1, <2>2
<1>13. TagOf(f) = a /\ SizeOf(f) = Width(f) /\ CodeOf(f) = c
  BY <1>7, <1>9, <1>12 DEF TagOf, SizeOf, CodeOf, Cut3
<1>14. Number(CodeOf(f)) = r.cc /\ CcOk(f)  BY <1>1, <1>13 DEF CcOk, CommandRequest
<1>15. HandleEnd(f) = 10 + Width(d)  BY <1>1, <1>6, <1>14 DEF HandleEnd, n
<1>16. HandleArea(f) = d  BY <1>6, <1>9, <1>15 DEF HandleArea, Cut3
<1>17. a = Sessions => /\ AuthSize(f) = Width(y)
                       /\ AuthSizeOk(f)
  <2>. SUFFICES ASSUME a = Sessions PROVE AuthSize(f) = Width(y) /\ AuthSizeOk(f)  OBVIOUS
  <2>1. Width(x) = 4 /\ Number(x) = Width(y)  BY <1>2, <1>7, <1>12
  <2>2. AuthSize(f) = Width(y)
    BY <1>9, <1>15, <2>1 DEF AuthSize, Cut3
  <2>3. Len(f) - HandleEnd(f) = 4 + Width(y) + Width(z)
    <3>1. Len(f) = 10 + Width(d) + Width(x) + Width(y) + Width(z)  BY <1>b, <1>11
    <3>. QED  BY <1>10, <1>15, <2>1, <3>1, BehindHandles
  <2>. QED  BY <1>10, <2>2, <2>3 DEF AuthSizeOk
<1>18. AuthStart(f) = 10 + Width(d) + Width(x) + 1 /\ AuthEnd(f) = 10 + Width(d) + Width(x) + Width(y)
  <2>1. CASE a = Sessions
    <3>1. Width(x) = 4  BY <1>2, <2>1
    <3>. QED  BY <1>10, <1>13, <1>15, <1>17, <2>1, <3>1 DEF AuthStart, AuthEnd
  <2>2. CASE a # Sessions
    <3>1. Width(x) = 0 /\ Width(y) = 0  BY <1>3, <2>2, CatEmpty
    <3>. QED  BY <1>10, <1>13, <1>15, <2>2, <3>1 DEF AuthStart, AuthEnd
  <2>. QED  BY <2>1, <2>2
<1>19. AuthArea(f) = y /\ ParamArea(f) = z
  BY <1>9, <1>11, <1>18 DEF AuthArea, ParamArea, Cut3
<1>20. CommandEnvelopeOk(f)
  <2>1. FrameSizeOk(f)  BY <1>6, <1>11, <1>12, <1>13 DEF FrameSizeOk, PrefixOk
  <2>2. Len(f) - HEADER_SIZE >= 4 * Handles[Number(CodeOf(f))]
    <3>1. Handles[Number(CodeOf(f))] = n  BY <1>14 DEF n
    <3>2. Len(f) - HEADER_SIZE >= Width(d)  BY <1>b, <1>6, <1>10, <1>11
    <3>. QED  BY <1>1, <3>1, <3>2
  <2>. QED  BY <1>4, <1>13, <1>14, <1>17, <2>1, <2>2 DEF CommandEnvelopeOk
<1>21. CommandOk(f)  BY <1>8, <1>19, <1>20 DEF CommandOk, validate_auth_commands
<1>22. SizeOf(f) = Len(f) /\ Len(f) >= HEADER_SIZE  BY <1>6, <1>11, <1>12, <1>13
<1>. QED  BY <1>1, <1>11, <1>14, <1>16, <1>19, <1>21, <1>22 DEF d, y, z

-----------------------------------------------------------------------------
(* Response frames.                                                        *)
ResponseTag(r) == IF r.sessions = <<>> THEN NoSessions ELSE Sessions
ParamSizeBytes(r) == IF r.sessions = <<>> THEN <<>> ELSE Be(4, ParamsLen(r))
ResponseSize(r) ==
    HEADER_SIZE + 4 * Len(r.handles) + Len(ParamSizeBytes(r)) + ParamsLen(r) + Len(AuthBytes(r))
ResponseFrame(r) ==
    Parts(ResponseTag(r), Be(4, ResponseSize(r)), rc_value(r.rc), Joined(r.handles),
          ParamSizeBytes(r), ParamsBytes(r), AuthBytes(r))
ErrorFrame(r) == Parts(NoSessions, Be(4, HEADER_SIZE), rc_value(r.rc), Empty, Empty, Empty, Empty)
ResponseRequest(r) ==
    /\ r.kind = "response"
    /\ r.cc \in CommandCodes
    /\ SessionsOk(r.sessions)
    /\ r.rc \in TpmRcs
    /\ r.rc = Success => HandlesOk(r.handles, RespHandles[r.cc])
    /\ CodecOk(r)

LEMMA ErrorParts ==
    ASSUME NEW r, ResponseRequest(r), r.rc # Success, NEW f, f = ErrorFrame(r)
    PROVE  /\ f = (NoSessions \o Be(4, HEADER_SIZE)) \o rc_value(r.rc)
           /\ f \in Seq(Byte) /\ SizeOf(f) = Len(f) /\ Len(f) = HEADER_SIZE
           /\ CodeOf(f) = rc_value(r.rc)
<1>. DEFINE b == Be(4, HEADER_SIZE)
            c == rc_value(r.rc)
<1>1. HEADER_SIZE = 10 /\ HEADER_SIZE \in Nat /\ HEADER_SIZE <= MAX_NUMBER
  BY SMT DEF HEADER_SIZE, MAX_NUMBER
<1>2. b \in Str /\ Width(b) = 4 /\ Number(b) = HEADER_SIZE  BY <1>1, Word4, Word4Bytes DEF Str, Width
<1>3. c \in Str /\ Width(c) = 4  BY CodesRead DEF Str, Width, ResponseRequest
<1>4. f = Parts(NoSessions, b, c, Empty, Empty, Empty, Empty)  BY DEF ErrorFrame
<1>5. f = Cat(Cat(Cat(Cat(Cat(Cat(NoSessions, b), c), Empty), Empty), Empty), Empty)
  BY <1>4, Zenon DEF Parts, Cat
<1>6. (NoSessions \o b) \o c = Cat(Cat(NoSessions, b), c)  BY Zenon DEF Cat
<1>. HIDE DEF b, c
<1>7. f = Cat(Cat(NoSessions, b), c)
  <2>1. Cat(NoSessions, b) \in Str  BY <1>2, TagBytes, CatIn
  <2>2. Cat(Cat(NoSessions, b), c) \in Str  BY <1>3, <2>1, CatIn
  <2>. QED  BY <1>5, <2>2, CatEmpty
<1>8. PartsFound(f, NoSessions, b, c, Empty, Empty, Empty, Empty)
  BY <1>2, <1>3, <1>4, TagBytes, CatEmpty, PartsSlices
<1>9. f \in Str /\ Width(f) = 10  BY <1>8, CatEmpty DEF PartsFound
<1>10. Cut3(f, 3, 6) = b /\ Cut3(f, 7, 10) = c  BY <1>8 DEF PartsFound
<1>. QED  BY <1>1, <1>2, <1>6, <1>7, <1>9, <1>10 DEF Str, Width, Cut3, SizeOf, CodeOf, b, c

LEMMA ResponseParts ==
    ASSUME NEW r, ResponseRequest(r), r.rc = Success, ParamsMarshal(r)
    PROVE  /\ ResponseTag(r) \in Str /\ Width(ResponseTag(r)) = 2
           /\ ResponseSize(r) \in Nat
           /\ Be(4, ResponseSize(r)) \in Str /\ Width(Be(4, ResponseSize(r))) = 4
           /\ rc_value(r.rc) \in Str /\ Width(rc_value(r.rc)) = 4
           /\ Joined(r.handles) \in Str /\ Width(Joined(r.handles)) = 4 * RespHandles[r.cc]
           /\ HandlesIn(Joined(r.handles)) = r.handles
           /\ RespHandles[r.cc] \in Nat
           /\ ParamSizeBytes(r) \in Str /\ AuthBytes(r) \in Str /\ ParamsBytes(r) \in Str
           /\ r.sessions # <<>> => Width(ParamSizeBytes(r)) = 4 /\ ParamSizeBytes(r) = Be(4, Width(ParamsBytes(r)))
           /\ r.sessions = <<>> => ParamSizeBytes(r) = Empty /\ AuthBytes(r) = Empty
           /\ ResponseSize(r) = 10 + Width(Joined(r.handles)) + Width(ParamSizeBytes(r))
                                + Width(ParamsBytes(r)) + Width(AuthBytes(r))
<1>1. ResponseTag(r) \in Str /\ Width(ResponseTag(r)) = 2  BY TagBytes DEF ResponseTag
<1>2. AuthBytes(r) \in Seq(Byte)  BY PartsInSeq DEF ResponseRequest
<1>3. r.sessions = <<>> => AuthBytes(r) = Empty  BY NoSessionsNoArea DEF ResponseRequest
<1>4. ParamsBytes(r) \in Seq(Byte) /\ ParamsLen(r) = Len(ParamsBytes(r))
  BY DEF ResponseRequest, CodecOk
<1>5. ParamsLen(r) \in Nat  BY <1>4
<1>6. Be(4, ParamsLen(r)) \in Seq(Byte) /\ Len(Be(4, ParamsLen(r))) = 4  BY <1>5, Word4Bytes
<1>7. r.sessions = <<>> => ParamSizeBytes(r) = Empty  BY DEF ParamSizeBytes, Empty
<1>8. r.sessions # <<>> => ParamSizeBytes(r) = Be(4, ParamsLen(r))  BY DEF ParamSizeBytes
<1>9. ParamSizeBytes(r) \in Str /\ AuthBytes(r) \in Str /\ ParamsBytes(r) \in Str
  BY <1>2, <1>4, <1>6, <1>7, <1>8, CatEmpty DEF Str
<1>10. r.sessions # <<>> => Width(ParamSizeBytes(r)) = 4 /\ ParamSizeBytes(r) = Be(4, Width(ParamsBytes(r)))
  BY <1>4, <1>6, <1>8 DEF Width
<1>11. /\ Joined(r.handles) \in Seq(Byte) /\ Len(Joined(r.handles)) = 4 * Len(r.handles)
       /\ HandlesIn(Joined(r.handles)) = r.handles /\ Len(r.handles) = RespHandles[r.cc]
  BY HandlesRead DEF ResponseRequest, HandlesOk
<1>12. RespHandles[r.cc] \in Nat  BY WireAssumption DEF ResponseRequest
<1>13. rc_value(r.rc) \in Seq(Byte) /\ Len(rc_value(r.rc)) = 4  BY CodesRead DEF ResponseRequest
<1>14. ResponseSize(r) = 10 + Width(Joined(r.handles)) + Width(ParamSizeBytes(r))
                         + Width(ParamsBytes(r)) + Width(AuthBytes(r))
  <2>1. ResponseSize(r) = 10 + 4 * Len(r.handles) + Width(ParamSizeBytes(r)) + ParamsLen(r) + Width(AuthBytes(r))
    BY DEF ResponseSize, HEADER_SIZE, Width
  <2>2. Width(Joined(r.handles)) = 4 * Len(r.handles) /\ Width(ParamsBytes(r)) = ParamsLen(r)
    BY <1>4, <1>11 DEF Width
  <2>. QED  BY <2>1, <2>2
<1>15. ResponseSize(r) \in Nat
  <2>1. /\ Width(ParamSizeBytes(r)) \in Nat /\ Width(AuthBytes(r)) \in Nat
        /\ Width(ParamsBytes(r)) \in Nat /\ Width(Joined(r.handles)) \in Nat
    BY <1>9, <1>11, CatSize DEF Str
  <2>. QED  BY <1>14, <2>1
<1>16. Be(4, ResponseSize(r)) \in Seq(Byte) /\ Len(Be(4, ResponseSize(r))) = 4
  BY <1>15, Word4Bytes
<1>. QED  BY <1>1, <1>3, <1>7, <1>9, <1>10, <1>11, <1>12, <1>13, <1>14, <1>15, <1>16 DEF Str, Width

LEMMA ResponseFrameReads ==
    ASSUME NEW r, ResponseRequest(r), r.rc = Success, ParamsMarshal(r), Len(r.sessions) <= MAX_SESSIONS,
           NEW f, f = ResponseFrame(r), Len(f) <= TPM_MAX_COMMAND_SIZE
    PROVE  /\ f \in Seq(Byte) /\ SizeOf(f) = Len(f) /\ Len(f) >= HEADER_SIZE
           /\ CodeOf(f) = rc_value(r.rc)
           /\ ResponseOk(f, r.cc) /\ BodyPartsOk(f, r.cc)
           /\ HandlesIn(SubSeq(f, HEADER_SIZE + 1, RespHandleEnd(r.cc))) = r.handles
           /\ RespParams(f, r.cc) = ParamsBytes(r)
<1>. DEFINE a == ResponseTag(r)
            b == Be(4, ResponseSize(r))
            c == rc_value(r.rc)
            d == Joined(r.handles)
            x == ParamSizeBytes(r)
            y == ParamsBytes(r)
            z == AuthBytes(r)
            n == RespHandles[r.cc]
<1>1. /\ a \in Str /\ Width(a) = 2 /\ b \in Str /\ Width(b) = 4 /\ c \in Str /\ Width(c) = 4
      /\ d \in Str /\ x \in Str /\ y \in Str /\ z \in Str
      /\ Width(d) = 4 * n /\ n \in Nat /\ HandlesIn(d) = r.handles
      /\ ResponseSize(r) \in Nat
  BY ResponseParts
<1>c. ResponseSize(r) = 10 + Width(d) + Width(x) + Width(y) + Width(z)  BY ResponseParts
<1>2. a = Sessions => Width(x) = 4 /\ x = Be(4, Width(y))
  BY ResponseParts, TagBytes DEF ResponseTag
<1>3. a # Sessions => x = Empty /\ z = Empty  BY ResponseParts DEF ResponseTag
<1>4. a \in {NoSessions, Sessions}  BY DEF ResponseTag
<1>5. f = Parts(a, b, c, d, x, y, z)  BY DEF ResponseFrame
<1>6. HEADER_SIZE = 10 /\ TPM_MAX_COMMAND_SIZE \in Nat /\ TPM_MAX_COMMAND_SIZE <= MAX_NUMBER
      /\ MAX_NUMBER \in Nat
  BY SMT DEF HEADER_SIZE, TPM_MAX_COMMAND_SIZE, MAX_NUMBER
<1>7. /\ Number(b) = ResponseSize(r) \/ ~(ResponseSize(r) <= MAX_NUMBER)
      /\ x = Be(4, Width(y)) => Number(x) = Width(y) \/ ~(Width(y) <= MAX_NUMBER)
  <2>1. Width(y) \in Nat  BY <1>1, CatSize
  <2>. QED  BY <1>1, <2>1, Word4
<1>8. validate_auth(z, 0)
  <2>1. validate_auth(z, SessionSize(r.kind))  BY AreaIsValid DEF ResponseRequest
  <2>2. r.kind # "command"  BY DEF ResponseRequest
  <2>. QED  BY <2>1, <2>2 DEF SessionSize
<1>r. rc_try_from(c) = {Success} /\ TpmRcReadable(c)
  BY CodesRead DEF TpmRcReadable, ResponseRequest
<1>. HIDE DEF a, b, c, d, x, y, z, n
<1>a. PartsFound(f, a, b, c, d, x, y, z)  BY <1>1, <1>5, PartsSlices
<1>9. /\ f \in Str
      /\ Cut3(f, 1, 2) = a /\ Cut3(f, 3, 6) = b /\ Cut3(f, 7, 10) = c
      /\ Cut3(f, 11, 10 + Width(d)) = d
      /\ Cut3(f, 10 + Width(d) + 1, 10 + Width(d) + Width(x)) = x
      /\ Cut3(f, 10 + Width(d) + Width(x) + 1, 10 + Width(d) + Width(x) + Width(y)) = y
      /\ Cut3(f, 10 + Width(d) + Width(x) + Width(y) + 1, Width(f)) = z
  BY <1>a DEF PartsFound
<1>b. Width(f) = 10 + Width(d) + Width(x) + Width(y) + Width(z)  BY <1>a DEF PartsFound
<1>10. Width(x) \in Nat /\ Width(y) \in Nat /\ Width(z) \in Nat /\ Width(d) \in Nat
  BY <1>1, CatSize
<1>11. Len(f) = Width(f) /\ f \in Seq(Byte)  BY <1>9 DEF Width, Str
<1>12. Width(f) = ResponseSize(r) /\ Width(f) <= MAX_NUMBER /\ Width(f) >= 10 /\ Width(y) <= MAX_NUMBER
  <2>1. Width(f) = ResponseSize(r) /\ Width(f) >= 10 /\ Width(f) \in Nat /\ Width(y) <= Width(f)
    BY <1>b, <1>c, <1>10
  <2>2. Width(f) <= TPM_MAX_COMMAND_SIZE  BY <1>11
  <2>. QED  BY <1>6, <1>10, <2>1, <2>2
<1>13. TagOf(f) = a /\ SizeOf(f) = Width(f) /\ CodeOf(f) = c
  BY <1>7, <1>9, <1>12 DEF TagOf, SizeOf, CodeOf, Cut3
<1>14. RespHandleEnd(r.cc) = 10 + Width(d)  BY <1>1, <1>6 DEF RespHandleEnd, n
<1>15. SubSeq(f, HEADER_SIZE + 1, RespHandleEnd(r.cc)) = d  BY <1>6, <1>9, <1>14 DEF Cut3
<1>16. Len(f) >= RespHandleEnd(r.cc)  BY <1>b, <1>10, <1>11, <1>14
<1>17. ASSUME a = Sessions
       PROVE  /\ RespSizesOk(f, r.cc) /\ RespAuth(f, r.cc) = z /\ RespParams(f, r.cc) = y
  <2>1. Width(x) = 4 /\ Number(x) = Width(y)  BY <1>2, <1>7, <1>12, <1>17
  <2>2. RespParamSize(f, r.cc) = Width(y)
    BY <1>9, <1>14, <2>1 DEF RespParamSize, Cut3
  <2>3. Len(f) - RespHandleEnd(r.cc) = 4 + Width(y) + Width(z)
    <3>1. Len(f) = 10 + Width(d) + Width(x) + Width(y) + Width(z)  BY <1>b, <1>11
    <3>. QED  BY <1>10, <1>14, <2>1, <3>1, BehindHandles
  <2>4. RespSizesOk(f, r.cc)  BY <1>10, <2>2, <2>3 DEF RespSizesOk
  <2>5. RespHandleEnd(r.cc) + 4 + RespParamSize(f, r.cc) = 10 + Width(d) + Width(x) + Width(y)
    BY <1>10, <1>14, <2>1, <2>2
  <2>6. RespAuth(f, r.cc) = z  BY <1>9, <1>11, <2>5 DEF RespAuth, Drop, Cut3
  <2>7. RespHandleEnd(r.cc) + 5 = 10 + Width(d) + Width(x) + 1  BY <1>10, <1>14, <2>1
  <2>8. RespParams(f, r.cc) = y  BY <1>9, <1>13, <1>17, <2>5, <2>7 DEF RespParams, Cut3
  <2>. QED  BY <2>4, <2>6, <2>8
<1>18. ASSUME a # Sessions PROVE RespParams(f, r.cc) = y
  <2>1. Width(x) = 0 /\ Width(z) = 0  BY <1>3, <1>18, CatEmpty
  <2>2. /\ RespHandleEnd(r.cc) + 1 = 10 + Width(d) + Width(x) + 1
        /\ Len(f) = 10 + Width(d) + Width(x) + Width(y)
    BY <1>b, <1>10, <1>11, <1>14, <2>1
  <2>. QED  BY <1>9, <1>13, <1>18, <2>2 DEF RespParams, Drop, Cut3
<1>19. ResponseEnvelopeOk(f)
  <2>1. FrameSizeOk(f)  BY <1>6, <1>11, <1>12, <1>13 DEF FrameSizeOk, PrefixOk
  <2>. QED  BY <1>4, <1>13, <1>r, <2>1 DEF ResponseEnvelopeOk
<1>20. ResponseOk(f, r.cc)
  BY <1>r, <1>8, <1>13, <1>16, <1>17, <1>19 DEF ResponseOk, validate_auth_responses, ResponseRequest
<1>21. BodyPartsOk(f, r.cc)  BY <1>13, <1>16, <1>17 DEF BodyPartsOk
<1>22. SizeOf(f) = Len(f) /\ Len(f) >= HEADER_SIZE  BY <1>6, <1>11, <1>12, <1>13
<1>23. RespParams(f, r.cc) = y  BY <1>17, <1>18
<1>. QED  BY <1>1, <1>11, <1>13, <1>15, <1>20, <1>21, <1>22, <1>23 DEF c, d, y

-----------------------------------------------------------------------------
(* What is marshalled, and how it reads.                                   *)
WellMade(r) == CommandRequest(r) \/ ResponseRequest(r)

LEMMA RequestsAreWellMade == ASSUME NEW id \in Requests PROVE WellMade(Request(id))
<1>. DEFINE r == Request(id)
<1>1. r.kind \in {"command", "response"}  BY ByteAssumption
<1>2. /\ r.cc \in CommandCodes
      /\ SessionsOk(r.sessions)
      /\ r.kind = "command" => HandlesOk(r.handles, Handles[r.cc])
      /\ r.kind = "response" => r.rc \in TpmRcs
      /\ r.kind = "response" /\ r.rc = Success => HandlesOk(r.handles, RespHandles[r.cc])
      /\ CodecOk(r)
  BY RequestAssumption, Zenon
<1>. QED  BY <1>1, <1>2, Zenon DEF WellMade, CommandRequest, ResponseRequest

ReadsBack(r, f) ==
    /\ f \in Seq(Byte) /\ SizeOf(f) = Len(f) /\ Len(f) >= HEADER_SIZE
    /\ ~Bodiless(r) => Read(r.kind, f, r.cc) = {Body(r)}
    /\ r.kind = "command" => AuthArea(f) = AuthBytes(r)
    /\ r.kind = "response" =>
           /\ rc_try_from(CodeOf(f)) = {r.rc}
           /\ DispatchResponse(f, r.cc) = (IF Bodiless(r) THEN "rejected" ELSE "dispatched")

LEMMA CommandReadsBack ==
    ASSUME NEW r, CommandRequest(r), NEW f \in tpm_marshal_command(r)
    PROVE  ReadsBack(r, f) /\ tpm_marshal_command(r) = {f}
<1>1. CommandWritable(r)
  BY Zenon DEF tpm_marshal_command, CommandWritable
<1>2. tpm_marshal_command(r) = Written(CommandFrame(r))  BY <1>1, CommandParts, Zenon
<1>3. f = CommandFrame(r) /\ Len(f) <= TPM_MAX_COMMAND_SIZE /\ tpm_marshal_command(r) = {f}
  BY <1>2, Zenon DEF Written
<1>4. /\ f \in Seq(Byte) /\ SizeOf(f) = Len(f) /\ Len(f) >= HEADER_SIZE
      /\ CommandOk(f) /\ Number(CodeOf(f)) = r.cc
      /\ HandlesIn(HandleArea(f)) = r.handles /\ AuthArea(f) = AuthBytes(r)
      /\ ParamArea(f) = ParamsBytes(r)
  BY <1>1, <1>3, CommandFrameReads, Zenon
<1>5. r.kind = "command" /\ unmarshal_body("command", r.cc, ParamsBytes(r)) = {r.params}
  BY <1>1, Zenon DEF CommandRequest, CommandWritable, CodecOk
<1>6. ReadCommand(f, r.cc) = {Body(r)}
  <2>1. ReadCommand(f, r.cc) = {[handles |-> r.handles, params |-> p] : p \in {r.params}}
    BY <1>4, <1>5, Zenon DEF ReadCommand
  <2>. QED  BY <2>1, Zenon DEF Body
<1>7. Read(r.kind, f, r.cc) = {Body(r)}  BY <1>5, <1>6, Zenon DEF Read
<1>8. r.kind # "response"  BY <1>5
<1>. QED  BY <1>3, <1>4, <1>7, <1>8, Zenon DEF ReadsBack

LEMMA ResponseReadsBack ==
    ASSUME NEW r, ResponseRequest(r), NEW f \in tpm_marshal_response(r)
    PROVE  ReadsBack(r, f) /\ tpm_marshal_response(r) = {f}
<1>0. r.kind = "response" /\ r.kind # "command" /\ r.rc \in TpmRcs  BY DEF ResponseRequest
<1>1. ~(Len(r.sessions) > MAX_SESSIONS)  BY Zenon DEF tpm_marshal_response
<1>c. rc_try_from(rc_value(r.rc)) = {r.rc}  BY <1>0, CodesRead
<1>2. ASSUME r.rc # Success PROVE ReadsBack(r, f) /\ tpm_marshal_response(r) = {f}
  <2>1. tpm_marshal_response(r) = {(NoSessions \o Be(4, HEADER_SIZE)) \o rc_value(r.rc)}
    BY <1>1, <1>2, Zenon DEF tpm_marshal_response
  <2>2. f = (NoSessions \o Be(4, HEADER_SIZE)) \o rc_value(r.rc)  BY <2>1
  <2>3. f = ErrorFrame(r)
    <3>. DEFINE g == ErrorFrame(r)
    <3>1. g = (NoSessions \o Be(4, HEADER_SIZE)) \o rc_value(r.rc)  BY <1>2, ErrorParts
    <3>. QED  BY <2>2, <3>1, Zenon
  <2>4. f \in Seq(Byte) /\ SizeOf(f) = Len(f) /\ Len(f) = HEADER_SIZE /\ CodeOf(f) = rc_value(r.rc)
    BY <1>2, <2>3, ErrorParts, Zenon
  <2>5. rc_try_from(CodeOf(f)) = {r.rc} /\ rc_try_from(CodeOf(f)) # {Success} /\ TpmRcReadable(CodeOf(f))
    BY <1>2, <1>c, <2>4 DEF TpmRcReadable
  <2>6. Bodiless(r)  BY <1>0, <1>2 DEF Bodiless
  <2>7. DispatchResponse(f, r.cc) = "rejected"  BY <2>5, Zenon DEF DispatchResponse
  <2>8. Len(f) >= HEADER_SIZE  BY <2>4 DEF HEADER_SIZE
  <2>. QED  BY <1>0, <2>1, <2>2, <2>4, <2>5, <2>6, <2>7, <2>8, Zenon DEF ReadsBack
<1>3. ASSUME r.rc = Success PROVE ReadsBack(r, f) /\ tpm_marshal_response(r) = {f}
  <2>1. ParamsMarshal(r)  BY <1>1, <1>3, Zenon DEF tpm_marshal_response
  <2>2. tpm_marshal_response(r) = Written(ResponseFrame(r))
    BY <1>1, <1>3, <2>1, Zenon
    DEF tpm_marshal_response, ResponseFrame, Parts, ResponseTag, ParamSizeBytes, ResponseSize
  <2>3. f = ResponseFrame(r) /\ Len(f) <= TPM_MAX_COMMAND_SIZE /\ tpm_marshal_response(r) = {f}
    BY <2>2, Zenon DEF Written
  <2>4. Len(r.sessions) <= MAX_SESSIONS
    <3>1. Len(r.sessions) \in Nat  BY DEF ResponseRequest, SessionsOk
    <3>. QED  BY <1>1, <3>1 DEF MAX_SESSIONS
  <2>5. /\ f \in Seq(Byte) /\ SizeOf(f) = Len(f) /\ Len(f) >= HEADER_SIZE
        /\ CodeOf(f) = rc_value(r.rc)
        /\ ResponseOk(f, r.cc) /\ BodyPartsOk(f, r.cc)
        /\ HandlesIn(SubSeq(f, HEADER_SIZE + 1, RespHandleEnd(r.cc))) = r.handles
        /\ RespParams(f, r.cc) = ParamsBytes(r)
    BY <1>3, <2>1, <2>3, <2>4, ResponseFrameReads, Zenon
  <2>6. unmarshal_body("response", r.cc, ParamsBytes(r)) = {r.params}
    BY <2>1, Zenon DEF ResponseRequest, CodecOk
  <2>7. ReadResponse(f, r.cc) = {Body(r)}
    <3>1. ReadResponse(f, r.cc) = {[handles |-> r.handles, params |-> p] : p \in {r.params}}
      BY <2>5, <2>6, Zenon DEF ReadResponse
    <3>. QED  BY <3>1, Zenon DEF Body
  <2>8. Read(r.kind, f, r.cc) = {Body(r)}  BY <1>0, <2>7, Zenon DEF Read
  <2>9. rc_try_from(CodeOf(f)) = {r.rc} /\ rc_try_from(CodeOf(f)) = {Success} /\ TpmRcReadable(CodeOf(f))
    BY <1>3, <1>c, <2>5 DEF TpmRcReadable
  <2>10. ~Bodiless(r)  BY <1>3 DEF Bodiless
  <2>11. DispatchResponse(f, r.cc) = "dispatched"  BY <2>5, <2>9, Zenon DEF DispatchResponse
  <2>. QED  BY <1>0, <2>3, <2>5, <2>8, <2>9, <2>10, <2>11, Zenon DEF ReadsBack
<1>. QED  BY <1>2, <1>3

LEMMA MarshalledReadsBack ==
    ASSUME NEW r, WellMade(r), NEW f \in Marshalled(r)
    PROVE  ReadsBack(r, f) /\ Marshalled(r) = {f}
<1>1. CASE CommandRequest(r)
  <2>1. Marshalled(r) = tpm_marshal_command(r)  BY <1>1, Zenon DEF CommandRequest, Marshalled
  <2>. QED  BY <1>1, <2>1, CommandReadsBack, Zenon
<1>2. CASE ResponseRequest(r)
  <2>1. r.kind # "command"  BY <1>2 DEF ResponseRequest
  <2>2. Marshalled(r) = tpm_marshal_response(r)  BY <2>1, Zenon DEF Marshalled
  <2>. QED  BY <1>2, <2>2, ResponseReadsBack, Zenon
<1>. QED  BY <1>1, <1>2 DEF WellMade

LEMMA SendableIsMarshalled ==
    ASSUME NEW r, WellMade(r), Sendable(r)
    PROVE  Marshalled(r) # {}
<1>1. CASE CommandRequest(r)
  <2>0. r.kind = "command" /\ Len(r.handles) = Handles[r.cc]  BY <1>1 DEF CommandRequest, HandlesOk
  <2>1. Marshalled(r) = tpm_marshal_command(r)  BY <2>0, Zenon DEF Marshalled
  <2>2. CommandWritable(r)
    <3>1. r.tag = (IF r.sessions = <<>> THEN NoSessions ELSE Sessions) /\ ParamsMarshal(r)
      BY <2>0, Zenon DEF Sendable
    <3>2. Len(r.sessions) <= MAX_SESSIONS  BY Zenon DEF Sendable
    <3>. QED  BY <3>1, <3>2, TagBytes, Zenon DEF CommandWritable
  <2>3. tpm_marshal_command(r) = Written(CommandFrame(r))  BY <1>1, <2>2, CommandParts, Zenon
  <2>. DEFINE h == Joined(r.handles)
              x == AuthSizeBytes(r)
              y == AuthBytes(r)
              z == ParamsBytes(r)
  <2>4. /\ h \in Str /\ x \in Str /\ y \in Str /\ z \in Str
        /\ Width(h) = 4 * Handles[r.cc] /\ Handles[r.cc] \in Nat
        /\ Width(x) <= 4
    BY <1>1, <2>2, CommandParts, CatEmpty
  <2>5. PartsFound(CommandFrame(r), r.tag, Be(4, CommandSize(r)), Be(4, r.cc), h, x, y, z)
    <3>1. /\ r.tag \in Str /\ Width(r.tag) = 2
          /\ Be(4, CommandSize(r)) \in Str /\ Width(Be(4, CommandSize(r))) = 4
          /\ Be(4, r.cc) \in Str /\ Width(Be(4, r.cc)) = 4
      BY <1>1, <2>2, CommandParts, Zenon
    <3>. DEFINE b == Be(4, CommandSize(r))
                c == Be(4, r.cc)
    <3>2. CommandFrame(r) = Parts(r.tag, b, c, h, x, y, z)  BY Zenon DEF CommandFrame
    <3>. HIDE DEF b, c, h, x, y, z
    <3>3. PartsFound(CommandFrame(r), r.tag, b, c, h, x, y, z)
      BY <2>4, <3>1, <3>2, PartsSlices DEF b, c
    <3>. QED  BY <3>3 DEF b, c
  <2>6. Width(CommandFrame(r)) = 10 + Width(h) + Width(x) + Width(y) + Width(z)
    BY <2>5, Zenon DEF PartsFound
  <2>7. HEADER_SIZE + 4 * Len(r.handles) + Width(y) + Width(z) + 4 <= TPM_MAX_COMMAND_SIZE
    BY Zenon DEF Sendable, Width
  <2>. HIDE DEF h, x, y, z
  <2>8. Width(y) \in Nat /\ Width(z) \in Nat /\ Width(x) \in Nat  BY <2>4, CatSize
  <2>9. Width(CommandFrame(r)) <= TPM_MAX_COMMAND_SIZE
    BY <2>0, <2>4, <2>6, <2>7, <2>8 DEF HEADER_SIZE, TPM_MAX_COMMAND_SIZE
  <2>. QED  BY <2>1, <2>3, <2>9, Zenon DEF Written, Width
<1>2. CASE ResponseRequest(r)
  <2>0. r.kind = "response" /\ r.kind # "command"  BY <1>2 DEF ResponseRequest
  <2>1. Marshalled(r) = tpm_marshal_response(r)  BY <2>0, Zenon DEF Marshalled
  <2>2. ~(Len(r.sessions) > MAX_SESSIONS)
    <3>1. Len(r.sessions) \in Nat  BY <1>2 DEF ResponseRequest, SessionsOk
    <3>2. Len(r.sessions) <= MAX_SESSIONS  BY Zenon DEF Sendable
    <3>. QED  BY <3>1, <3>2 DEF MAX_SESSIONS
  <2>3. CASE r.rc # Success
    <3>1. r.sessions = <<>>  BY <2>0, <2>3, Zenon DEF Sendable
    <3>. QED  BY <2>1, <2>2, <2>3, <3>1, Zenon DEF tpm_marshal_response
  <2>4. CASE r.rc = Success
    <3>1. ParamsMarshal(r)  BY <2>0, <2>4, Zenon DEF Sendable
    <3>2. tpm_marshal_response(r) = Written(ResponseFrame(r))
      BY <2>2, <2>4, <3>1, Zenon
      DEF tpm_marshal_response, ResponseFrame, Parts, ResponseTag, ParamSizeBytes, ResponseSize
    <3>. DEFINE h == Joined(r.handles)
                x == ParamSizeBytes(r)
                y == ParamsBytes(r)
                z == AuthBytes(r)
    <3>3. /\ h \in Str /\ x \in Str /\ y \in Str /\ z \in Str
          /\ Width(h) = 4 * RespHandles[r.cc] /\ RespHandles[r.cc] \in Nat
          /\ Width(x) <= 4
      BY <1>2, <2>4, <3>1, ResponseParts, CatEmpty
    <3>4. PartsFound(ResponseFrame(r), ResponseTag(r), Be(4, ResponseSize(r)), rc_value(r.rc), h, x, y, z)
      <4>1. /\ ResponseTag(r) \in Str /\ Width(ResponseTag(r)) = 2
            /\ Be(4, ResponseSize(r)) \in Str /\ Width(Be(4, ResponseSize(r))) = 4
            /\ rc_value(r.rc) \in Str /\ Width(rc_value(r.rc)) = 4
        BY <1>2, <2>4, <3>1, ResponseParts, Zenon
      <4>. DEFINE a == ResponseTag(r)
                  b == Be(4, ResponseSize(r))
                  c == rc_value(r.rc)
      <4>2. ResponseFrame(r) = Parts(a, b, c, h, x, y, z)  BY Zenon DEF ResponseFrame
      <4>. HIDE DEF a, b, c, h, x, y, z
      <4>3. PartsFound(ResponseFrame(r), a, b, c, h, x, y, z)
        BY <3>3, <4>1, <4>2, PartsSlices DEF a, b, c
      <4>. QED  BY <4>3 DEF a, b, c
    <3>5. Width(ResponseFrame(r)) = 10 + Width(h) + Width(x) + Width(y) + Width(z)
      BY <3>4, Zenon DEF PartsFound
    <3>6. HEADER_SIZE + 4 * Len(r.handles) + Width(z) + Width(y) + 4 <= TPM_MAX_COMMAND_SIZE
      BY Zenon DEF Sendable, Width
    <3>. HIDE DEF h, x, y, z
    <3>7. Width(y) \in Nat /\ Width(z) \in Nat /\ Width(x) \in Nat  BY <3>3, CatSize
    <3>8. Len(r.handles) = RespHandles[r.cc]  BY <1>2, <2>4 DEF ResponseRequest, HandlesOk
    <3>9. Width(ResponseFrame(r)) <= TPM_MAX_COMMAND_SIZE
      BY <3>3, <3>5, <3>6, <3>7, <3>8 DEF HEADER_SIZE, TPM_MAX_COMMAND_SIZE
    <3>. QED  BY <2>1, <3>2, <3>9, Zenon DEF Written, Width
  <2>. QED  BY <2>3, <2>4
<1>. QED  BY <1>1, <1>2 DEF WellMade

-----------------------------------------------------------------------------
(* As long as no byte of it was changed, the buffer and the frame that was *)
(* marshalled into it are the same as far as both go, and they are the     *)
(* same frame until the buffer is first cut or followed by more.           *)
FrameOf(r) == LET fs == Marshalled(r) IN IF fs = {} THEN <<>> ELSE CHOOSE f \in fs : TRUE

Agree(s, f) == \A i \in 1..Len(s) : i \in 1..Len(f) => s[i] = f[i]

Unaltered ==
    /\ edits \in Nat
    /\ IF sent = NoRequest THEN edits = 0 /\ ~altered
       ELSE /\ \E id \in Requests : sent = Request(id)
            /\ ~altered => /\ Agree(buf, FrameOf(sent))
                           /\ Marshalled(sent) = {} => buf = <<>>
                           /\ edits = 0 => buf = FrameOf(sent)

LEMMA FrameOfMarshalled ==
    ASSUME NEW r, WellMade(r), Marshalled(r) # {}
    PROVE  FrameOf(r) \in Marshalled(r) /\ ReadsBack(r, FrameOf(r))
<1>1. FrameOf(r) \in Marshalled(r)  BY Zenon DEF FrameOf
<1>. QED  BY <1>1, MarshalledReadsBack, Zenon

(* Two strings that agree have the same size field.                        *)
LEMMA AgreeSize ==
    ASSUME NEW s \in Seq(Byte), NEW f \in Seq(Byte), Agree(s, f),
           Len(s) >= HEADER_SIZE, Len(f) >= HEADER_SIZE
    PROVE  SizeOf(s) = SizeOf(f)
<1>1. Len(s) >= 10 /\ Len(f) >= 10  BY DEF HEADER_SIZE
<1>2. \A i \in 3..6 : s[i] = f[i]  BY <1>1 DEF Agree
<1>3. SubSeq(s, 3, 6) = SubSeq(f, 3, 6)  BY <1>1, <1>2, SubSeqSame
<1>. QED  BY <1>3 DEF SizeOf

LEMMA EditCounts == ASSUME edits \in Nat, Edit PROVE edits' \in Nat /\ edits' # 0 /\ sent # NoRequest
BY DEF Edit, MayEdit

(* A step that changes a byte.                                             *)
LEMMA AlteredKept ==
    ASSUME Unaltered, Edit, altered' = TRUE, sent' = sent
    PROVE  Unaltered'
<1>1. edits' \in Nat /\ sent # NoRequest  BY EditCounts DEF Unaltered
<1>. QED  BY <1>1 DEF Unaltered

(* A step that changes none.                                               *)
LEMMA SameKept ==
    ASSUME Unaltered, sent' = sent, buf' = buf, altered' = altered, edits' = edits
    PROVE  Unaltered'
BY Zenon DEF Unaltered, Agree, FrameOf

LEMMA MarshalKept ==
    ASSUME Unaltered, NEW id \in Requests, MarshalFrame(Request(id))
    PROVE  Unaltered'
<1>1. /\ sent' = Request(id) /\ buf' = FrameOf(Request(id))
      /\ edits' = edits /\ altered' = altered /\ sent = NoRequest
  BY Zenon DEF MarshalFrame, FrameOf
<1>2. edits' = 0 /\ edits' \in Nat  BY <1>1 DEF Unaltered
<1>3. Agree(buf', FrameOf(sent'))  BY <1>1, Zenon DEF Agree
<1>4. Marshalled(sent') = {} => buf' = <<>>  BY <1>1, Zenon DEF FrameOf
<1>5. sent' # NoRequest
  <2>1. Request(id).kind \in {"command", "response"}  BY ByteAssumption
  <2>. QED  BY <1>1, <2>1 DEF NoRequest
<1>6. \E x \in Requests : sent' = Request(x)  BY <1>1
<1>. QED  BY <1>1, <1>2, <1>3, <1>4, <1>5, <1>6, Zenon DEF Unaltered, Agree

LEMMA CutKept ==
    ASSUME Inv, Unaltered, NEW i \in Places, Cut(i - 1)
    PROVE  Unaltered'
<1>0. buf \in Seq(Byte) /\ Len(buf) \in Nat  BY DEF Inv, BufferOk
<1>1. i \in 1..Len(buf)  BY <1>0 DEF Places
<1>2. /\ edits' \in Nat /\ edits' # 0 /\ sent # NoRequest
      /\ buf' = Take(buf, i - 1) /\ sent' = sent /\ altered' = altered
  BY EditCounts DEF Unaltered, Cut
<1>3. Len(buf') = i - 1 /\ \A j \in 1..i - 1 : buf'[j] = buf[j]
  BY <1>0, <1>1, <1>2, TakeProperties
<1>4. ASSUME NEW f, Agree(buf, f) PROVE Agree(buf', f)
  BY <1>0, <1>1, <1>3, <1>4 DEF Agree
<1>5. buf # <<>>  BY <1>1
<1>6. ~altered => Marshalled(sent) # {} /\ Agree(buf', FrameOf(sent))
  BY <1>2, <1>4, <1>5, Zenon DEF Unaltered
<1>7. \E id \in Requests : sent = Request(id)  BY <1>2, Zenon DEF Unaltered
<1>. QED  BY <1>2, <1>6, <1>7, Zenon DEF Unaltered, Agree, FrameOf

LEMMA FollowKept ==
    ASSUME Inv, Unaltered, NEW n, Follow(n)
    PROVE  Unaltered'
<1>0. buf \in Seq(Byte) /\ Len(buf) \in Nat  BY DEF Inv, BufferOk
<1>1. /\ edits' \in Nat /\ edits' # 0 /\ sent # NoRequest /\ sent' = sent
      /\ n \in 1..Len(buf) /\ Len(buf) >= HEADER_SIZE /\ Len(buf) <= SizeOf(buf)
      /\ buf' = buf \o Take(buf, n)
      /\ altered' = (altered \/ Len(buf) < SizeOf(buf))
  BY EditCounts DEF Unaltered, Follow
<1>2. PICK id \in Requests : sent = Request(id)  BY <1>1, Zenon DEF Unaltered
<1>3. ASSUME ~altered' PROVE Marshalled(sent) # {} /\ Agree(buf', FrameOf(sent))
  <2>1. ~altered /\ ~(Len(buf) < SizeOf(buf))  BY <1>1, <1>3
  <2>2. buf # <<>>  BY <1>1 DEF HEADER_SIZE
  <2>3. Marshalled(sent) # {} /\ Agree(buf, FrameOf(sent))  BY <1>1, <2>1, <2>2, Zenon DEF Unaltered
  <2>4. WellMade(sent)  BY <1>2, RequestsAreWellMade
  <2>. DEFINE f == FrameOf(sent)
  <2>5. f \in Seq(Byte) /\ SizeOf(f) = Len(f) /\ Len(f) >= HEADER_SIZE
    BY <2>3, <2>4, FrameOfMarshalled, Zenon DEF ReadsBack
  <2>6. Agree(buf, f)  BY <2>3
  <2>. HIDE DEF f
  <2>7. SizeOf(buf) = SizeOf(f)  BY <1>0, <1>1, <2>5, <2>6, AgreeSize
  <2>8. Len(buf) = Len(f)
    <3>1. Len(f) \in Nat  BY <2>5
    <3>. QED  BY <1>0, <1>1, <2>1, <2>5, <2>7, <3>1
  <2>9. \A j \in 1..Len(buf) : buf'[j] = buf[j]
    <3>1. Take(buf, n) \in Seq(Byte)  BY <1>0, <1>1, TakeProperties
    <3>. QED  BY <1>0, <1>1, <3>1
  <2>10. Agree(buf', f)  BY <2>6, <2>8, <2>9 DEF Agree
  <2>. QED  BY <2>3, <2>10 DEF f
<1>. QED  BY <1>1, <1>2, <1>3, Zenon DEF Unaltered, Agree, FrameOf

LEMMA NextKept == Inv /\ Unaltered /\ [Next]_vars => Unaltered'
<1>. SUFFICES ASSUME Inv, Unaltered, [Next]_vars PROVE Unaltered'  OBVIOUS
<1>1. CASE \E id \in Requests : MarshalFrame(Request(id))  BY <1>1, MarshalKept
<1>2. CASE Reuse  BY <1>2, Zenon DEF Reuse, Unaltered
<1>3. CASE \E i \in Places : Cut(i - 1)  BY <1>3, CutKept
<1>4. CASE \E n \in {1, Len(buf)} : Follow(n)  BY <1>4, FollowKept
<1>5. CASE \E i \in Places, b \in EditBytes : Alter(i, b)
  <2>1. Edit /\ altered' = TRUE /\ sent' = sent  BY <1>5 DEF Alter
  <2>. QED  BY <2>1, AlteredKept
<1>6. CASE CastCommand \/ CastPrefixCommand \/ CastResponse \/ CastPrefixResponse \/ Release
  <2>1. sent' = sent /\ buf' = buf /\ altered' = altered /\ edits' = edits
    BY <1>6 DEF CastCommand, CastPrefixCommand, CastResponse, CastPrefixResponse, Release
  <2>. QED  BY <2>1, SameKept
<1>7. CASE \/ \E kind \in {"command", "response"}, tag \in {NoSessions, Sessions, NullTag} :
                  SetTag(kind, tag)
           \/ \E cc \in NewCodes : SetCc(cc)
           \/ \E rc \in NewRcs : SetRc(rc)
  <2>1. Edit /\ altered' = TRUE /\ sent' = sent  BY <1>7, Zenon DEF SetTag, SetCc, SetRc, SetHeader
  <2>. QED  BY <2>1, AlteredKept
<1>8. CASE \E b \in EditBytes : WriteHandles(b) \/ WriteAuth(b) \/ WriteParameters(b)
  <2>1. Edit /\ altered' = TRUE /\ sent' = sent
    BY <1>8, Zenon DEF WriteHandles, WriteAuth, WriteParameters, WriteArea
  <2>. QED  BY <2>1, AlteredKept
<1>9. CASE \E b \in EditBytes : WriteBody(b) \/ WriteBytes(b)
  <2>1. Edit /\ altered' = TRUE /\ sent' = sent  BY <1>9, Zenon DEF WriteBody, WriteBytes, SetHeader
  <2>. QED  BY <2>1, AlteredKept
<1>10. CASE UNCHANGED vars
  <2>1. sent' = sent /\ buf' = buf /\ altered' = altered /\ edits' = edits  BY <1>10 DEF vars
  <2>. QED  BY <2>1, SameKept
<1>. QED  BY <1>1, <1>2, <1>3, <1>4, <1>5, <1>6, <1>7, <1>8, <1>9, <1>10 DEF Next

(* What is not even a whole frame is not read.                             *)
LEMMA OnlyWholeFramesAreRead ==
    ASSUME NEW kind, NEW f, NEW cc, ~PrefixOk(f)
    PROVE  Read(kind, f, cc) = {}
<1>1. ~FrameSizeOk(f)  BY Zenon DEF FrameSizeOk
<1>2. ~CommandOk(f) /\ ~ResponseOk(f, cc)
  BY <1>1, Zenon DEF CommandOk, CommandEnvelopeOk, ResponseOk, ResponseEnvelopeOk
<1>. QED  BY <1>2, Zenon DEF Read, ReadCommand, ReadResponse

LEMMA KeptRoundTrip == Inv /\ Unaltered => RoundTrip
<1>. SUFFICES ASSUME Inv, Unaltered, sent # NoRequest, ~altered PROVE RoundTrip
  BY Zenon DEF RoundTrip
<1>0. buf \in Seq(Byte) /\ Len(buf) \in Nat  BY DEF Inv, BufferOk
<1>1. PICK id \in Requests : sent = Request(id)  BY Zenon DEF Unaltered
<1>2. WellMade(sent)  BY <1>1, RequestsAreWellMade
<1>3. /\ Agree(buf, FrameOf(sent))
      /\ Marshalled(sent) = {} => buf = <<>>
      /\ edits = 0 => buf = FrameOf(sent)
  BY Zenon DEF Unaltered
<1>. DEFINE r == sent
            f == FrameOf(sent)
<1>4. CASE Marshalled(sent) = {}
  <2>1. buf = <<>>  BY <1>3, <1>4
  <2>2. ~Sendable(sent)  BY <1>2, <1>4, SendableIsMarshalled, Zenon
  <2>3. ~PrefixOk(buf)
    <3>1. ~(Len(buf) >= HEADER_SIZE)  BY <2>1 DEF HEADER_SIZE
    <3>. QED  BY <3>1, Zenon DEF PrefixOk
  <2>4. Read(sent.kind, buf, sent.cc) = {}  BY <2>3, OnlyWholeFramesAreRead, Zenon
  <2>. QED  BY <2>1, <2>2, <2>3, <2>4, Zenon DEF RoundTrip
<1>5. CASE Marshalled(sent) # {}
  <2>1. ReadsBack(sent, f)  BY <1>2, <1>5, FrameOfMarshalled, Zenon
  <2>2. f \in Seq(Byte) /\ SizeOf(f) = Len(f) /\ Len(f) >= HEADER_SIZE /\ Len(f) \in Nat
    BY <2>1 DEF ReadsBack
  <2>3. f # <<>>
    <3>. HIDE DEF f
    <3>. QED  BY <2>2 DEF HEADER_SIZE
  <2>4. ASSUME PrefixOk(buf) PROVE Take(buf, SizeOf(buf)) = f
    <3>. HIDE DEF f
    <3>1. Agree(buf, f)  BY <1>3 DEF f
    <3>2. SizeOf(buf) = Len(f) /\ Len(buf) >= Len(f)
      BY <1>0, <2>2, <2>4, <3>1, AgreeSize DEF PrefixOk
    <3>3. Take(buf, Len(f)) \in Seq(Byte) /\ Len(Take(buf, Len(f))) = Len(f)
          /\ \A i \in 1..Len(f) : Take(buf, Len(f))[i] = buf[i]
      BY <1>0, <2>2, <3>2, TakeProperties
    <3>4. \A i \in 1..Len(f) : Take(buf, Len(f))[i] = f[i]
      <4>1. \A i \in 1..Len(f) : i \in 1..Len(buf)  BY <1>0, <2>2, <3>2
      <4>. QED  BY <3>1, <3>3, <4>1, Zenon DEF Agree
    <3>5. Take(buf, Len(f)) = f  BY <2>2, <3>3, <3>4, SeqSame
    <3>. QED  BY <3>2, <3>5
  <2>5. ~Bodiless(sent) =>
            Read(sent.kind, IF PrefixOk(buf) THEN Take(buf, SizeOf(buf)) ELSE buf, sent.cc)
                \subseteq {Body(sent)}
    <3>1. CASE PrefixOk(buf)
      <4>1. ~Bodiless(sent) => Read(sent.kind, f, sent.cc) = {Body(sent)}
        BY <2>1, Zenon DEF ReadsBack
      <4>. HIDE DEF f
      <4>. QED  BY <2>4, <3>1, <4>1, Zenon
    <3>2. CASE ~PrefixOk(buf)
      <4>1. Read(sent.kind, buf, sent.cc) = {}  BY <3>2, OnlyWholeFramesAreRead, Zenon
      <4>. QED  BY <3>2, <4>1, Zenon
    <3>. QED  BY <3>1, <3>2
  <2>6. edits = 0 => buf = f  BY <1>3
  <2>7. edits = 0 => ReadsBack(sent, buf) /\ buf # <<>>  BY <2>1, <2>3, <2>6, Zenon
  <2>8. edits = 0 /\ buf # <<>> =>
            /\ SizeOf(buf) = Len(buf)
            /\ ~Bodiless(sent) => Read(sent.kind, buf, sent.cc) = {Body(sent)}
            /\ sent.kind = "command" => AuthArea(buf) = AuthBytes(sent)
            /\ sent.kind = "response" =>
                   /\ rc_try_from(CodeOf(buf)) = {sent.rc}
                   /\ DispatchResponse(buf, sent.cc)
                          = (IF Bodiless(sent) THEN "rejected" ELSE "dispatched")
    BY <2>7, Zenon DEF ReadsBack
  <2>. QED  BY <2>5, <2>7, <2>8, Zenon DEF RoundTrip
<1>. QED  BY <1>4, <1>5

(* What can be sent is written whole and reads back as exactly the handles, *)
(* parameters, sessions and response code that were given, and a frame     *)
(* that was cut short or has others behind it is never read as anything    *)
(* else: for every command table, every request of whatever size, and every*)
(* parameter codec that reads back what it wrote (CodecOk).                *)
THEOREM FramesRoundTrip == Spec => []RoundTrip
<1>1. Init => Inv /\ Unaltered
  <2>1. Init => Unaltered  BY DEF Init, Unaltered
  <2>. QED  BY <2>1, InitInv
<1>2. Inv /\ Unaltered /\ [Next]_vars => (Inv /\ Unaltered)'  BY NextInv, NextKept
<1>. QED  BY <1>1, <1>2, KeptRoundTrip, PTL DEF Spec

-----------------------------------------------------------------------------
(* Cutting byte strings: the beginning and the rest of one.                *)

LEMMA CutFacts ==
    ASSUME NEW s \in Str, NEW m \in Nat, m <= Len(s)
    PROVE  /\ Take(s, m) \in Str /\ Len(Take(s, m)) = m
           /\ Drop(s, m) \in Str /\ Len(Drop(s, m)) = Len(s) - m
           /\ \A i \in 1..m : Take(s, m)[i] = s[i]
           /\ \A i \in 1..Len(s) - m : Drop(s, m)[i] = s[m + i]
<1>1. CASE m = 0  BY <1>1 DEF Take, Drop, Str
<1>2. CASE m # 0 /\ m = Len(s)  BY <1>2 DEF Take, Drop, Str
<1>3. CASE m # 0 /\ m < Len(s)  BY <1>3 DEF Take, Drop, Str
<1>. QED  BY <1>1, <1>2, <1>3 DEF Str

LEMMA SameString ==
    ASSUME NEW a \in Str, NEW b \in Str, Len(a) = Len(b), \A i \in 1..Len(a) : a[i] = b[i]
    PROVE  a = b
BY SeqSame DEF Str

(* What is cut off in two steps is what is cut off in one.                 *)
LEMMA CutTwice ==
    ASSUME NEW s \in Str, NEW m \in Nat, NEW c \in Nat, m + c <= Len(s)
    PROVE  /\ Drop(Drop(s, m), c) = Drop(s, m + c)
           /\ Take(s, m) \o Take(Drop(s, m), c) = Take(s, m + c)
           /\ SubSeq(s, m + 1, m + c) = Take(Drop(s, m), c)
<1>. DEFINE d == Drop(s, m)
<1>0. Len(s) \in Nat /\ m <= Len(s)  BY DEF Str
<1>1. d \in Str /\ Len(d) = Len(s) - m /\ \A i \in 1..Len(s) - m : d[i] = s[m + i]
  BY <1>0, CutFacts
<1>2. Take(s, m) \in Str /\ Len(Take(s, m)) = m /\ \A i \in 1..m : Take(s, m)[i] = s[i]
  BY <1>0, CutFacts
<1>3. /\ Take(s, m + c) \in Str /\ Len(Take(s, m + c)) = m + c
      /\ Drop(s, m + c) \in Str /\ Len(Drop(s, m + c)) = Len(s) - (m + c)
      /\ \A i \in 1..m + c : Take(s, m + c)[i] = s[i]
      /\ \A i \in 1..Len(s) - (m + c) : Drop(s, m + c)[i] = s[(m + c) + i]
  BY CutFacts
<1>. HIDE DEF d
<1>4. /\ Take(d, c) \in Str /\ Len(Take(d, c)) = c
      /\ Drop(d, c) \in Str /\ Len(Drop(d, c)) = Len(d) - c
      /\ \A i \in 1..c : Take(d, c)[i] = d[i]
      /\ \A i \in 1..Len(d) - c : Drop(d, c)[i] = d[c + i]
  <2>1. c <= Len(d)  BY <1>0, <1>1
  <2>. QED  BY <1>1, <2>1, CutFacts
<1>5. Drop(d, c) = Drop(s, m + c)
  <2>0. (Len(s) - m) - c = Len(s) - (m + c)  BY <1>0
  <2>1. Len(Drop(d, c)) = Len(Drop(s, m + c))  BY <1>1, <1>3, <1>4, <2>0
  <2>2. \A i \in 1..Len(Drop(d, c)) : Drop(d, c)[i] = Drop(s, m + c)[i]
    <3>. TAKE i \in 1..Len(Drop(d, c))
    <3>1. i \in 1..Len(d) - c /\ c + i \in 1..Len(s) - m /\ i \in 1..Len(s) - (m + c)
      BY <1>0, <1>1, <1>4
    <3>2. Drop(d, c)[i] = s[m + (c + i)]  BY <1>1, <1>4, <3>1
    <3>3. m + (c + i) = (m + c) + i  BY <3>1
    <3>. QED  BY <1>3, <3>1, <3>2, <3>3
  <2>. QED  BY <1>3, <1>4, <2>1, <2>2, SameString
<1>6. Take(s, m) \o Take(d, c) = Take(s, m + c)
  <2>. DEFINE a == Take(s, m)
              b == Take(d, c)
  <2>1. a \in Seq(Byte) /\ b \in Seq(Byte) /\ Len(a) = m /\ Len(b) = c  BY <1>2, <1>4 DEF Str
  <2>2. \A i \in 1..m : a[i] = s[i]  BY <1>2
  <2>3. \A i \in 1..c : b[i] = s[m + i]
    <3>. TAKE i \in 1..c
    <3>1. i \in 1..Len(s) - m  BY <1>0
    <3>. QED  BY <1>1, <1>4, <3>1
  <2>. HIDE DEF a, b
  <2>4. /\ a \o b \in Seq(Byte) /\ Len(a \o b) = m + c
        /\ \A i \in 1..m : (a \o b)[i] = a[i]
        /\ \A i \in 1..c : (a \o b)[m + i] = b[i]
    BY <2>1, JoinFacts
  <2>5. \A i \in 1..m + c : (a \o b)[i] = s[i]
    <3>. TAKE i \in 1..m + c
    <3>1. CASE i <= m  BY <3>1, <2>2, <2>4
    <3>2. CASE ~(i <= m)
      <4>1. i - m \in 1..c /\ m + (i - m) = i  BY <3>2
      <4>. QED  BY <4>1, <2>3, <2>4
    <3>. QED  BY <3>1, <3>2
  <2>6. a \o b = Take(s, m + c)  BY <2>4, <2>5, <1>3, SameString DEF Str
  <2>. QED  BY <2>6 DEF a, b
<1>7. SubSeq(s, m + 1, m + c) = Take(d, c)
  <2>. DEFINE q == SubSeq(s, m + 1, m + c)
  <2>0. s \in Seq(Byte) /\ Len(s) \in Nat  BY DEF Str
  <2>1. q \in Seq(Byte) /\ Len(q) = c /\ \A i \in 1..c : q[i] = s[m + i]
    <3>1. CASE c = 0  BY <3>1, <2>0
    <3>2. CASE c # 0  BY <3>2, <2>0
    <3>. QED  BY <3>1, <3>2
  <2>. HIDE DEF q
  <2>2. \A i \in 1..c : q[i] = Take(d, c)[i]
    <3>. TAKE i \in 1..c
    <3>1. i \in 1..Len(s) - m  BY <1>0
    <3>. QED  BY <1>1, <1>4, <2>1, <3>1
  <2>3. q = Take(d, c)  BY <2>1, <2>2, <1>4, SameString DEF Str
  <2>. QED  BY <2>3 DEF q
<1>. QED  BY <1>5, <1>6, <1>7 DEF d

LEMMA CutEnds ==
    ASSUME NEW s \in Str
    PROVE  /\ Len(s) \in Nat
           /\ Take(s, 0) = <<>> /\ Drop(s, 0) = s
           /\ Take(s, Len(s)) = s /\ Drop(s, Len(s)) = <<>>
BY DEF Take, Drop, Str

LEMMA EmptyEnd ==
    ASSUME NEW s \in Str, NEW m \in Nat, m <= Len(s), Drop(s, m) = <<>>
    PROVE  m = Len(s)
<1>1. Len(Drop(s, m)) = Len(s) - m  BY CutFacts
<1>2. Len(<<>>) = 0  OBVIOUS
<1>. QED  BY <1>1, <1>2 DEF Str

LEMMA BytesIn == ASSUME NEW s \in Str PROVE \A i \in 1..Len(s) : s[i] \in 0..255
BY ItemsIn DEF Str, Byte

-----------------------------------------------------------------------------
(* Numbers and the bytes that spell them: a size field that was read is    *)
(* written back as the bytes it was read from.                             *)

LEMMA Split8 == \A x \in Nat : \A y \in 0..255 :
    (256 * x + y) \div 256 = x /\ (256 * x + y) % 256 = y
BY SMT

LEMMA Split16 == \A x \in Nat : \A y \in Nat : y < 65536 => (65536 * x + y) \div 65536 = x
BY SMT

LEMMA Split24 == \A x \in Nat : \A y \in Nat : y < 16777216 => (16777216 * x + y) \div 16777216 = x
BY SMT

(* The bytes of a number, as predicates, so that the big literals are      *)
(* expanded only where they are needed.                                    *)
DigitsOf2(n, a, b) ==
    n \in Nat /\ n < 65536 /\ (n \div 256) % 256 = a /\ n % 256 = b

LEMMA Digits2 ==
    ASSUME NEW a \in 0..255, NEW b \in 0..255, NEW n, n = 256 * a + b
    PROVE  DigitsOf2(n, a, b)
<1>1. a \in Nat /\ a % 256 = a  BY SMT
<1>2. n \div 256 = a /\ n % 256 = b  BY SMT
<1>3. n \in Nat /\ n < 65536  BY SMT
<1>. QED  BY <1>1, <1>2, <1>3, SMT DEF DigitsOf2

DigitsOf4(n, a, b, c, d) ==
    /\ n \in Nat
    /\ (n \div 16777216) % 256 = a /\ (n \div 65536) % 256 = b
    /\ (n \div 256) % 256 = c /\ n % 256 = d

LEMMA Digits4 ==
    ASSUME NEW a \in 0..255, NEW b \in 0..255, NEW c \in 0..255, NEW d \in 0..255,
           NEW n, n = 256 * (256 * (256 * a + b) + c) + d
    PROVE  DigitsOf4(n, a, b, c, d)
<1>0. n \in Nat  BY SMT
<1>1. a % 256 = a  BY SMT
<1>2. n \div 16777216 = a
  <2>1. n = 16777216 * a + (65536 * b + 256 * c + d) /\ 65536 * b + 256 * c + d \in Nat /\ 65536 * b + 256 * c + d < 16777216 /\ a \in Nat  BY SMT
  <2>. QED  BY <2>1, Split24, SMT
<1>3. n \div 65536 = 256 * a + b
  <2>1. n = 65536 * (256 * a + b) + (256 * c + d) /\ 256 * c + d \in Nat /\ 256 * c + d < 65536 /\ 256 * a + b \in Nat  BY SMT
  <2>. QED  BY <2>1, Split16, SMT
<1>4. n \div 256 = 256 * (256 * a + b) + c /\ n % 256 = d /\ 256 * a + b \in Nat
  <2>. DEFINE x == 256 * (256 * a + b) + c
  <2>1. n = 256 * x + d /\ x \in Nat /\ 256 * a + b \in Nat  BY SMT
  <2>. HIDE DEF x
  <2>2. n \div 256 = x /\ n % 256 = d  BY <2>1, SMT
  <2>. QED  BY <2>1, <2>2 DEF x
<1>5. (256 * a + b) % 256 = b /\ (256 * (256 * a + b) + c) % 256 = c
  <2>1. a \in Nat  OBVIOUS
  <2>. QED  BY <2>1, <1>4, Split8, SMT
<1>. QED  BY <1>0, <1>1, <1>2, <1>3, <1>4, <1>5, SMT DEF DigitsOf4

LEMMA Spelled1 ==
    ASSUME NEW s \in Str, Len(s) = 1
    PROVE  Number(s) \in Nat /\ Be(1, Number(s)) = s
<1>0. \A i \in 1..1 : s[i] \in 0..255  BY BytesIn
<1>1. s[1] \in 0..255  BY <1>0
<1>2. Number(s) = s[1]  BY DEF Number
<1>3. Be(1, s[1]) \in Seq(Byte) /\ Len(Be(1, s[1])) = 1 /\ Be(1, s[1])[1] = s[1] % 256
  <2> DEFINE item(i) == (s[1] \div 256 ^ (1 - i)) % 256
  <2>1. \A i \in 1..1 : item(i) \in Byte  BY <1>1, SMT DEF Byte
  <2>2. Be(1, s[1]) = [i \in 1..1 |-> item(i)]  BY DEF Be
  <2>4. item(1) = s[1] % 256  BY <1>1, SMT
  <2> HIDE DEF item
  <2>3. Be(1, s[1]) \in [1..1 -> Byte] /\ Len(Be(1, s[1])) = 1 /\ Be(1, s[1])[1] = item(1)  BY <2>1, <2>2
  <2>. QED  BY <2>3, <2>4, FunctionIsSeq
<1>4. s[1] % 256 = s[1]  BY <1>1, SMT
<1>5. \A i \in 1..1 : Be(1, s[1])[i] = s[i]  BY <1>3, <1>4
<1>6. Be(1, s[1]) = s  BY <1>3, <1>5, SeqSame DEF Str
<1>. QED  BY <1>1, <1>2, <1>6

LEMMA Spelled2 ==
    ASSUME NEW s \in Str, Len(s) = 2
    PROVE  Number(s) \in Nat /\ Be(2, Number(s)) = s
<1>0. \A i \in 1..2 : s[i] \in 0..255  BY BytesIn
<1>1. s[1] \in 0..255 /\ s[2] \in 0..255  BY <1>0
<1>. DEFINE n == Number(s)
<1>2. n = 256 * s[1] + s[2]  BY DEF Number
<1>. HIDE DEF n
<1>3. DigitsOf2(n, s[1], s[2])  BY <1>1, <1>2, Digits2, Zenon
<1>4. n \in Nat /\ n < 65536 /\ (n \div 256) % 256 = s[1] /\ n % 256 = s[2]
  BY <1>3, SMT DEF DigitsOf2
<1>5. /\ Len(Be(2, n)) = 2
      /\ Be(2, n)[1] = (n \div 256) % 256
      /\ Be(2, n)[2] = n % 256
  BY <1>4, SMT DEF Be
<1>6. Be(2, n) \in Seq(Byte)  BY <1>4, Word2, SMT
<1>7. \A i \in 1..2 : Be(2, n)[i] = s[i]  BY <1>4, <1>5, SMT
<1>8. Be(2, n) = s  BY <1>5, <1>6, <1>7, SeqSame DEF Str
<1>. QED  BY <1>4, <1>8, SMT DEF n

(* A word that Number gives as MAX_NUMBER is not told from the others, but *)
(* no list is that long.                                                   *)
LEMMA Spelled4 ==
    ASSUME NEW s \in Str, Len(s) = 4, Number(s) < MAX_NUMBER
    PROVE  Number(s) \in Nat /\ Be(4, Number(s)) = s
<1>1. s[1] \in 0..255 /\ s[2] \in 0..255 /\ s[3] \in 0..255 /\ s[4] \in 0..255
  <2>1. \A i \in 1..4 : s[i] \in 0..255  BY BytesIn
  <2>. QED  BY <2>1
<1>0. MAX_NUMBER \in Nat  BY SMT DEF MAX_NUMBER
<1>2. ~(s[1] > 127)
  <2>. SUFFICES ASSUME s[1] > 127 PROVE FALSE  OBVIOUS
  <2>0. Len(s) # 1 /\ Len(s) # 2  OBVIOUS
  <2>1. Number(s) = MAX_NUMBER  BY <2>0, Zenon DEF Number
  <2>. QED  BY <1>0, <2>1
<1>. DEFINE n == Number(s)
<1>3. n = 256 * (256 * (256 * s[1] + s[2]) + s[3]) + s[4]
  <2>1. Len(s) # 1 /\ Len(s) # 2  OBVIOUS
  <2>. QED  BY <1>2, <2>1, Zenon DEF Number
<1>. HIDE DEF n
<1>4. DigitsOf4(n, s[1], s[2], s[3], s[4])  BY <1>1, <1>3, Digits4, Zenon
<1>5. /\ n \in Nat
      /\ (n \div 16777216) % 256 = s[1] /\ (n \div 65536) % 256 = s[2]
      /\ (n \div 256) % 256 = s[3] /\ n % 256 = s[4]
  BY <1>4, SMT DEF DigitsOf4
<1>6. /\ Len(Be(4, n)) = 4
      /\ Be(4, n)[1] = (n \div 16777216) % 256
      /\ Be(4, n)[2] = (n \div 65536) % 256
      /\ Be(4, n)[3] = (n \div 256) % 256
      /\ Be(4, n)[4] = n % 256
  BY <1>5, SMT DEF Be
<1>7. Be(4, n) \in Seq(Byte)  BY <1>5, Word4Bytes, SMT
<1>8. \A i \in 1..4 : Be(4, n)[i] = s[i]  BY <1>5, <1>6, SMT
<1>9. Be(4, n) = s  BY <1>6, <1>7, <1>8, SMT, SeqSame DEF Str
<1>. QED  BY <1>5, <1>9, SMT DEF n

-----------------------------------------------------------------------------
(* The traits of the protocol crate, for every schema (WireCodec).         *)

(* How many items of a type may be read: as many as the structure has      *)
(* fields, any number of a list.                                           *)
ItemCounts(t) == IF t.k = "struct" THEN 0..Len(t.fs) ELSE Nat

(* The traits do for every type what its building block says.  WireCodec   *)
(* declares them as constants and gives the case of each building block as *)
(* ByKindX; a model that gives each X the value ByKindX, as MC_Wire does,  *)
(* satisfies this by construction.  The equations define the traits: the   *)
(* parts of a type have lower ranks (SchemaAssumption), and the items of a *)
(* value are counted.  Nothing is asked of the bounds Size.                *)
Traits ==
    /\ \A t, v : TypeOk(t) =>
           LenOf(t, v) = ByKindLenOf(t, v) /\ Marshal(t, v) = ByKindMarshal(t, v)
    /\ \A t : \A s \in Str : TypeOk(t) /\ t.k # "union" =>
           Unmarshal(t, s) = ByKindUnmarshal(t, s) /\ CastPrefix(t, s) = ByKindCastPrefix(t, s)
    /\ \A t : TypeOk(t) /\ t.k \in {"list", "struct"} =>
           \A i \in ItemCounts(t) :
               /\ \A v : /\ LenTo(t, v, i) = ByKindLenTo(t, v, i)
                         /\ MarshalTo(t, v, i) = ByKindMarshalTo(t, v, i)
               /\ \A s \in Str : /\ UnmarshalTo(t, s, i) = ByKindUnmarshalTo(t, s, i)
                                 /\ CastTo(t, s, i) = ByKindCastTo(t, s, i)

(* The two decoders of a type agree on a byte string: both refuse it, or   *)
(* both take the same beginning of it, and the value that was read says    *)
(* that length and marshals back to those very bytes.                      *)
Fails(t, s) == Unmarshal(t, s) = <<>> /\ CastPrefix(t, s) = Invalid
Reads(t, s, v, m) ==
    /\ m \in Nat /\ m <= Len(s)
    /\ Unmarshal(t, s) = <<v, Drop(s, m)>> /\ CastPrefix(t, s) = m
    /\ LenOf(t, v) = m /\ Marshal(t, v) = Take(s, m)
Agrees(t) == \A s \in Str : Fails(t, s) \/ \E v, m : Reads(t, s, v, m)

-----------------------------------------------------------------------------
(* The building blocks that are not made of items.                         *)

LEMMA WordAgrees ==
    ASSUME Traits, NEW t, TypeOk(t), t.k = "int"
    PROVE  Agrees(t)
<1>. SUFFICES ASSUME NEW s \in Str PROVE Fails(t, s) \/ \E v, m : Reads(t, s, v, m)
  BY DEF Agrees
<1>1. t.w \in Nat /\ Len(s) \in Nat  BY DEF TypeOk, Str
<1>2. Unmarshal(t, s) = UnmarshalWord(t.w, s) /\ CastPrefix(t, s) = CastWord(t.w, s)
  BY DEF Traits, ByKindUnmarshal, ByKindCastPrefix
<1>3. \A v : LenOf(t, v) = t.w /\ Marshal(t, v) = v
  BY DEF Traits, ByKindLenOf, ByKindMarshal
<1>4. CASE Len(s) < t.w
  <2>1. Fails(t, s)  BY <1>2, <1>4 DEF UnmarshalWord, CastWord, Fails
  <2>. QED  BY <2>1
<1>5. CASE ~(Len(s) < t.w)
  <2>1. Reads(t, s, Take(s, t.w), t.w)
    BY <1>1, <1>2, <1>3, <1>5 DEF UnmarshalWord, CastWord, Reads
  <2>. QED  BY <2>1
<1>. QED  BY <1>4, <1>5

LEMMA FixedAgrees ==
    ASSUME Traits, NEW t, TypeOk(t), t.k = "fixed"
    PROVE  Agrees(t)
<1>. SUFFICES ASSUME NEW s \in Str PROVE Fails(t, s) \/ \E v, m : Reads(t, s, v, m)
  BY DEF Agrees
<1>1. t.n \in Nat /\ Len(s) \in Nat  BY DEF TypeOk, Str
<1>2. Unmarshal(t, s) = UnmarshalWord(t.n, s) /\ CastPrefix(t, s) = CastWord(t.n, s)
  BY DEF Traits, ByKindUnmarshal, ByKindCastPrefix
<1>3. \A v : LenOf(t, v) = Len(v) /\ Marshal(t, v) = v
  BY DEF Traits, ByKindLenOf, ByKindMarshal
<1>4. CASE Len(s) < t.n
  <2>1. Fails(t, s)  BY <1>2, <1>4 DEF UnmarshalWord, CastWord, Fails
  <2>. QED  BY <2>1
<1>5. CASE ~(Len(s) < t.n)
  <2>2. t.n <= Len(s)  BY <1>1, <1>5
  <2>0. Len(Take(s, t.n)) = t.n  BY <1>1, <2>2, CutFacts
  <2>1. Reads(t, s, Take(s, t.n), t.n)
    BY <1>1, <1>2, <1>3, <1>5, <2>0 DEF UnmarshalWord, CastWord, Reads
  <2>. QED  BY <2>1
<1>. QED  BY <1>4, <1>5

LEMMA EnumAgrees ==
    ASSUME Traits, NEW t, TypeOk(t), t.k = "enum"
    PROVE  Agrees(t)
<1>. SUFFICES ASSUME NEW s \in Str PROVE Fails(t, s) \/ \E v, m : Reads(t, s, v, m)
  BY DEF Agrees
<1>1. t.w \in Nat /\ Len(s) \in Nat  BY DEF TypeOk, Str
<1>2. /\ Unmarshal(t, s) = IF Len(s) < t.w THEN <<>>
                           ELSE IF Take(s, t.w) \in t.vals THEN UnmarshalWord(t.w, s) ELSE <<>>
      /\ CastPrefix(t, s) = IF Len(s) < t.w THEN Invalid
                            ELSE IF Take(s, t.w) \in t.vals THEN t.w ELSE Invalid
  BY DEF Traits, ByKindUnmarshal, ByKindCastPrefix
<1>3. \A v : LenOf(t, v) = t.w /\ Marshal(t, v) = v
  BY DEF Traits, ByKindLenOf, ByKindMarshal
<1>4. CASE Len(s) < t.w \/ Take(s, t.w) \notin t.vals
  <2>1. Fails(t, s)  BY <1>2, <1>4 DEF Fails
  <2>. QED  BY <2>1
<1>5. CASE ~(Len(s) < t.w) /\ Take(s, t.w) \in t.vals
  <2>1. Reads(t, s, Take(s, t.w), t.w)
    BY <1>1, <1>2, <1>3, <1>5 DEF UnmarshalWord, Reads
  <2>. QED  BY <2>1
<1>. QED  BY <1>4, <1>5

LEMMA BufAgrees ==
    ASSUME Traits, NEW t, TypeOk(t), t.k = "buf"
    PROVE  Agrees(t)
<1>. SUFFICES ASSUME NEW s \in Str PROVE Fails(t, s) \/ \E v, m : Reads(t, s, v, m)
  BY DEF Agrees
<1>1. t.w \in {1, 2} /\ t.cap \in Nat /\ Len(s) \in Nat  BY DEF TypeOk, Str
<1>. DEFINE n == Number(Take(s, t.w))
            rest == Drop(s, t.w)
<1>2. /\ Unmarshal(t, s) = IF Len(s) < t.w THEN <<>>
                           ELSE IF n > t.cap \/ Len(rest) < n THEN <<>>
                           ELSE <<Take(rest, n), Drop(rest, n)>>
      /\ CastPrefix(t, s) = IF Len(s) < t.w THEN Invalid
                            ELSE IF n > t.cap \/ Len(s) - t.w < n THEN Invalid ELSE t.w + n
  BY DEF Traits, ByKindUnmarshal, ByKindCastPrefix, UnmarshalBuf
<1>3. \A v : LenOf(t, v) = t.w + Len(v) /\ Marshal(t, v) = Be(t.w, Len(v)) \o v
  BY DEF Traits, ByKindLenOf, ByKindMarshal
<1>4. CASE Len(s) < t.w
  <2>1. Fails(t, s)  BY <1>2, <1>4 DEF Fails
  <2>. QED  BY <2>1
<1>5. CASE ~(Len(s) < t.w)
  <2>1. t.w \in Nat /\ t.w <= Len(s)  BY <1>1, <1>5
  <2>2. /\ Take(s, t.w) \in Str /\ Len(Take(s, t.w)) = t.w
        /\ rest \in Str /\ Len(rest) = Len(s) - t.w
    BY <2>1, CutFacts
  <2>3. n \in Nat /\ Be(t.w, n) = Take(s, t.w)
    <3>1. CASE t.w = 1  BY <3>1, <2>2, Spelled1
    <3>2. CASE t.w = 2  BY <3>2, <2>2, Spelled2
    <3>. QED  BY <3>1, <3>2, <1>1
  <2>. HIDE DEF n, rest
  <2>4. CASE n > t.cap \/ Len(rest) < n
    <3>1. Fails(t, s)  BY <1>2, <1>5, <2>2, <2>4 DEF Fails
    <3>. QED  BY <3>1
  <2>5. CASE ~(n > t.cap \/ Len(rest) < n)
    <3>1. t.w + n <= Len(s) /\ n <= Len(rest) /\ t.w + n \in Nat  BY <1>1, <2>1, <2>2, <2>3, <2>5
    <3>2. /\ Drop(rest, n) = Drop(s, t.w + n)
          /\ Take(s, t.w) \o Take(rest, n) = Take(s, t.w + n)
      BY <2>1, <2>3, <3>1, CutTwice DEF rest
    <3>3. Len(Take(rest, n)) = n  BY <2>2, <2>3, <3>1, CutFacts
    <3>4. Unmarshal(t, s) = <<Take(rest, n), Drop(s, t.w + n)>>  BY <1>2, <1>5, <2>5, <3>2
    <3>5. CastPrefix(t, s) = t.w + n
      <4>1. ~(n > t.cap \/ Len(s) - t.w < n)  BY <2>2, <2>5
      <4>. QED  BY <1>2, <1>5, <4>1
    <3>6. LenOf(t, Take(rest, n)) = t.w + n  BY <1>3, <3>3
    <3>7. Marshal(t, Take(rest, n)) = Take(s, t.w + n)  BY <1>3, <2>3, <3>2, <3>3
    <3>8. Reads(t, s, Take(rest, n), t.w + n)  BY <3>1, <3>4, <3>5, <3>6, <3>7 DEF Reads
    <3>. QED  BY <3>8
  <2>. QED  BY <2>4, <2>5
<1>. QED  BY <1>4, <1>5

(* What is in a wrapper is read from exactly the bytes that its size field *)
(* announces, and must fill them.                                          *)
LEMMA WrapAgrees ==
    ASSUME Traits, NEW t, TypeOk(t), t.k = "wrap", Agrees(Types[t.of])
    PROVE  Agrees(t)
<1>. SUFFICES ASSUME NEW s \in Str PROVE Fails(t, s) \/ \E v, m : Reads(t, s, v, m)
  BY DEF Agrees
<1>. DEFINE u == Types[t.of]
            n == Number(Take(s, 2))
            rest == Drop(s, 2)
            inner == Unmarshal(u, Take(rest, n))
<1>1. Len(s) \in Nat  BY DEF Str
<1>2. /\ Unmarshal(t, s) = IF Len(s) < 2 THEN <<>>
                           ELSE IF n > Size(u) \/ Len(rest) < n THEN <<>>
                           ELSE IF inner = <<>> THEN <<>>
                           ELSE IF inner[2] # <<>> THEN <<>>
                           ELSE <<inner[1], Drop(rest, n)>>
      /\ CastPrefix(t, s) = IF Len(s) < 2 THEN Invalid
                            ELSE IF n > Size(u) \/ Len(s) - 2 < n THEN Invalid
                            ELSE IF CastPrefix(u, SubSeq(s, 3, 2 + n)) = n THEN 2 + n ELSE Invalid
  BY DEF Traits, ByKindUnmarshal, ByKindCastPrefix, UnmarshalWrap, Failed
<1>3. \A v : LenOf(t, v) = 2 + LenOf(u, v) /\ Marshal(t, v) = Be(2, LenOf(u, v)) \o Marshal(u, v)
  BY DEF Traits, ByKindLenOf, ByKindMarshal
<1>4. CASE Len(s) < 2
  <2>1. Fails(t, s)  BY <1>2, <1>4 DEF Fails
  <2>. QED  BY <2>1
<1>5. CASE ~(Len(s) < 2)
  <2>1. 2 <= Len(s)  BY <1>1, <1>5
  <2>2. /\ Take(s, 2) \in Str /\ Len(Take(s, 2)) = 2
        /\ rest \in Str /\ Len(rest) = Len(s) - 2
    BY <2>1, CutFacts
  <2>3. n \in Nat /\ Be(2, n) = Take(s, 2)  BY <2>2, Spelled2
  <2>. HIDE DEF n
  <2>4. CASE n > Size(u) \/ Len(rest) < n
    <3>1. Fails(t, s)  BY <1>2, <1>5, <2>2, <2>4 DEF Fails
    <3>. QED  BY <3>1
  <2>5. CASE ~(n > Size(u) \/ Len(rest) < n)
    <3>1. 2 + n <= Len(s) /\ n <= Len(rest) /\ 2 + n \in Nat  BY <1>1, <2>1, <2>2, <2>3, <2>5
    <3>. DEFINE q == Take(rest, n)
    <3>2. q \in Str /\ Len(q) = n  BY <2>2, <2>3, <3>1, CutFacts
    <3>3. /\ Drop(rest, n) = Drop(s, 2 + n)
          /\ Take(s, 2) \o q = Take(s, 2 + n)
          /\ SubSeq(s, 3, 2 + n) = q
      <4>1. /\ Drop(Drop(s, 2), n) = Drop(s, 2 + n)
            /\ Take(s, 2) \o Take(Drop(s, 2), n) = Take(s, 2 + n)
            /\ SubSeq(s, 2 + 1, 2 + n) = Take(Drop(s, 2), n)
        BY <2>3, <3>1, CutTwice
      <4>. QED  BY <4>1
    <3>4. /\ Unmarshal(t, s) = IF inner = <<>> THEN <<>>
                               ELSE IF inner[2] # <<>> THEN <<>>
                               ELSE <<inner[1], Drop(s, 2 + n)>>
          /\ CastPrefix(t, s) = IF CastPrefix(u, q) = n THEN 2 + n ELSE Invalid
      <4>1. ~(n > Size(u) \/ Len(s) - 2 < n)  BY <2>2, <2>5
      <4>. QED  BY <1>2, <1>5, <2>5, <3>3, <4>1
    <3>. HIDE DEF q
    <3>5. CASE Fails(u, q)
      <4>1. n # Invalid  BY <2>3 DEF Invalid
      <4>2. inner = <<>> /\ CastPrefix(u, q) # n  BY <3>5, <4>1 DEF Fails, q
      <4>3. Fails(t, s)  BY <3>4, <4>2 DEF Fails
      <4>. QED  BY <4>3
    <3>6. CASE \E v, m : Reads(u, q, v, m)
      <4>1. PICK v, m : Reads(u, q, v, m)  BY <3>6
      <4>2. /\ m \in Nat /\ m <= n /\ inner = <<v, Drop(q, m)>> /\ CastPrefix(u, q) = m
            /\ LenOf(u, v) = m /\ Marshal(u, v) = Take(q, m)
        BY <3>2, <4>1 DEF Reads, q
      <4>3. inner # <<>> /\ inner[1] = v /\ inner[2] = Drop(q, m)  BY <4>2
      <4>4. CASE m = n
        <5>1. Drop(q, m) = <<>> /\ Take(q, m) = q  BY <3>2, <4>4, CutEnds
        <5>2. Unmarshal(t, s) = <<v, Drop(s, 2 + n)>>  BY <3>4, <4>3, <5>1
        <5>3. CastPrefix(t, s) = 2 + n  BY <3>4, <4>2, <4>4
        <5>4. LenOf(t, v) = 2 + n /\ Marshal(t, v) = Take(s, 2 + n)
          BY <1>3, <2>3, <3>3, <4>2, <4>4, <5>1
        <5>5. Reads(t, s, v, 2 + n)  BY <3>1, <5>2, <5>3, <5>4 DEF Reads
        <5>. QED  BY <5>5
      <4>5. CASE m # n
        <5>1. Drop(q, m) # <<>>  BY <3>2, <4>2, <4>5, EmptyEnd
        <5>2. Fails(t, s)  BY <3>4, <4>2, <4>3, <4>5, <5>1 DEF Fails
        <5>. QED  BY <5>2
      <4>. QED  BY <4>4, <4>5
    <3>. QED  BY <3>2, <3>5, <3>6 DEF Agrees
  <2>. QED  BY <2>4, <2>5
<1>. QED  BY <1>4, <1>5

-----------------------------------------------------------------------------
(* The items of a list, the fields of a structure.                         *)

(* Sequences of values of whatever types.  Extend is Append, as a symbol   *)
(* that the provers do not interpret.                                      *)
Listed(vs, i) == \E S : vs \in Seq(S) /\ Len(vs) = i

Extend(vs, x) == Append(vs, x)

LEMMA AppendFacts ==
    ASSUME NEW n \in Nat, n # 0, NEW vs, Listed(vs, n - 1), NEW x
    PROVE  /\ Listed(Extend(vs, x), n)
           /\ Extend(vs, x)[n] = x
           /\ \A j \in 1..(n - 1) : Extend(vs, x)[j] = vs[j]
<1>. DEFINE i == n - 1
<1>0. i \in Nat /\ i + 1 = n  OBVIOUS
<1>1. PICK S : vs \in Seq(S) /\ Len(vs) = i  BY DEF Listed
<1>. HIDE DEF i
<1>. DEFINE T == S \cup {x}
<1>2. vs \in Seq(T) /\ x \in T
  <2>1. \A j \in 1..i : vs[j] \in T  BY <1>1
  <2>2. vs = [j \in 1..i |-> vs[j]]  BY <1>1
  <2>3. vs \in [1..i -> T]  BY <2>1, <2>2
  <2>. QED  BY <1>0, <2>3
<1>. HIDE DEF T
<1>3. Extend(vs, x) \in Seq(T) /\ Len(Extend(vs, x)) = i + 1  BY <1>0, <1>1, <1>2 DEF Extend
<1>4. Extend(vs, x)[i + 1] = x /\ \A j \in 1..i : Extend(vs, x)[j] = vs[j]  BY <1>0, <1>1, <1>2 DEF Extend
<1>5. Listed(Extend(vs, x), n)  BY <1>0, <1>3 DEF Listed
<1>6. Extend(vs, x)[n] = x  BY <1>0, <1>4
<1>. QED  BY <1>4, <1>5, <1>6 DEF i

LEMMA ArmIn ==
    ASSUME NEW u, UnionOk(u), NEW tag
    PROVE  ArmOf(u, tag) # 0 => ArmOf(u, tag) \in 1..Len(u.arms)
<1>1. DOMAIN u.arms = 1..Len(u.arms)  BY DEF UnionOk
<1>. QED  BY <1>1 DEF ArmOf

(* A union is no item by itself: it agrees when its arms do.               *)
ItemAgrees(f) ==
    IF f.k = "union" THEN \A a \in 1..Len(f.arms) : Agrees(ArmType(f, a)) ELSE Agrees(f)

Collection(t) == TypeOk(t) /\ t.k \in {"list", "struct"}

LEMMA ItemOk ==
    ASSUME NEW t, Collection(t), NEW i \in ItemCounts(t), i # 0
    PROVE  /\ i \in Nat /\ i - 1 \in ItemCounts(t) /\ i - 1 \in Nat
           /\ TypeOk(ItemType(t, i))
           /\ ItemType(t, i).k = "union" =>
                  /\ UnionOk(ItemType(t, i))
                  /\ ItemType(t, i).by \in 1..(i - 1)
                  /\ ItemType(t, ItemType(t, i).by).k \in {"int", "enum"}
<1>1. CASE t.k = "list"
  <2>1. i \in Nat /\ i - 1 \in Nat /\ i - 1 \in ItemCounts(t)  BY <1>1 DEF ItemCounts
  <2>2. Whole(t.of)  BY <1>1 DEF Collection, TypeOk
  <2>3. ItemType(t, i) = Types[t.of]  BY <1>1 DEF ItemType
  <2>. QED  BY <2>1, <2>2, <2>3, SchemaAssumption DEF Whole, Named
<1>2. CASE t.k = "struct"
  <2>1. StructOk(t)  BY <1>2 DEF Collection, TypeOk
  <2>2. t.fs \in Seq(DOMAIN Types) /\ Len(t.fs) \in Nat  BY <2>1 DEF StructOk
  <2>3. i \in 1..Len(t.fs)  BY <1>2, <2>2 DEF ItemCounts
  <2>4. i \in Nat /\ i - 1 \in Nat /\ i - 1 \in ItemCounts(t)  BY <1>2, <2>2, <2>3 DEF ItemCounts
  <2>5. \A j : ItemType(t, j) = Types[t.fs[j]]  BY <1>2 DEF ItemType
  <2>6. t.fs[i] \in DOMAIN Types  BY <2>2, <2>3
  <2>7. TypeOk(ItemType(t, i))  BY <2>5, <2>6, SchemaAssumption
  <2>8. ASSUME ItemType(t, i).k = "union"
        PROVE  /\ UnionOk(ItemType(t, i))
               /\ ItemType(t, i).by \in 1..(i - 1)
               /\ ItemType(t, ItemType(t, i).by).k \in {"int", "enum"}
    <3>1. UnionOk(ItemType(t, i))  BY <2>7, <2>8 DEF TypeOk
    <3>2. ItemType(t, i).by \in 1..(i - 1) /\ Scalar(t.fs[ItemType(t, i).by])
      BY <2>1, <2>3, <2>5, <2>8 DEF StructOk
    <3>. QED  BY <3>1, <3>2, <2>5 DEF Scalar
  <2>. QED  BY <2>4, <2>7, <2>8
<1>. QED  BY <1>1, <1>2 DEF Collection

(* A structure of which only the selector is on the wire when that is      *)
(* TPM_ALG_NULL: its other fields are unions without payload then.         *)
IsOptional(t) == t.k = "struct" /\ t.optional

LEMMA OptionalItem ==
    ASSUME NEW t, Collection(t), IsOptional(t), NEW i \in ItemCounts(t), i # 0, i # 1
    PROVE  LET f == ItemType(t, i)
               g == ArmType(f, ArmOf(f, ALG_NULL))
           IN  /\ ItemType(t, 1).k \in {"int", "enum"}
               /\ f.k = "union" /\ f.by = 1 /\ ArmOf(f, ALG_NULL) # 0
               /\ g.k = "struct" /\ g.fs = <<>>
<1>1. StructOk(t) /\ t.optional /\ t.k = "struct"  BY DEF Collection, TypeOk, IsOptional
<1>2. OptionalOk(t.fs)  BY <1>1 DEF StructOk
<1>3. t.fs \in Seq(DOMAIN Types) /\ Len(t.fs) \in Nat  BY <1>1 DEF StructOk
<1>4. i \in 2..Len(t.fs)  BY <1>1, <1>3 DEF ItemCounts
<1>5. \A j : ItemType(t, j) = Types[t.fs[j]]  BY <1>1 DEF ItemType
<1>6. ItemType(t, 1).k \in {"int", "enum"}  BY <1>2, <1>5 DEF OptionalOk, Scalar
<1>7. LET u == Types[t.fs[i]] IN
      /\ u.k = "union" /\ u.by = 1 /\ ArmOf(u, ALG_NULL) # 0
      /\ LET e == ArmType(u, ArmOf(u, ALG_NULL)) IN e.k = "struct" /\ e.fs = <<>>
  BY <1>2, <1>4 DEF OptionalOk
<1>. QED  BY <1>5, <1>6, <1>7

(* The first items, read: all decoders end at the same place, the values   *)
(* marshal back to the bytes before it, and a selector is seen by the      *)
(* views as the bytes it was read as.  After a selector that is            *)
(* TPM_ALG_NULL nothing more was taken, so what marshal leaves out has no  *)
(* bytes.                                                                  *)
ItemsFail(t, s, i) == UnmarshalTo(t, s, i) = <<>> /\ CastTo(t, s, i) = Invalid

ItemsRead(t, s, i, vs, m) ==
    /\ m \in Nat /\ m <= Len(s) /\ Listed(vs, i)
    /\ UnmarshalTo(t, s, i) = <<vs, Drop(s, m)>> /\ CastTo(t, s, i) = m
    /\ \A w : (\A j \in 1..i : w[j] = vs[j]) =>
                  LenTo(t, w, i) = m /\ MarshalTo(t, w, i) = Take(s, m)
    /\ \A j \in 1..i : ItemType(t, j).k \in {"int", "enum"} =>
           vs[j] = SubSeq(s, CastTo(t, s, j - 1) + 1, CastTo(t, s, j))
    /\ IsOptional(t) /\ i # 0 /\ vs[1] = ALG_NULL =>
           \A w : w[1] = vs[1] => LenTo(t, w, 1) = m /\ MarshalTo(t, w, 1) = Take(s, m)

(* One item more.                                                          *)
ItemRead(t, s, i, vs, m, x, c) ==
    /\ c \in Nat /\ m + c <= Len(s)
    /\ UnmarshalTo(t, s, i) = <<Extend(vs, x), Drop(s, m + c)>> /\ CastTo(t, s, i) = m + c
    /\ LenOf(ItemType(t, i), x) = c /\ Marshal(ItemType(t, i), x) = Take(Drop(s, m), c)
    /\ ItemType(t, i).k \in {"int", "enum"} => x = Take(Drop(s, m), c)
    /\ IsOptional(t) /\ i # 1 /\ vs[1] = ALG_NULL => c = 0

LEMMA NoItems ==
    ASSUME Traits, NEW t, Collection(t), NEW s \in Str
    PROVE  ItemsRead(t, s, 0, <<>>, 0)
<1>1. 0 \in ItemCounts(t)
  <2>1. CASE t.k = "struct"  BY <2>1 DEF Collection, TypeOk, StructOk, ItemCounts
  <2>2. CASE t.k # "struct"  BY <2>2 DEF ItemCounts
  <2>. QED  BY <2>1, <2>2
<1>2. UnmarshalTo(t, s, 0) = <<<<>>, s>> /\ CastTo(t, s, 0) = 0
  BY <1>1 DEF Traits, Collection, ByKindUnmarshalTo, ByKindCastTo
<1>3. \A w : LenTo(t, w, 0) = 0 /\ MarshalTo(t, w, 0) = <<>>
  BY <1>1 DEF Traits, Collection, ByKindLenTo, ByKindMarshalTo
<1>4. Listed(<<>>, 0)
  <2>1. <<>> \in Seq({}) /\ Len(<<>>) = 0  OBVIOUS
  <2>. QED  BY <2>1 DEF Listed
<1>5. Len(s) \in Nat /\ Take(s, 0) = <<>> /\ Drop(s, 0) = s  BY CutEnds
<1>6. 0 <= Len(s) /\ 1..0 = {}  BY <1>5
<1>. QED  BY <1>2, <1>3, <1>4, <1>5, <1>6 DEF ItemsRead

LEMMA ItemsGrow ==
    ASSUME Traits, NEW t, Collection(t), NEW s \in Str, NEW i \in ItemCounts(t), i # 0,
           NEW vs, NEW m, ItemsRead(t, s, i - 1, vs, m), NEW x, NEW c, ItemRead(t, s, i, vs, m, x, c)
    PROVE  ItemsRead(t, s, i, Extend(vs, x), m + c)
<1>. DEFINE ws == Extend(vs, x)
            f == ItemType(t, i)
<1>1. i \in Nat /\ i - 1 \in Nat /\ (i - 1) + 1 = i  BY ItemOk
<1>2. /\ m \in Nat /\ m <= Len(s) /\ Listed(vs, i - 1)
      /\ CastTo(t, s, i - 1) = m
      /\ \A w : (\A j \in 1..(i - 1) : w[j] = vs[j]) =>
                    LenTo(t, w, i - 1) = m /\ MarshalTo(t, w, i - 1) = Take(s, m)
      /\ \A j \in 1..(i - 1) : ItemType(t, j).k \in {"int", "enum"} =>
             vs[j] = SubSeq(s, CastTo(t, s, j - 1) + 1, CastTo(t, s, j))
      /\ IsOptional(t) /\ i - 1 # 0 /\ vs[1] = ALG_NULL =>
             \A w : w[1] = vs[1] => LenTo(t, w, 1) = m /\ MarshalTo(t, w, 1) = Take(s, m)
  BY DEF ItemsRead
<1>3. /\ c \in Nat /\ m + c <= Len(s) /\ UnmarshalTo(t, s, i) = <<ws, Drop(s, m + c)>>
      /\ CastTo(t, s, i) = m + c /\ LenOf(f, x) = c /\ Marshal(f, x) = Take(Drop(s, m), c)
      /\ f.k \in {"int", "enum"} => x = Take(Drop(s, m), c)
      /\ IsOptional(t) /\ i # 1 /\ vs[1] = ALG_NULL => c = 0
  BY DEF ItemRead
<1>4. Listed(ws, i) /\ ws[i] = x /\ \A j \in 1..(i - 1) : ws[j] = vs[j]
  <2>1. i \in Nat /\ i # 0 /\ Listed(vs, i - 1)  BY <1>1, <1>2
  <2>. QED  BY <2>1, AppendFacts
<1>5. /\ Take(s, m) \o Take(Drop(s, m), c) = Take(s, m + c)
      /\ SubSeq(s, m + 1, m + c) = Take(Drop(s, m), c)
  BY <1>2, <1>3, CutTwice
<1>. HIDE DEF ws, f
<1>6. \A w : (\A j \in 1..i : w[j] = ws[j]) =>
                 LenTo(t, w, i) = m + c /\ MarshalTo(t, w, i) = Take(s, m + c)
  <2>. TAKE w
  <2>. HAVE \A j \in 1..i : w[j] = ws[j]
  <2>1. (\A j \in 1..(i - 1) : w[j] = vs[j]) /\ w[i] = x
    <3>1. \A j \in 1..(i - 1) : j \in 1..i  BY <1>1
    <3>2. i \in 1..i  BY <1>1
    <3>. QED  BY <3>1, <3>2, <1>4
  <2>2. LenTo(t, w, i) = LenTo(t, w, i - 1) + LenOf(f, w[i])
    BY DEF Traits, Collection, ByKindLenTo, f
  <2>3. MarshalTo(t, w, i) = MarshalTo(t, w, i - 1) \o Marshal(f, w[i])
    BY DEF Traits, Collection, ByKindMarshalTo, f
  <2>. QED  BY <1>2, <1>3, <1>5, <2>1, <2>2, <2>3
<1>7. \A j \in 1..i : ItemType(t, j).k \in {"int", "enum"} =>
          ws[j] = SubSeq(s, CastTo(t, s, j - 1) + 1, CastTo(t, s, j))
  <2>. TAKE j \in 1..i
  <2>. HAVE ItemType(t, j).k \in {"int", "enum"}
  <2>1. CASE j = i  BY <2>1, <1>2, <1>3, <1>4, <1>5 DEF f
  <2>2. CASE j # i
    <3>1. j \in 1..(i - 1)  BY <2>2, <1>1
    <3>. QED  BY <3>1, <1>2, <1>4
  <2>. QED  BY <2>1, <2>2
<1>8. ASSUME IsOptional(t), ws[1] = ALG_NULL, NEW w, w[1] = ws[1]
      PROVE  LenTo(t, w, 1) = m + c /\ MarshalTo(t, w, 1) = Take(s, m + c)
  <2>1. CASE i = 1
    <3>1. \A j \in 1..i : w[j] = ws[j]  BY <1>8, <2>1
    <3>. QED  BY <3>1, <1>6, <2>1
  <2>2. CASE i # 1
    <3>1. 1 \in 1..(i - 1) /\ i - 1 # 0  BY <1>1, <2>2
    <3>2. ws[1] = vs[1]  BY <3>1, <1>4
    <3>3. c = 0 /\ m + c = m  BY <1>2, <1>3, <1>8, <2>2, <3>2
    <3>. QED  BY <1>2, <1>8, <3>1, <3>2, <3>3
  <2>. QED  BY <2>1, <2>2
<1>9. m + c \in Nat  BY <1>2, <1>3
<1>10. ItemsRead(t, s, i, ws, m + c)  BY <1>3, <1>4, <1>6, <1>7, <1>8, <1>9 DEF ItemsRead
<1>. QED  BY <1>10 DEF ws

LEMMA EmptyReads ==
    ASSUME Traits, NEW g, TypeOk(g), g.k = "struct", g.fs = <<>>, NEW r \in Str
    PROVE  CastPrefix(g, r) = 0
<1>1. Collection(g) /\ Len(g.fs) = 0  BY DEF Collection
<1>2. CastPrefix(g, r) = CastTo(g, r, Len(g.fs))  BY DEF Traits, ByKindCastPrefix
<1>3. CastTo(g, r, 0) = 0  BY <1>1, NoItems DEF ItemsRead
<1>. QED  BY <1>1, <1>2, <1>3

(* What the two decoders do with one item more.  The views do not keep     *)
(* values: they look at the bytes of the selector again.                   *)
ItemBytes(t, s, j) == SubSeq(s, CastTo(t, s, j - 1) + 1, CastTo(t, s, j))
NullSelector(t, s, i) == IsOptional(t) /\ i > 1 /\ ItemBytes(t, s, 1) = ALG_NULL

LEMMA PlainStep ==
    ASSUME Traits, NEW t, Collection(t), NEW s \in Str, NEW i \in ItemCounts(t), i # 0,
           NEW vs, NEW rest, UnmarshalTo(t, s, i - 1) = <<vs, rest>>, CastTo(t, s, i - 1) # Invalid,
           ItemType(t, i).k # "union"
    PROVE  LET r == Unmarshal(ItemType(t, i), rest)
               end == CastTo(t, s, i - 1)
               c == CastPrefix(ItemType(t, i), Drop(s, end))
           IN  /\ UnmarshalTo(t, s, i) = IF r = <<>> THEN <<>> ELSE <<Extend(vs, r[1]), r[2]>>
               /\ CastTo(t, s, i) = IF NullSelector(t, s, i) THEN end
                                    ELSE IF c = Invalid THEN Invalid ELSE end + c
<1>1. UnmarshalTo(t, s, i) = ByKindUnmarshalTo(t, s, i) /\ CastTo(t, s, i) = ByKindCastTo(t, s, i)
  BY DEF Traits, Collection
<1>2. UnmarshalTo(t, s, i - 1) # <<>> /\ UnmarshalTo(t, s, i - 1)[1] = vs /\ UnmarshalTo(t, s, i - 1)[2] = rest
  OBVIOUS
<1>3. ByKindUnmarshalTo(t, s, i) =
          LET r == Unmarshal(ItemType(t, i), rest)
          IN  IF r = <<>> THEN <<>> ELSE <<Extend(vs, r[1]), r[2]>>
  BY <1>2 DEF ByKindUnmarshalTo, Failed, Extend
<1>4. ByKindCastTo(t, s, i) =
          LET end == CastTo(t, s, i - 1)
              c == CastPrefix(ItemType(t, i), Drop(s, end))
          IN  IF NullSelector(t, s, i) THEN end ELSE IF c = Invalid THEN Invalid ELSE end + c
  BY DEF ByKindCastTo, NullSelector, IsOptional, ItemBytes
<1>. QED  BY <1>1, <1>3, <1>4

LEMMA UnionStep ==
    ASSUME Traits, NEW t, Collection(t), NEW s \in Str, NEW i \in ItemCounts(t), i # 0,
           NEW vs, NEW rest, UnmarshalTo(t, s, i - 1) = <<vs, rest>>, CastTo(t, s, i - 1) # Invalid,
           ItemType(t, i).k = "union",
           NEW a, a = ArmOf(ItemType(t, i), vs[ItemType(t, i).by]),
           vs[ItemType(t, i).by] = ItemBytes(t, s, ItemType(t, i).by)
    PROVE  LET g == ArmType(ItemType(t, i), a)
               r == Unmarshal(g, rest)
               end == CastTo(t, s, i - 1)
               c == CastPrefix(g, Drop(s, end))
           IN  /\ UnmarshalTo(t, s, i) = IF a = 0 \/ r = <<>> THEN <<>>
                                         ELSE <<Extend(vs, <<a, r[1]>>), r[2]>>
               /\ CastTo(t, s, i) = IF NullSelector(t, s, i) THEN end
                                    ELSE IF a = 0 \/ c = Invalid THEN Invalid ELSE end + c
<1>1. UnmarshalTo(t, s, i) = ByKindUnmarshalTo(t, s, i) /\ CastTo(t, s, i) = ByKindCastTo(t, s, i)
  BY DEF Traits, Collection
<1>2. UnmarshalTo(t, s, i - 1) # <<>> /\ UnmarshalTo(t, s, i - 1)[1] = vs /\ UnmarshalTo(t, s, i - 1)[2] = rest
  OBVIOUS
<1>3. ByKindUnmarshalTo(t, s, i) =
          LET r == IF a = 0 THEN <<>> ELSE Unmarshal(ArmType(ItemType(t, i), a), rest)
          IN  IF r = <<>> THEN <<>> ELSE <<Extend(vs, <<a, r[1]>>), r[2]>>
  BY <1>2 DEF ByKindUnmarshalTo, Failed, Extend
<1>4. ByKindCastTo(t, s, i) =
          LET end == CastTo(t, s, i - 1)
              c == IF a = 0 THEN Invalid ELSE CastPrefix(ArmType(ItemType(t, i), a), Drop(s, end))
          IN  IF NullSelector(t, s, i) THEN end ELSE IF c = Invalid THEN Invalid ELSE end + c
  BY DEF ByKindCastTo, NullSelector, IsOptional, ItemBytes
<1>. QED  BY <1>1, <1>3, <1>4

LEMMA FailStep ==
    ASSUME Traits, NEW t, Collection(t), NEW s \in Str, NEW i \in ItemCounts(t), i # 0,
           ItemsFail(t, s, i - 1)
    PROVE  ItemsFail(t, s, i)
<1>1. UnmarshalTo(t, s, i) = ByKindUnmarshalTo(t, s, i) /\ CastTo(t, s, i) = ByKindCastTo(t, s, i)
  BY DEF Traits, Collection
<1>2. ByKindUnmarshalTo(t, s, i) = <<>>  BY DEF ByKindUnmarshalTo, Failed, ItemsFail
<1>3. ByKindCastTo(t, s, i) = Invalid  BY DEF ByKindCastTo, ItemsFail
<1>. QED  BY <1>1, <1>2, <1>3 DEF ItemsFail

LEMMA ScalarMarshals ==
    ASSUME Traits, NEW f, TypeOk(f), f.k \in {"int", "enum"}
    PROVE  \A v : Marshal(f, v) = v
BY DEF Traits, ByKindMarshal

LEMMA UnionMarshals ==
    ASSUME Traits, NEW f, TypeOk(f), f.k = "union", NEW a, NEW v
    PROVE  /\ LenOf(f, <<a, v>>) = LenOf(ArmType(f, a), v)
           /\ Marshal(f, <<a, v>>) = Marshal(ArmType(f, a), v)
BY DEF Traits, ByKindMarshal, ByKindLenOf

(* One item more is refused by both decoders, or read by both alike.       *)
LEMMA ItemStep ==
    ASSUME Traits, NEW t, Collection(t), NEW s \in Str, NEW i \in ItemCounts(t), i # 0,
           ItemAgrees(ItemType(t, i)), NEW vs, NEW m, ItemsRead(t, s, i - 1, vs, m)
    PROVE  ItemsFail(t, s, i) \/ \E x, c : ItemRead(t, s, i, vs, m, x, c)
<1>. DEFINE f == ItemType(t, i)
            rest == Drop(s, m)
<1>1. /\ i \in Nat /\ i - 1 \in Nat /\ TypeOk(f)
      /\ f.k = "union" => /\ UnionOk(f) /\ f.by \in 1..(i - 1)
                          /\ ItemType(t, f.by).k \in {"int", "enum"}
  BY ItemOk
<1>2. /\ m \in Nat /\ m <= Len(s)
      /\ UnmarshalTo(t, s, i - 1) = <<vs, rest>> /\ CastTo(t, s, i - 1) = m
      /\ \A j \in 1..(i - 1) : ItemType(t, j).k \in {"int", "enum"} => vs[j] = ItemBytes(t, s, j)
  BY DEF ItemsRead, ItemBytes
<1>3. Len(s) \in Nat /\ rest \in Str /\ Len(rest) = Len(s) - m  BY <1>2, CutFacts DEF Str
<1>4. m # Invalid  BY <1>2 DEF Invalid
<1>5. ASSUME IsOptional(t), i # 1
      PROVE  ItemType(t, 1).k \in {"int", "enum"} /\ vs[1] = ItemBytes(t, s, 1)
  <2>1. ItemType(t, 1).k \in {"int", "enum"}  BY <1>5, OptionalItem
  <2>2. 1 \in 1..(i - 1)  BY <1>1, <1>5
  <2>. QED  BY <2>1, <2>2, <1>2
<1>6. CASE f.k # "union"
  <2>. DEFINE r == Unmarshal(f, rest)
              c == CastPrefix(f, rest)
  <2>1. ~NullSelector(t, s, i)
    <3>1. IsOptional(t) /\ i > 1 => f.k = "union"  BY <1>1, OptionalItem
    <3>. QED  BY <3>1, <1>6 DEF NullSelector
  <2>2. /\ UnmarshalTo(t, s, i) = IF r = <<>> THEN <<>> ELSE <<Extend(vs, r[1]), r[2]>>
        /\ CastTo(t, s, i) = IF c = Invalid THEN Invalid ELSE m + c
    BY <1>2, <1>4, <1>6, <2>1, PlainStep
  <2>3. Agrees(f)  BY <1>6 DEF ItemAgrees
  <2>4. CASE Fails(f, rest)
    <3>1. ItemsFail(t, s, i)  BY <2>2, <2>4 DEF Fails, ItemsFail
    <3>. QED  BY <3>1
  <2>5. CASE \E v, n : Reads(f, rest, v, n)
    <3>1. PICK v, n : Reads(f, rest, v, n)  BY <2>5
    <3>2. /\ n \in Nat /\ n <= Len(rest) /\ r = <<v, Drop(rest, n)>> /\ c = n
          /\ LenOf(f, v) = n /\ Marshal(f, v) = Take(rest, n)
      BY <3>1 DEF Reads
    <3>3. m + n <= Len(s) /\ n # Invalid  BY <1>2, <1>3, <3>2 DEF Invalid
    <3>4. Drop(rest, n) = Drop(s, m + n)  BY <1>2, <3>2, <3>3, CutTwice
    <3>5. r # <<>> /\ r[1] = v /\ r[2] = Drop(s, m + n)  BY <3>2, <3>4
    <3>6. f.k \in {"int", "enum"} => v = Take(rest, n)  BY <1>1, <3>2, ScalarMarshals
    <3>7. ~(IsOptional(t) /\ i # 1)  BY <1>6, OptionalItem
    <3>8. UnmarshalTo(t, s, i) = <<Extend(vs, v), Drop(s, m + n)>> /\ CastTo(t, s, i) = m + n
      BY <2>2, <3>2, <3>3, <3>5
    <3>. HIDE DEF f, rest, r, c
    <3>9. ItemRead(t, s, i, vs, m, v, n)  BY <3>2, <3>3, <3>6, <3>7, <3>8 DEF ItemRead, f, rest
    <3>. QED  BY <3>9
  <2>. QED  BY <1>3, <2>3, <2>4, <2>5 DEF Agrees
<1>7. CASE f.k = "union"
  <2>. DEFINE a == ArmOf(f, vs[f.by])
              g == ArmType(f, a)
              r == Unmarshal(g, rest)
              c == CastPrefix(g, rest)
  <2>1. UnionOk(f) /\ vs[f.by] = ItemBytes(t, s, f.by)  BY <1>1, <1>2, <1>7
  <2>2. /\ UnmarshalTo(t, s, i) = IF a = 0 \/ r = <<>> THEN <<>> ELSE <<Extend(vs, <<a, r[1]>>), r[2]>>
        /\ CastTo(t, s, i) = IF NullSelector(t, s, i) THEN m
                             ELSE IF a = 0 \/ c = Invalid THEN Invalid ELSE m + c
    BY <1>2, <1>4, <1>7, <2>1, UnionStep
  <2>3. a # 0 => Agrees(g)  BY <1>7, <2>1, ArmIn DEF ItemAgrees
  <2>4. ASSUME IsOptional(t), i # 1, vs[1] = ALG_NULL
        PROVE  a # 0 /\ c = 0
    <3>1. f.by = 1 /\ ArmOf(f, ALG_NULL) # 0  BY <2>4, OptionalItem
    <3>2. a = ArmOf(f, ALG_NULL)  BY <2>4, <3>1
    <3>3. g.k = "struct" /\ g.fs = <<>>  BY <2>4, <3>2, OptionalItem
    <3>4. TypeOk(g)
      <4>1. a \in 1..Len(f.arms)  BY <2>1, <3>1, <3>2, ArmIn
      <4>2. Named(f.arms[a].of)  BY <2>1, <4>1 DEF UnionOk, Whole
      <4>. QED  BY <4>2, SchemaAssumption DEF ArmType, Named
    <3>. QED  BY <1>3, <3>1, <3>2, <3>3, <3>4, EmptyReads
  <2>5. NullSelector(t, s, i) => IsOptional(t) /\ i # 1 /\ vs[1] = ALG_NULL
    BY <1>1, <1>5 DEF NullSelector
  <2>6. CastTo(t, s, i) = IF a = 0 \/ c = Invalid THEN Invalid ELSE m + c
    <3>1. CASE NullSelector(t, s, i)
      <4>1. a # 0 /\ c = 0  BY <3>1, <2>4, <2>5
      <4>2. c # Invalid /\ m + c = m  BY <4>1, <1>2 DEF Invalid
      <4>. QED  BY <2>2, <3>1, <4>1, <4>2
    <3>2. CASE ~NullSelector(t, s, i)  BY <3>2, <2>2
    <3>. QED  BY <3>1, <3>2
  <2>7. CASE a = 0 \/ Fails(g, rest)
    <3>1. ItemsFail(t, s, i)  BY <2>2, <2>6, <2>7 DEF Fails, ItemsFail
    <3>. QED  BY <3>1
  <2>8. CASE a # 0 /\ \E v, n : Reads(g, rest, v, n)
    <3>1. PICK v, n : Reads(g, rest, v, n)  BY <2>8
    <3>2. /\ n \in Nat /\ n <= Len(rest) /\ r = <<v, Drop(rest, n)>> /\ c = n
          /\ LenOf(g, v) = n /\ Marshal(g, v) = Take(rest, n)
      BY <3>1 DEF Reads
    <3>3. m + n <= Len(s) /\ n # Invalid  BY <1>2, <1>3, <3>2 DEF Invalid
    <3>4. Drop(rest, n) = Drop(s, m + n)  BY <1>2, <3>2, <3>3, CutTwice
    <3>5. r # <<>> /\ r[1] = v /\ r[2] = Drop(s, m + n)  BY <3>2, <3>4
    <3>6. LenOf(f, <<a, v>>) = n /\ Marshal(f, <<a, v>>) = Take(rest, n)
      BY <1>1, <1>7, <3>2, UnionMarshals
    <3>7. IsOptional(t) /\ i # 1 /\ vs[1] = ALG_NULL => n = 0  BY <2>4, <3>2
    <3>8. UnmarshalTo(t, s, i) = <<Extend(vs, <<a, v>>), Drop(s, m + n)>> /\ CastTo(t, s, i) = m + n
      BY <2>2, <2>6, <2>8, <3>2, <3>3, <3>5
    <3>. HIDE DEF f, rest, r, c, a, g
    <3>9. ItemRead(t, s, i, vs, m, <<a, v>>, n)
      BY <1>7, <3>2, <3>3, <3>6, <3>7, <3>8 DEF ItemRead, f, rest
    <3>. QED  BY <3>9
  <2>. QED  BY <1>3, <2>3, <2>7, <2>8 DEF Agrees
<1>. QED  BY <1>6, <1>7

(* By induction on the number of items.                                    *)
ItemsAgree(t, s, i) == ItemsFail(t, s, i) \/ \E vs, m : ItemsRead(t, s, i, vs, m)

LEMMA AllItemsAgree ==
    ASSUME Traits, NEW t, Collection(t), NEW s \in Str,
           \A j \in ItemCounts(t) : j # 0 => ItemAgrees(ItemType(t, j)), NEW n \in ItemCounts(t)
    PROVE  ItemsAgree(t, s, n)
<1>. DEFINE T == {i \in ItemCounts(t) : ItemsAgree(t, s, i)}
<1>0. n \in Nat /\ \A i \in 0..n : i \in ItemCounts(t)
  <2>1. CASE t.k = "struct"
    <3>1. Len(t.fs) \in Nat  BY <2>1 DEF Collection, TypeOk, StructOk
    <3>. QED  BY <2>1, <3>1 DEF ItemCounts
  <2>2. CASE t.k # "struct"  BY <2>2 DEF ItemCounts
  <2>. QED  BY <2>1, <2>2
<1>1. 0 \in T
  <2>1. 0 \in ItemCounts(t)  BY <1>0
  <2>. QED  BY <2>1, NoItems DEF ItemsAgree
<1>2. \A i \in 1..n : i - 1 \in T => i \in T
  <2>. TAKE i \in 1..n
  <2>. HAVE i - 1 \in T
  <2>1. i \in ItemCounts(t) /\ i # 0  BY <1>0
  <2>2. CASE ItemsFail(t, s, i - 1)  BY <2>1, <2>2, FailStep DEF ItemsAgree
  <2>3. CASE \E vs, m : ItemsRead(t, s, i - 1, vs, m)
    <3>1. PICK vs, m : ItemsRead(t, s, i - 1, vs, m)  BY <2>3
    <3>2. ItemsFail(t, s, i) \/ \E x, c : ItemRead(t, s, i, vs, m, x, c)  BY <2>1, <3>1, ItemStep
    <3>3. CASE ItemsFail(t, s, i)  BY <2>1, <3>3 DEF ItemsAgree
    <3>4. CASE \E x, c : ItemRead(t, s, i, vs, m, x, c)
      <4>1. PICK x, c : ItemRead(t, s, i, vs, m, x, c)  BY <3>4
      <4>2. ItemsRead(t, s, i, Extend(vs, x), m + c)  BY <2>1, <3>1, <4>1, ItemsGrow
      <4>. QED  BY <2>1, <4>2 DEF ItemsAgree
    <3>. QED  BY <3>2, <3>3, <3>4
  <2>. QED  BY <2>2, <2>3 DEF ItemsAgree
<1>. HIDE DEF T
<1>3. \A i \in 0..n : i \in T  BY <1>0, <1>1, <1>2, UpTo
<1>4. n \in T  BY <1>0, <1>3
<1>. QED  BY <1>4 DEF T

-----------------------------------------------------------------------------
(* Lists, structures, and with them all types.                             *)

LEMMA StructAgrees ==
    ASSUME Traits, NEW t, TypeOk(t), t.k = "struct",
           \A j \in ItemCounts(t) : j # 0 => ItemAgrees(ItemType(t, j))
    PROVE  Agrees(t)
<1>. SUFFICES ASSUME NEW s \in Str PROVE Fails(t, s) \/ \E v, m : Reads(t, s, v, m)
  BY DEF Agrees
<1>. DEFINE n == Len(t.fs)
<1>1. StructOk(t) /\ Collection(t) /\ n \in Nat /\ n \in ItemCounts(t)
  <2>1. StructOk(t)  BY DEF TypeOk
  <2>2. n \in Nat  BY <2>1 DEF StructOk
  <2>. QED  BY <2>1, <2>2 DEF Collection, ItemCounts
<1>2. Unmarshal(t, s) = UnmarshalTo(t, s, n) /\ CastPrefix(t, s) = CastTo(t, s, n)
  BY DEF Traits, ByKindUnmarshal, ByKindCastPrefix
<1>3. \A v : /\ LenOf(t, v) = LenTo(t, v, Present(t, v))
             /\ Marshal(t, v) = MarshalTo(t, v, Present(t, v))
  BY DEF Traits, ByKindLenOf, ByKindMarshal
<1>4. ItemsAgree(t, s, n)  BY <1>1, AllItemsAgree
<1>5. CASE ItemsFail(t, s, n)
  <2>1. Fails(t, s)  BY <1>2, <1>5 DEF Fails, ItemsFail
  <2>. QED  BY <2>1
<1>6. CASE \E vs, m : ItemsRead(t, s, n, vs, m)
  <2>1. PICK vs, m : ItemsRead(t, s, n, vs, m)  BY <1>6
  <2>. HIDE DEF n
  <2>2. /\ m \in Nat /\ m <= Len(s) /\ Listed(vs, n)
        /\ UnmarshalTo(t, s, n) = <<vs, Drop(s, m)>> /\ CastTo(t, s, n) = m
        /\ LenTo(t, vs, n) = m /\ MarshalTo(t, vs, n) = Take(s, m)
        /\ IsOptional(t) /\ n # 0 /\ vs[1] = ALG_NULL =>
               LenTo(t, vs, 1) = m /\ MarshalTo(t, vs, 1) = Take(s, m)
    BY <2>1 DEF ItemsRead
  <2>3. Len(vs) = n  BY <2>2 DEF Listed
  <2>4. LenTo(t, vs, Present(t, vs)) = m /\ MarshalTo(t, vs, Present(t, vs)) = Take(s, m)
    <3>1. CASE IsOptional(t) /\ vs[1] = ALG_NULL
      <4>1. n # 0  BY <1>1, <3>1 DEF IsOptional, StructOk, OptionalOk, n
      <4>2. Present(t, vs) = 1  BY <3>1 DEF Present, IsOptional
      <4>. QED  BY <2>2, <3>1, <4>1, <4>2
    <3>2. CASE ~(IsOptional(t) /\ vs[1] = ALG_NULL)
      <4>1. Present(t, vs) = n  BY <2>3, <3>2 DEF Present, IsOptional
      <4>. QED  BY <2>2, <4>1
    <3>. QED  BY <3>1, <3>2
  <2>5. Reads(t, s, vs, m)  BY <1>2, <1>3, <2>2, <2>4 DEF Reads
  <2>. QED  BY <2>5
<1>. QED  BY <1>4, <1>5, <1>6 DEF ItemsAgree

LEMMA ListAgrees ==
    ASSUME Traits, NEW t, TypeOk(t), t.k = "list", Agrees(Types[t.of])
    PROVE  Agrees(t)
<1>. SUFFICES ASSUME NEW s \in Str PROVE Fails(t, s) \/ \E v, m : Reads(t, s, v, m)
  BY DEF Agrees
<1>. DEFINE n == Number(Take(s, 4))
            rest == Drop(s, 4)
<1>1. Collection(t) /\ Whole(t.of) /\ t.cap \in Nat /\ t.cap < MAX_NUMBER /\ Len(s) \in Nat
  BY DEF TypeOk, Collection, Str
<1>2. /\ Unmarshal(t, s) = IF Len(s) < 4 THEN <<>>
                           ELSE IF n > t.cap THEN <<>> ELSE UnmarshalTo(t, rest, n)
      /\ CastPrefix(t, s) = IF Len(s) < 4 THEN Invalid
                            ELSE IF n > t.cap THEN Invalid
                            ELSE IF CastTo(t, rest, n) = Invalid THEN Invalid
                            ELSE 4 + CastTo(t, rest, n)
  BY DEF Traits, ByKindUnmarshal, ByKindCastPrefix
<1>3. \A v : /\ LenOf(t, v) = 4 + LenTo(t, v, Len(v))
             /\ Marshal(t, v) = Be(4, Len(v)) \o MarshalTo(t, v, Len(v))
  BY DEF Traits, ByKindLenOf, ByKindMarshal
<1>4. CASE Len(s) < 4
  <2>1. Fails(t, s)  BY <1>2, <1>4 DEF Fails
  <2>. QED  BY <2>1
<1>5. CASE ~(Len(s) < 4)
  <2>1. 4 <= Len(s)  BY <1>1, <1>5
  <2>2. /\ Take(s, 4) \in Str /\ Len(Take(s, 4)) = 4
        /\ rest \in Str /\ Len(rest) = Len(s) - 4
    BY <2>1, CutFacts
  <2>3. CASE n > t.cap
    <3>1. Fails(t, s)  BY <1>2, <1>5, <2>3 DEF Fails
    <3>. QED  BY <3>1
  <2>4. CASE ~(n > t.cap)
    <3>1. n \in Nat /\ Be(4, n) = Take(s, 4)
      <4>1. n \in Nat  BY <2>2, NumberNat DEF Str
      <4>2. n < MAX_NUMBER
        <5>1. MAX_NUMBER \in Nat  BY SMT DEF MAX_NUMBER
        <5>. HIDE DEF n
        <5>. QED  BY <1>1, <2>4, <4>1, <5>1
      <4>. QED  BY <2>2, <4>1, <4>2, Spelled4
    <3>. HIDE DEF n, rest
    <3>2. n \in ItemCounts(t) /\ \A j : ItemAgrees(ItemType(t, j))
      <4>1. n \in ItemCounts(t)  BY <3>1 DEF ItemCounts
      <4>2. \A j : ItemType(t, j) = Types[t.of]  BY DEF ItemType
      <4>. QED  BY <1>1, <4>1, <4>2 DEF ItemAgrees, Whole
    <3>3. ItemsAgree(t, rest, n)  BY <1>1, <2>2, <3>2, AllItemsAgree
    <3>4. CASE ItemsFail(t, rest, n)
      <4>1. Fails(t, s)  BY <1>2, <1>5, <2>4, <3>4 DEF Fails, ItemsFail
      <4>. QED  BY <4>1
    <3>5. CASE \E vs, m : ItemsRead(t, rest, n, vs, m)
      <4>1. PICK vs, m : ItemsRead(t, rest, n, vs, m)  BY <3>5
      <4>2. /\ m \in Nat /\ m <= Len(rest) /\ Listed(vs, n)
            /\ UnmarshalTo(t, rest, n) = <<vs, Drop(rest, m)>> /\ CastTo(t, rest, n) = m
            /\ LenTo(t, vs, n) = m /\ MarshalTo(t, vs, n) = Take(rest, m)
        BY <4>1 DEF ItemsRead
      <4>3. Len(vs) = n  BY <4>2 DEF Listed
      <4>4. 4 + m <= Len(s) /\ 4 + m \in Nat /\ m # Invalid  BY <1>1, <2>2, <4>2 DEF Invalid
      <4>5. Drop(rest, m) = Drop(s, 4 + m) /\ Take(s, 4) \o Take(rest, m) = Take(s, 4 + m)
        BY <4>2, <4>4, CutTwice DEF rest
      <4>6. Unmarshal(t, s) = <<vs, Drop(s, 4 + m)>> /\ CastPrefix(t, s) = 4 + m
        BY <1>2, <1>5, <2>4, <4>2, <4>4, <4>5
      <4>7. LenOf(t, vs) = 4 + m /\ Marshal(t, vs) = Take(s, 4 + m)
        BY <1>3, <3>1, <4>2, <4>3, <4>5
      <4>8. Reads(t, s, vs, 4 + m)  BY <4>4, <4>6, <4>7 DEF Reads
      <4>. QED  BY <4>8
    <3>. QED  BY <3>3, <3>4, <3>5 DEF ItemsAgree
  <2>. QED  BY <2>3, <2>4
<1>. QED  BY <1>4, <1>5

LEMMA PartsDecide ==
    ASSUME Traits, NEW t, TypeOk(t), \A m \in PartsOf(t) : ItemAgrees(Types[m])
    PROVE  ItemAgrees(t)
<1>1. CASE t.k = "int"  BY <1>1, WordAgrees DEF ItemAgrees
<1>2. CASE t.k = "enum"  BY <1>2, EnumAgrees DEF ItemAgrees
<1>3. CASE t.k = "fixed"  BY <1>3, FixedAgrees DEF ItemAgrees
<1>4. CASE t.k = "buf"  BY <1>4, BufAgrees DEF ItemAgrees
<1>5. CASE t.k \in {"list", "wrap"}
  <2>1. t.of \in PartsOf(t)  BY <1>5 DEF PartsOf
  <2>2. Whole(t.of)  BY <1>5 DEF TypeOk
  <2>3. Agrees(Types[t.of])  BY <2>1, <2>2 DEF ItemAgrees, Whole
  <2>. QED  BY <1>5, <2>3, ListAgrees, WrapAgrees DEF ItemAgrees
<1>6. CASE t.k = "union"
  <2>1. UnionOk(t)  BY <1>6 DEF TypeOk
  <2>2. ASSUME NEW a \in 1..Len(t.arms) PROVE Agrees(ArmType(t, a))
    <3>1. t.arms[a].of \in PartsOf(t)  BY <1>6 DEF PartsOf
    <3>2. Whole(t.arms[a].of)  BY <2>1 DEF UnionOk
    <3>. QED  BY <3>1, <3>2 DEF ItemAgrees, Whole, ArmType
  <2>. QED  BY <1>6, <2>2 DEF ItemAgrees
<1>7. CASE t.k = "struct"
  <2>1. StructOk(t)  BY <1>7 DEF TypeOk
  <2>2. Len(t.fs) \in Nat  BY <2>1 DEF StructOk
  <2>3. ASSUME NEW j \in ItemCounts(t), j # 0 PROVE ItemAgrees(ItemType(t, j))
    <3>1. j \in 1..Len(t.fs)  BY <1>7, <2>2, <2>3 DEF ItemCounts
    <3>2. t.fs[j] \in PartsOf(t)  BY <1>7, <3>1 DEF PartsOf
    <3>. QED  BY <1>7, <3>2 DEF ItemType
  <2>. QED  BY <1>7, <2>3, StructAgrees DEF ItemAgrees
<1>. QED  BY <1>1, <1>2, <1>3, <1>4, <1>5, <1>6, <1>7 DEF TypeOk

(* By induction on the rank: of the types on which the decoders do not     *)
(* agree, one has the least rank, but on all its parts they agree.         *)
LEMMA TypesAgree == ASSUME Traits PROVE \A n \in DOMAIN Types : ItemAgrees(Types[n])
<1>. DEFINE B == {n \in DOMAIN Types : ~ItemAgrees(Types[n])}
            S == {Rank[n] : n \in B}
<1>. SUFFICES ASSUME B # {} PROVE FALSE  OBVIOUS
<1>1. S \in SUBSET Nat /\ S # {}  BY SchemaAssumption
<1>2. PICK x \in S : \A y \in S : x <= y  BY <1>1, Least
<1>3. PICK n \in B : x = Rank[n]  OBVIOUS
<1>4. TypeOk(Types[n]) /\ \A m \in PartsOf(Types[n]) : Rank[m] < Rank[n]  BY SchemaAssumption
<1>5. PartsOf(Types[n]) \subseteq DOMAIN Types
  <2>. DEFINE t == Types[n]
  <2>1. CASE t.k \in {"list", "wrap"}  BY <1>4, <2>1 DEF TypeOk, PartsOf, Whole, Named
  <2>2. CASE t.k = "union"  BY <1>4, <2>2 DEF TypeOk, PartsOf, UnionOk, Whole, Named
  <2>3. CASE t.k = "struct"  BY <1>4, <2>3 DEF TypeOk, PartsOf, StructOk
  <2>4. CASE t.k \notin {"list", "wrap", "union", "struct"}  BY <2>4 DEF PartsOf
  <2>. QED  BY <2>1, <2>2, <2>3, <2>4
<1>6. \A m \in PartsOf(Types[n]) : ItemAgrees(Types[m])
  <2>. TAKE m \in PartsOf(Types[n])
  <2>1. m \in DOMAIN Types /\ Rank[m] \in Nat /\ Rank[n] \in Nat /\ Rank[m] < Rank[n]
    BY <1>4, <1>5, SchemaAssumption
  <2>2. ~(x <= Rank[m])  BY <1>3, <2>1
  <2>3. Rank[m] \notin S  BY <1>2, <2>2
  <2>. QED  BY <2>1, <2>3
<1>7. ItemAgrees(Types[n])  BY <1>4, <1>6, PartsDecide
<1>. QED  BY <1>7

-----------------------------------------------------------------------------
(* The bodies of commands and responses.                                   *)

LEMMA EntryFound ==
    ASSUME NEW cc \in CommandCodes
    PROVE  \E i \in DOMAIN DispatchTable : dispatch_for(cc) = DispatchTable[i]
BY DEF CommandCodes, dispatch_for, Entry

LEMMA ParametersAgree ==
    ASSUME Traits, NEW cc \in CommandCodes, NEW kind
    PROVE  Agrees(ParametersOf(kind, cc))
<1>. DEFINE t == ParametersOf(kind, cc)
<1>1. StructOk(t) /\ t.k = "struct"
  <2>1. PICK i \in DOMAIN DispatchTable : dispatch_for(cc) = DispatchTable[i]  BY EntryFound
  <2>2. \/ t = Struct(DispatchTable[i].parameters)
        \/ t = Struct(DispatchTable[i].response_parameters)
    BY <2>1 DEF ParametersOf
  <2>3. \A fs : Struct(fs).k = "struct"  BY DEF Struct
  <2>. HIDE DEF t
  <2>. QED  BY <2>2, <2>3, TableAssumption
<1>. HIDE DEF t
<1>2. TypeOk(t)  BY <1>1 DEF TypeOk
<1>3. \A m \in PartsOf(t) : ItemAgrees(Types[m])
  <2>1. PartsOf(t) \subseteq DOMAIN Types  BY <1>1 DEF PartsOf, StructOk
  <2>. QED  BY <2>1, TypesAgree
<1>4. ItemAgrees(t)  BY <1>2, <1>3, PartsDecide
<1>5. Agrees(t)  BY <1>1, <1>4 DEF ItemAgrees
<1>. QED  BY <1>5 DEF t

(* The parameters of a body are a structure without a name.                *)
LEMMA BodyAgrees ==
    ASSUME Traits, NEW cc \in CommandCodes, NEW kind, NEW s \in Str
    PROVE  /\ \A p \in unmarshal_body(kind, cc, s) : marshal_parameters(kind, cc, p) = s
           /\ cast_parameters(kind, cc, s) <=> unmarshal_body(kind, cc, s) # {}
<1>. DEFINE t == ParametersOf(kind, cc)
            r == Unmarshal(t, s)
<1>1. Fails(t, s) \/ \E v, m : Reads(t, s, v, m)  BY ParametersAgree DEF Agrees
<1>2. /\ unmarshal_body(kind, cc, s)
            = IF r = <<>> THEN {} ELSE IF r[2] = <<>> THEN {r[1]} ELSE {}
      /\ cast_parameters(kind, cc, s) <=> CastPrefix(t, s) = Len(s)
      /\ \A p : marshal_parameters(kind, cc, p) = Marshal(t, p)
  BY DEF unmarshal_body, cast_parameters, marshal_parameters, Failed
<1>. HIDE DEF t
<1>3. CASE Fails(t, s)
  <2>1. r = <<>> /\ CastPrefix(t, s) = Invalid  BY <1>3 DEF Fails
  <2>2. Invalid # Len(s)  BY CutEnds DEF Invalid
  <2>. QED  BY <1>2, <2>1, <2>2
<1>4. CASE \E v, m : Reads(t, s, v, m)
  <2>1. PICK v, m : Reads(t, s, v, m)  BY <1>4
  <2>2. /\ m \in Nat /\ m <= Len(s)
        /\ r = <<v, Drop(s, m)>> /\ CastPrefix(t, s) = m /\ Marshal(t, v) = Take(s, m)
    BY <2>1 DEF Reads
  <2>3. r # <<>> /\ r[1] = v /\ r[2] = Drop(s, m)  BY <2>2
  <2>4. Drop(s, m) = <<>> <=> m = Len(s)  BY <2>2, EmptyEnd, CutEnds
  <2>5. m = Len(s) => Marshal(t, v) = s  BY <2>2, CutEnds
  <2>. HIDE DEF r
  <2>6. CASE m = Len(s)
    <3>1. unmarshal_body(kind, cc, s) = {v}  BY <1>2, <2>3, <2>4, <2>6
    <3>. QED  BY <1>2, <2>2, <2>5, <2>6, <3>1
  <2>7. CASE m # Len(s)
    <3>1. unmarshal_body(kind, cc, s) = {}  BY <1>2, <2>3, <2>4, <2>7
    <3>. QED  BY <1>2, <2>2, <2>7, <3>1
  <2>. QED  BY <2>6, <2>7
<1>. QED  BY <1>1, <1>3, <1>4

(* The parameter area lies in the frame, wherever the size fields of a     *)
(* frame that was taken for whole put it.                                  *)
LEMMA CommandParams ==
    ASSUME NEW f \in Seq(Byte), CommandOk(f)
    PROVE  Number(CodeOf(f)) \in CommandCodes /\ ParamArea(f) \in Str
<1>1. CommandEnvelopeOk(f) /\ CcOk(f)  BY DEF CommandOk, CommandEnvelopeOk
<1>2. AuthEnd(f) \in Nat /\ AuthEnd(f) <= Len(f)  BY <1>1, EnvelopeRanges, AuthBounds
<1>3. Drop(f, AuthEnd(f)) \in Str  BY <1>2, CutFacts DEF Str
<1>. QED  BY <1>1, <1>3 DEF CcOk, ParamArea, Drop

LEMMA ResponseParams ==
    ASSUME NEW f \in Seq(Byte), NEW cc, ResponseOk(f, cc), BodyPartsOk(f, cc)
    PROVE  cc \in CommandCodes /\ RespParams(f, cc) \in Str
<1>. DEFINE h == RespHandleEnd(cc)
            n == RespParamSize(f, cc)
<1>1. cc \in CommandCodes /\ Len(f) \in Nat /\ h <= Len(f)  BY DEF ResponseOk, BodyPartsOk
<1>2. h \in Nat  BY <1>1, WireAssumption DEF RespHandleEnd, HEADER_SIZE
<1>3. CASE TagOf(f) = Sessions
  <2>1. Len(f) - h >= 4 /\ n <= Len(f) - h - 4  BY <1>3 DEF BodyPartsOk, RespSizesOk
  <2>2. n \in Nat
    <3>. DEFINE q == SubSeq(f, h + 1, h + 4)
    <3>. HIDE DEF h
    <3>1. q \in Seq(Byte) /\ Len(q) = (h + 4) - (h + 1) + 1
      <4>1. h + 1 \in Nat \ {0} /\ h + 4 \in Nat /\ h + 4 <= Len(f) /\ h + 1 <= h + 4
        BY <1>1, <1>2, <2>1
      <4>. QED  BY <4>1, SubSeqBytes
    <3>2. Len(q) = 4  BY <1>2, <3>1
    <3>. HIDE DEF q
    <3>3. Number(q) \in Nat  BY <3>1, <3>2, NumberNat
    <3>. QED  BY <3>3 DEF q, h, RespParamSize
  <2>. HIDE DEF h, n
  <2>3. h + 4 \in Nat /\ h + 4 <= Len(f) /\ (h + 4) + n <= Len(f)  BY <1>1, <1>2, <2>1, <2>2
  <2>4. SubSeq(f, (h + 4) + 1, (h + 4) + n) = Take(Drop(f, h + 4), n)
    BY <2>2, <2>3, CutTwice DEF Str
  <2>5. Drop(f, h + 4) \in Str /\ n <= Len(Drop(f, h + 4))
    <3>1. Drop(f, h + 4) \in Str /\ Len(Drop(f, h + 4)) = Len(f) - (h + 4)
      BY <2>3, CutFacts DEF Str
    <3>. QED  BY <1>1, <2>2, <2>3, <3>1
  <2>6. Take(Drop(f, h + 4), n) \in Str  BY <2>2, <2>5, CutFacts
  <2>7. (h + 4) + 1 = h + 5  BY <1>2
  <2>8. RespParams(f, cc) = SubSeq(f, h + 5, (h + 4) + n)  BY <1>3 DEF RespParams, h, n
  <2>. QED  BY <1>1, <2>4, <2>6, <2>7, <2>8
<1>4. CASE TagOf(f) # Sessions
  <2>1. RespParams(f, cc) = Drop(f, h)  BY <1>4 DEF RespParams
  <2>. HIDE DEF h
  <2>2. Drop(f, h) \in Str  BY <1>1, <1>2, CutFacts DEF Str
  <2>. QED  BY <1>1, <2>1, <2>2
<1>. QED  BY <1>3, <1>4

(* One encoding per body, and two decoders that agree on it (TpmUnmarshal, *)
(* TpmField): whatever happened to a frame, the parameters that are read   *)
(* from it marshal back to the bytes they were read from, and the borrowed *)
(* views accept those bytes exactly when they are read.  For every schema  *)
(* of types, every dispatch table and frames of every length.              *)
THEOREM BodiesAreCanonical == ASSUME Traits PROVE Spec => []Canonical
<1>1. Inv => Canonical
  <2>. SUFFICES ASSUME Inv, NEW kind \in {"command", "response"}
                PROVE  LET area == IF kind = "command" THEN ParamArea(buf)
                                   ELSE RespParams(buf, sent.cc)
                           whole == IF kind = "command"
                                    THEN CommandOk(buf) /\ Number(CodeOf(buf)) = sent.cc
                                    ELSE ResponseOk(buf, sent.cc) /\ BodyPartsOk(buf, sent.cc)
                       IN  /\ \A body \in Read(kind, buf, sent.cc) :
                                  marshal_parameters(kind, sent.cc, body.params) = area
                           /\ whole => (cast_parameters(kind, sent.cc, area)
                                            <=> Read(kind, buf, sent.cc) # {})
    BY DEF Canonical
  <2>. DEFINE cc == sent.cc
              area == IF kind = "command" THEN ParamArea(buf) ELSE RespParams(buf, cc)
              whole == IF kind = "command" THEN CommandOk(buf) /\ Number(CodeOf(buf)) = cc
                       ELSE ResponseOk(buf, cc) /\ BodyPartsOk(buf, cc)
              ps == unmarshal_body(kind, cc, area)
  <2>1. buf \in Seq(Byte)  BY DEF Inv, BufferOk
  <2>2. whole => cc \in CommandCodes /\ area \in Str  BY <2>1, CommandParams, ResponseParams
  <2>3. /\ ~whole => Read(kind, buf, cc) = {}
        /\ whole => \E hs : Read(kind, buf, cc) = {[handles |-> hs, params |-> p] : p \in ps}
    BY DEF Read, ReadCommand, ReadResponse
  <2>. HIDE DEF cc, area, whole
  <2>4. CASE ~whole  BY <2>3, <2>4 DEF cc, area, whole
  <2>5. CASE whole
    <3>1. PICK hs : Read(kind, buf, cc) = {[handles |-> hs, params |-> p] : p \in ps}
      BY <2>3, <2>5
    <3>2. /\ \A p \in ps : marshal_parameters(kind, cc, p) = area
          /\ cast_parameters(kind, cc, area) <=> ps # {}
      BY <2>2, <2>5, BodyAgrees
    <3>. HIDE DEF ps
    <3>3. \A body \in Read(kind, buf, cc) : body.params \in ps  BY <3>1
    <3>4. Read(kind, buf, cc) # {} <=> ps # {}  BY <3>1
    <3>5. \A body \in Read(kind, buf, cc) : marshal_parameters(kind, cc, body.params) = area
      BY <3>2, <3>3
    <3>. QED  BY <3>2, <3>4, <3>5 DEF cc, area, whole
  <2>. QED  BY <2>4, <2>5
<1>. QED  BY <1>1, InitInv, NextInv, PTL DEF Spec
===============================================================================
