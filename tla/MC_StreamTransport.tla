--------------------------- MODULE MC_StreamTransport ---------------------------
(***************************************************************************)
(* A header of two bytes, frames of two or four, streams of two: a frame   *)
(* may be only a header and fit, or have to wait for the reader. A handler *)
(* may also return more or fewer bytes than it declares, or declare a size *)
(* that is out of range.                                                   *)
(***************************************************************************)
EXTENDS StreamTransport

FrameSizes == {2, 4}
WholeFrames == {[len |-> s, size |-> s] : s \in FrameSizes}
AnyReplies == WholeFrames \cup {[len |-> 3, size |-> 2], [len |-> 2, size |-> 4], [len |-> 2, size |-> 5]}
DeclaredSizes == {2, 5}
=============================================================================
