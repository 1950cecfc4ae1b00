--------------------------- MODULE MC_PosixTransport ---------------------------
(***************************************************************************)
(* A header of two bytes, chunks of two bytes, frames of at most five: so  *)
(* a header may come in two chunks, a response in three, and a chunk may   *)
(* end inside, at or beyond the declared end.                              *)
(***************************************************************************)
EXTENDS PosixTransport

(* Honest responses and error codes; responses cut short, with trailing    *)
(* bytes, with a size out of range, and undecodable ones.                  *)
Replies ==
    {[length |-> 3, declared |-> 3, body |-> "Ok"],
     [length |-> 5, declared |-> 5, body |-> "Ok"],
     [length |-> 2, declared |-> 2, body |-> "TpmRc"],
     [length |-> 1, declared |-> 4, body |-> "Ok"],
     [length |-> 4, declared |-> 3, body |-> "Ok"],
     [length |-> 5, declared |-> 4, body |-> "Ok"],
     [length |-> 3, declared |-> 9, body |-> "Ok"],
     [length |-> 4, declared |-> 4, body |-> "Unmarshal"]}
=============================================================================
