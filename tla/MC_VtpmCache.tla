----------------------------- MODULE MC_VtpmCache -----------------------------
(***************************************************************************)
(* Small instances of VtpmCache. Handles are small integers: the transient *)
(* range starts at 1 and the persistent handles lie above it.              *)
(***************************************************************************)
EXTENDS VtpmCache, TLC

CONSTANTS a, b, u,   \* public areas; u has an unsupported name algorithm
          na, nb,    \* the names of a and b
          nul,       \* the null public
          dflt, ctx  \* context blobs

OnePublic == {a}
Publics == {a, b}
PublicsWithUnnameable == {a, u}
Names == {na, nb}
OneName == {na}

NameOfA == (a :> na)
NameOf == (a :> na) @@ (b :> nb)
NameOrNone == (a :> na) @@ (u :> None)

(* a is a primary key; b is a child of a.                                  *)
Primary == (a :> {nul})
Tree == (a :> {nul}) @@ (b :> {a})
(* A public may also name itself, or its own child, as its parent.         *)
Cyclic == (a :> {nul, b}) @@ (b :> {a, b})
Flat == (a :> {nul}) @@ (u :> {nul})

Contexts == {dflt, ctx}
OneContext == {dflt}

NoFiles == {}
Persistent == {9}
NoPersistent == {}
(* A record no version can read, a good record (also found under a wrong   *)
(* file name), and a record whose name cannot be computed.                 *)
Litter == {Garbage, Key(1, a, nul, dflt, 0), Key(2, u, nul, dflt, 0)}
=============================================================================
