------------------------------ MODULE WireCodec ------------------------------
(***************************************************************************)
(* How the values of a type are written and read:                          *)
(* src/crates/protocol/src/basic and macro.                                *)
(*                                                                         *)
(* A type is a schema, a record that says which of the crate's building    *)
(* blocks it is made of and, by name, of which other types.  The value of  *)
(* an integer or of an enumeration is its big-endian bytes (which is what  *)
(* TpmInt stores), of a buffer its payload, of a list or a structure the   *)
(* sequence of its items or fields, of a union the pair of the chosen arm  *)
(* and its payload.                                                        *)
(*                                                                         *)
(* Size, LenOf, Marshal, Unmarshal and CastPrefix are the crate's traits   *)
(* TpmSized, TpmMarshal, TpmUnmarshal and TpmField.  What a trait does for *)
(* a type it does with the same trait of the types in it, so the traits    *)
(* are constants here, and X is the constant that ByKindX defines, one     *)
(* case per building block: a model gives each X the value ByKindX.        *)
(***************************************************************************)
EXTENDS Integers, Sequences, Bytes

CONSTANTS
    Types,             \* the types by name
    Rank,              \* how deep each of them is
    Size(_),           \* TpmSized::SIZE
    LenOf(_, _),       \* TpmSized::len
    LenTo(_, _, _),    \* and of the first items
    Marshal(_, _),     \* TpmMarshal::marshal
    MarshalTo(_, _, _),
    Marshals(_, _),    \* whether it succeeds
    Unmarshal(_, _),   \* TpmUnmarshal::unmarshal
    UnmarshalTo(_, _, _),
    CastPrefix(_, _),  \* TpmField::cast_prefix_field
    CastTo(_, _, _)

(***************************************************************************)
(* The building blocks.                                                    *)
(***************************************************************************)
Word(w) == [k |-> "int", w |-> w]
Enum(w, codes) == [k |-> "enum", w |-> w, vals |-> {Be(w, c) : c \in codes}]
Buf(w, cap) == [k |-> "buf", w |-> w, cap |-> cap]
Tpml(of, cap) == [k |-> "list", of |-> of, cap |-> cap]
Tpm2bOf(of) == [k |-> "wrap", of |-> of]
Fixed(n) == [k |-> "fixed", n |-> n]

\* A structure: its fields in order.  A union field is chosen by an earlier
\* field, its selector; "checked" says that marshal compares the two first,
\* "optional" that nothing follows a selector that is TPM_ALG_NULL.
Struct(fs) == [k |-> "struct", fs |-> fs, checked |-> FALSE, optional |-> FALSE, size |-> 0]
Checked(fs) == [Struct(fs) EXCEPT !.checked = TRUE]
Optional(fs) == [Checked(fs) EXCEPT !.optional = TRUE]
Sized(n, t) == [t EXCEPT !.size = n]
Arm(names, t) == [tags |-> names, of |-> t]
Union(by, w, codes, size, arms) ==
    [k |-> "union", by |-> by, size |-> size,
     arms |-> [a \in DOMAIN arms |->
                  [arms[a] EXCEPT !.tags = {Be(w, codes[n]) : n \in arms[a].tags}]]]

\* The type of an item of a list or a field of a structure.
ItemType(t, i) == Types[IF t.k = "list" THEN t.of ELSE t.fs[i]]

\* The arm of a union that a tag selects, 0 when there is none, and the type of
\* its payload.
ArmOf(u, tag) ==
    IF \E a \in DOMAIN u.arms : tag \in u.arms[a].tags
    THEN CHOOSE a \in DOMAIN u.arms : tag \in u.arms[a].tags
    ELSE 0
ArmType(u, a) == Types[u.arms[a].of]

\* How many fields of a structure are on the wire.
ALG_NULL == Be(2, 16)
Present(t, v) ==
    IF t.k = "struct" /\ t.optional /\ v[1] = ALG_NULL THEN 1 ELSE Len(v)

(***************************************************************************)
(* TpmSized::SIZE, the bound used when a TPM2B wrapper is read.            *)
(***************************************************************************)
ByKindSize(t) ==
    CASE t.k \in {"int", "enum"} -> t.w
      [] t.k = "fixed"  -> t.n
      [] t.k = "buf"    -> t.w + t.cap
      [] t.k = "list"   -> 4 + t.cap * Size(Types[t.of])
      [] t.k = "wrap"   -> 2 + Size(Types[t.of])
      [] t.k = "union"  -> t.size
      [] t.k = "struct" ->
           IF t.size > 0 THEN t.size
           ELSE LET Sum[i \in 0..Len(t.fs)] ==
                        IF i = 0 THEN 0 ELSE Sum[i - 1] + Size(Types[t.fs[i]])
                IN  Sum[Len(t.fs)]

(***************************************************************************)
(* TpmSized::len: the length that is written into the size fields.         *)
(***************************************************************************)
ByKindLenOf(t, v) ==
    CASE t.k \in {"int", "enum"} -> t.w
      [] t.k = "fixed"  -> Len(v)
      [] t.k = "buf"    -> t.w + Len(v)
      [] t.k = "wrap"   -> 2 + LenOf(Types[t.of], v)
      [] t.k = "union"  -> LenOf(ArmType(t, v[1]), v[2])
      [] t.k = "list"   -> 4 + LenTo(t, v, Len(v))
      [] t.k = "struct" -> LenTo(t, v, Present(t, v))

ByKindLenTo(t, v, i) ==
    IF i = 0 THEN 0 ELSE LenTo(t, v, i - 1) + LenOf(ItemType(t, i), v[i])

(***************************************************************************)
(* TpmMarshal::marshal, and the matches_tag checks that make it fail.      *)
(***************************************************************************)
ByKindMarshal(t, v) ==
    CASE t.k \in {"int", "enum", "fixed"} -> v
      [] t.k = "buf"    -> Be(t.w, Len(v)) \o v
      [] t.k = "wrap"   -> Be(2, LenOf(Types[t.of], v)) \o Marshal(Types[t.of], v)
      [] t.k = "union"  -> Marshal(ArmType(t, v[1]), v[2])
      [] t.k = "list"   -> Be(4, Len(v)) \o MarshalTo(t, v, Len(v))
      [] t.k = "struct" -> MarshalTo(t, v, Present(t, v))

ByKindMarshalTo(t, v, i) ==
    IF i = 0 THEN <<>> ELSE MarshalTo(t, v, i - 1) \o Marshal(ItemType(t, i), v[i])

ByKindMarshals(t, v) ==
    CASE t.k \in {"int", "enum", "fixed", "buf"} -> TRUE
      [] t.k = "wrap"   -> Marshals(Types[t.of], v)
      [] t.k = "union"  -> Marshals(ArmType(t, v[1]), v[2])
      [] t.k = "list"   -> \A i \in DOMAIN v : Marshals(Types[t.of], v[i])
      [] t.k = "struct" ->
           \A i \in 1..Present(t, v) :
               LET f == Types[t.fs[i]] IN
               /\ Marshals(f, v[i])
               /\ t.checked /\ f.k = "union" => ArmOf(f, v[f.by]) = v[i][1]

(***************************************************************************)
(* TpmUnmarshal::unmarshal: <<value, rest>>, or <<>> when it fails.        *)
(***************************************************************************)
Failed(r) == r = <<>>

UnmarshalWord(w, s) == IF Len(s) < w THEN <<>> ELSE <<Take(s, w), Drop(s, w)>>

\* Tpm2b::validate_prefix, TpmsPcrSelect::cast_prefix_field.
UnmarshalBuf(t, s) ==
    IF Len(s) < t.w THEN <<>>
    ELSE LET n == Number(Take(s, t.w))
             rest == Drop(s, t.w)
         IN  IF n > t.cap \/ Len(rest) < n THEN <<>>
             ELSE <<Take(rest, n), Drop(rest, n)>>

\* What is in a wrapper must fill it.
UnmarshalWrap(t, s) ==
    IF Len(s) < 2 THEN <<>>
    ELSE LET n == Number(Take(s, 2))
             rest == Drop(s, 2)
         IN  IF n > Size(Types[t.of]) \/ Len(rest) < n THEN <<>>
             ELSE LET inner == Unmarshal(Types[t.of], Take(rest, n))
                  IN  IF Failed(inner) THEN <<>>
                      ELSE IF inner[2] # <<>> THEN <<>>
                      ELSE <<inner[1], Drop(rest, n)>>

ByKindUnmarshal(t, s) ==
    CASE t.k = "int"   -> UnmarshalWord(t.w, s)
      [] t.k = "fixed" -> UnmarshalWord(t.n, s)
      [] t.k = "enum"  ->
           IF Len(s) < t.w THEN <<>>
           ELSE IF Take(s, t.w) \in t.vals THEN UnmarshalWord(t.w, s) ELSE <<>>
      [] t.k = "buf"   -> UnmarshalBuf(t, s)
      [] t.k = "wrap"  -> UnmarshalWrap(t, s)
      [] t.k = "list"  ->
           IF Len(s) < 4 THEN <<>>
           ELSE IF Number(Take(s, 4)) > t.cap THEN <<>>
           ELSE UnmarshalTo(t, Drop(s, 4), Number(Take(s, 4)))
      [] t.k = "struct" -> UnmarshalTo(t, s, Len(t.fs))

\* The first items or fields, in order; a union is read as its selector says.
ByKindUnmarshalTo(t, s, i) ==
    IF i = 0 THEN <<<<>>, s>>
    ELSE LET sofar == UnmarshalTo(t, s, i - 1)
             f == ItemType(t, i)
         IN  IF Failed(sofar) THEN <<>>
             ELSE IF f.k # "union"
             THEN LET r == Unmarshal(f, sofar[2])
                  IN  IF Failed(r) THEN <<>> ELSE <<Append(sofar[1], r[1]), r[2]>>
             ELSE LET a == ArmOf(f, sofar[1][f.by])
                      r == IF a = 0 THEN <<>> ELSE Unmarshal(ArmType(f, a), sofar[2])
                  IN  IF Failed(r) THEN <<>> ELSE <<Append(sofar[1], <<a, r[1]>>), r[2]>>

(***************************************************************************)
(* TpmField::cast_prefix_field, the borrowed views: how many bytes a value *)
(* takes, or Invalid.  They are separate code, and read nothing.           *)
(***************************************************************************)
Invalid == -1

\* Mutant: a word that ends the area is taken for one that is cut short.
CastWordNotLast(w, s) == IF Len(s) <= w THEN Invalid ELSE w

CastWord(w, s) == IF Len(s) < w THEN Invalid ELSE w

ByKindCastPrefix(t, s) ==
    CASE t.k = "int"   -> CastWord(t.w, s)
      [] t.k = "fixed" -> CastWord(t.n, s)
      [] t.k = "enum"  ->
           IF Len(s) < t.w THEN Invalid
           ELSE IF Take(s, t.w) \in t.vals THEN t.w ELSE Invalid
      [] t.k = "buf"   ->
           IF Len(s) < t.w THEN Invalid
           ELSE LET n == Number(Take(s, t.w))
                IN  IF n > t.cap \/ Len(s) - t.w < n THEN Invalid ELSE t.w + n
      [] t.k = "wrap"  ->
           IF Len(s) < 2 THEN Invalid
           ELSE LET n == Number(Take(s, 2))
                IN  IF n > Size(Types[t.of]) \/ Len(s) - 2 < n THEN Invalid
                    ELSE IF CastPrefix(Types[t.of], SubSeq(s, 3, 2 + n)) = n THEN 2 + n ELSE Invalid
      [] t.k = "list"  ->
           IF Len(s) < 4 THEN Invalid
           ELSE LET n == Number(Take(s, 4))
                IN  IF n > t.cap THEN Invalid
                    ELSE LET c == CastTo(t, Drop(s, 4), n)
                         IN  IF c = Invalid THEN Invalid ELSE 4 + c
      [] t.k = "struct" -> CastTo(t, s, Len(t.fs))

\* Where the first items or fields end.  Nothing is looked at behind a selector
\* that is TPM_ALG_NULL.
ByKindCastTo(t, s, i) ==
    LET Field(j) == SubSeq(s, CastTo(t, s, j - 1) + 1, CastTo(t, s, j))
        end == CastTo(t, s, i - 1)
        f == ItemType(t, i)
        a == ArmOf(f, Field(f.by))
        c == IF f.k # "union" THEN CastPrefix(f, Drop(s, end))
             ELSE IF a = 0 THEN Invalid ELSE CastPrefix(ArmType(f, a), Drop(s, end))
    IN  IF i = 0 THEN 0
        ELSE IF end = Invalid THEN Invalid
        ELSE IF t.k = "struct" /\ i > 1 /\ t.optional /\ Field(1) = ALG_NULL THEN end
        ELSE IF c = Invalid THEN Invalid ELSE end + c

(***************************************************************************)
(* What the schemas are: a type is made of types of lower rank, unions are *)
(* fields, a selector is an integer or an enumeration before its union,    *)
(* and an optional structure is a selector and unions that are empty when  *)
(* it is TPM_ALG_NULL.                                                     *)
(***************************************************************************)
Named(n) == n \in DOMAIN Types
Whole(n) == Named(n) /\ Types[n].k # "union"
Scalar(n) == Named(n) /\ Types[n].k \in {"int", "enum"}

UnionOk(u) ==
    /\ u.arms \in Seq([tags: SUBSET Seq(Byte), of: DOMAIN Types])
    /\ \A a \in 1..Len(u.arms) : Whole(u.arms[a].of)

OptionalOk(fs) ==
    /\ Len(fs) >= 1 /\ Scalar(fs[1]) /\ Types[fs[1]].w = 2
    /\ \A i \in 2..Len(fs) :
           LET u == Types[fs[i]] IN
           /\ u.k = "union" /\ u.by = 1 /\ ArmOf(u, ALG_NULL) # 0
           /\ LET e == ArmType(u, ArmOf(u, ALG_NULL)) IN e.k = "struct" /\ e.fs = <<>>

StructOk(t) ==
    /\ t.fs \in Seq(DOMAIN Types)
    /\ t.optional \in BOOLEAN
    /\ \A i \in 1..Len(t.fs) :
           LET f == Types[t.fs[i]] IN
           f.k = "union" => f.by \in 1..(i - 1) /\ Scalar(t.fs[f.by])
    /\ t.optional => OptionalOk(t.fs)

TypeOk(t) ==
    \/ t.k \in {"int", "enum"} /\ t.w \in Nat
    \/ t.k = "fixed" /\ t.n \in Nat
    \/ t.k = "buf" /\ t.w \in {1, 2} /\ t.cap \in Nat
    \/ t.k = "list" /\ Whole(t.of) /\ t.cap \in Nat /\ t.cap < MAX_NUMBER
    \/ t.k = "wrap" /\ Whole(t.of)
    \/ t.k = "union" /\ UnionOk(t)
    \/ t.k = "struct" /\ StructOk(t)

\* The names of the types a type is made of.
PartsOf(t) ==
    CASE t.k \in {"list", "wrap"} -> {t.of}
      [] t.k = "struct" -> {t.fs[i] : i \in 1..Len(t.fs)}
      [] t.k = "union" -> {t.arms[a].of : a \in 1..Len(t.arms)}
      [] OTHER -> {}

ASSUME SchemaAssumption ==
    /\ Rank \in [DOMAIN Types -> Nat]
    /\ \A n \in DOMAIN Types :
           /\ TypeOk(Types[n])
           /\ \A m \in PartsOf(Types[n]) : Rank[m] < Rank[n]
=============================================================================
