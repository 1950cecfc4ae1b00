------------------------------- MODULE MC_Wire -------------------------------
(***************************************************************************)
(* Model checking Wire with the commands of CommandTable.                  *)
(*                                                                         *)
(* A request is numbered: n picks the arm of its unions, the sizes of its  *)
(* buffers and lists and the members of its enumerations, so that between  *)
(* them the numbers reach every arm of every union of every body.          *)
(***************************************************************************)
EXTENDS FiniteSets, CommandTable, CommandBodies, Wire

CONSTANTS
    Variants,      \* the numbers n
    FragileCodes,  \* the commands whose frames are damaged and written to
    Fragile,       \* and which of their frames,
    Twice          \* some of them twice

\* Nothing, one byte, and as much as fits: long enough for a size of two bytes.
BufferSize(t, n) ==
    CASE n % 3 = 0 -> 0
      [] n % 3 = 1 -> 1
      [] n % 3 = 2 -> IF t.cap \in 257..4000 THEN 257 ELSE t.cap

RECURSIVE Nth(_, _)
Nth(set, n) ==
    LET x == CHOOSE x \in set : TRUE
    IN  IF n = 0 \/ set = {x} THEN x ELSE Nth(set \ {x}, n - 1)

Filler(size, n) == [i \in 1..size |-> (n + 7 * i) % 256]

\* How deep a type is: one more than its deepest part.
RECURSIVE DepthOf(_, _)
DepthOf(table, n) ==
    LET depths == {DepthOf(table, m) : m \in PartsOf(table[n])}
    IN  IF depths = {} THEN 0 ELSE 1 + CHOOSE d \in depths : \A e \in depths : e <= d
MCRank == LET table == TypeTable IN [n \in DOMAIN table |-> DepthOf(table, n)]

\* Each trait is what its cases say.  The LETs are for TLC's coverage statistics,
\* which follow a constant into an expression, here for ever, but not into a LET.
MCSize(t) == LET x == ByKindSize(t) IN x
MCLenOf(t, v) == LET x == ByKindLenOf(t, v) IN x
MCLenTo(t, v, i) == LET x == ByKindLenTo(t, v, i) IN x
MCMarshal(t, v) == LET x == ByKindMarshal(t, v) IN x
MCMarshalTo(t, v, i) == LET x == ByKindMarshalTo(t, v, i) IN x
MCMarshals(t, v) == LET x == ByKindMarshals(t, v) IN x
MCUnmarshal(t, s) == LET x == ByKindUnmarshal(t, s) IN x
MCUnmarshalTo(t, s, i) == LET x == ByKindUnmarshalTo(t, s, i) IN x
MCCastPrefix(t, s) == LET x == ByKindCastPrefix(t, s) IN x
MCCastTo(t, s, i) == LET x == ByKindCastTo(t, s, i) IN x

\* The value number n of a type.  A twisted one has, in each structure whose
\* marshal compares the two, a union that is not the one the selector names.
RECURSIVE Value(_, _, _), Fields(_, _, _, _)
Value(t, n, twisted) ==
    CASE t.k = "int"    -> Filler(t.w, 31 * n)
      [] t.k = "enum"   -> Nth(t.vals, n)
      [] t.k = "fixed"  -> Filler(t.n, n)
      [] t.k = "buf"    -> Filler(BufferSize(t, n), n)
      [] t.k = "list"   -> [i \in 1..(n % 3) |-> Value(Types[t.of], n + i, twisted)]
      [] t.k = "wrap"   -> Value(Types[t.of], n, twisted)
      [] t.k = "struct" -> Fields(t, n, twisted, <<>>)

Fields(t, n, twisted, sofar) ==
    LET i == Len(sofar) + 1
        selected == {j \in DOMAIN t.fs : Types[t.fs[j]].k = "union" /\ Types[t.fs[j]].by = i}
    IN  IF i > Len(t.fs) THEN sofar
        ELSE LET f == Types[t.fs[i]] IN
             Fields(t, n, twisted, Append(sofar,
                 IF selected # {}
                 THEN LET u == Types[t.fs[CHOOSE j \in selected : TRUE]]
                          k == Len(u.arms)
                          tags == u.arms[1 + (n % k)].tags
                      IN  Nth(tags, (n \div k) % Cardinality(tags))
                 ELSE IF f.k # "union" THEN Value(f, n + i, twisted)
                 ELSE LET k == Len(f.arms)
                          own == ArmOf(f, sofar[f.by])
                          a == IF /\ twisted
                                  /\ t.checked
                                  /\ ~(t.optional /\ sofar[1] = ALG_NULL)
                               THEN 1 + (own % k) ELSE own
                      IN  <<a, Value(Types[f.arms[a].of], n \div k, twisted)>>))

Session(i) ==
    [handle |-> <<2, 0, 0, i>>, nonce |-> Filler(i % 3, i), attributes |-> i,
     hmac |-> Filler((i + 1) % 3, i)]
SessionCounts == <<0, 1, 2, 8>>

MCRequest(id) ==
    [id |-> id, kind |-> id.kind, cc |-> id.cc,
     sessions |-> [i \in 1..id.sessions |-> Session(i)],
     handles |-> [i \in 1..HandlesOf(id.kind, id.cc) |-> <<128, 0, id.n % 256, i>>],
     params |-> Value(ParametersOf(id.kind, id.cc), id.n, id.twisted),
     tag |-> id.tag, rc |-> id.rc]

Id(kind, cc, n, sessions) ==
    [kind |-> kind, cc |-> cc, n |-> n, sessions |-> sessions, twisted |-> FALSE,
     tag |-> IF sessions = 0 THEN NoSessions ELSE Sessions, rc |-> Success]

Kinds == {"command", "response"}

\* Every body; the session limit and the tags; the response codes; the unions
\* that do not fit.
Bodies ==
    {Id(kind, cc, n, SessionCounts[1 + ((n + (n \div 4)) % 4)]) :
        kind \in Kinds, cc \in DispatchCodes, n \in Variants}
Limits ==
    {Id(kind, cc, 1, 9) : kind \in Kinds, cc \in FragileCodes}
    \union {[Id("command", cc, 1, s) EXCEPT !.tag = tag] :
               cc \in FragileCodes, s \in {0, 1}, tag \in {NoSessions, Sessions, NullTag}}
Rejections ==
    {[Id("response", TpmGetRandom.cc, 1, s) EXCEPT !.rc = rc] : s \in {0, 1}, rc \in TpmRcs}
Twisted ==
    {[Id(kind, cc, n, 0) EXCEPT !.twisted = TRUE] :
        kind \in Kinds, cc \in {TpmCreate.cc, TpmSign.cc, TpmStartAuthSession.cc}, n \in 0..4}

MCFragile ==
    {Id(kind, cc, 0, s) : kind \in Kinds, cc \in FragileCodes, s \in {0, 1}}
    \union {[Id("response", TpmGetRandom.cc, 0, 0) EXCEPT !.rc = Warn(TPM_RC_WARN + 1)]}
MCTwice ==
    {Id("command", TpmSelfTest.cc, 0, 0), Id("command", TpmUnseal.cc, 0, 1),
     Id("response", TpmUnseal.cc, 0, 0)}

MCRequests == Bodies \union Limits \union Rejections \union Twisted \union MCFragile
MCMaxEdits(id) == IF id \in Twice THEN 2 ELSE IF id \in Fragile THEN 1 ELSE 0

HandlesBy(table) == [cc \in CodesOf(table) |-> Entry(table, cc).handles]
RespHandlesBy(table) == [cc \in CodesOf(table) |-> Entry(table, cc).response_handles]
MCHandles == HandlesBy(TPM_DISPATCH_TABLE)
MCRespHandles == RespHandlesBy(TPM_DISPATCH_TABLE)
MCTags == TpmSt.vals
MCEditBytes == {0, 2, 255}
MCNewCodes == {TpmUnseal.cc, TpmPolicyNv.cc, TpmGetRandom.cc}
MCNewRcs == {Success, Warn(TPM_RC_WARN + 1)}
MCFragileCodes ==
    {TpmUnseal.cc, TpmSelfTest.cc, TpmStirRandom.cc, TpmStartAuthSession.cc, TpmPcrExtend.cc,
     TpmGetCapability.cc}
MCVariants == 0..10
=============================================================================
