--------------------------- MODULE PolicyMeaning ---------------------------
(***************************************************************************)
(* What a policy means: the meaning of a text and of a digest, and the     *)
(* properties of PolicyFlow that compare the two.                          *)
(***************************************************************************)
EXTENDS PolicyLanguage, PolicyFlow

(***************************************************************************)
(* What a text means, read without the parser, and what a digest enforces: *)
(* in a world (the set of the conditions that hold), does the text hold,   *)
(* and can a session be brought to the digest?  "or" binds weaker than     *)
(* "and", and parentheses group.                                           *)
(***************************************************************************)
TopLevel(ts, t) ==
    LET Count(s, i) == Cardinality({j \in 1 .. i : ts[j].t = s})
    IN  {i \in DOMAIN ts : ts[i].t = t /\ Count("(", i) = Count(")", i)}

RECURSIVE Holds(_, _, _)
Holds(ts, world, ctx) ==
    LET Left(i) == Holds(SubSeq(ts, 1, i - 1), world, ctx)
        Right(i) == Holds(SubSeq(ts, i + 1, Len(ts)), world, ctx)
    IN  CASE TopLevel(ts, "or") # {} ->
                LET i == CHOOSE i \in TopLevel(ts, "or") : TRUE IN Left(i) \/ Right(i)
          [] TopLevel(ts, "or") = {} /\ TopLevel(ts, "and") # {} ->
                LET i == CHOOSE i \in TopLevel(ts, "and") : TRUE IN Left(i) /\ Right(i)
          [] TopLevel(ts, "or") = {} /\ TopLevel(ts, "and") = {} /\ ts[1].t = "(" ->
                Holds(SubSeq(ts, 2, Len(ts) - 1), world, ctx)
          [] OTHER -> \A p \in parse_primary(ts) : \A c \in compile(p.e, ctx) : c.digest[1] \in world

RECURSIVE Reachable(_, _)
Reachable(d, world) ==
    \/ d = ZeroDigest
    \/ d # ZeroDigest /\ IF Last(d).cc = "PolicyOr"
                         THEN Len(d) = 1 /\ \E i \in DOMAIN Last(d).list :
                                                Reachable(Last(d).list[i], world)
                         ELSE Last(d) \in world /\ Reachable(Front(d), world)

RECURSIVE HasOr(_)
HasOr(e) == \/ e.op = "Or"
            \/ e.op = "And" /\ \E i \in DOMAIN e.args : HasOr(e.args[i])

RECURSIVE Atoms(_, _)
Atoms(e, ctx) ==
    IF e.op \in {"And", "Or"} THEN UNION {Atoms(a, ctx) : a \in ToSet(e.args)}
    ELSE {c.digest[1] : c \in compile(e, ctx)}

\* The alternatives of an expression lead every conjunction they are part of.
RECURSIVE OrLeads(_)
OrLeads(e) ==
    /\ e.op \in {"And", "Or"} => \A i \in DOMAIN e.args : OrLeads(e.args[i])
    /\ e.op = "And" => \A i \in 2 .. Len(e.args) : ~HasOr(e.args[i])

-----------------------------------------------------------------------------
\* The digest enforces what was typed: where the text holds a session can
\* reach the digest, and, when alternatives come first in every conjunction,
\* nowhere else (parse, compile_walk and the software session).
DigestMeansText ==
    pc = "built" =>
        \A m \in made : \A world \in SUBSET Atoms(m.expr, m.ctx) :
            /\ Holds(text, world, m.ctx) => Reachable(m.digest, world)
            /\ OrLeads(m.expr) => (Reachable(m.digest, world) => Holds(text, world, m.ctx))

\* from_commands "rebuilds the logical Expression tree that represents the
\* policy" (expression.rs:143): what is shown of a key holds in exactly the
\* worlds in which the key can be used.
ShownIsEnforced ==
    (Cached /\ own) =>
        \A t \in format_policy(policy) : \A e \in parse(t) : \A world \in SUBSET Atoms(e, Context) :
            Reachable(authPolicy, world) => Holds(t, world, Context)
=============================================================================
