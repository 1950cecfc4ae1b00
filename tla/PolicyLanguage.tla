--------------------------- MODULE PolicyLanguage ---------------------------
(***************************************************************************)
(* crates/policy-language: a policy expression is parsed, compiled into    *)
(* policy commands and a digest, rebuilt from commands and displayed.      *)
(*                                                                         *)
(* A text is a sequence of tokens; the inside of an identifier (a handle,  *)
(* a PCR selection, a copy_ref) is one value.                              *)
(***************************************************************************)
EXTENDS PolicyCommands

CONSTANTS
    Bank,       \* the PCR bank the TPM has
    MaxList     \* the capacity of a TPML_DIGEST

(***************************************************************************)
(* Tokens.                                                                 *)
(***************************************************************************)
Tok(t) == [t |-> t]
Lit(h) == [t |-> "lit", h |-> h]                      \* [type, id]
Sel(bank, pcrs, digest) == [t |-> "sel", bank |-> bank, pcrs |-> pcrs, digest |-> digest]
Ref(r) == [t |-> "ref", r |-> r]                      \* copy_ref:<hex>

(***************************************************************************)
(* Expressions.                                                            *)
(***************************************************************************)
Pcr(pcrs, digest) == [op |-> "Pcr", pcrs |-> pcrs, digest |-> digest]
Secret(auth, ref) == [op |-> "Secret", auth |-> auth, ref |-> ref]
HandleOf(h) == [op |-> "Handle", h |-> h]
AndOf(args) == [op |-> "And", args |-> args]
OrOf(args) == [op |-> "Or", args |-> args]

\* The types TpmHt knows, and those a policy can name an object with.
HandleTypes == {"transient", "persistent", "permanent", "nv"}

(***************************************************************************)
(* The parser.  A parser takes the tokens that are left and yields the     *)
(* expression and what is then left, or nothing.                           *)
(***************************************************************************)
At(ts, t) == ts # <<>> /\ Head(ts).t = t
Parsed(e, ts) == {[e |-> e, rest |-> ts]}

parse_literal(tok) ==
    IF tok.t = "lit" /\ tok.h.type \in HandleTypes THEN {HandleOf(tok.h)} ELSE {}

\* parse_tpml_pcr_selection_str and, after it, the optional digest.
parse_pcr_call(ts) ==
    IF /\ Len(ts) >= 3
       /\ ts[1].t = "(" /\ ts[2].t = "sel" /\ ts[3].t = ")"
       /\ ts[2].bank = Bank
       /\ ts[2].pcrs \subseteq Pcrs
    THEN Parsed(Pcr(ts[2].pcrs, ts[2].digest), SubSeq(ts, 4, Len(ts)))
    ELSE {}

\* Mutant: an operand is put into the other operand's node whatever its operator.
CombineFlat(op, lhs, rhs) ==
    IF lhs.op \in {"And", "Or"} THEN [lhs EXCEPT !.args = Append(@, rhs)]
    ELSE [op |-> op, args |-> <<lhs, rhs>>]

\* The node a binary operator makes of what it has so far and one operand more.
Combine(op, lhs, rhs) ==
    IF lhs.op = op THEN [lhs EXCEPT !.args = Append(@, rhs)]
    ELSE [op |-> op, args |-> <<lhs, rhs>>]

RECURSIVE parse_or(_), parse_and(_), parse_primary(_), parse_secret_call(_),
          or_rest(_), and_rest(_)

or_rest(p) ==
    IF At(p.rest, "or")
    THEN UNION {or_rest([e |-> Combine("Or", p.e, q.e), rest |-> q.rest])
                    : q \in parse_and(Tail(p.rest))}
    ELSE {p}

parse_or(ts) == UNION {or_rest(p) : p \in parse_and(ts)}

and_rest(p) ==
    IF At(p.rest, "and")
    THEN UNION {and_rest([e |-> Combine("And", p.e, q.e), rest |-> q.rest])
                    : q \in parse_primary(Tail(p.rest))}
    ELSE {p}

parse_and(ts) == UNION {and_rest(p) : p \in parse_primary(ts)}

parse_primary(ts) ==
    IF ts = <<>> THEN {}
    ELSE CASE Head(ts).t = "(" ->
                {[p EXCEPT !.rest = Tail(@)] : p \in {q \in parse_or(Tail(ts)) : At(q.rest, ")")}}
           [] Head(ts).t = "pcr"    -> parse_pcr_call(Tail(ts))
           [] Head(ts).t = "secret" -> parse_secret_call(Tail(ts))
           [] OTHER -> UNION {Parsed(e, Tail(ts)) : e \in parse_literal(Head(ts))}

\* An empty copy_ref is the same as none.
parse_secret_call(ts) ==
    IF ~At(ts, "(") THEN {}
    ELSE UNION {
        CASE At(p.rest, ")") -> Parsed(Secret(p.e, {}), Tail(p.rest))
          [] /\ Len(p.rest) >= 3
             /\ p.rest[1].t = "," /\ p.rest[2].t = "ref" /\ p.rest[3].t = ")"
               -> Parsed(Secret(p.e, IF p.rest[2].r = "" THEN {} ELSE {p.rest[2].r}),
                         SubSeq(p.rest, 4, Len(p.rest)))
          [] OTHER -> {}
        : p \in parse_or(Tail(ts))}

\* Tokens after the expression make the text invalid.
parse(ts) == {p.e : p \in {q \in parse_or(ts) : q.rest = <<>>}}

(***************************************************************************)
(* Display.                                                                *)
(***************************************************************************)
RECURSIVE Display(_)
Display(e) ==
    LET Joined(args, op) ==
          FoldLeft(LAMBDA ts, a : IF ts = <<>> THEN Display(a)
                                  ELSE ts \o <<Tok(op)>> \o Display(a), <<>>, args)
    IN  CASE e.op = "Pcr"    -> <<Tok("pcr"), Tok("("), Sel(Bank, e.pcrs, e.digest), Tok(")")>>
          [] e.op = "Secret" -> <<Tok("secret"), Tok("(")>> \o Display(e.auth)
                                \o (IF e.ref = {} THEN <<>>
                                    ELSE <<Tok(","), Ref(CHOOSE r \in e.ref : TRUE)>>)
                                \o <<Tok(")")>>
          [] e.op = "Handle" -> <<Lit(e.h)>>
          [] e.op = "And"    -> <<Tok("(")>> \o Joined(e.args, "and") \o <<Tok(")")>>
          [] e.op = "Or"     -> <<Tok("(")>> \o Joined(e.args, "or") \o <<Tok(")")>>

(***************************************************************************)
(* The compiler.                                                           *)
(***************************************************************************)
RECURSIVE compile_walk(_, _, _)

\* Every branch's digest joins the list.
compile_walk_or(e, s, ctx) ==
    LET Branch(acc, b) ==
          UNION {{[state |-> r, list |-> Append(a.list, r.digest)]
                    : r \in compile_walk(b, Restarted(a.state), ctx)}
                 : a \in {x \in acc : Len(x.list) < MaxList}}
    IN  {Alternatives(b.state, b.list)
            : b \in FoldLeft(Branch, {[state |-> s, list |-> <<>>]}, e.args)}

compile_walk(e, s, ctx) ==
    CASE e.op = "And"    -> FoldLeft(LAMBDA acc, b : UNION {compile_walk(b, r, ctx) : r \in acc},
                                     {s}, e.args)
      [] e.op = "Or"     -> compile_walk_or(e, s, ctx)
      [] e.op = "Pcr"    -> compile_walk_pcr(e, s, ctx)
      [] e.op = "Secret" -> compile_walk_secret(e, s, ctx)
      [] e.op = "Handle" -> {}

compile(e, ctx) == compile_walk(e, NothingCompiled, ctx)

(***************************************************************************)
(* from_commands: a stack of branches, the top one growing.                *)
(***************************************************************************)
build_and_branch(branch) == IF Len(branch) = 1 THEN branch[1] ELSE AndOf(branch)

Pushed(stack, e) == Append(Front(stack), Append(Last(stack), e))

from_command(stack, c) ==
    CASE c.cc = "PolicyRestart" -> {Append(stack, <<>>)}
      [] c.cc = "PolicyPcr"     -> {Pushed(stack, Pcr(c.pcrs, {c.value}))}
      [] c.cc = "PolicySecret"  -> {Pushed(stack, Secret(HandleOf(c.handle), c.ref))}
      [] c.cc = "PolicyOr" /\ Len(stack) > Len(c.list) ->
            LET keep == Len(stack) - Len(c.list)
            IN  {Pushed(SubSeq(stack, 1, keep),
                        OrOf([i \in 1 .. Len(c.list) |-> build_and_branch(stack[keep + i])]))}
      [] OTHER -> {}

from_commands(cmds) ==
    LET Step(acc, c) == UNION {from_command(stack, c) : stack \in acc}
    IN  {build_and_branch(stack[1])
            : stack \in {s \in FoldLeft(Step, {<<<<>>>>}, cmds) : Len(s) = 1}}

=============================================================================
