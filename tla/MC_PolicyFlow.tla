--------------------------- MODULE MC_PolicyFlow ---------------------------
(***************************************************************************)
(* Texts that are typed and key files that are found: all shapes of small  *)
(* expressions, near misses of the grammar, and what other tools write.    *)
(***************************************************************************)
EXTENDS PolicyMeaning, TLC

H(type, id) == [type |-> type, id |-> id]
MCVHandles == {H("transient", "h1"), H("transient", "h2")}
MCPersistent == [k3 |-> H("persistent", "p1")]
MCNames == {"k1", "k2"}

MCPolicyCcs == DOMAIN BodyShape \cup {"PolicySigned", "PolicyNv"}

Now(pcrs) == {[fits |-> TRUE, of |-> [p \in pcrs |-> 0]]}
Leaves == {Pcr({1}, {}), Pcr({1, 2}, Now({1, 2})), Secret(HandleOf(H("transient", "h1")), {"r"})}
Odd == {Pcr({2}, {[fits |-> FALSE, of |-> <<>>]}), HandleOf(H("nv", "n")),
        Secret(HandleOf(Owner), {}), Secret(HandleOf(H("persistent", "p1")), {}),
        Secret(HandleOf(H("nv", "n")), {}), Secret(Pcr({1}, {}), {})}

Pairs(S, T) == {[op |-> op, args |-> <<a, b>>] : op \in {"And", "Or"}, a \in S, b \in T}
Triples(S) == {[op |-> op, args |-> <<a, b, c>>] : op \in {"And", "Or"}, a \in S, b \in S, c \in S}
Shallow == Leaves \cup Pairs(Leaves, Leaves)
Two == {Pcr({1}, {}), Secret(HandleOf(H("transient", "h1")), {"r"})}
Trees == Shallow \cup Odd \cup Pairs(Leaves, Odd) \cup Triples(Leaves)
         \cup Pairs(Shallow, Leaves) \cup Pairs(Leaves, Shallow)
         \cup Pairs(Pairs(Two, Two), Pairs(Two, Two))

Tokens == {Tok("and"), Tok("or"), Tok("("), Tok(")"), Tok(","), Tok("pcr"), Tok("secret"),
           Lit(Owner), Lit(H("junk", "j")), Ref("r"), Ref(""),
           Sel(Bank, {1}, {}), Sel(Bank, {9}, {}), Sel("other", {1}, {})}
Raw == UNION {[1 .. n -> Tokens] : n \in 0 .. 2} \cup
       {<<Tok("secret"), Tok("("), a, b, c, d>> :
            a \in {Lit(Owner), Lit(H("transient", "h1")), Tok("(")}, b \in {Tok(","), Tok(")"), Tok("and")},
            c \in {Ref("r"), Ref(""), Tok(")"), Lit(Owner)}, d \in {Tok(")"), Tok(","), Tok("(")}} \cup
       {<<Tok("pcr"), a, b, c>> : a \in {Tok("("), Tok(")")}, b \in Tokens, c \in {Tok(")"), Tok("or")}}

MCTexts == {Display(e) : e \in Trees} \cup Raw

Good(cc) == [cc |-> cc, body |-> Body(BodyShape[cc],
    CASE cc = "PolicySecret" -> [hint |-> Owner, name |-> "", ref |-> {}]
      [] cc = "PolicyPcr" -> [pcrs |-> {1}, value |-> CHOOSE v \in Now({1}) : TRUE]
      [] cc = "PolicyOr" -> [list |-> <<<<>>, <<>>>>]
      [] OTHER -> <<>>)]
Commands == {Good(cc) : cc \in DOMAIN BodyShape} \cup
    {[Good("PolicySecret") EXCEPT !.body.data.name = "k1"],
     [Good("PolicyPcr") EXCEPT !.body.trailing = TRUE],
     [Good("PolicyOr") EXCEPT !.body.shape = "digest"],
     [cc |-> "PolicyNv", body |-> Body("none", <<>>)],
     [cc |-> "NV_Read", body |-> Body("none", <<>>)]}
Lists == {<<>>} \cup {<<a, b>> : a, b \in Commands}

Secrets == {{}} \cup {{[declared |-> d, present |-> p]} : d \in {0, 1, 3}, p \in {0, 1, 3}}

Der(type, alg, secret, list, rsa, parent, ap) ==
    to_asn1([NewKey(type, alg, secret, list, Expected(list))
                EXCEPT !.rsa_parent = rsa, !.parent = parent, !.auth_policy = ap,
                       !.public.auth_policy = IF list = <<>> THEN {} ELSE @])
Encodings(der) == {[pem |-> TRUE, tag |-> "TSS2 PRIVATE KEY", der |-> der],
                   [pem |-> FALSE, tag |-> "", der |-> der]}
MCFiles ==
    UNION {Encodings(d) : d \in
        {Der(t, a, s, <<>>, r, p, {}) : t \in Kinds \cup {"other"}, a \in PublicAlgs, s \in Secrets,
            r \in BOOLEAN, p \in {Owner, H("transient", "parent")}}} \cup
    {[pem |-> FALSE, tag |-> "", der |-> Der("Loadable", "Ecc", {}, l, FALSE, Owner, {})] : l \in Lists} \cup
    {[pem |-> TRUE, tag |-> tag, der |-> Der("SealedData", "KeyedHash", {}, <<>>, FALSE, Owner,
         ap)] : tag \in {"TSS2 PRIVATE KEY", "PRIVATE KEY"},
                ap \in {{}, {<<[name |-> {}, policy |-> <<>>]>>}}}

(***************************************************************************)
(* What the proofs assume of the parser and the compiler, on these texts   *)
(* and trees: with fewer operands compile_walk gives what it has after     *)
(* them.                                                                   *)
(***************************************************************************)
RECURSIVE Subtrees(_)
Subtrees(e) == {e} \cup IF e.op \in {"And", "Or"} THEN UNION {Subtrees(a) : a \in ToSet(e.args)} ELSE {}

ASSUME GrammarAssumption ==
    \A e \in UNION {Parse(ts) : ts \in Texts} :
        LET Depth == [x \in Subtrees(e) |-> 100 - Cardinality({y \in Subtrees(e) : x \in Subtrees(y)})]
        IN  \A x \in Subtrees(e) : Node(x, Subtrees(e), Depth)

MCContext == [pcrs |-> [p \in Pcrs |-> 0],
              names |-> [h \in VHandles |-> "k1"] @@ [h \in {Persistent["k3"]} |-> "k3"]]
Start == [cmds |-> <<[cc |-> "PolicyRestart"]>>, digest |-> ZeroDigest]
FirstOf(e, i) == [e EXCEPT !.args = SubSeq(@, 1, i)]
After(e, i) ==
    LET r == CHOOSE x \in Walk(FirstOf(e, i), Start, MCContext) : TRUE
    IN  CASE i = 0 -> Start
          [] i > 0 /\ e.op = "And" -> r
          [] OTHER -> [cmds |-> Front(r.cmds), digest |-> Last(Last(r.cmds).list)]

ASSUME CompilerAssumption ==
    \A e \in Trees : \A r \in Walk(e, Start, MCContext) :
        LET rs == [i \in 0 .. Len(e.args) |-> After(e, i)]
        IN  CASE e.op = "And" -> AndSteps(rs, e, Start, MCContext, r)
              [] e.op = "Or" -> OrSteps(rs, e, Start, MCContext, r)
              [] e.op = "Pcr" -> r \in compile_walk_pcr(e, Start, MCContext)
              [] e.op = "Secret" -> r \in compile_walk_secret(e, Start, MCContext)
=============================================================================
