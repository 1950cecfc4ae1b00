-------------------------- MODULE PolicyFlowProofs --------------------------
(***************************************************************************)
(* Proofs about PolicyFlow: the policy of a key takes a session of the TPM *)
(* to the key's authPolicy, for every text that is typed and through every *)
(* conversion from the compiler to the session.                            *)
(***************************************************************************)
EXTENDS PolicyFlow, WellFoundedInduction, TLAPS

-----------------------------------------------------------------------------
(* Induction over the natural numbers, as the least element of a set.      *)
Below == {ss \in Nat \X Nat : ss[1] < ss[2]}

LEMMA Least == ASSUME NEW S \in SUBSET Nat, S # {} PROVE \E x \in S : \A y \in S : x <= y
<1>1. OpToRel(<, Nat) = Below  BY Zenon DEF OpToRel, Below
<1>2. IsWellFoundedOn(Below, Nat)  BY Zenon, <1>1, NatLessThanWellFounded
<1>3. \E x \in S : \A y \in S : ~(<<y, x>> \in Below)  BY Zenon, <1>2, WFMin
<1>4. \A x, y \in Nat : y < x => <<y, x>> \in Below  BY DEF Below
<1>5. \A x, y \in Nat : ~(y < x) => x <= y  OBVIOUS
<1>. QED  BY <1>3, <1>4, <1>5

(* A set of numbers that has 0 and, below n, the successor of each of its  *)
(* members has all numbers up to n.                                        *)
LEMMA UpTo ==
    ASSUME NEW n \in Nat, NEW T, 0 \in T,
           \A i \in 1..n : i - 1 \in T => i \in T
    PROVE  \A i \in 0..n : i \in T
<1>. DEFINE S == {i \in 0..n : i \notin T}
<1>. SUFFICES ASSUME S # {} PROVE FALSE  OBVIOUS
<1>1. S \in SUBSET Nat  OBVIOUS
<1>2. PICK x \in S : \A y \in S : x <= y  BY <1>1, Least
<1>3. x # 0 /\ x \in 1..n  OBVIOUS
<1>4. x - 1 \in 0..n /\ ~(x <= x - 1)  BY <1>3
<1>5. x - 1 \in T  BY <1>2, <1>4
<1>. QED  BY <1>3, <1>5

-----------------------------------------------------------------------------
(* The language, as the proofs use it: what is parsed is a finite tree,    *)
(* and compile_walk goes over it node by node.                             *)
Grammar(Expr, height) ==
    /\ height \in [Expr -> Nat]
    /\ \A ts : Parse(ts) \subseteq Expr
    /\ \A e \in Expr : Node(e, Expr, height)

Compiler(Expr) ==
    \A e \in Expr : \A s, ctx : \A r \in Walk(e, s, ctx) :
        \/ e.op = "And" /\ \E rs : AndSteps(rs, e, s, ctx, r)
        \/ e.op = "Or" /\ \E rs : OrSteps(rs, e, s, ctx, r)
        \/ e.op = "Pcr" /\ r \in compile_walk_pcr(e, s, ctx)
        \/ e.op = "Secret" /\ r \in compile_walk_secret(e, s, ctx)

(* One command of a compiled policy and the digests before and after it.   *)
Restarts(c, d2) == c = [cc |-> "PolicyRestart"] /\ d2 = <<>>

Selects(d, c, d2) ==
    \E pcrs, v : /\ c = [cc |-> "PolicyPcr", pcrs |-> pcrs, value |-> v]
                 /\ v.fits /\ v.of = [p \in pcrs |-> v.of[p]]
                 /\ d2 = Append(d, [cc |-> "PolicyPcr", pcrs |-> pcrs, value |-> v])

Refers(d, c, ctx, d2) ==
    \E h, ref, n : /\ c = [cc |-> "PolicySecret", handle |-> h, ref |-> ref]
                   /\ n \in NameOf(h, ctx)
                   /\ d2 = Append(d, [cc |-> "PolicySecret", name |-> n, ref |-> ref])

Joins(d, c, d2) ==
    \E list : /\ c = [cc |-> "PolicyOr", list |-> list]
              /\ d \in ToSet(list)
              /\ d2 = <<[cc |-> "PolicyOr", list |-> list]>>

CompiledStep(d, c, ctx, d2) ==
    Restarts(c, d2) \/ Selects(d, c, d2) \/ Refers(d, c, ctx, d2) \/ Joins(d, c, d2)

(* The software session goes through the digests ds, from zero to the end, *)
(* and a PolicyOR finds the digest it meets in its list.                   *)
CompiledDigests(ds, cmds, ctx, d) ==
    /\ ds[0] = <<>>
    /\ ds[Len(cmds)] = d
    /\ \A i \in 1..Len(cmds) : CompiledStep(ds[i - 1], cmds[i], ctx, ds[i])

SoundState(s, ctx) ==
    /\ \E S : s.cmds \in Seq(S)
    /\ \E ds : CompiledDigests(ds, s.cmds, ctx, s.digest)

LEMMA Appends ==
    ASSUME NEW s, NEW ctx, SoundState(s, ctx), NEW c, NEW d, CompiledStep(s.digest, c, ctx, d)
    PROVE  SoundState([cmds |-> Append(s.cmds, c), digest |-> d], ctx)
<1>. DEFINE cs == s.cmds
            n == Len(cs)
            more == Append(cs, c)
<1>1. PICK S : cs \in Seq(S)  BY DEF SoundState
<1>2. PICK ds : CompiledDigests(ds, cs, ctx, s.digest)  BY DEF SoundState
<1>3. /\ n \in Nat
      /\ more \in Seq(S \cup {c})
      /\ Len(more) = n + 1
      /\ more[n + 1] = c
      /\ \A i \in 1..n : more[i] = cs[i]
  <2>1. cs \in Seq(S \cup {c})  BY <1>1
  <2>. HIDE DEF cs
  <2>. QED  BY <2>1
<1>. DEFINE es == [i \in 0..(n + 1) |-> IF i = n + 1 THEN d ELSE ds[i]]
<1>. HIDE DEF cs, n, more
<1>4. es[0] = <<>> /\ es[n + 1] = d  BY <1>2, <1>3 DEF CompiledDigests
<1>5. ASSUME NEW i \in 1..(n + 1) PROVE CompiledStep(es[i - 1], more[i], ctx, es[i])
  <2>1. CASE i = n + 1
    <3>1. es[i - 1] = s.digest /\ es[i] = d /\ more[i] = c
      BY <1>2, <1>3, <2>1 DEF CompiledDigests, n
    <3>. QED  BY <3>1
  <2>2. CASE i \in 1..n
    <3>1. es[i - 1] = ds[i - 1] /\ es[i] = ds[i] /\ more[i] = cs[i]  BY <1>3, <2>2
    <3>2. CompiledStep(ds[i - 1], cs[i], ctx, ds[i])  BY <1>2, <2>2 DEF CompiledDigests, n
    <3>. QED  BY <3>1, <3>2
  <2>. QED  BY <1>3, <2>1, <2>2
<1>. HIDE DEF es
<1>6. CompiledDigests(es, more, ctx, d)  BY <1>3, <1>4, <1>5 DEF CompiledDigests
<1>. QED  BY <1>3, <1>6, Zenon DEF SoundState, more, cs

-----------------------------------------------------------------------------
(* compile_walk keeps a sound state sound, by induction over the height of *)
(* the expression and, at a node, over its operands.                       *)
LEMMA PcrIsSound ==
    ASSUME NEW e, NEW s, NEW ctx, SoundState(s, ctx), NEW r \in compile_walk_pcr(e, s, ctx),
           \A v \in e.digest : v.fits => v.of = [p \in e.pcrs |-> v.of[p]]
    PROVE  SoundState(r, ctx)
<1>. DEFINE value == IF e.digest # {} THEN CHOOSE v \in e.digest : TRUE
                     ELSE [fits |-> TRUE, of |-> [p \in e.pcrs |-> ctx.pcrs[p]]]
            c == [cc |-> "PolicyPcr", pcrs |-> e.pcrs, value |-> value]
            d == Append(s.digest, c)
<1>1. value.fits /\ r = [cmds |-> Append(s.cmds, c), digest |-> d]
  BY DEF compile_walk_pcr, policy_pcr, Compiled
<1>2. value.of = [p \in e.pcrs |-> value.of[p]]
  <2>1. CASE e.digest # {}  BY <1>1, <2>1
  <2>2. CASE e.digest = {}  BY <2>2
  <2>. QED  BY <2>1, <2>2
<1>. HIDE DEF value
<1>3. Selects(s.digest, c, d)  BY <1>1, <1>2 DEF Selects
<1>. HIDE DEF c, d
<1>. QED  BY <1>1, <1>3, Appends DEF CompiledStep

LEMMA SecretIsSound ==
    ASSUME NEW e, NEW s, NEW ctx, SoundState(s, ctx), NEW r \in compile_walk_secret(e, s, ctx)
    PROVE  SoundState(r, ctx)
<1>. DEFINE c == [cc |-> "PolicySecret", handle |-> e.auth.h, ref |-> e.ref]
            d(n) == Append(s.digest, [cc |-> "PolicySecret", name |-> n, ref |-> e.ref])
<1>1. PICK n \in NameOf(e.auth.h, ctx) : r = [cmds |-> Append(s.cmds, c), digest |-> d(n)]
  BY DEF compile_walk_secret, policy_secret, Compiled
<1>2. Refers(s.digest, c, ctx, d(n))  BY <1>1 DEF Refers
<1>. HIDE DEF c, d
<1>. QED  BY <1>1, <1>2, Appends DEF CompiledStep

LEMMA RestartIsSound ==
    ASSUME NEW s, NEW ctx, SoundState(s, ctx)
    PROVE  SoundState(Restarted(s), ctx)
<1>1. Restarts([cc |-> "PolicyRestart"], <<>>)  BY DEF Restarts
<1>. QED  BY <1>1, Appends DEF CompiledStep, Restarted, policy_restart, ZeroDigest

LEMMA AlternativesAreSound ==
    ASSUME NEW s, NEW ctx, SoundState(s, ctx), NEW list, s.digest \in ToSet(list)
    PROVE  SoundState(Alternatives(s, list), ctx)
<1>. DEFINE c == [cc |-> "PolicyOr", list |-> list]
            d == <<[cc |-> "PolicyOr", list |-> list]>>
<1>1. Joins(s.digest, c, d)  BY DEF Joins
<1>2. Alternatives(s, list) = [cmds |-> Append(s.cmds, c), digest |-> d]
  BY DEF Alternatives, policy_or, ZeroDigest
<1>. HIDE DEF c, d
<1>. QED  BY <1>1, <1>2, Appends DEF CompiledStep

Sound(e, ctx) == \A s : SoundState(s, ctx) => \A r \in Walk(e, s, ctx) : SoundState(r, ctx)

LEMMA AndIsSound ==
    ASSUME NEW e, NEW s, NEW ctx, NEW r, NEW rs, AndSteps(rs, e, s, ctx, r), Len(e.args) \in Nat,
           SoundState(s, ctx), \A i \in 1..Len(e.args) : Sound(e.args[i], ctx)
    PROVE  SoundState(r, ctx)
<1>. DEFINE n == Len(e.args)
            T == {i \in 0..n : SoundState(rs[i], ctx)}
<1>1. 0 \in T  BY DEF AndSteps
<1>2. \A i \in 1..n : i - 1 \in T => i \in T
  <2>. SUFFICES ASSUME NEW i \in 1..n, i - 1 \in T PROVE SoundState(rs[i], ctx)  OBVIOUS
  <2>1. rs[i] \in Walk(e.args[i], rs[i - 1], ctx)  BY DEF AndSteps
  <2>. QED  BY <2>1 DEF Sound
<1>3. n \in T
  <2>. HIDE DEF T, n
  <2>1. n \in Nat  BY DEF n
  <2>2. \A i \in 0..n : i \in T  BY <1>1, <1>2, <2>1, UpTo, Zenon
  <2>. QED  BY <2>1, <2>2
<1>. QED  BY <1>3 DEF AndSteps

LEMMA OrIsSound ==
    ASSUME NEW e, NEW s, NEW ctx, NEW r, NEW rs, OrSteps(rs, e, s, ctx, r),
           Len(e.args) \in Nat, Len(e.args) # 0,
           SoundState(s, ctx), \A i \in 1..Len(e.args) : Sound(e.args[i], ctx)
    PROVE  SoundState(r, ctx)
<1>. DEFINE n == Len(e.args)
            T == {i \in 0..n : SoundState(rs[i], ctx)}
            list == [i \in 1..n |-> rs[i].digest]
<1>1. 0 \in T  BY DEF OrSteps
<1>2. \A i \in 1..n : i - 1 \in T => i \in T
  <2>. SUFFICES ASSUME NEW i \in 1..n, i - 1 \in T PROVE SoundState(rs[i], ctx)  OBVIOUS
  <2>1. rs[i] \in Walk(e.args[i], Restarted(rs[i - 1]), ctx)  BY DEF OrSteps
  <2>. QED  BY <2>1, RestartIsSound DEF Sound
<1>3. n \in T
  <2>. HIDE DEF T, n
  <2>1. n \in Nat  BY DEF n
  <2>2. \A i \in 0..n : i \in T  BY <1>1, <1>2, <2>1, UpTo, Zenon
  <2>. QED  BY <2>1, <2>2
<1>4. rs[n].digest \in ToSet(list)  BY DEF ToSet
<1>5. r = Alternatives(rs[n], list)  BY DEF OrSteps
<1>. HIDE DEF n, list
<1>. QED  BY <1>3, <1>4, <1>5, AlternativesAreSound

LEMMA WalkIsSound ==
    ASSUME NEW Expr, NEW height, Grammar(Expr, height), Compiler(Expr), NEW ctx
    PROVE  \A e \in Expr : Sound(e, ctx)
<1>. DEFINE Bad == {e \in Expr : ~Sound(e, ctx)}
            S == {height[e] : e \in Bad}
<1>. SUFFICES ASSUME Bad # {} PROVE FALSE  OBVIOUS
<1>1. S \in SUBSET Nat /\ S # {}  BY DEF Grammar
<1>2. PICK x \in S : \A y \in S : x <= y  BY <1>1, Least
<1>3. PICK e \in Bad : height[e] = x  OBVIOUS
<1>4. ASSUME NEW b \in Expr, height[b] < height[e] PROVE Sound(b, ctx)
  <2>1. height[b] \in Nat /\ height[e] \in Nat  BY DEF Grammar
  <2>2. ~(height[e] <= height[b])  BY <1>4, <2>1
  <2>. QED  BY <1>2, <1>3, <2>2
<1>5. Node(e, Expr, height)  BY DEF Grammar
<1>6. ASSUME e.op \in {"And", "Or"}
      PROVE  /\ Len(e.args) \in Nat /\ Len(e.args) # 0
             /\ \A i \in 1..Len(e.args) : Sound(e.args[i], ctx)
  <2>1. e.args \in Seq(Expr) /\ e.args # <<>>  BY <1>5, <1>6 DEF Node
  <2>2. ASSUME NEW i \in 1..Len(e.args) PROVE e.args[i] \in Expr /\ height[e.args[i]] < height[e]
    BY <1>5, <1>6, <2>1 DEF Node
  <2>. QED  BY <1>4, <2>1, <2>2
<1>7. ASSUME NEW s, SoundState(s, ctx), NEW r \in Walk(e, s, ctx) PROVE SoundState(r, ctx)
  <2>1. CASE e.op = "And" /\ \E rs : AndSteps(rs, e, s, ctx, r)
    BY <1>6, <1>7, <2>1, AndIsSound
  <2>2. CASE e.op = "Or" /\ \E rs : OrSteps(rs, e, s, ctx, r)
    BY <1>6, <1>7, <2>2, OrIsSound
  <2>3. CASE e.op = "Pcr" /\ r \in compile_walk_pcr(e, s, ctx)
    BY <1>5, <1>7, <2>3, PcrIsSound DEF Node
  <2>4. CASE e.op = "Secret" /\ r \in compile_walk_secret(e, s, ctx)
    BY <1>7, <2>4, SecretIsSound
  <2>. QED  BY <1>7, <2>1, <2>2, <2>3, <2>4 DEF Compiler
<1>8. Sound(e, ctx)  BY <1>7 DEF Sound
<1>. QED  BY <1>8

(* What build_policy_command_list compiles is sound.                       *)
LEMMA CompileIsSound ==
    ASSUME NEW Expr, NEW height, Grammar(Expr, height), Compiler(Expr),
           NEW ts, NEW e \in Parse(ts), NEW ctx, NEW r \in Compile(e, ctx)
    PROVE  SoundState(r, ctx)
<1>1. e \in Expr  BY DEF Grammar
<1>2. CompiledDigests([i \in {0} |-> <<>>], <<>>, ctx, <<>>)  BY DEF CompiledDigests
<1>3. <<>> \in Seq({})  OBVIOUS
<1>4. SoundState(NothingCompiled, ctx)  BY <1>2, <1>3 DEF SoundState, NothingCompiled, ZeroDigest
<1>. QED  BY <1>1, <1>4, WalkIsSound DEF Sound, Compile
-----------------------------------------------------------------------------
(* The stored form of a command of this program, and the digests before    *)
(* and after it.                                                           *)
OwnRestart(c) == c = [cc |-> "PolicyRestart", body |-> Body("none", <<>>)]

OwnPcr(c) ==
    \E pcrs, v : /\ c = [cc |-> "PolicyPcr",
                         body |-> Body("digest, pcrs", [pcrs |-> pcrs, value |-> v])]
                 /\ v.fits /\ v.of = [p \in pcrs |-> v.of[p]]

StoredSecret(h, n, ref) ==
    [cc |-> "PolicySecret",
     body |-> Body("handle, name, digest", [hint |-> h, name |-> n, ref |-> ref])]

OwnSecret(c) == \E h, n, ref : c = StoredSecret(h, n, ref) /\ n # NoName

OwnOr(d, c) ==
    \E list : /\ c = [cc |-> "PolicyOr", body |-> Body("digests", [list |-> list])]
              /\ d \in ToSet(list)

OwnCommand(d, c) == OwnRestart(c) \/ OwnPcr(c) \/ OwnSecret(c) \/ OwnOr(d, c)

(* The commands take a session from zero to the digest d, and each of a    *)
(* policy of this program has the form above.                              *)
LeadsTo(list, d) ==
    /\ \E S : list \in Seq(S)
    /\ \E ds : Digests(ds, list) /\ ds[Len(list)] = d

OwnLeadsTo(list, d) ==
    /\ \E S : list \in Seq(S)
    /\ \E ds : /\ Digests(ds, list) /\ ds[Len(list)] = d
               /\ \A i \in 1..Len(list) : OwnCommand(ds[i - 1], list[i])

KeysOk == keys \in [VHandles -> Names \cup {"none"}]

(* What the policy codec makes of the objects a policy refers to.          *)
LEMMA Shapes ==
    /\ BodyShape["PolicySecret"] = "handle, name, digest"
    /\ BodyShape["PolicyPcr"] = "digest, pcrs"
    /\ BodyShape["PolicyOr"] = "digests"
    /\ BodyShape["PolicyRestart"] = "none"
    /\ {"PolicySecret", "PolicyPcr", "PolicyOr", "PolicyRestart"} \subseteq DOMAIN BodyShape
BY DEF BodyShape

(* The name a policy is saved with is the name it was compiled with.       *)
LEMMA NamesAgree ==
    ASSUME KeysOk, NEW ctx, ctx.names = Context.names, NEW h, NEW n \in NameOf(h, ctx),
           NEW m \in ObjectName(h)
    PROVE  m = n /\ m # NoName
<1>. DEFINE D == VHandles \cup {Persistent[x] : x \in DOMAIN Persistent}
<1>1. h \in D  BY DEF ObjectName, PersistentName
<1>2. ObjectName(h) = {m} /\ m \notin {NoName, "none"}
  <2>1. CASE h \in VHandles /\ keys[h] # "none"
    <3>1. keys[h] \in Names  BY <2>1 DEF KeysOk
    <3>. QED  BY <2>1, <3>1, FlowAssumption DEF ObjectName
  <2>2. CASE ~(h \in VHandles /\ keys[h] # "none")
    <3>1. ObjectName(h) = PersistentName(h)  BY <2>2 DEF ObjectName
    <3>2. \A x \in PersistentName(h) : x = m  BY <3>1, FlowAssumption DEF PersistentName
    <3>. QED  BY <3>1, <3>2, FlowAssumption DEF PersistentName
  <2>. QED  BY <2>1, <2>2
<1>3. h.type \in {"transient", "persistent"}
  <2>1. \A x \in VHandles : x.type = "transient"  BY FlowAssumption
  <2>2. \A x \in DOMAIN Persistent : Persistent[x].type = "persistent"  BY FlowAssumption
  <2>. QED  BY <1>1, <2>1, <2>2
<1>4. Context.names = [x \in D |-> IF ObjectName(x) = {} THEN "none"
                                   ELSE CHOOSE y \in ObjectName(x) : TRUE]
  BY DEF Context
<1>5. Context.names[h] = m /\ h \in DOMAIN Context.names  BY <1>1, <1>2, <1>4
<1>6. n = ctx.names[h]  BY <1>3, <1>5 DEF NameOf
<1>. QED  BY <1>2, <1>5, <1>6

(* One command that is saved.                                              *)
LEMMA SavedStep ==
    ASSUME KeysOk, NEW ctx, ctx.names = Context.names, NEW d, NEW c, NEW d2,
           CompiledStep(d, c, ctx, d2), NEW k \in vtpm_policy_command_from(c)
    PROVE  OwnCommand(d, k) /\ d2 = TpmDigest(d, Named(k))
<1>1. CASE Restarts(c, d2)
  <2>1. k = [cc |-> "PolicyRestart", body |-> Body("none", <<>>)]
    BY <1>1 DEF Restarts, vtpm_policy_command_from
  <2>2. Named(k).cc = "PolicyRestart"  BY <2>1 DEF Named
  <2>. QED  BY <1>1, <2>1, <2>2 DEF Restarts, OwnCommand, OwnRestart, TpmDigest
<1>2. CASE Selects(d, c, d2)
  <2>1. PICK pcrs, v : /\ c = [cc |-> "PolicyPcr", pcrs |-> pcrs, value |-> v]
                       /\ v.fits /\ v.of = [p \in pcrs |-> v.of[p]]
                       /\ d2 = Append(d, [cc |-> "PolicyPcr", pcrs |-> pcrs, value |-> v])
    BY <1>2 DEF Selects
  <2>2. k = [cc |-> "PolicyPcr", body |-> Body("digest, pcrs", [pcrs |-> pcrs, value |-> v])]
    BY <2>1, Shapes DEF vtpm_policy_command_from
  <2>3. /\ Named(k).cc = "PolicyPcr"
        /\ Named(k).arg.pcrs = pcrs /\ Named(k).arg.value = v
    BY <2>2 DEF Named, Body
  <2>4. OwnPcr(k)  BY <2>1, <2>2 DEF OwnPcr
  <2>. QED  BY <2>1, <2>3, <2>4 DEF OwnCommand, TpmDigest
<1>3. CASE Refers(d, c, ctx, d2)
  <2>1. PICK h, ref, n : /\ c = [cc |-> "PolicySecret", handle |-> h, ref |-> ref]
                         /\ n \in NameOf(h, ctx)
                         /\ d2 = Append(d, [cc |-> "PolicySecret", name |-> n, ref |-> ref])
    BY <1>3 DEF Refers
  <2>2. PICK m \in ObjectName(h) :
           k = [cc |-> "PolicySecret",
                body |-> Body("handle, name, digest", [hint |-> h, name |-> m, ref |-> ref])]
    BY <2>1, Shapes DEF vtpm_policy_command_from
  <2>3. m = n /\ m # NoName  BY <2>1, NamesAgree
  <2>4. /\ Named(k).cc = "PolicySecret"
        /\ Named(k).handles[1].id = n
        /\ Named(k).arg.ref = ref
    BY <2>2, <2>3 DEF Named, Body, Live
  <2>5. OwnSecret(k)
    <3>1. k = StoredSecret(h, m, ref)  BY <2>2 DEF StoredSecret
    <3>. QED  BY <2>3, <3>1 DEF OwnSecret
  <2>. QED  BY <2>1, <2>4, <2>5 DEF OwnCommand, TpmDigest
<1>4. CASE Joins(d, c, d2)
  <2>1. PICK list : /\ c = [cc |-> "PolicyOr", list |-> list]
                    /\ d \in ToSet(list)
                    /\ d2 = <<[cc |-> "PolicyOr", list |-> list]>>
    BY <1>4 DEF Joins
  <2>2. k = [cc |-> "PolicyOr", body |-> Body("digests", [list |-> list])]
    BY <2>1, Shapes DEF vtpm_policy_command_from
  <2>3. Named(k).cc = "PolicyOr" /\ Named(k).arg.list = list  BY <2>2 DEF Named, Body
  <2>4. OwnOr(d, k)  BY <2>1, <2>2 DEF OwnOr
  <2>. QED  BY <2>1, <2>3, <2>4 DEF OwnCommand, TpmDigest
<1>. QED  BY <1>1, <1>2, <1>3, <1>4 DEF CompiledStep

(* A policy that is saved leads to the digest it was compiled to.          *)
LEMMA SavedLeads ==
    ASSUME KeysOk, NEW s, NEW ctx, ctx.names = Context.names, SoundState(s, ctx),
           NEW list \in save_vtpm_policy(s.cmds)
    PROVE  OwnLeadsTo(list, s.digest)
<1>. DEFINE cs == s.cmds
            n == Len(cs)
            saved(c) == CHOOSE r \in vtpm_policy_command_from(c) : TRUE
<1>1. PICK S : cs \in Seq(S)  BY DEF SoundState
<1>2. PICK ds : CompiledDigests(ds, cs, ctx, s.digest)  BY DEF SoundState
<1>3. n \in Nat /\ DOMAIN cs = 1..n
  <2>. HIDE DEF cs
  <2>. QED  BY <1>1
<1>4. \A i \in DOMAIN cs : vtpm_policy_command_from(cs[i]) # {}
  BY Zenon DEF save_vtpm_policy, Each
<1>5. list = [i \in DOMAIN cs |-> saved(cs[i])]
  BY <1>4, Zenon DEF save_vtpm_policy, Each
<1>6. \A i \in DOMAIN cs : saved(cs[i]) \in vtpm_policy_command_from(cs[i])
  BY <1>4, Zenon
<1>. HIDE DEF cs, saved, n
<1>7. list \in Seq({saved(cs[i]) : i \in 1..n}) /\ Len(list) = n /\ \A i \in 1..n : list[i] = saved(cs[i])
  BY <1>3, <1>5
<1>8. \A i \in 1..n : OwnCommand(ds[i - 1], list[i]) /\ ds[i] = TpmDigest(ds[i - 1], Named(list[i]))
  <2>. SUFFICES ASSUME NEW i \in 1..n
                PROVE  OwnCommand(ds[i - 1], list[i]) /\ ds[i] = TpmDigest(ds[i - 1], Named(list[i]))
    OBVIOUS
  <2>1. CompiledStep(ds[i - 1], cs[i], ctx, ds[i])  BY <1>2 DEF CompiledDigests, n
  <2>2. list[i] \in vtpm_policy_command_from(cs[i])  BY <1>3, <1>6, <1>7
  <2>. QED  BY <2>1, <2>2, SavedStep
<1>9. Digests(ds, list) /\ ds[Len(list)] = s.digest
  BY <1>2, <1>7, <1>8 DEF Digests, CompiledDigests, n
<1>. QED  BY <1>7, <1>8, <1>9 DEF OwnLeadsTo
-----------------------------------------------------------------------------
(* The key file: what this program writes is what it reads.                *)
OwnCodes == {"PolicySecret", "PolicyPcr", "PolicyOr", "PolicyRestart"}

LEMMA OwnForm ==
    ASSUME NEW d, NEW c, OwnCommand(d, c)
    PROVE  /\ c = [cc |-> c.cc, body |-> c.body]
           /\ c.cc \in OwnCodes
           /\ vtpm_policy_command_from_parts(c) = {c}
<1>1. ASSUME NEW cc \in OwnCodes, NEW data, c = [cc |-> cc, body |-> Body(BodyShape[cc], data)]
      PROVE  /\ c = [cc |-> c.cc, body |-> c.body]
             /\ c.cc \in OwnCodes
             /\ vtpm_policy_command_from_parts(c) = {c}
  <2>1. c.cc = cc /\ c.body = Body(BodyShape[cc], data)  BY <1>1
  <2>2. c.body.shape = BodyShape[cc] /\ ~c.body.trailing  BY <2>1 DEF Body
  <2>3. cc \in DOMAIN BodyShape  BY Shapes DEF OwnCodes
  <2>4. c = [cc |-> c.cc, body |-> c.body]  BY <1>1, <2>1
  <2>. QED  BY <2>1, <2>2, <2>3, <2>4, Zenon DEF vtpm_policy_command_from_parts
<1>2. CASE OwnRestart(c)
  <2>1. c = [cc |-> "PolicyRestart", body |-> Body(BodyShape["PolicyRestart"], <<>>)]
    BY <1>2, Shapes DEF OwnRestart
  <2>. QED  BY <1>1, <2>1 DEF OwnCodes
<1>3. CASE OwnPcr(c)
  <2>1. PICK pcrs, v : c = [cc |-> "PolicyPcr",
                            body |-> Body("digest, pcrs", [pcrs |-> pcrs, value |-> v])]
    BY <1>3 DEF OwnPcr
  <2>. DEFINE data == [pcrs |-> pcrs, value |-> v]
  <2>2. c = [cc |-> "PolicyPcr", body |-> Body(BodyShape["PolicyPcr"], data)]  BY <2>1, Shapes
  <2>. HIDE DEF data
  <2>. QED  BY <1>1, <2>2 DEF OwnCodes
<1>4. CASE OwnSecret(c)
  <2>1. PICK h, n, ref : c = StoredSecret(h, n, ref)  BY <1>4 DEF OwnSecret
  <2>. DEFINE data == [hint |-> h, name |-> n, ref |-> ref]
  <2>2. c = [cc |-> "PolicySecret", body |-> Body(BodyShape["PolicySecret"], data)]
    BY <2>1, Shapes DEF StoredSecret
  <2>. HIDE DEF data
  <2>. QED  BY <1>1, <2>2 DEF OwnCodes
<1>5. CASE OwnOr(d, c)
  <2>1. PICK list : c = [cc |-> "PolicyOr", body |-> Body("digests", [list |-> list])]
    BY <1>5 DEF OwnOr
  <2>. DEFINE data == [list |-> list]
  <2>2. c = [cc |-> "PolicyOr", body |-> Body(BodyShape["PolicyOr"], data)]  BY <2>1, Shapes
  <2>. HIDE DEF data
  <2>. QED  BY <1>1, <2>2 DEF OwnCodes
<1>. QED  BY <1>2, <1>3, <1>4, <1>5 DEF OwnCommand

(* vtpm_policy_command_from_parts keeps a command or refuses it, and so    *)
(* does a list of them.                                                    *)
LEMMA PartsKept ==
    ASSUME NEW list, \E S : list \in Seq(S), NEW r \in Each(list, vtpm_policy_command_from_parts)
    PROVE  r = list /\ \A i \in DOMAIN list : vtpm_policy_command_from_parts(list[i]) = {list[i]}
<1>. DEFINE kept(c) == CHOOSE x \in vtpm_policy_command_from_parts(c) : TRUE
<1>1. \A i \in DOMAIN list : vtpm_policy_command_from_parts(list[i]) # {}  BY Zenon DEF Each
<1>2. r = [i \in DOMAIN list |-> kept(list[i])]  BY <1>1, Zenon DEF Each
<1>3. \A c : vtpm_policy_command_from_parts(c) # {} =>
                vtpm_policy_command_from_parts(c) = {c} /\ kept(c) = c
  BY DEF vtpm_policy_command_from_parts
<1>4. list = [i \in DOMAIN list |-> list[i]]  OBVIOUS
<1>. HIDE DEF kept
<1>5. [i \in DOMAIN list |-> kept(list[i])] = [i \in DOMAIN list |-> list[i]]  BY <1>1, <1>3
<1>. QED  BY <1>1, <1>2, <1>3, <1>4, <1>5

LEMMA PartsPass ==
    ASSUME NEW list, \A i \in DOMAIN list : vtpm_policy_command_from_parts(list[i]) = {list[i]}
    PROVE  Each(list, vtpm_policy_command_from_parts) # {}
<1>1. \A i \in DOMAIN list : vtpm_policy_command_from_parts(list[i]) # {}  OBVIOUS
<1>. QED  BY <1>1, Zenon DEF Each

LEMMA ListComesBack ==
    ASSUME NEW list, NEW S, list \in Seq(S),
           \A i \in 1..Len(list) : list[i] = [cc |-> list[i].cc, body |-> list[i].body]
    PROVE  /\ PolicyFromAsn1(PolicyToAsn1(list)) = list
           /\ PolicyToAsn1(list) = <<>> <=> list = <<>>
           /\ Len(PolicyToAsn1(list)) = Len(list)
           /\ \A i \in 1..Len(list) : PolicyToAsn1(list)[i].command_code = list[i].cc
<1>. DEFINE asn1 == PolicyToAsn1(list)
            item(i) == CommandToAsn1(list[i])
<1>1. asn1 = [i \in 1..Len(list) |-> item(i)]  BY DEF PolicyToAsn1
<1>2. \A i \in 1..Len(list) : item(i).command_code = list[i].cc /\ CommandFromAsn1(item(i)) = list[i]
  BY DEF CommandToAsn1, CommandFromAsn1
<1>. HIDE DEF asn1, item
<1>3. asn1 \in Seq({item(i) : i \in 1..Len(list)}) /\ Len(asn1) = Len(list)  BY <1>1
<1>4. PolicyFromAsn1(asn1) = [i \in 1..Len(list) |-> list[i]]
  BY <1>1, <1>2, <1>3 DEF PolicyFromAsn1
<1>5. list = [i \in 1..Len(list) |-> list[i]]  OBVIOUS
<1>6. asn1 = <<>> <=> list = <<>>  BY <1>3
<1>. QED  BY <1>1, <1>2, <1>3, <1>4, <1>5, <1>6 DEF asn1

(* The key files of create, seal and import are read as they were written. *)
LEMMA KeyComesBack ==
    ASSUME NEW list, NEW d, OwnLeadsTo(list, d), NEW kind \in Kinds, NEW alg, NEW secret,
           AlgOk(kind, alg), tpm_validate_secret(kind, secret)
    PROVE  /\ to_pem(NewKey(kind, alg, secret, list, d)) # {}
           /\ \A f \in to_pem(NewKey(kind, alg, secret, list, d)) :
                 \E r : /\ ReadKey(f) = {r}
                        /\ r.policy = list /\ r.auth_policy = {} /\ AuthPolicyOf(r) = d
<1>. DEFINE key == NewKey(kind, alg, secret, list, d)
            asn1 == to_asn1(key)
            file1 == [pem |-> TRUE, tag |-> "TSS2 PRIVATE KEY", der |-> asn1]
<1>1. PICK S : list \in Seq(S)  BY DEF OwnLeadsTo
<1>2. ASSUME NEW i \in 1..Len(list)
      PROVE  list[i] = [cc |-> list[i].cc, body |-> list[i].body] /\ list[i].cc \in PolicyCcs
  BY OwnForm, FlowAssumption DEF OwnLeadsTo, OwnCodes
<1>3. /\ key.kind = kind /\ key.secret = secret /\ key.policy = list
      /\ key.auth_policy = {} /\ key.rsa_parent = FALSE
      /\ key.public = [whole |-> TRUE, alg |-> alg, auth_policy |-> {d}]
      /\ key.private.whole
  BY DEF NewKey
<1>. HIDE DEF key
<1>4. /\ asn1.key_type = kind /\ asn1.secret = secret
      /\ asn1.policy = UnlessEmpty(PolicyToAsn1(list))
      /\ asn1.auth_policy = {} /\ asn1.rsa_parent = {}
      /\ asn1.pubkey = [whole |-> TRUE, alg |-> alg, auth_policy |-> {d}]
      /\ asn1.privkey.whole
  BY <1>3 DEF to_asn1, Flag
<1>5. to_der(key) = {asn1}  BY <1>3 DEF to_der, RsaParentOk
<1>. HIDE DEF asn1
<1>6. to_pem(key) = {file1}  BY <1>5 DEF to_pem
<1>7. \A p \in asn1.policy : PolicyReads(p)
  <2>. SUFFICES ASSUME NEW p \in asn1.policy PROVE PolicyReads(p)  OBVIOUS
  <2>1. p = PolicyToAsn1(list)  BY <1>4 DEF UnlessEmpty
  <2>2. Len(p) = Len(list) /\ \A i \in 1..Len(list) : p[i].command_code = list[i].cc
    BY <1>1, <1>2, <2>1, ListComesBack
  <2>. QED  BY <1>2, <2>2 DEF PolicyReads
<1>. DEFINE r == [kind |-> asn1.key_type,
                  empty_auth |-> TRUE \in asn1.empty_auth,
                  policy |-> IF asn1.policy = {} THEN <<>>
                             ELSE PolicyFromAsn1(CHOOSE p \in asn1.policy : TRUE),
                  secret |-> asn1.secret,
                  auth_policy |-> {[i \in 1 .. Len(p) |-> BranchFromAsn1(p[i])] : p \in asn1.auth_policy},
                  description |-> asn1.description,
                  rsa_parent |-> TRUE \in asn1.rsa_parent,
                  parent |-> asn1.parent,
                  public |-> asn1.pubkey,
                  private |-> asn1.privkey]
<1>8. from_asn1(asn1) = {r}
  <2>1. /\ asn1.pubkey.whole /\ asn1.privkey.whole /\ asn1.key_type \in Kinds
        /\ AlgOk(asn1.key_type, asn1.pubkey.alg)
        /\ RsaParentOk(TRUE \in asn1.rsa_parent, asn1.parent)
        /\ tpm_validate_secret(asn1.key_type, asn1.secret)
        /\ \A p \in asn1.auth_policy : \A i \in 1 .. Len(p) : PolicyReads(p[i].policy)
    BY <1>4 DEF RsaParentOk
  <2>. QED  BY <1>7, <2>1, Zenon DEF from_asn1
<1>9. r.policy = list
  <2>1. CASE list = <<>>  BY <1>1, <1>2, <1>4, <2>1, ListComesBack DEF UnlessEmpty
  <2>2. CASE list # <<>>
    <3>1. asn1.policy = {PolicyToAsn1(list)}  BY <1>1, <1>2, <1>4, <2>2, ListComesBack DEF UnlessEmpty
    <3>2. r.policy = PolicyFromAsn1(PolicyToAsn1(list))  BY <3>1
    <3>. QED  BY <1>1, <1>2, <3>2, ListComesBack
  <2>. QED  BY <2>1, <2>2
<1>10. r.auth_policy = {} /\ r.public.auth_policy = {d}  BY <1>4
<1>. HIDE DEF r
<1>11. AuthPolicyOf(r) = d  BY <1>10 DEF AuthPolicyOf
<1>12. ReadKey(file1) = {r}  BY <1>8 DEF ReadKey, from_pem
<1>. QED  BY <1>6, <1>9, <1>10, <1>11, <1>12 DEF key

LEMMA OwnKeyComesBack ==
    ASSUME NEW list, NEW d, OwnLeadsTo(list, d), NEW k \in NewKeys(list, d)
    PROVE  /\ to_pem(k) # {}
           /\ \A f \in to_pem(k) :
                 \E r : /\ ReadKey(f) = {r}
                        /\ r.policy = list /\ r.auth_policy = {} /\ AuthPolicyOf(r) = d
<1>1. CASE k = NewKey("Loadable", "Rsa", {}, list, d)
  <2>1. AlgOk("Loadable", "Rsa") /\ tpm_validate_secret("Loadable", {}) /\ "Loadable" \in Kinds
    BY DEF AlgOk, tpm_validate_secret, Kinds
  <2>. QED  BY <1>1, <2>1, KeyComesBack
<1>2. CASE k = NewKey("SealedData", "KeyedHash", {}, list, d)
  <2>1. AlgOk("SealedData", "KeyedHash") /\ tpm_validate_secret("SealedData", {}) /\ "SealedData" \in Kinds
    BY DEF AlgOk, tpm_validate_secret, Kinds
  <2>. QED  BY <1>2, <2>1, KeyComesBack
<1>3. CASE k = NewKey("Importable", "Ecc", {[declared |-> 1, present |-> 1]}, list, d)
  <2>1. /\ AlgOk("Importable", "Ecc") /\ "Importable" \in Kinds
        /\ tpm_validate_secret("Importable", {[declared |-> 1, present |-> 1]})
    BY FlowAssumption DEF AlgOk, tpm_validate_secret, Kinds
  <2>. QED  BY <1>3, <2>1, KeyComesBack
<1>. QED  BY <1>1, <1>2, <1>3 DEF NewKeys
-----------------------------------------------------------------------------
(* The policy session: prepared commands take it where the stored ones do. *)

(* A prepared command of this program, and the digest it finds.            *)
OwnPrepared(d, c) ==
    \/ c.cc = "PolicyRestart" /\ c.handles = <<Zero>>
    \/ /\ c.cc = "PolicyPcr" /\ c.handles = <<Zero>>
       /\ c.arg.value.fits /\ c.arg.value.of = [p \in c.arg.pcrs |-> c.arg.value.of[p]]
    \/ c.cc = "PolicySecret" /\ c.handles = <<Live(c.arg.name), Zero>>
    \/ c.cc = "PolicyOr" /\ c.handles = <<Zero>> /\ d \in ToSet(c.arg.list)

Prepared(c) == [cc |-> c.cc, handles |-> c.handles, arg |-> c.arg]

prepare(c) == IF c.cc = "PolicySecret" THEN load_policy_secret(c) ELSE to_command(c)

LEMMA SessionIsIn ==
    ASSUME NEW c, c = Prepared(c)
    PROVE  /\ WithSession(c).cc = c.cc /\ WithSession(c).arg = c.arg
           /\ WithSession(c).handles = [c.handles EXCEPT ![SessionSlot(c.cc)] = SessionHandle]
BY DEF WithSession, Prepared

LEMMA PreparedForm ==
    ASSUME NEW c, NEW r \in prepare(c)
    PROVE  /\ r = Prepared(r) /\ r.cc = c.cc /\ r.arg = c.body.data
           /\ c.cc # "PolicySecret" => r.handles = <<Zero>>
           /\ c.cc = "PolicySecret" /\ c.body.data.name = NoName =>
                 r.handles = <<c.body.data.hint, Zero>>
           /\ c.cc = "PolicySecret" /\ c.body.data.name # NoName =>
                 r.handles = <<Live(c.body.data.name), Zero>>
<1>1. CASE c.cc # "PolicySecret"
  <2>1. r = [cc |-> c.cc, handles |-> <<Zero>>, arg |-> c.body.data]
    BY <1>1 DEF prepare, to_command
  <2>. QED  BY <1>1, <2>1 DEF Prepared
<1>2. CASE c.cc = "PolicySecret" /\ c.body.data.name = NoName
  <2>1. r = [cc |-> c.cc, handles |-> <<c.body.data.hint, Zero>>, arg |-> c.body.data]
    BY <1>2 DEF prepare, load_policy_secret
  <2>. QED  BY <1>2, <2>1 DEF Prepared
<1>3. CASE c.cc = "PolicySecret" /\ c.body.data.name # NoName
  <2>1. r = [cc |-> c.cc, handles |-> <<Live(c.body.data.name), Zero>>, arg |-> c.body.data]
    BY <1>3 DEF prepare, load_policy_secret
  <2>. QED  BY <1>3, <2>1 DEF Prepared
<1>. QED  BY <1>1, <1>2, <1>3

LEMMA DigestDepends ==
    ASSUME NEW d, NEW x, NEW y, x.cc = y.cc, x.arg = y.arg,
           x.cc = "PolicySecret" => x.handles[1] = y.handles[1]
    PROVE  TpmDigest(d, x) = TpmDigest(d, y)
BY DEF TpmDigest

LEMMA PreparedStep ==
    ASSUME NEW c, NEW r \in prepare(c), NEW d
    PROVE  TpmDigest(d, WithSession(r)) = TpmDigest(d, Named(c))
<1>1. Named(c).cc = c.cc /\ Named(c).arg = c.body.data  BY DEF Named
<1>2. WithSession(r).cc = c.cc /\ WithSession(r).arg = c.body.data  BY PreparedForm, SessionIsIn
<1>3. ASSUME c.cc = "PolicySecret" PROVE WithSession(r).handles[1] = Named(c).handles[1]
  <2>1. WithSession(r).handles = [r.handles EXCEPT ![2] = SessionHandle]
    BY <1>3, PreparedForm, SessionIsIn DEF SessionSlot
  <2>2. CASE c.body.data.name = NoName
    <3>1. r.handles = <<c.body.data.hint, Zero>>  BY <1>3, <2>2, PreparedForm
    <3>2. Named(c).handles = <<c.body.data.hint>>  BY <1>3, <2>2 DEF Named
    <3>. QED  BY <2>1, <3>1, <3>2
  <2>3. CASE c.body.data.name # NoName
    <3>1. r.handles = <<Live(c.body.data.name), Zero>>  BY <1>3, <2>3, PreparedForm
    <3>2. Named(c).handles = <<Live(c.body.data.name)>>  BY <1>3, <2>3 DEF Named
    <3>. QED  BY <2>1, <3>1, <3>2
  <2>. QED  BY <2>2, <2>3
<1>. QED  BY <1>1, <1>2, <1>3, DigestDepends

LEMMA OwnIsPrepared ==
    ASSUME NEW c, NEW r \in prepare(c), NEW d, OwnCommand(d, c)
    PROVE  OwnPrepared(d, r)
<1>1. CASE OwnRestart(c)
  <2>1. c.cc = "PolicyRestart"  BY <1>1 DEF OwnRestart
  <2>. QED  BY <2>1, PreparedForm DEF OwnPrepared
<1>2. CASE OwnPcr(c)
  <2>1. PICK pcrs, v : /\ c = [cc |-> "PolicyPcr",
                               body |-> Body("digest, pcrs", [pcrs |-> pcrs, value |-> v])]
                       /\ v.fits /\ v.of = [p \in pcrs |-> v.of[p]]
    BY <1>2 DEF OwnPcr
  <2>2. c.cc = "PolicyPcr" /\ c.body.data.pcrs = pcrs /\ c.body.data.value = v  BY <2>1 DEF Body
  <2>3. r.cc = "PolicyPcr" /\ r.arg.pcrs = pcrs /\ r.arg.value = v /\ r.handles = <<Zero>>
    BY <2>2, PreparedForm
  <2>. QED  BY <2>1, <2>3 DEF OwnPrepared
<1>3. CASE OwnSecret(c)
  <2>1. PICK h, n, ref : c = StoredSecret(h, n, ref) /\ n # NoName  BY <1>3 DEF OwnSecret
  <2>2. c.cc = "PolicySecret" /\ c.body.data.name = n  BY <2>1 DEF StoredSecret, Body
  <2>. QED  BY <2>1, <2>2, PreparedForm DEF OwnPrepared
<1>4. CASE OwnOr(d, c)
  <2>1. PICK list : /\ c = [cc |-> "PolicyOr", body |-> Body("digests", [list |-> list])]
                    /\ d \in ToSet(list)
    BY <1>4 DEF OwnOr
  <2>2. c.cc = "PolicyOr" /\ c.body.data.list = list  BY <2>1 DEF Body
  <2>. QED  BY <2>1, <2>2, PreparedForm DEF OwnPrepared
<1>. QED  BY <1>1, <1>2, <1>3, <1>4 DEF OwnCommand

(* From the digest s the commands cs take a session through ds to d; each  *)
(* is a prepared one, and one of this program if the policy is.            *)
SessionDigests(ds, s, cs, d, mine) ==
    /\ ds[0] = s
    /\ ds[Len(cs)] = d
    /\ \A i \in 1..Len(cs) : /\ cs[i] = Prepared(cs[i])
                             /\ ds[i] = TpmDigest(ds[i - 1], WithSession(cs[i]))
                             /\ mine => OwnPrepared(ds[i - 1], cs[i])

SessionLeadsTo(s, cs, d, mine) ==
    /\ \E S : cs \in Seq(S)
    /\ \E ds : SessionDigests(ds, s, cs, d, mine)

LEMMA LoadedLeads ==
    ASSUME NEW list, NEW d, NEW mine, LeadsTo(list, d), mine => OwnLeadsTo(list, d),
           NEW cs \in load_policy(list)
    PROVE  SessionLeadsTo(<<>>, cs, d, mine)
<1>. DEFINE n == Len(list)
            got(c) == CHOOSE r \in prepare(c) : TRUE
<1>1. PICK S : list \in Seq(S)  BY DEF LeadsTo
<1>2. PICK ds : /\ Digests(ds, list) /\ ds[n] = d
                /\ mine => \A i \in 1..n : OwnCommand(ds[i - 1], list[i])
  BY Zenon DEF LeadsTo, OwnLeadsTo
<1>3. n \in Nat /\ DOMAIN list = 1..n  BY <1>1
<1>4. load_policy(list) = IF \E i \in DOMAIN list : prepare(list[i]) = {} THEN {}
                          ELSE {[i \in DOMAIN list |-> got(list[i])]}
  BY Zenon DEF load_policy, Each, prepare
<1>5. \A i \in DOMAIN list : prepare(list[i]) # {}  BY <1>4, Zenon
<1>6. cs = [i \in DOMAIN list |-> got(list[i])]  BY <1>4, <1>5, Zenon
<1>7. \A i \in DOMAIN list : got(list[i]) \in prepare(list[i])  BY <1>5, Zenon
<1>. HIDE DEF got, n
<1>8. /\ cs \in Seq({got(list[i]) : i \in 1..n}) /\ Len(cs) = n
      /\ \A i \in 1..n : cs[i] \in prepare(list[i])
  <2>1. cs \in Seq({got(list[i]) : i \in 1..n}) /\ Len(cs) = n  BY <1>3, <1>6
  <2>2. \A i \in 1..n : cs[i] = got(list[i])  BY <1>3, <1>6
  <2>. QED  BY <1>3, <1>7, <2>1, <2>2, Zenon
<1>9. ASSUME NEW i \in 1..n
      PROVE  /\ cs[i] = Prepared(cs[i])
             /\ ds[i] = TpmDigest(ds[i - 1], WithSession(cs[i]))
             /\ mine => OwnPrepared(ds[i - 1], cs[i])
  <2>1. cs[i] \in prepare(list[i])  BY <1>8
  <2>2. ds[i] = TpmDigest(ds[i - 1], Named(list[i]))  BY <1>2 DEF Digests, n
  <2>3. TpmDigest(ds[i - 1], WithSession(cs[i])) = TpmDigest(ds[i - 1], Named(list[i]))
    BY <2>1, PreparedStep
  <2>4. cs[i] = Prepared(cs[i])  BY <2>1, PreparedForm
  <2>5. ASSUME mine PROVE OwnPrepared(ds[i - 1], cs[i])  BY <1>2, <2>1, <2>5, OwnIsPrepared
  <2>. QED  BY <2>2, <2>3, <2>4, <2>5
<1>10. SessionDigests(ds, <<>>, cs, d, mine)  BY <1>2, <1>8, <1>9 DEF SessionDigests, Digests
<1>. QED  BY <1>8, <1>10, Zenon DEF SessionLeadsTo

(* One command of the session.                                             *)
LEMMA SessionStep ==
    ASSUME NEW s, NEW cs, NEW d, NEW mine, SessionLeadsTo(s, cs, d, mine), cs # <<>>
    PROVE  /\ Len(cs) \in Nat \ {0}
           /\ Head(cs) = Prepared(Head(cs))
           /\ mine => OwnPrepared(s, Head(cs))
           /\ SessionLeadsTo(TpmDigest(s, WithSession(Head(cs))), Tail(cs), d, mine)
           /\ Len(cs) = 1 => TpmDigest(s, WithSession(Head(cs))) = d
<1>. DEFINE n == Len(cs)
            s2 == TpmDigest(s, WithSession(Head(cs)))
            tl == Tail(cs)
<1>1. PICK S : cs \in Seq(S)  BY DEF SessionLeadsTo
<1>2. PICK ds : SessionDigests(ds, s, cs, d, mine)  BY DEF SessionLeadsTo
<1>3. /\ n \in Nat \ {0} /\ Head(cs) = cs[1]
      /\ tl \in Seq(S) /\ Len(tl) = n - 1 /\ \A i \in 1..(n - 1) : tl[i] = cs[i + 1]
  BY <1>1
<1>4. /\ ds[0] = s /\ ds[1] = s2
      /\ cs[1] = Prepared(cs[1]) /\ (mine => OwnPrepared(s, cs[1]))
  BY <1>2, <1>3 DEF SessionDigests
<1>. DEFINE es == [i \in 0..(n - 1) |-> ds[i + 1]]
<1>. HIDE DEF n, s2, tl
<1>5. es[0] = s2 /\ es[n - 1] = ds[n]  BY <1>3, <1>4
<1>6. ASSUME NEW i \in 1..(n - 1)
      PROVE  /\ tl[i] = Prepared(tl[i])
             /\ es[i] = TpmDigest(es[i - 1], WithSession(tl[i]))
             /\ mine => OwnPrepared(es[i - 1], tl[i])
  <2>1. i + 1 \in 1..n /\ tl[i] = cs[i + 1] /\ es[i] = ds[i + 1] /\ es[i - 1] = ds[(i + 1) - 1]
    BY <1>3
  <2>2. /\ cs[i + 1] = Prepared(cs[i + 1])
        /\ ds[i + 1] = TpmDigest(ds[(i + 1) - 1], WithSession(cs[i + 1]))
        /\ mine => OwnPrepared(ds[(i + 1) - 1], cs[i + 1])
    BY <1>2, <2>1 DEF SessionDigests, n
  <2>. QED  BY <2>1, <2>2
<1>. HIDE DEF es
<1>7. ds[n] = d  BY <1>2 DEF SessionDigests, n
<1>8. SessionDigests(es, s2, tl, d, mine)  BY <1>3, <1>5, <1>6, <1>7 DEF SessionDigests
<1>9. SessionLeadsTo(s2, tl, d, mine)  BY <1>3, <1>8 DEF SessionLeadsTo
<1>. QED  BY <1>3, <1>4, <1>7, <1>9 DEF n, s2, tl

(* The TPM refuses a prepared command of this program only for a condition.*)
LEMMA OwnRefused ==
    ASSUME NEW c, c = Prepared(c), OwnPrepared(session, c), ~TpmAccepts(WithSession(c))
    PROVE  \/ c.cc = "PolicyPcr" /\ \E p \in c.arg.pcrs : c.arg.value.of[p] # pcr[p]
           \/ c.cc = "PolicySecret" /\ c.arg.name \notin known
<1>. DEFINE w == WithSession(c)
<1>1. w.cc = c.cc /\ w.arg = c.arg
      /\ w.handles = [c.handles EXCEPT ![SessionSlot(c.cc)] = SessionHandle]
  BY SessionIsIn
<1>. HIDE DEF w
<1>2. ASSUME c.handles = <<Zero>>, SessionSlot(c.cc) = 1 PROVE Last(w.handles) = SessionHandle
  <2>1. w.handles = <<SessionHandle>>  BY <1>1, <1>2
  <2>. QED  BY <2>1 DEF Last
<1>3. CASE c.cc = "PolicyRestart" /\ c.handles = <<Zero>>
  BY <1>1, <1>2, <1>3 DEF TpmAccepts, SessionSlot, w
<1>4. CASE /\ c.cc = "PolicyPcr" /\ c.handles = <<Zero>>
           /\ c.arg.value.fits /\ c.arg.value.of = [p \in c.arg.pcrs |-> c.arg.value.of[p]]
  <2>1. Last(w.handles) = SessionHandle  BY <1>2, <1>4 DEF SessionSlot
  <2>2. c.arg.value.of # [p \in c.arg.pcrs |-> pcr[p]]
    BY <1>1, <1>4, <2>1 DEF TpmAccepts, w
  <2>. QED  BY <1>4, <2>2
<1>5. CASE c.cc = "PolicySecret" /\ c.handles = <<Live(c.arg.name), Zero>>
  <2>1. w.handles = <<Live(c.arg.name), SessionHandle>>  BY <1>1, <1>5 DEF SessionSlot
  <2>2. Last(w.handles) = SessionHandle  BY <2>1 DEF Last
  <2>3. w.handles[1].type = "loaded" /\ w.handles[1].id = c.arg.name  BY <2>1 DEF Live
  <2>. QED  BY <1>1, <1>5, <2>2, <2>3 DEF TpmAccepts, w
<1>6. CASE c.cc = "PolicyOr" /\ c.handles = <<Zero>> /\ session \in ToSet(c.arg.list)
  BY <1>1, <1>2, <1>6 DEF TpmAccepts, SessionSlot, w
<1>. QED  BY <1>3, <1>4, <1>5, <1>6 DEF OwnPrepared
-----------------------------------------------------------------------------
(* The inductive invariant: wherever the policy is, its commands lead to   *)
(* the digest it has been given.                                           *)
BuiltOk ==
    \A m \in made : SoundState(m, m.ctx) /\ m.ctx.names = Context.names

FiledOk ==
    \/ own /\ \E list, d : OwnLeadsTo(list, d) /\ \E k \in NewKeys(list, d) : file = to_pem(k)
    \/ ~own /\ \E f \in Files : file = {f}

CachedOk == LeadsTo(policy, authPolicy) /\ (own => OwnLeadsTo(policy, authPolicy))

RunningOk == SessionLeadsTo(session, todo, authPolicy, own)

PolicyInv ==
    /\ own \in BOOLEAN
    /\ KeysOk
    /\ pc \in {"typed", "built"} => own
    /\ pc = "built" => BuiltOk
    /\ pc = "filed" => FiledOk
    /\ Cached => CachedOk
    /\ pc = "running" => RunningOk
    /\ RunAuthorizes
    /\ OnlyConditionsRefuse
    /\ OwnKeysLast

LEMMA InitPolicy == Init => PolicyInv
<1>. SUFFICES ASSUME Init PROVE PolicyInv  OBVIOUS
<1>1. KeysOk  BY DEF Init, KeysOk
<1>2. \/ pc = "typed" /\ own = TRUE
      \/ pc = "filed" /\ own = FALSE /\ \E f \in Files : file = {f}
  BY DEF Init
<1>. QED  BY <1>1, <1>2
          DEF PolicyInv, FiledOk, Cached, RunAuthorizes, OnlyConditionsRefuse, OwnKeysLast

(* Names do not depend on the PCRs.                                        *)
LEMMA NamesSame == ASSUME UNCHANGED keys PROVE Context.names' = Context.names
<1>1. \A h : ObjectName(h)' = ObjectName(h)  BY DEF ObjectName
<1>. DEFINE D == VHandles \cup {Persistent[n] : n \in DOMAIN Persistent}
            one(S) == IF S = {} THEN "none" ELSE CHOOSE n \in S : TRUE
<1>2. /\ Context.names = [h \in D |-> one(ObjectName(h))]
      /\ Context.names' = [h \in D |-> one(ObjectName(h)')]
  BY DEF Context
<1>. HIDE DEF one, D
<1>. QED  BY <1>1, <1>2

LEMMA BuildPolicy ==
    ASSUME NEW Expr, NEW height, Grammar(Expr, height), Compiler(Expr),
           PolicyInv, build_policy_command_list
    PROVE  PolicyInv'
<1>1. pc = "typed" /\ own /\ pc' \in {"rejected", "built"}
  BY DEF build_policy_command_list, PolicyInv
<1>2. UNCHANGED <<own, keys>>  BY DEF build_policy_command_list, env
<1>3. ASSUME NEW m \in made' PROVE SoundState(m, m.ctx) /\ m.ctx.names = Context.names
  <2>1. PICK e \in Parse(text), c \in UNION {Compile(x, Context) : x \in Parse(text)} :
           m = [expr |-> e, ctx |-> Context, cmds |-> c.cmds, digest |-> c.digest]
    BY <1>3 DEF build_policy_command_list
  <2>2. PICK x \in Parse(text) : c \in Compile(x, Context)  OBVIOUS
  <2>3. SoundState(c, Context)  BY <2>2, CompileIsSound
  <2>4. m.cmds = c.cmds /\ m.digest = c.digest /\ m.ctx = Context  BY <2>1
  <2>. QED  BY <2>3, <2>4 DEF SoundState
<1>4. BuiltOk'  BY <1>2, <1>3, NamesSame DEF BuiltOk
<1>. QED  BY <1>1, <1>2, <1>4
          DEF PolicyInv, KeysOk, Cached, RunAuthorizes, OnlyConditionsRefuse, OwnKeysLast

LEMMA SavePolicy == ASSUME PolicyInv, save_key_policy PROVE PolicyInv'
<1>1. pc = "built" /\ own /\ BuiltOk /\ pc' \in {"filed", "unsaved"}
  BY DEF save_key_policy, PolicyInv
<1>2. UNCHANGED <<own, keys>>  BY DEF save_key_policy, env
<1>3. ASSUME pc' = "filed" PROVE FiledOk'
  <2>1. PICK m, list, k : /\ m \in made /\ list \in save_vtpm_policy(m.cmds)
                          /\ k \in NewKeys(list, m.digest) /\ file' = to_pem(k)
    BY <1>3 DEF save_key_policy
  <2>2. OwnLeadsTo(list, m.digest)  BY <1>1, <2>1, SavedLeads DEF BuiltOk, PolicyInv
  <2>. QED  BY <1>1, <1>2, <2>1, <2>2 DEF FiledOk
<1>. QED  BY <1>1, <1>2, <1>3
          DEF PolicyInv, KeysOk, Cached, RunAuthorizes, OnlyConditionsRefuse, OwnKeysLast

(* A key file of this program can be loaded.                               *)
LEMMA OwnLoads ==
    ASSUME NEW list, NEW d, OwnLeadsTo(list, d), NEW k, k.policy = list, k.auth_policy = {}
    PROVE  Loadable(k) # {}
<1>1. PICK S : list \in Seq(S)  BY DEF OwnLeadsTo
<1>2. DOMAIN list = 1..Len(list)  BY <1>1
<1>3. ASSUME NEW i \in DOMAIN list
      PROVE  list[i].cc # "PolicyAuthorize" /\ vtpm_policy_command_from_parts(list[i]) = {list[i]}
  BY <1>2, OwnForm DEF OwnLeadsTo, OwnCodes
<1>4. Each(list, vtpm_policy_command_from_parts) # {}  BY <1>3, PartsPass
<1>. QED  BY <1>3, <1>4, Zenon DEF Loadable

LEMMA LoadPolicy == ASSUME PolicyInv, load PROVE PolicyInv'
<1>1. pc = "filed" /\ FiledOk /\ pc' \in {"unreadable", "cached"}  BY DEF load, PolicyInv
<1>2. UNCHANGED <<own, keys>>  BY DEF load, env
<1>. DEFINE results == UNION {UNION {{<<k, list>> : list \in Loadable(k)} : k \in ReadKey(f)}
                                 : f \in file}
<1>3. CASE own
  <2>1. PICK list, d, k0 : k0 \in NewKeys(list, d) /\ OwnLeadsTo(list, d) /\ file = to_pem(k0)
    BY <1>1, <1>3 DEF FiledOk
  <2>2. file # {} /\ \A f \in file :
           \E r : /\ ReadKey(f) = {r}
                  /\ r.policy = list /\ r.auth_policy = {} /\ AuthPolicyOf(r) = d
    BY <2>1, OwnKeyComesBack
  <2>3. pc' = "cached"
    <3>1. PICK f, r : /\ f \in file /\ ReadKey(f) = {r}
                      /\ r.policy = list /\ r.auth_policy = {} /\ AuthPolicyOf(r) = d
      BY <2>2
    <3>2. Loadable(r) # {}  BY <2>1, <3>1, OwnLoads
    <3>3. PICK l : l \in Loadable(r)  BY <3>2
    <3>4. <<r, l>> \in {<<r, x>> : x \in Loadable(r)}  BY <3>3
    <3>5. <<r, l>> \in UNION {{<<k, x>> : x \in Loadable(k)} : k \in ReadKey(f)}  BY <3>1, <3>4
    <3>6. <<r, l>> \in results  BY <3>1, <3>5
    <3>. QED  BY <3>6 DEF load
  <2>4. PICK k, l : /\ \E f \in file : k \in ReadKey(f)
                    /\ l \in Loadable(k)
                    /\ policy' = l /\ authPolicy' = AuthPolicyOf(k)
    BY <2>3 DEF load
  <2>5. k.policy = list /\ AuthPolicyOf(k) = d  BY <2>2, <2>4
  <2>6. l \in Each(list, vtpm_policy_command_from_parts)  BY <2>4, <2>5, Zenon DEF Loadable
  <2>7. l = list  BY <2>1, <2>6, PartsKept DEF OwnLeadsTo
  <2>8. OwnLeadsTo(policy', authPolicy')  BY <2>1, <2>4, <2>5, <2>7
  <2>9. CachedOk'  BY <2>8 DEF CachedOk, OwnLeadsTo, LeadsTo
  <2>. QED  BY <1>1, <1>2, <2>3, <2>9
            DEF PolicyInv, KeysOk, Cached, RunAuthorizes, OnlyConditionsRefuse, OwnKeysLast
<1>4. CASE ~own
  <2>1. PICK f \in Files : file = {f}  BY <1>1, <1>4 DEF FiledOk
  <2>2. ASSUME pc' = "cached" PROVE LeadsTo(policy', authPolicy')
    <3>1. PICK k, l : /\ k \in ReadKey(f)
                      /\ l \in Loadable(k)
                      /\ policy' = l /\ authPolicy' = AuthPolicyOf(k)
      BY <2>1, <2>2 DEF load
    <3>. DEFINE ds == [i \in 0 .. Len(k.policy) |-> Expected(SubSeq(k.policy, 1, i))]
    <3>2. /\ k.policy \in Seq(ToSet(k.policy))
          /\ Digests(ds, k.policy) /\ ds[Len(k.policy)] = AuthPolicyOf(k)
      BY <3>1, FilesAssumption, Zenon
    <3>. HIDE DEF ds
    <3>3. l \in Each(k.policy, vtpm_policy_command_from_parts)  BY <3>1, Zenon DEF Loadable
    <3>4. l = k.policy  BY <3>2, <3>3, PartsKept
    <3>. QED  BY <3>1, <3>2, <3>4 DEF LeadsTo
  <2>. QED  BY <1>1, <1>2, <1>4, <2>2
            DEF PolicyInv, KeysOk, Cached, CachedOk, RunAuthorizes, OnlyConditionsRefuse, OwnKeysLast
<1>. QED  BY <1>3, <1>4

LEMMA KernelPolicy == ASSUME PolicyInv, load_kernel_key PROVE PolicyInv'
BY DEF load_kernel_key, env, PolicyInv, KeysOk, Cached, RunAuthorizes, OnlyConditionsRefuse, OwnKeysLast

LEMMA RereadPolicy == ASSUME PolicyInv, reread PROVE PolicyInv'
<1>1. pc = "cached" /\ CachedOk /\ pc' \in {"dropped", "reread"}
  BY DEF reread, PolicyInv, Cached
<1>2. UNCHANGED <<own, keys, authPolicy>>  BY DEF reread, env
<1>3. policy' = policy
  <2>1. CASE policy' \in vtpm_unmarshal_policy_list(policy)
    <3>1. policy' \in Each(policy, vtpm_policy_command_from_parts)
      BY <2>1, Zenon DEF vtpm_unmarshal_policy_list
    <3>. QED  BY <1>1, <3>1, PartsKept DEF CachedOk, LeadsTo
  <2>. QED  BY <2>1 DEF reread
<1>4. ASSUME own, pc' = "dropped" PROVE Len(policy) > MAX_POLICY_COUNT
  <2>1. vtpm_unmarshal_policy_list(policy) = {}  BY <1>4 DEF reread
  <2>2. OwnLeadsTo(policy, authPolicy)  BY <1>1, <1>4 DEF CachedOk
  <2>3. PICK S : policy \in Seq(S)  BY <2>2 DEF OwnLeadsTo
  <2>4. DOMAIN policy = 1..Len(policy)  BY <2>3
  <2>5. \A i \in DOMAIN policy : vtpm_policy_command_from_parts(policy[i]) = {policy[i]}
    BY <2>2, <2>4, OwnForm DEF OwnLeadsTo
  <2>6. Each(policy, vtpm_policy_command_from_parts) # {}  BY <2>5, PartsPass
  <2>. QED  BY <2>1, <2>6, Zenon DEF vtpm_unmarshal_policy_list
<1>5. CachedOk'  BY <1>1, <1>2, <1>3 DEF CachedOk
<1>. QED  BY <1>1, <1>2, <1>3, <1>4, <1>5
          DEF PolicyInv, KeysOk, Cached, RunAuthorizes, OnlyConditionsRefuse, OwnKeysLast

LEMMA RetypePolicy == ASSUME PolicyInv, retype PROVE PolicyInv'
BY DEF retype, PolicyInv, KeysOk, Cached, RunAuthorizes, OnlyConditionsRefuse, OwnKeysLast

LEMMA ResolvePolicy == ASSUME PolicyInv, resolve_auth PROVE PolicyInv'
<1>1. CachedOk /\ pc' \in {"unresolved", "running"}  BY DEF resolve_auth, PolicyInv
<1>2. UNCHANGED <<own, keys, authPolicy>> /\ session' = <<>>  BY DEF resolve_auth, env
<1>3. ASSUME pc' = "running" PROVE RunningOk'
  <2>1. todo' \in load_policy(policy)  BY <1>3 DEF resolve_auth
  <2>2. SessionLeadsTo(<<>>, todo', authPolicy, own)  BY <1>1, <2>1, LoadedLeads DEF CachedOk
  <2>. QED  BY <1>2, <2>2 DEF RunningOk
<1>. QED  BY <1>1, <1>2, <1>3
          DEF PolicyInv, KeysOk, Cached, RunAuthorizes, OnlyConditionsRefuse, OwnKeysLast

LEMMA RunPolicy == ASSUME PolicyInv, run PROVE PolicyInv'
<1>1. pc = "running" /\ todo # <<>> /\ RunningOk  BY DEF run, PolicyInv
<1>2. UNCHANGED <<own, keys, authPolicy, pcr, known>>  BY DEF run, env
<1>. DEFINE c == WithSession(Head(todo))
<1>3. /\ Len(todo) \in Nat \ {0}
      /\ Head(todo) = Prepared(Head(todo))
      /\ own => OwnPrepared(session, Head(todo))
      /\ SessionLeadsTo(TpmDigest(session, c), Tail(todo), authPolicy, own)
      /\ Len(todo) = 1 => TpmDigest(session, c) = authPolicy
  BY <1>1, SessionStep DEF RunningOk
<1>4. CASE TpmAccepts(c)
  <2>1. /\ session' = TpmDigest(session, c) /\ todo' = Tail(todo)
        /\ pc' = IF Len(todo) = 1 THEN "ran" ELSE "running"
    BY <1>4 DEF run
  <2>2. RunningOk'  BY <1>2, <1>3, <2>1 DEF RunningOk
  <2>3. pc' = "ran" => session' = authPolicy'  BY <1>2, <1>3, <2>1
  <2>. QED  BY <1>2, <2>1, <2>2, <2>3
            DEF PolicyInv, KeysOk, Cached, RunAuthorizes, OnlyConditionsRefuse, OwnKeysLast
<1>5. CASE ~TpmAccepts(c)
  <2>1. pc' = "refused" /\ UNCHANGED <<session, todo>>  BY <1>5 DEF run
  <2>2. OnlyConditionsRefuse'
    <3>1. ASSUME own
          PROVE  LET x == Head(todo)
                 IN  \/ x.cc = "PolicyPcr" /\ \E p \in x.arg.pcrs : x.arg.value.of[p] # pcr[p]
                     \/ x.cc = "PolicySecret" /\ x.arg.name \notin known
      BY <1>3, <1>5, <3>1, OwnRefused
    <3>. QED  BY <1>2, <2>1, <3>1 DEF OnlyConditionsRefuse
  <2>. QED  BY <1>2, <2>1, <2>2
            DEF PolicyInv, KeysOk, Cached, RunAuthorizes, OwnKeysLast
<1>. QED  BY <1>4, <1>5

LEMMA EnvironmentPolicy == ASSUME PolicyInv, Environment PROVE PolicyInv'
<1>1. UNCHANGED <<pc, made, file, policy, authPolicy, todo, session, known, own>>
  BY DEF Environment, ExtendPcr, DeleteKey, LoadKey
<1>2. pc \in {"built", "cached", "reread", "running"}  BY DEF Environment, Cached
<1>3. KeysOk'
  <2>1. CASE keys' = keys  BY <2>1 DEF PolicyInv, KeysOk
  <2>2. CASE DeleteKey  BY <2>2 DEF DeleteKey, PolicyInv, KeysOk
  <2>3. CASE LoadKey  BY <2>3 DEF LoadKey, PolicyInv, KeysOk
  <2>. QED  BY <2>1, <2>2, <2>3 DEF Environment, ExtendPcr
<1>4. ASSUME pc = "built" PROVE BuiltOk'
  <2>1. keys' = keys  BY <1>4 DEF Environment, Cached, ExtendPcr
  <2>. QED  BY <1>1, <1>4, <2>1, NamesSame DEF BuiltOk, PolicyInv
<1>5. /\ FiledOk' = FiledOk /\ CachedOk' = CachedOk /\ RunningOk' = RunningOk
  BY <1>1 DEF FiledOk, CachedOk, RunningOk
<1>. QED  BY <1>1, <1>2, <1>3, <1>4, <1>5
          DEF PolicyInv, Cached, RunAuthorizes, OnlyConditionsRefuse, OwnKeysLast

LEMMA StutterPolicy == ASSUME PolicyInv, UNCHANGED vars PROVE PolicyInv'
<1>1. BuiltOk' <=> BuiltOk  BY NamesSame DEF vars, BuiltOk
<1>. QED  BY <1>1 DEF vars, PolicyInv, KeysOk, FiledOk, Cached, CachedOk, RunningOk,
                      RunAuthorizes, OnlyConditionsRefuse, OwnKeysLast

LEMMA NextPolicy ==
    ASSUME NEW Expr, NEW height, Grammar(Expr, height), Compiler(Expr), PolicyInv, [Next]_vars
    PROVE  PolicyInv'
BY BuildPolicy, SavePolicy, LoadPolicy, KernelPolicy, RereadPolicy, RetypePolicy, ResolvePolicy,
   RunPolicy, EnvironmentPolicy, StutterPolicy, Zenon DEF Next

(* PolicyInv holds in every reachable state of PolicyFlow, if what is      *)
(* parsed is a finite tree (Grammar) and compile_walk goes over it node by *)
(* node (Compiler).                                                        *)
THEOREM PolicyInvAlways ==
    ASSUME NEW CONSTANT Expr, NEW CONSTANT height, Grammar(Expr, height), Compiler(Expr)
    PROVE  Spec => []PolicyInv
<1>1. PolicyInv /\ [Next]_vars => PolicyInv'  BY NextPolicy
<1>. QED  BY <1>1, InitPolicy, PTL DEF Spec

(* A policy whose commands the TPM has all accepted has taken the session  *)
(* to the authPolicy of the key, for every text, key file, number of PCRs  *)
(* and set of objects: compile, save_vtpm_policy, the key file, the cache, *)
(* load_policy and run lose nothing on the way.                            *)
THEOREM RunsAuthorize ==
    ASSUME NEW CONSTANT Expr, NEW CONSTANT height, Grammar(Expr, height), Compiler(Expr)
    PROVE  Spec => []RunAuthorizes
<1>1. PolicyInv => RunAuthorizes  BY DEF PolicyInv
<1>. QED  BY <1>1, PolicyInvAlways, PTL

(* The TPM refuses a policy of this program for a PCR that has changed or  *)
(* an authorization that is not given, and for nothing else.               *)
THEOREM RefusalsAreConditions ==
    ASSUME NEW CONSTANT Expr, NEW CONSTANT height, Grammar(Expr, height), Compiler(Expr)
    PROVE  Spec => []OnlyConditionsRefuse
<1>1. PolicyInv => OnlyConditionsRefuse  BY DEF PolicyInv
<1>. QED  BY <1>1, PolicyInvAlways, PTL

(* A key file of this program can be loaded, and the cache gives its       *)
(* policy back unless it has more than MAX_POLICY_COUNT commands.          *)
THEOREM OwnKeysAreKept ==
    ASSUME NEW CONSTANT Expr, NEW CONSTANT height, Grammar(Expr, height), Compiler(Expr)
    PROVE  Spec => []OwnKeysLast
<1>1. PolicyInv => OwnKeysLast  BY DEF PolicyInv
<1>. QED  BY <1>1, PolicyInvAlways, PTL
=============================================================================
