----------------------------- MODULE PolicyFlow -----------------------------
(***************************************************************************)
(* The life of a policy: typed on the command line of create, seal or      *)
(* import, compiled into the authPolicy of the new key and a list of       *)
(* commands, stored in the key file (crates/tpmkey), loaded into the cache *)
(* (crates/vtpm/src/policy.rs), read back by a later run of the program,   *)
(* shown by the memory command and, when the key is used, run in a policy  *)
(* session of the TPM (TpmPolicySession::run), while PCRs are extended and *)
(* the keys a policy refers to come and go.                                *)
(***************************************************************************)
EXTENDS PolicyCommands, KeyFile

CONSTANTS
    Parse(_),           \* parse: at most one expression
    Walk(_, _, _),      \* compile_walk: at most one [cmds, digest]
    FromCommands(_),    \* from_commands: at most one expression
    Show(_),            \* Display: the tokens of an expression
    Texts,              \* token sequences that are typed
    Files,              \* key files other tools have written
    VHandles,           \* handles of the cache; records [type, id]
    Persistent,         \* [name of an object |-> its persistent handle]
    Names,              \* names of the keys the cache can hold
    MAX_POLICY_COUNT,   \* commands accepted in a policy that is read back
    MaxMoves            \* bound: how often PCRs and cached keys change

\* The name of a handle that has none.
NoName == ""

\* The key file accepts the commands the compiler makes.  A handle tells by its
\* type where its object is, two objects are never at one persistent handle, and
\* no object has an empty name.
ASSUME FlowAssumption ==
    /\ {"PolicySecret", "PolicyPcr", "PolicyOr", "PolicyRestart"} \subseteq PolicyCcs
    /\ MAX_RSA_KEY_BYTES >= 1
    /\ MAX_POLICY_COUNT \in Nat
    /\ \A h \in VHandles : h.type = "transient"
    /\ \A m, n \in DOMAIN Persistent :
           /\ Persistent[n].type = "persistent"
           /\ Persistent[m] = Persistent[n] => m = n
    /\ Names \cap {NoName, "none"} = {}
    /\ DOMAIN Persistent \cap {NoName, "none"} = {}

VARIABLES
    pc,         \* how far the policy has come, or how it failed
    text,       \* what is typed
    made,       \* what the compiler made of it: {} or {[expr, cmds, digest, ctx]}
    file,       \* the key file: {} or {file}
    policy,     \* the policy of the cached key: VtpmPolicyCommands
    authPolicy, \* the authPolicy of the key in the TPM
    todo,       \* the commands the policy session has yet to run
    session,    \* the digest of the policy session in the TPM
    pcr,        \* the PCRs of the TPM
    keys,       \* the cache: handle -> name of the key there, or "none"
    own,        \* this program made the policy, not another tool
    known,      \* names whose authorization the user supplies
    moves       \* changes of the environment so far

vars == <<pc, text, made, file, policy, authPolicy, todo, session, pcr, keys, own, known, moves>>
env == <<pcr, keys, known, moves, own>>

Zero == [type |-> "none", id |-> "zero"]
SessionHandle == [type |-> "session", id |-> "session"]
Owner == [type |-> "permanent", id |-> "owner"]

(***************************************************************************)
(* vtpm_policy_command_from_parts: the body each command code must have,   *)
(* with nothing after it.  Codes that are not listed are refused.          *)
(***************************************************************************)
BodyShape ==
    [PolicyAuthValue |-> "none", PolicyPassword |-> "none", PolicyGetDigest |-> "none",
     PolicyRestart |-> "none", PolicyPhysicalPresence |-> "none",
     PolicyAuthorize |-> "public, digest, signature",
     PolicySecret |-> "handle, name, digest",
     PolicyPcr |-> "digest, pcrs", PolicyOr |-> "digests",
     PolicyCommandCode |-> "cc",
     PolicyCpHash |-> "digest", PolicyNameHash |-> "digest", PolicyTemplate |-> "digest",
     PolicyNvWritten |-> "yesno", PolicyCounterTimer |-> "buffer, u16, eo"]

Body(shape, data) == [shape |-> shape, data |-> data, trailing |-> FALSE]

vtpm_policy_command_from_parts(c) ==
    IF /\ c.cc \in DOMAIN BodyShape
       /\ c.body.shape = BodyShape[c.cc] /\ ~c.body.trailing
    THEN {c} ELSE {}

\* Converts a list, or fails with its first element that cannot be converted.
Each(list, Convert(_)) ==
    IF \E i \in DOMAIN list : Convert(list[i]) = {} THEN {}
    ELSE {[i \in DOMAIN list |-> CHOOSE r \in Convert(list[i]) : TRUE]}

vtpm_unmarshal_policy_list(list) ==
    IF Len(list) > MAX_POLICY_COUNT THEN {} ELSE Each(list, vtpm_policy_command_from_parts)

(***************************************************************************)
(* save_vtpm_policy and vtpm_policy_command_from: a PolicySecret keeps the *)
(* name of its object, found in the cache or read from the TPM, which has  *)
(* no public area for the permanent handles.                               *)
(***************************************************************************)
PersistentName(h) == {n \in DOMAIN Persistent : Persistent[n] = h}

ObjectName(h) ==
    IF h \in VHandles /\ keys[h] # "none" THEN {keys[h]} ELSE PersistentName(h)

vtpm_policy_command_from(c) ==
    CASE c.cc = "PolicySecret" ->
            {[cc |-> c.cc, body |-> Body(BodyShape[c.cc], [hint |-> c.handle, name |-> n, ref |-> c.ref])]
                : n \in ObjectName(c.handle)}
      [] c.cc = "PolicyPcr" ->
            {[cc |-> c.cc, body |-> Body(BodyShape[c.cc], [pcrs |-> c.pcrs, value |-> c.value])]}
      [] c.cc = "PolicyOr" -> {[cc |-> c.cc, body |-> Body(BodyShape[c.cc], [list |-> c.list])]}
      [] OTHER -> {[cc |-> c.cc, body |-> Body("none", <<>>)]}

save_vtpm_policy(cmds) == Each(cmds, vtpm_policy_command_from)

(***************************************************************************)
(* to_command: the typed command of a policy step, with zero handles.      *)
(***************************************************************************)
\* Mutant: the policyRef of a stored PolicySecret is lost.
to_command_without_ref(c) ==
    CASE c.cc = "PolicyAuthorize" -> {}
      [] c.cc = "PolicySecret" ->
            {[cc |-> c.cc, handles |-> <<c.body.data.hint, Zero>>, arg |-> [c.body.data EXCEPT !.ref = {}]]}
      [] OTHER -> {[cc |-> c.cc, handles |-> <<Zero>>, arg |-> c.body.data]}

to_command(c) ==
    CASE c.cc = "PolicyAuthorize" -> {}
      [] c.cc = "PolicySecret" ->
            {[cc |-> c.cc, handles |-> <<c.body.data.hint, Zero>>, arg |-> c.body.data]}
      [] OTHER -> {[cc |-> c.cc, handles |-> <<Zero>>, arg |-> c.body.data]}

\* load_policy_secret: the object is found by its name; the hint serves only
\* when there is no name.
HasName(n) == {h \in VHandles : keys[h] = n}
Live(n) == [type |-> "loaded", id |-> n]

\* Mutant: the handle the policy was made with is trusted.
load_policy_secret_by_hint(c) ==
    {[cc |-> c.cc, handles |-> <<Live(keys[h]), Zero>>, arg |-> c.body.data]
        : h \in {x \in VHandles : x = c.body.data.hint /\ keys[x] # "none"}}

load_policy_secret(c) ==
    CASE c.body.data.name = NoName ->
            {[cc |-> c.cc, handles |-> <<c.body.data.hint, Zero>>, arg |-> c.body.data]}
      [] c.body.data.name # NoName /\ HasName(c.body.data.name) # {} ->
            {[cc |-> c.cc, handles |-> <<Live(c.body.data.name), Zero>>, arg |-> c.body.data]}
      [] OTHER -> {}

load_policy(list) ==
    Each(list, LAMBDA c : IF c.cc = "PolicySecret" THEN load_policy_secret(c) ELSE to_command(c))

(***************************************************************************)
(* What the shell shows of a policy (format_policy): the commands in the   *)
(* form the language knows, rebuilt and displayed.                         *)
(***************************************************************************)
Typed(c) ==
    CASE c.cc = "PolicySecret" -> [cc |-> c.cc, handle |-> c.handles[1], ref |-> c.arg.ref]
      [] c.cc = "PolicyPcr"    -> [cc |-> c.cc, pcrs |-> c.arg.pcrs, value |-> c.arg.value]
      [] c.cc = "PolicyOr"     -> [cc |-> c.cc, list |-> c.arg.list]
      [] OTHER                 -> [cc |-> c.cc]

format_policy(list) ==
    UNION {{Show(e) : e \in FromCommands([i \in DOMAIN cs |-> Typed(cs[i])])}
               : cs \in {x \in Each(list, to_command) : x # <<>>}}

(***************************************************************************)
(* TpmPolicySession::run puts the session handle into its slot.            *)
(***************************************************************************)
\* Mutant: every policy command is taken to name its session first.
SessionSlotFirst(cc) == 1

SessionSlot(cc) ==
    CASE cc \in {"PolicySecret", "PolicySigned"} -> 2
      [] cc \in {"PolicyNv", "PolicyAuthorizeNv", "PolicyAcSendSelect"} -> 3
      [] OTHER -> 1

WithSession(c) == [c EXCEPT !.handles = [@ EXCEPT ![SessionSlot(c.cc)] = SessionHandle]]

(***************************************************************************)
(* The TPM (external).  A command names its session last; PolicyPCR needs  *)
(* the PCRs to have the expected values, PolicySecret an object and its    *)
(* authorization, PolicyOR the digest to be one of the list.               *)
(***************************************************************************)
TpmAccepts(c) ==
    /\ Last(c.handles) = SessionHandle
    /\ CASE c.cc = "PolicyPcr" -> /\ c.arg.value.fits
                                  /\ c.arg.value.of = [p \in c.arg.pcrs |-> pcr[p]]
         [] c.cc = "PolicySecret" -> /\ c.handles[1].type \in {"loaded", "permanent"}
                                     /\ c.handles[1].id \in known
         [] c.cc = "PolicyOr" -> session \in ToSet(c.arg.list)
         [] OTHER -> TRUE

TpmDigest(d, c) ==
    CASE c.cc = "PolicyRestart" -> <<>>
      [] c.cc = "PolicyGetDigest" -> d
      [] c.cc = "PolicyOr" -> <<[cc |-> "PolicyOr", list |-> c.arg.list]>>
      [] c.cc = "PolicyPcr" ->
            Append(d, [cc |-> c.cc, pcrs |-> c.arg.pcrs, value |-> c.arg.value])
      [] c.cc = "PolicySecret" ->
            Append(d, [cc |-> c.cc, name |-> c.handles[1].id, ref |-> c.arg.ref])
      [] OTHER -> Append(d, [cc |-> c.cc, arg |-> c.arg])

\* A stored command with the object it names.
Named(c) ==
    [cc |-> c.cc, arg |-> c.body.data,
     handles |-> CASE c.cc # "PolicySecret" -> <<>>
                   [] c.cc = "PolicySecret" /\ c.body.data.name = NoName -> <<c.body.data.hint>>
                   [] OTHER -> <<Live(c.body.data.name)>>]

\* The authPolicy another tool gives a key with these commands.
Expected(list) == FoldLeft(LAMBDA d, c : TpmDigest(d, Named(c)), <<>>, list)

\* The digests a session goes through when it runs stored commands.
Digests(ds, list) ==
    /\ ds[0] = <<>>
    /\ \A i \in 1 .. Len(list) : ds[i] = TpmDigest(ds[i - 1], Named(list[i]))

AuthPolicyOf(k) ==
    IF k.public.auth_policy = {} THEN <<>> ELSE CHOOSE d \in k.public.auth_policy : TRUE

\* The key files that are found have the authPolicy that goes with their policy.
ASSUME FilesAssumption ==
    \A f \in Files : \A k \in ReadKey(f) :
        LET ds == [i \in 0 .. Len(k.policy) |-> Expected(SubSeq(k.policy, 1, i))]
        IN  /\ k.policy \in Seq(ToSet(k.policy))
            /\ Digests(ds, k.policy) /\ ds[Len(k.policy)] = AuthPolicyOf(k)

(***************************************************************************)
(* What the proofs take from the language.  An expression is a node over   *)
(* lower ones, or a leaf; an explicit digest that fits has a value for     *)
(* each selected PCR.  compile_walk goes over a node operand by operand;   *)
(* rs[i] is what has been compiled after i operands.                       *)
(***************************************************************************)
Node(e, Expr, height) ==
    /\ e.op \in {"And", "Or", "Pcr", "Secret", "Handle"}
    /\ e.op \in {"And", "Or"} =>
           /\ e.args \in Seq(Expr) /\ e.args # <<>>
           /\ \A i \in 1 .. Len(e.args) : height[e.args[i]] < height[e]
    /\ e.op = "Pcr" => \A v \in e.digest : v.fits => v.of = [p \in e.pcrs |-> v.of[p]]

AndSteps(rs, e, s, ctx, r) ==
    /\ rs[0] = s /\ rs[Len(e.args)] = r
    /\ \A i \in 1 .. Len(e.args) : rs[i] \in Walk(e.args[i], rs[i - 1], ctx)

OrSteps(rs, e, s, ctx, r) ==
    /\ rs[0] = s
    /\ \A i \in 1 .. Len(e.args) : rs[i] \in Walk(e.args[i], Restarted(rs[i - 1]), ctx)
    /\ r = Alternatives(rs[Len(e.args)], [i \in 1 .. Len(e.args) |-> rs[i].digest])

-----------------------------------------------------------------------------
Init ==
    /\ \/ pc = "typed" /\ own = TRUE /\ text \in Texts /\ file = {}
       \/ pc = "filed" /\ own = FALSE /\ text = <<>> /\ \E f \in Files : file = {f}
    /\ made = {} /\ policy = <<>> /\ todo = <<>> /\ session = <<>>
    /\ authPolicy = <<>>
    /\ pcr = [p \in Pcrs |-> 0]
    /\ keys \in {k \in [VHandles -> Names \cup {"none"}] :
                    \A n \in Names : \E h \in VHandles : k[h] = n}
    /\ known \in {Names \cup {"owner"}, {"owner"}}
    /\ moves = 0

Context ==
    [pcrs  |-> pcr,
     names |-> [h \in VHandles \cup {Persistent[n] : n \in DOMAIN Persistent} |->
                    IF ObjectName(h) = {} THEN "none" ELSE CHOOSE n \in ObjectName(h) : TRUE]]

Compile(e, ctx) == Walk(e, NothingCompiled, ctx)

\* build_policy_command_list: the context is read, the text parsed and compiled.
build_policy_command_list ==
    /\ pc = "typed"
    /\ LET results == {<<e, Context, c>> : e \in Parse(text), c \in
                         UNION {Compile(x, Context) : x \in Parse(text)}}
       IN  /\ made' = {[expr |-> r[1], ctx |-> r[2], cmds |-> r[3].cmds, digest |-> r[3].digest]
                          : r \in results}
           /\ pc' = IF results = {} THEN "rejected" ELSE "built"
    /\ UNCHANGED <<text, file, policy, authPolicy, todo, session, env>>

\* The TPM makes the key with the digest as its authPolicy; the commands are
\* stored with it (save_key_policy, write_key_data).  The parent is the handle
\* of a loaded key, the public area that of the key.
NewKey(kind, alg, secret, list, digest) ==
    [kind |-> kind, empty_auth |-> TRUE, policy |-> list, secret |-> secret,
     auth_policy |-> {}, description |-> {}, rsa_parent |-> FALSE,
     parent |-> [type |-> "transient", id |-> "parent"],
     public |-> [whole |-> TRUE, alg |-> alg, auth_policy |-> {digest}],
     private |-> [whole |-> TRUE]]

\* create, seal, and import with and without --loadable.
NewKeys(list, digest) ==
    {NewKey("Loadable", "Rsa", {}, list, digest),
     NewKey("SealedData", "KeyedHash", {}, list, digest),
     NewKey("Importable", "Ecc", {[declared |-> 1, present |-> 1]}, list, digest)}

save_key_policy ==
    /\ pc = "built"
    /\ \E m \in made :
         \/ /\ save_vtpm_policy(m.cmds) # {}
            /\ \E list \in save_vtpm_policy(m.cmds) : \E k \in NewKeys(list, m.digest) :
                   file' = to_pem(k)
            /\ pc' = "filed"
         \/ /\ save_vtpm_policy(m.cmds) = {}
            /\ file' = {}
            /\ pc' = "unsaved"
    /\ made' = {} /\ text' = <<>>
    /\ UNCHANGED <<policy, authPolicy, todo, session, env>>

\* Load::run: the file is read, the key loaded (a TPM2_Import first when there
\* is a secret), the policy converted, and the key saved into the cache.
Loadable(k) ==
    IF k.auth_policy # {} \/ \E i \in DOMAIN k.policy : k.policy[i].cc = "PolicyAuthorize"
    THEN {}
    ELSE Each(k.policy, vtpm_policy_command_from_parts)

load ==
    /\ pc = "filed"
    /\ LET results == UNION {UNION {{<<k, list>> : list \in Loadable(k)} : k \in ReadKey(f)}
                                : f \in file}
       IN  \/ /\ results = {}
              /\ pc' = "unreadable"
              /\ UNCHANGED <<policy, authPolicy>>
           \/ \E r \in results :
              /\ pc' = "cached"
              /\ policy' = r[2]
              /\ authPolicy' = AuthPolicyOf(r[1])
    /\ file' = {}
    /\ UNCHANGED <<text, made, todo, session, env>>

\* Load::run with --kernel.
load_kernel_key ==
    /\ pc = "filed"
    /\ \E f \in file : \E k \in ReadKey(f) : \E h \in {Persistent[n] : n \in DOMAIN Persistent} :
         /\ KernelKey(k, h) # {}
         /\ pc' = "kernel"
         /\ file' = {[pem |-> FALSE, tag |-> "", der |-> d] : d \in KernelKey(k, h)}
    /\ UNCHANGED <<text, made, policy, authPolicy, todo, session, env>>

\* Another run of the program reads the record.
reread ==
    /\ pc = "cached"
    /\ \/ /\ vtpm_unmarshal_policy_list(policy) = {}
          /\ pc' = "dropped"
          /\ UNCHANGED policy
       \/ /\ policy' \in vtpm_unmarshal_policy_list(policy)
          /\ pc' = "reread"
    /\ UNCHANGED <<text, made, file, authPolicy, todo, session, env>>

Cached == pc \in {"cached", "reread"}

\* The user copies what memory shows into the command line of another key.
retype ==
    /\ Cached
    /\ \E shown \in format_policy(policy) : text' = shown
    /\ pc' = "typed"
    /\ own' = TRUE
    /\ policy' = <<>> /\ authPolicy' = <<>>
    /\ UNCHANGED <<made, file, todo, session, pcr, keys, known, moves>>

\* resolve_auth: the commands are prepared and a session is opened.
resolve_auth ==
    /\ Cached /\ policy # <<>>
    /\ LET cs == load_policy(policy)
       IN  \/ cs = {} /\ pc' = "unresolved" /\ todo' = <<>>
           \/ pc' = "running" /\ \E l \in cs : todo' = l
    /\ session' = <<>>
    /\ UNCHANGED <<text, made, file, policy, authPolicy, env>>

\* run transmits the next command; the first that is refused ends it.
run ==
    /\ pc = "running" /\ todo # <<>>
    /\ LET c == WithSession(Head(todo))
       IN  IF TpmAccepts(c)
           THEN /\ session' = TpmDigest(session, c)
                /\ todo' = Tail(todo)
                /\ pc' = IF Len(todo) = 1 THEN "ran" ELSE "running"
           ELSE pc' = "refused" /\ UNCHANGED <<session, todo>>
    /\ UNCHANGED <<text, made, file, policy, authPolicy, env>>

-----------------------------------------------------------------------------
\* The environment: a PCR is extended; a cached key is deleted, or loaded
\* again, possibly under another handle.
Move == moves < MaxMoves /\ moves' = moves + 1

ExtendPcr ==
    /\ Move
    /\ \E p \in Pcrs : pcr[p] = 0 /\ pcr' = [pcr EXCEPT ![p] = 1]
    /\ UNCHANGED <<pc, text, made, file, policy, authPolicy, todo, session, keys, known, own>>

DeleteKey ==
    /\ Move
    /\ \E h \in VHandles : keys[h] # "none" /\ keys' = [keys EXCEPT ![h] = "none"]
    /\ UNCHANGED <<pc, text, made, file, policy, authPolicy, todo, session, pcr, known, own>>

LoadKey ==
    /\ Move
    /\ \E h \in VHandles, n \in Names :
         keys[h] = "none" /\ keys' = [keys EXCEPT ![h] = n]
    /\ UNCHANGED <<pc, text, made, file, policy, authPolicy, todo, session, pcr, known, own>>

\* The PCRs can change at any time after they were read, the cached keys only
\* between two runs of the program (a run holds the cache in memory).
Environment ==
    \/ pc \in {"built", "cached", "reread", "running"} /\ ExtendPcr
    \/ Cached /\ (DeleteKey \/ LoadKey)

Next ==
    \/ build_policy_command_list \/ save_key_policy \/ load \/ load_kernel_key
    \/ reread \/ retype \/ resolve_auth \/ run
    \/ Environment

Spec == Init /\ [][Next]_vars
-----------------------------------------------------------------------------
(***************************************************************************)
(* Properties.                                                             *)
(***************************************************************************)
\* A policy whose commands have all been accepted by the TPM has brought the
\* session to the authPolicy of the key (compile, save_vtpm_policy, to_asn1,
\* from_asn1, vtpm_policy_command_from_parts, load_policy and run together),
\* whatever has happened to the cached keys and their handles in between.
RunAuthorizes == pc = "ran" => session = authPolicy

\* The TPM refuses a policy of this program only for what the policy demands:
\* a PCR with another value, or an object whose authorization is not given;
\* never a PolicyOR or a PolicyRestart, and never for a handle.
OnlyConditionsRefuse ==
    (pc = "refused" /\ own) =>
        LET c == Head(todo)
        IN  \/ c.cc = "PolicyPcr" /\ \E p \in c.arg.pcrs : c.arg.value.of[p] # pcr[p]
            \/ c.cc = "PolicySecret" /\ c.arg.name \notin known

\* What memory shows of a policy this program made can be typed again and
\* gives the same digest (format_policy, from_commands, Display and parse),
\* as long as the handles it shows are still those of the same objects.
HintsHold ==
    \A i \in DOMAIN policy : policy[i].cc = "PolicySecret" =>
        ObjectName(policy[i].body.data.hint) = {policy[i].body.data.name}

ShownCanBeTyped ==
    (Cached /\ own /\ HintsHold) =>
        \A shown \in format_policy(policy) :
            \E e \in Parse(shown) : \E c \in Compile(e, Context) : c.digest = authPolicy

\* A key file this program wrote can be loaded, and its policy is read back
\* from the cache unless it is longer than a record may hold.
OwnKeysLast ==
    own => /\ pc # "unreadable"
           /\ pc = "dropped" => Len(policy) > MAX_POLICY_COUNT

=============================================================================
