-------------------------------- MODULE TaskState --------------------------------
(***************************************************************************)
(* One run of tpm2sh after another (crates/sh): the task state of          *)
(* sh/src/task.rs, the commands of sh/src/command that change the TPM or   *)
(* the key cache, and the cleanup when the task state is dropped.          *)
(*                                                                         *)
(* A command is a list of steps; a step makes at most one transmission, so *)
(* that Ctrl-C, the death of the process and failures of the device come   *)
(* between any two. A transmission has the outcomes of Exchange: answered, *)
(* rejected by the TPM, refused by the device, or abandoned, in which case *)
(* the TPM may have executed it. The key cache is taken at the level of    *)
(* KeyStore, extended by what is not on disk yet.                          *)
(***************************************************************************)
EXTENDS Integers, Sequences, FiniteSets

CONSTANTS
    Slot,        \* handles of transient objects in the TPM
    Session,     \* handles of sessions in the TPM
    VHandle,     \* transient handles of the key cache
    PHandle,     \* persistent handles
    Key,         \* keys (their public areas)
    Parent,      \* the parent of each key
    Secret,      \* the key a PolicySecret in the policy of a key refers to
    HasPolicy,   \* keys with a policy
    Faults,      \* may the device, the disk or local checks fail?
    Others,      \* may other software change the TPM?
    MaxRuns,     \* bound: runs of the program
    Earlier,     \* cache directories earlier runs may have left
    Leftover,    \* objects earlier runs or other software may have left
    None

ASSUME KeyAssumption ==
    /\ HasPolicy \subseteq Key
    /\ Parent \in [Key -> Key \cup {None}]
    /\ Secret \in [Key -> Key \cup {None}]
    /\ Faults \in BOOLEAN /\ Others \in BOOLEAN
    /\ MaxRuns \in Nat

ASSUME HandleAssumption ==
    /\ Earlier \subseteq [VHandle \cup PHandle -> Key \cup {None}]
    /\ Leftover \subseteq [Slot -> Key \cup {None}]
    /\ Slot \cap Session = {} /\ Slot \cap VHandle = {} /\ Slot \cap PHandle = {}
    /\ Session \cap VHandle = {} /\ Session \cap PHandle = {}
    /\ VHandle \cap PHandle = {}
    /\ None \notin Slot \cup Session \cup VHandle \cup PHandle \cup Key

Handle == VHandle \cup PHandle

VARIABLES
    objects,      \* TPM: the transient object in each slot
    tpm_sessions, \* TPM: the sessions that are open
    persistent,   \* TPM: the object at each persistent handle
    stale,        \* cached contexts the TPM no longer accepts
    link,         \* the device: free, or busy with an abandoned command
    teardown,     \* TEARDOWN, set by Ctrl-C
    phase,        \* down, start, run or drop
    op,           \* the command line
    todo,         \* the steps the command has still to take
    failed,       \* will the command report an error?
    reg,          \* the handle the last response returned
    pending,      \* what the loop of the current step has still to visit
    dropping,     \* entries refresh_cache is going to remove
    phys_handles, virt_handles, sessions,  \* the fields of TaskState
    cache,        \* the key at each handle of the cache
    dirty,        \* entries that are not on disk
    disk,         \* the record of each handle in the cache directory
    owed,         \* history: given to this run, not flushed nor moved by evict yet
    loaded,       \* history: given to this run and not made persistent
    promised,     \* history: handles this run printed or made persistent
    trouble,      \* history: what went wrong in this run
    exit,         \* how the last run ended
    runs          \* history: runs so far

tpm == <<objects, tpm_sessions, persistent>>
fields == <<phys_handles, virt_handles, sessions>>
proc == <<phase, op, todo, failed, reg, pending, dropping>>
ghost == <<owed, loaded, promised, exit, runs>>
vars == <<tpm, stale, link, teardown, proc, fields, cache, dirty, disk, ghost, trouble>>

NoKeys(S) == [h \in S |-> None]
NoOp == [cmd |-> "none", target |-> None, out |-> None, key |-> None,
         auth |-> FALSE, pattern |-> {}]

(* Earlier runs that died and other software may have left objects in the  *)
(* TPM, and the TPM may have been reset since the contexts were saved.     *)
Init ==
    /\ disk \in Earlier
    /\ objects \in Leftover /\ tpm_sessions = {}
    /\ persistent = [h \in PHandle |-> disk[h]]
    /\ stale \in {{}, VHandle} /\ link = "free" /\ teardown = FALSE
    /\ phase = "down" /\ op = NoOp /\ todo = <<>> /\ failed = FALSE /\ reg = None
    /\ pending = {} /\ dropping = {}
    /\ phys_handles = {} /\ virt_handles = NoKeys(VHandle) /\ sessions = {}
    /\ cache = NoKeys(Handle) /\ dirty = {}
    /\ owed = {} /\ loaded = {} /\ promised = {} /\ trouble = {}
    /\ exit = "none" /\ runs = 0

-----------------------------------------------------------------------------
(* Transmissions (TpmDevice::transmit, specified by Exchange).             *)

Answered(Effect) ==
    /\ ~teardown /\ link = "free"
    /\ Effect
    /\ UNCHANGED <<link, trouble>>

(* The TPM returns an error code.                                          *)
Rejected ==
    /\ ~teardown /\ link = "free"
    /\ UNCHANGED <<tpm, link, trouble>>

(* An error code that says nothing about the object: the TPM is full.      *)
OutOfMemory ==
    /\ ~teardown /\ link = "free"
    /\ \A p \in Slot : objects[p] # None
    /\ trouble' = trouble \cup {"full"}
    /\ UNCHANGED <<tpm, link>>

(* No answer: the device is busy and refuses the command, or the command   *)
(* is abandoned (Timeout, Interrupted, Io) and may have been executed.     *)
Lost(Effect) ==
    /\ Faults \/ teardown \/ link = "busy"
    /\ trouble' = trouble \cup {"lost"}
    /\ \/ link = "busy" /\ UNCHANGED <<tpm, link>>
       \/ link = "free" /\ link' \in {"free", "busy"} /\ (Effect \/ UNCHANGED tpm)

(* What the TPM does.                                                      *)
Place(p, k) ==
    /\ objects[p] = None
    /\ objects' = [objects EXCEPT ![p] = k]
    /\ UNCHANGED <<tpm_sessions, persistent>>

Flush(x) ==
    /\ objects' = IF x \in Slot THEN [objects EXCEPT ![x] = None] ELSE objects
    /\ tpm_sessions' = tpm_sessions \ {x}
    /\ UNCHANGED persistent

(* TpmDevice::flush_context: rejected only if there is nothing to flush.    *)
Holds(x) == x \in tpm_sessions \/ (x \in Slot /\ objects[x] # None)
FlushOk(x) == Holds(x) /\ Answered(Flush(x))
FlushFails(x) == (~Holds(x) /\ Rejected) \/ Lost(Flush(x))

Persist(h, k) ==
    /\ persistent' = [persistent EXCEPT ![h] = k]
    /\ UNCHANGED <<objects, tpm_sessions>>

-----------------------------------------------------------------------------
(* The key cache.                                                          *)

Cached == {h \in Handle : cache[h] # None}

(* VtpmCache::remove deletes the entry and the entries below its key.      *)
Below(c, k) ==
    {h \in Handle : c[h] # None /\
        \A S \in SUBSET Key :
            (k \in S /\ \A g \in Handle : c[g] # None /\ Parent[c[g]] \in S => c[g] \in S)
                => Parent[c[h]] \in S}

Removed(c, h) == {h} \cup Below([c EXCEPT ![h] = None], c[h])

Without(f, S) == [h \in DOMAIN f |-> IF h \in S THEN None ELSE f[h]]

RemoveSet(S) ==
    /\ cache' = Without(cache, S)
    /\ disk' = Without(disk, S)
    /\ dirty' = dirty \ S

remove(h) == RemoveSet(Removed(cache, h))

(* A file that cannot be deleted ends remove: at once, or with the entry   *)
(* and some of the entries below it gone.                                  *)
PartsOf(c, h) ==
    {S \in SUBSET Removed(c, h) : S # Removed(c, h) /\ (S = {} \/ h \in S)}

RemoveFails(h) == Faults /\ \E S \in PartsOf(cache, h) : RemoveSet(S)

-----------------------------------------------------------------------------
(* Start: main, fetch_persistent_names, VtpmCache::new, TaskState::new.    *)

At(step) == todo # <<>> /\ Head(todo) = step
Proceed == todo' = Tail(todo) /\ UNCHANGED failed
Fail == todo' = <<>> /\ failed' = TRUE

Start ==
    /\ phase = "down" /\ runs < MaxRuns
    /\ phase' = "start" /\ runs' = runs + 1
    /\ todo' = <<"names", "cache", "validate_list", "validate">>
    /\ link' = "free" /\ teardown' = FALSE /\ trouble' = {}
    /\ loaded' = {} /\ owed' = {} /\ promised' = {} /\ exit' = "none"
    /\ UNCHANGED <<tpm, stale, op, failed, reg, pending, dropping, fields, cache,
                   dirty, disk>>

(* A run ends: its memory is gone.                                         *)
End(how) ==
    /\ phase' = "down" /\ exit' = how
    /\ op' = NoOp /\ todo' = <<>> /\ failed' = FALSE /\ reg' = None
    /\ pending' = {} /\ dropping' = {}
    /\ phys_handles' = {} /\ virt_handles' = NoKeys(VHandle) /\ sessions' = {}
    /\ cache' = NoKeys(Handle) /\ dirty' = {}

(* Errors of single read_public calls are ignored, an error of the listing *)
(* ends the program.                                                       *)
fetch_persistent_names ==
    /\ phase = "start" /\ At("names")
    /\ \/ /\ Answered(UNCHANGED tpm) \/ Lost(UNCHANGED tpm)
          /\ Proceed
          /\ UNCHANGED <<phase, op, reg, pending, dropping, fields, cache, dirty, exit>>
       \/ /\ Rejected \/ Lost(UNCHANGED tpm)
          /\ End("error")
    /\ UNCHANGED <<stale, disk, teardown, owed, loaded, promised, runs>>

(* VtpmCache::new reads the directory.                                     *)
open_cache ==
    /\ phase = "start" /\ At("cache")
    /\ cache' = disk /\ dirty' = {}
    /\ Proceed
    /\ UNCHANGED <<tpm, stale, link, teardown, phase, op, reg, pending, dropping,
                   fields, disk, ghost, trouble>>

validate_list ==
    /\ phase = "start" /\ At("validate_list")
    /\ pending' = Cached \cap PHandle
    /\ Proceed
    /\ UNCHANGED <<tpm, stale, link, teardown, phase, op, reg, dropping, fields,
                   cache, dirty, disk, ghost, trouble>>

\* Mutant: the comparison of the names is inverted.
ValidateInverted(h) ==
    \/ /\ persistent[h] \notin {cache[h], None}
       /\ Answered(UNCHANGED tpm)
       /\ UNCHANGED <<cache, dirty, disk>>
    \/ /\ persistent[h] = cache[h]
       /\ Answered(UNCHANGED tpm)
       /\ remove(h)
    \/ /\ persistent[h] = None
       /\ Rejected
       /\ remove(h)
    \/ /\ Lost(UNCHANGED tpm)
       /\ remove(h)

(* An entry is kept if the TPM has the same object at its handle; every    *)
(* other answer and every failure removes it and what is below it.         *)
ValidateOne(h) ==
    \/ /\ persistent[h] = cache[h]
       /\ Answered(UNCHANGED tpm)
       /\ UNCHANGED <<cache, dirty, disk>>
    \/ /\ persistent[h] \notin {cache[h], None}
       /\ Answered(UNCHANGED tpm)
       /\ remove(h)
    \/ /\ persistent[h] = None
       /\ Rejected
       /\ remove(h)
    \/ /\ Lost(UNCHANGED tpm)
       /\ remove(h)

validate_persistent_handles ==
    /\ phase = "start" /\ At("validate")
    /\ \E h \in pending :
        /\ pending' = pending \ {h}
        /\ \/ cache[h] # None /\ ValidateOne(h)
           \/ cache[h] = None /\ UNCHANGED <<tpm, link, trouble, cache, dirty, disk>>
    /\ UNCHANGED <<stale, teardown, phase, op, todo, failed, reg, dropping, fields,
                   ghost>>

-----------------------------------------------------------------------------
(* Commands (Task::run).                                                   *)

(* The steps of each command. "reads" stands for queries without effect:   *)
(* PCRs, names and public areas, capabilities, NV indexes; "maybe" for     *)
(* transmissions only some command lines need: the queries of a policy     *)
(* expression, the TPM2_Import of a wrapped key.                           *)
create_primary == <<"maybe", "new_object", "save_context", "maybe", "store">>
load == <<"maybe", "load_key", "auth", "maybe", "new_object", "save_context", "store">>
create == <<"load_key", "auth", "maybe", "execute", "maybe">>
seal == <<"load_key", "auth", "maybe", "execute", "maybe">>
unseal == <<"load_key", "auth", "execute">>
import == <<"load_key", "auth", "maybe", "reads", "maybe", "maybe">>
pcr_event == <<"execute">>
reset_lock == <<"execute">>
algorithm == <<"reads">>
inspect_handle == <<"maybe", "reads">>
evict == <<"load_key", "evict", "move">>
delete == <<"list_sessions", "each", "list_objects", "each", "list_persistent", "each",
            "uncache_list", "uncache">>
list_all_memory == <<"reads", "refresh_list", "refresh", "drop_stale", "reads">>

(* Commands of one class differ in their data only.                        *)
Scripts(cmd) ==
    CASE cmd = "create_primary" -> {create_primary}
      [] cmd = "load"   -> {load}
      [] cmd = "use"    -> {create, seal, unseal, import}
      [] cmd = "plain"  -> {pcr_event, reset_lock, algorithm, inspect_handle}
      [] cmd = "evict"  -> {evict}
      [] cmd = "delete" -> {delete}
      [] cmd = "memory" -> {list_all_memory}

(* The command lines: a class, its handles, the key it makes, whether      *)
(* --auth names the target, and the pattern of delete.                     *)
Op ==
    [cmd: {"create_primary"}, target: {None}, out: {None}, key: {k \in Key : Parent[k] = None},
     auth: {FALSE}, pattern: {{}}]
    \cup [cmd: {"load"}, target: Handle, out: {None}, key: {k \in Key : Parent[k] # None},
          auth: BOOLEAN, pattern: {{}}]
    \cup [cmd: {"use"}, target: Handle, out: {None}, key: {None}, auth: BOOLEAN, pattern: {{}}]
    \cup [cmd: {"plain", "memory"}, target: {None}, out: {None}, key: {None}, auth: {FALSE},
          pattern: {{}}]
    \cup [cmd: {"evict"}, target: VHandle, out: PHandle, key: {None}, auth: {FALSE}, pattern: {{}}]
    \cup [cmd: {"delete"}, target: {None}, out: {None}, key: {None}, auth: {FALSE},
          pattern: {Slot \cup Session \cup Handle} \cup {{h} : h \in Handle}]

(* TaskState::new is done and the command runs.                            *)
run ==
    /\ phase = "start" /\ At("validate") /\ pending = {}
    /\ phase' = "run"
    /\ \E o \in Op : op' = o /\ todo' \in Scripts(o.cmd)
    /\ UNCHANGED <<tpm, stale, link, teardown, failed, reg, pending, dropping, fields,
                   cache, dirty, disk, ghost, trouble>>

Step(step) == phase = "run" /\ At(step)

(* A transmission that changes nothing in the TPM.                         *)
Query ==
    /\ Step("reads") \/ Step("maybe") \/ Step("execute") \/ Step("save_context")
    /\ \/ Answered(UNCHANGED tpm) /\ Proceed
       \/ Rejected /\ Fail
       \/ Lost(UNCHANGED tpm) /\ Fail
       \/ At("maybe") /\ Proceed /\ UNCHANGED <<tpm, link, trouble>>
    /\ UNCHANGED <<stale, teardown, phase, op, reg, pending, dropping, fields, cache,
                   dirty, disk, ghost>>

\* Mutant: a handle that is tracked already is not noticed.
TrackAlways(p) ==
    /\ phys_handles' = phys_handles \cup {p}
    /\ owed' = owed \cup {p}
    /\ Proceed

(* A handle that is tracked already is flushed at once, as the error says. *)
track(p) ==
    /\ phys_handles' = phys_handles \cup {p}
    /\ owed' = owed \cup {p}
    /\ IF p \in phys_handles
       THEN todo' = <<"flush_new">> /\ UNCHANGED failed
       ELSE Proceed

(* load_context of the entry h, track it and note where it is loaded.      *)
LoadContext(h) ==
    \/ \E p \in Slot :
        /\ h \notin stale
        /\ Answered(Place(p, cache[h]))
        /\ track(p)
        /\ virt_handles' = IF todo' = <<"flush_new">> THEN virt_handles
                           ELSE [virt_handles EXCEPT ![h] = p]
        /\ loaded' = loaded \cup {p} /\ reg' = p
    \/ /\ \/ Rejected
          \/ Lost(h \notin stale /\ \E p \in Slot : Place(p, cache[h]))
       /\ Fail
       /\ UNCHANGED <<phys_handles, virt_handles, owed, loaded, reg>>

load_key_by_handle(h) ==
    \/ /\ h \in PHandle \/ (h \in VHandle /\ virt_handles[h] # None)
       /\ Proceed
       /\ UNCHANGED <<tpm, link, trouble, phys_handles, virt_handles, owed, loaded, reg>>
    \/ h \in VHandle /\ virt_handles[h] = None /\ cache[h] # None /\ LoadContext(h)
    \/ /\ h \in VHandle /\ virt_handles[h] = None /\ cache[h] = None
       /\ Fail
       /\ UNCHANGED <<tpm, link, trouble, phys_handles, virt_handles, owed, loaded, reg>>

LoadKey ==
    /\ Step("load_key") /\ load_key_by_handle(op.target)
    /\ UNCHANGED <<stale, teardown, phase, op, pending, dropping, sessions, cache,
                   dirty, disk, promised, exit, runs>>

(* resolve_auth after fetch_policy: an authorization from the command      *)
(* line, or a session in which the policy has been run.                    *)
resolve_auth ==
    /\ Step("auth")
    /\ todo' = LET k == cache[op.target] IN
               IF op.target \in PHandle THEN <<"reads">> \o Tail(todo)
               ELSE IF op.auth \/ k \notin HasPolicy THEN Tail(todo)
               ELSE (IF Secret[k] = None THEN <<>> ELSE <<"secret">>)
                        \o <<"open", "policy">> \o Tail(todo)
    /\ UNCHANGED <<tpm, stale, link, teardown, phase, op, failed, reg, pending, dropping,
                   fields, cache, dirty, disk, ghost, trouble>>

(* load_policy_secret: the key the policy refers to is looked up by name,  *)
(* which may fail although it is cached: find_by_name knows one handle per *)
(* name.                                                                   *)
load_policy_secret ==
    /\ Step("secret")
    /\ \/ \E h \in Cached : cache[h] = Secret[cache[op.target]] /\ load_key_by_handle(h)
       \/ /\ Fail
          /\ UNCHANGED <<tpm, link, trouble, phys_handles, virt_handles, owed, loaded, reg>>
    /\ UNCHANGED <<stale, teardown, phase, op, pending, dropping, sessions, cache,
                   dirty, disk, promised, exit, runs>>

StartSession(s) ==
    /\ s \notin tpm_sessions
    /\ tpm_sessions' = tpm_sessions \cup {s}
    /\ UNCHANGED <<objects, persistent>>

(* TpmPolicySessionBuilder::open.                                          *)
open ==
    /\ Step("open")
    /\ \/ \E s \in Session :
            /\ Answered(StartSession(s))
            /\ reg' = s /\ owed' = owed \cup {s} /\ loaded' = loaded \cup {s}
            /\ Proceed
       \/ /\ \/ Rejected
             \/ Lost(\E s \in Session : StartSession(s))
          /\ Fail
          /\ UNCHANGED <<reg, owed, loaded>>
    /\ UNCHANGED <<stale, teardown, phase, op, pending, dropping, fields, cache,
                   dirty, disk, promised, exit, runs>>

(* TpmPolicySession::run; a session whose policy fails is flushed.         *)
run_policy ==
    /\ Step("policy")
    /\ \/ /\ Answered(UNCHANGED tpm)
          /\ sessions' = sessions \cup {reg} /\ Proceed
       \/ /\ Rejected \/ Lost(UNCHANGED tpm)
          /\ todo' = <<"flush_new">> /\ UNCHANGED <<sessions, failed>>
    /\ UNCHANGED <<stale, teardown, phase, op, reg, pending, dropping, phys_handles,
                   virt_handles, cache, dirty, disk, ghost>>

(* The flush of a handle that will not be kept; its outcome is ignored.    *)
FlushNew ==
    /\ Step("flush_new")
    /\ FlushOk(reg) \/ FlushFails(reg)
    /\ owed' = owed \ {reg}
    /\ Fail
    /\ UNCHANGED <<stale, teardown, phase, op, reg, pending, dropping, fields, cache,
                   dirty, disk, loaded, promised, exit, runs>>

(* The TPM loads a key only under its own parent.                          *)
Loadable ==
    op.cmd = "load" =>
        Parent[op.key] = IF op.target \in PHandle THEN persistent[op.target]
                         ELSE objects[virt_handles[op.target]]

\* Mutant: the object a response returns is not tracked.
NewObjectUntracked ==
    /\ Step("new_object")
    /\ \/ \E p \in Slot :
            /\ Loadable /\ Answered(Place(p, op.key))
            /\ owed' = owed \cup {p} /\ loaded' = loaded \cup {p} /\ reg' = p
            /\ Proceed /\ UNCHANGED phys_handles
       \/ /\ \/ Rejected
             \/ Lost(Loadable /\ \E p \in Slot : Place(p, op.key))
          /\ Fail
          /\ UNCHANGED <<phys_handles, owed, loaded, reg>>
    /\ UNCHANGED <<stale, teardown, phase, op, pending, dropping, virt_handles, sessions,
                   cache, dirty, disk, promised, exit, runs>>

(* TPM2_CreatePrimary or TPM2_Load, and track.                             *)
NewObject ==
    /\ Step("new_object")
    /\ \/ \E p \in Slot :
            /\ Loadable /\ Answered(Place(p, op.key))
            /\ track(p)
            /\ loaded' = loaded \cup {p} /\ reg' = p
       \/ /\ \/ Rejected
             \/ Lost(Loadable /\ \E p \in Slot : Place(p, op.key))
          /\ Fail
          /\ UNCHANGED <<phys_handles, owed, loaded, reg>>
    /\ UNCHANGED <<stale, teardown, phase, op, pending, dropping, virt_handles, sessions,
                   cache, dirty, disk, promised, exit, runs>>

\* Mutant: the new entry is not marked dirty.
StoreClean ==
    /\ Step("store")
    /\ \E v \in VHandle :
        /\ cache[v] = None
        /\ cache' = [cache EXCEPT ![v] = op.key]
        /\ stale' = stale \ {v} /\ promised' = promised \cup {v}
    /\ Proceed
    /\ UNCHANGED <<tpm, link, teardown, phase, op, reg, pending, dropping, fields,
                   dirty, disk, owed, loaded, trouble, exit, runs>>

(* save_transient, and the handle is printed.                              *)
Store ==
    /\ Step("store")
    /\ \/ \E v \in VHandle :
            /\ cache[v] = None
            /\ cache' = [cache EXCEPT ![v] = op.key]
            /\ dirty' = dirty \cup {v}
            /\ stale' = stale \ {v} /\ promised' = promised \cup {v}
            /\ Proceed
       \/ /\ \A v \in VHandle : cache[v] # None
          /\ Fail
          /\ UNCHANGED <<cache, dirty, stale, promised>>
    /\ UNCHANGED <<tpm, link, teardown, phase, op, reg, pending, dropping, fields,
                   disk, owed, loaded, trouble, exit, runs>>

\* Mutant: the entry is moved although the TPM has rejected the command.
EvictIgnoresError ==
    /\ Step("evict")
    /\ Rejected /\ Proceed
    /\ UNCHANGED <<stale, teardown, phase, op, reg, pending, dropping, fields, cache,
                   dirty, disk, ghost>>

(* evict: TPM2_EvictControl makes the loaded object persistent.            *)
Evict ==
    /\ Step("evict")
    /\ LET k == objects[virt_handles[op.target]]
           Effect == persistent[op.out] = None /\ k # None /\ Persist(op.out, k) IN
       \/ Answered(Effect) /\ Proceed
       \/ Rejected /\ Fail
       \/ Lost(Effect) /\ Fail
    /\ UNCHANGED <<stale, teardown, phase, op, reg, pending, dropping, fields, cache,
                   dirty, disk, ghost>>

(* untrack forgets a physical handle and what is loaded there.             *)
untrack(p) ==
    /\ phys_handles' = phys_handles \ {p}
    /\ virt_handles' = [v \in VHandle |-> IF virt_handles[v] = p THEN None ELSE virt_handles[v]]

(* save_persistent in memory, then remove of the transient entry, which    *)
(* is on disk at once, then untrack without a flush: nothing is owed any   *)
(* more for the transient object, though it stays in the TPM. A remove     *)
(* that fails, at once or part-way, ends the command before untrack.       *)
Move ==
    /\ Step("move")
    /\ LET saved == [cache EXCEPT ![op.out] = cache[op.target]]
           SaveAndRemove(S) == /\ cache' = Without(saved, S)
                               /\ disk' = Without(disk, S)
                               /\ dirty' = (dirty \cup {op.out}) \ S IN
       \/ /\ SaveAndRemove(Removed(saved, op.target))
          /\ untrack(virt_handles[op.target])
          /\ loaded' = loaded \ {virt_handles[op.target]}
          /\ owed' = owed \ {virt_handles[op.target]}
          /\ promised' = promised \cup {op.out}
          /\ Proceed
       \/ /\ Faults
          /\ \E S \in PartsOf(saved, op.target) : SaveAndRemove(S)
          /\ Fail
          /\ UNCHANGED <<phys_handles, virt_handles, loaded, owed, promised>>
    /\ UNCHANGED <<tpm, stale, link, teardown, phase, op, reg, pending, dropping, sessions,
                   trouble, exit, runs>>

(* delete: the handles of a class that match; a class that cannot be       *)
(* listed is skipped.                                                      *)
fetch_handles(step, handles) ==
    /\ Step(step)
    /\ \/ Answered(UNCHANGED tpm) /\ pending' = handles \cap op.pattern
       \/ (Rejected \/ Lost(UNCHANGED tpm)) /\ pending' = {}
    /\ Proceed
    /\ UNCHANGED <<stale, teardown, phase, op, reg, dropping, fields, cache, dirty, disk, ghost>>

delete_tpm_handles ==
    \/ fetch_handles("list_sessions", tpm_sessions)
    \/ fetch_handles("list_objects", {p \in Slot : objects[p] # None})
    \/ fetch_handles("list_persistent", {h \in PHandle : persistent[h] # None})

(* One of them: flushed and untracked, or evicted, and printed. An error   *)
(* is noted and the loop goes on; only a closed output ends it.            *)
DeleteOne ==
    /\ Step("each")
    /\ \E x \in pending :
        \/ /\ \/ x \notin PHandle /\ FlushOk(x)
              \/ x \in PHandle /\ Answered(Persist(x, None))
           /\ untrack(x)
           /\ \/ pending' = pending \ {x} /\ UNCHANGED <<todo, failed>>
              \/ Faults /\ pending' = {} /\ failed' = TRUE /\ todo' = <<"uncache_list", "uncache">>
        \/ /\ \/ x \notin PHandle /\ FlushFails(x)
              \/ x \in PHandle /\ (Rejected \/ Lost(Persist(x, None)))
           /\ pending' = pending \ {x} /\ failed' = TRUE
           /\ UNCHANGED <<todo, phys_handles, virt_handles>>
    /\ UNCHANGED <<stale, teardown, phase, op, reg, dropping, sessions, cache, dirty,
                   disk, ghost>>

(* The end of a loop over pending.                                         *)
LoopDone ==
    /\ Step("each") \/ Step("uncache") \/ Step("refresh")
    /\ pending = {}
    /\ Proceed
    /\ UNCHANGED <<tpm, stale, link, teardown, phase, op, reg, pending, dropping, fields,
                   cache, dirty, disk, ghost, trouble>>

(* delete_vtpm_handles and refresh_cache take the list of entries first.   *)
ListEntries ==
    /\ \/ Step("uncache_list") /\ pending' = Cached \cap op.pattern
       \/ Step("refresh_list") /\ pending' = Cached \cap VHandle
    /\ Proceed
    /\ UNCHANGED <<tpm, stale, link, teardown, phase, op, reg, dropping, fields, cache,
                   dirty, disk, ghost, trouble>>

(* cache.remove of h; an entry that went with an earlier one is an error.  *)
RemoveEntry(h) ==
    \/ cache[h] = None /\ failed' = TRUE /\ UNCHANGED <<cache, dirty, disk>>
    \/ cache[h] # None /\ remove(h) /\ UNCHANGED failed
    \/ cache[h] # None /\ RemoveFails(h) /\ failed' = TRUE

(* What was removed is printed; a closed output ends the loop.             *)
delete_vtpm_handles ==
    /\ Step("uncache")
    /\ \E h \in pending :
        \/ pending' = pending \ {h} /\ RemoveEntry(h) /\ UNCHANGED todo
        \/ Faults /\ cache[h] # None /\ remove(h) /\ pending' = {} /\ Fail
    /\ UNCHANGED <<tpm, stale, link, teardown, phase, op, reg, dropping, fields,
                   ghost, trouble>>

(* refresh_key: load the context of h; every failure puts h on the list of *)
(* entries to remove.                                                      *)
refresh_key ==
    /\ Step("refresh")
    /\ \E h \in pending :
        /\ pending' = pending \ {h}
        /\ \/ \E p \in Slot :
                /\ h \notin stale
                /\ Answered(Place(p, cache[h]))
                /\ reg' = p /\ owed' = owed \cup {p} /\ loaded' = loaded \cup {p}
                /\ op' = [op EXCEPT !.target = h]
                /\ todo' = <<"refresh_flush">> \o todo
                /\ UNCHANGED <<failed, dropping>>
           \/ /\ \/ h \in stale /\ Rejected /\ UNCHANGED failed
                 \/ /\ \/ h \notin stale /\ OutOfMemory
                       \/ Lost(h \notin stale /\ \E p \in Slot : Place(p, cache[h]))
                    /\ failed' = TRUE
              /\ dropping' = dropping \cup {h}
              /\ UNCHANGED <<reg, owed, loaded, op, todo>>
    /\ UNCHANGED <<stale, teardown, phase, fields, cache, dirty, disk, promised, exit, runs>>

(* refresh_key: flush it again; the entry stays if that succeeds.          *)
refresh_flush ==
    /\ Step("refresh_flush")
    /\ \/ /\ FlushOk(reg)
          /\ dirty' = dirty \cup {op.target}
          /\ UNCHANGED <<failed, dropping>>
       \/ /\ FlushFails(reg)
          /\ failed' = TRUE /\ dropping' = dropping \cup {op.target}
          /\ UNCHANGED dirty
    /\ todo' = Tail(todo) /\ owed' = owed \ {reg}
    /\ UNCHANGED <<stale, teardown, phase, op, reg, pending, fields, cache, disk, loaded,
                   promised, exit, runs>>

(* The removals of refresh_cache, and its result.                          *)
refresh_cache ==
    /\ Step("drop_stale")
    /\ \/ /\ \E h \in dropping : dropping' = dropping \ {h} /\ RemoveEntry(h)
          /\ UNCHANGED todo
       \/ /\ dropping = {}
          /\ todo' = IF failed THEN <<>> ELSE Tail(todo)
          /\ UNCHANGED <<failed, dropping, cache, dirty, disk>>
    /\ UNCHANGED <<tpm, stale, link, teardown, phase, op, reg, pending, fields, ghost, trouble>>

(* Anything local that fails ends the command: bad input, a response that  *)
(* does not decode, a closed output. At the start there is no task state.  *)
LocalError ==
    /\ Faults
    /\ \/ /\ phase = "run"
          /\ \E step \in {"reads", "maybe", "load_key", "auth", "open", "execute", "save_context",
                          "store", "evict", "move"} : At(step)
          /\ Fail
          /\ UNCHANGED <<phase, op, reg, pending, dropping, fields, cache, dirty, exit>>
       \/ /\ phase = "start" /\ (At("cache") \/ At("validate_list") \/ At("validate"))
          /\ End("error")
    /\ UNCHANGED <<tpm, stale, link, teardown, disk, owed, loaded, promised, runs, trouble>>

-----------------------------------------------------------------------------
(* Drop for TaskState.                                                     *)

BeginDrop ==
    /\ phase = "run" /\ todo = <<>>
    /\ phase' = "drop"
    /\ pending' = phys_handles \cup sessions
    /\ UNCHANGED <<tpm, stale, link, teardown, op, todo, failed, reg, dropping, fields,
                   cache, dirty, disk, ghost, trouble>>

\* Mutant: the loop stops at the first flush that fails.
DropStops ==
    /\ phase = "drop"
    /\ \E x \in pending :
        /\ pending \cap phys_handles # {} => x \in phys_handles
        /\ owed' = owed \ {x}
        /\ \/ FlushOk(x) /\ pending' = pending \ {x}
           \/ FlushFails(x) /\ pending' = {}
    /\ UNCHANGED <<stale, teardown, phase, op, todo, failed, reg, dropping, fields, cache,
                   dirty, disk, loaded, promised, exit, runs>>

\* Mutant: a flush that fails is tried again.
DropRetries ==
    /\ phase = "drop"
    /\ \E x \in pending :
        /\ pending \cap phys_handles # {} => x \in phys_handles
        /\ owed' = owed \ {x}
        /\ \/ FlushOk(x) /\ pending' = pending \ {x}
           \/ FlushFails(x) /\ UNCHANGED pending
    /\ UNCHANGED <<stale, teardown, phase, op, todo, failed, reg, dropping, fields, cache,
                   dirty, disk, loaded, promised, exit, runs>>

(* First the objects, then the sessions; errors are only logged.           *)
DropFlush ==
    /\ phase = "drop"
    /\ \E x \in pending :
        /\ pending \cap phys_handles # {} => x \in phys_handles
        /\ pending' = pending \ {x}
        /\ owed' = owed \ {x}
        /\ FlushOk(x) \/ FlushFails(x)
    /\ UNCHANGED <<stale, teardown, phase, op, todo, failed, reg, dropping, fields, cache,
                   dirty, disk, loaded, promised, exit, runs>>

(* The cache is saved last; a failing write ends the save.                 *)
DropSave ==
    /\ phase = "drop" /\ pending = {}
    /\ \E saved \in SUBSET dirty :
        /\ saved = dirty \/ Faults
        /\ disk' = [h \in Handle |-> IF h \in saved THEN cache[h] ELSE disk[h]]
        /\ trouble' = IF saved = dirty THEN trouble ELSE trouble \cup {"disk"}
    /\ End("graceful")
    /\ UNCHANGED <<tpm, stale, link, teardown, owed, loaded, promised, runs>>

-----------------------------------------------------------------------------
(* The world.                                                              *)

CtrlC ==
    /\ phase # "down" /\ ~teardown /\ teardown' = TRUE
    /\ UNCHANGED <<tpm, stale, link, proc, fields, cache, dirty, disk, ghost, trouble>>

(* The device gives up on an abandoned command.                            *)
Recover ==
    /\ link = "busy" /\ link' = "free"
    /\ UNCHANGED <<tpm, stale, teardown, proc, fields, cache, dirty, disk, ghost, trouble>>

Crash ==
    /\ phase # "down"
    /\ End("crash")
    /\ UNCHANGED <<tpm, stale, disk, link, teardown, owed, loaded, promised, runs, trouble>>

(* The TPM is reset: it is empty and saved contexts are void.              *)
Reboot ==
    /\ phase = "down" /\ stale # VHandle
    /\ stale' = VHandle
    /\ objects' = NoKeys(Slot) /\ tpm_sessions' = {}
    /\ UNCHANGED <<persistent, link, teardown, proc, fields, cache, dirty, disk, ghost, trouble>>

(* Other software flushes an object or, between runs, replaces a           *)
(* persistent one.                                                         *)
OthersFlush ==
    /\ Others
    /\ \E p \in Slot : objects[p] # None /\ Flush(p) /\ owed' = owed \ {p}
    /\ trouble' = trouble \cup {"others"}
    /\ UNCHANGED <<stale, link, teardown, proc, fields, cache, dirty, disk, loaded,
                   promised, exit, runs>>

OthersEvict ==
    /\ Others /\ phase = "down"
    /\ \E h \in PHandle, k \in Key \cup {None} : k # persistent[h] /\ Persist(h, k)
    /\ UNCHANGED <<stale, link, teardown, proc, fields, cache, dirty, disk, ghost, trouble>>

Process ==
    \/ fetch_persistent_names \/ open_cache \/ validate_list
    \/ validate_persistent_handles \/ run
    \/ Query \/ LoadKey \/ resolve_auth \/ load_policy_secret \/ open \/ run_policy
    \/ FlushNew \/ NewObject \/ Store \/ Evict \/ Move
    \/ delete_tpm_handles \/ DeleteOne \/ LoopDone \/ ListEntries \/ delete_vtpm_handles
    \/ refresh_key \/ refresh_flush \/ refresh_cache
    \/ BeginDrop \/ DropFlush \/ DropSave

Next ==
    \/ Process \/ LocalError \/ Start
    \/ CtrlC \/ Recover \/ Crash \/ Reboot \/ OthersFlush \/ OthersEvict

Spec == Init /\ [][Next]_vars

(* The process runs; that every transmission returns is TransmitReturns of *)
(* PosixTransport.                                                         *)
FairSpec == Spec /\ WF_vars(Process)

-----------------------------------------------------------------------------
(* Correctness.                                                            *)

(* Whatever the TPM has given to this run is remembered until its flush    *)
(* has been attempted, on every error path: in phys_handles or sessions,   *)
(* or in hand while the one command that flushes it is next. One           *)
(* exception: evict untracks the object it has made persistent, and the    *)
(* transient copy is never flushed.                                        *)
NothingForgotten ==
    phase = "run" =>
        owed \subseteq phys_handles \cup sessions
            \cup (IF At("policy") \/ At("flush_new") \/ At("refresh_flush") THEN {reg} ELSE {})

(* The doc of virt_handles: they are a subset of phys_handles. And no two  *)
(* entries are taken to be loaded in the same place.                       *)
HandleMaps ==
    phase = "run" =>
        \A v, w \in VHandle : virt_handles[v] # None =>
            /\ virt_handles[v] \in phys_handles
            /\ virt_handles[v] = virt_handles[w] => v = w

(* A run that ends by itself has tried to flush everything it was given,   *)
(* also after Ctrl-C or a failure; if every command was answered nothing   *)
(* of it is left in the TPM, except an object evict made persistent.       *)
NothingLeftBehind ==
    phase = "down" /\ exit = "graceful" =>
        /\ owed = {}
        /\ "lost" \notin trouble =>
             \A x \in loaded : x \notin tpm_sessions /\ (x \in Slot => objects[x] = None)

(* A handle that was printed, or made persistent, has its record on disk   *)
(* when the run ends by itself and the disk works.                         *)
PromisedIsDurable ==
    phase = "down" /\ exit = "graceful" /\ "disk" \notin trouble =>
        \A h \in promised : disk[h] # None

(* Where a key can still be obtained from.                                 *)
Obtainable(k) ==
    \/ \E v \in VHandle : disk[v] = k /\ v \notin stale
    \/ \E h \in PHandle : persistent[h] = k

(* evict never leaves the key nowhere, wherever it fails or dies: it is in *)
(* a usable record or in the TPM.                                          *)
EvictKeepsKey ==
    [][ phase = "run" /\ op.cmd = "evict" /\ stale' = stale =>
            \A k \in Key : k = cache[op.target] /\ Obtainable(k) => Obtainable(k)' ]_vars

(* If every command is answered, the TPM has room and no other software    *)
(* interferes, starting a run and listing the memory drop only entries the *)
(* TPM does not accept any more, or entries below.                         *)
DropsOnlyStale ==
    [][ \A h \in Handle :
          (phase = "start" \/ Step("drop_stale")) /\ phase' = phase
            /\ cache[h] # None /\ cache'[h] = None /\ trouble' = {} =>
              \E g \in Handle :
                /\ h \in Removed(cache, g) /\ cache[g] # None
                /\ g \in stale \/ (g \in PHandle /\ persistent[g] # cache[g]) ]_vars

(* Every run ends.                                                         *)
ProcessEnds == phase # "down" ~> phase = "down"

(* The doc of TaskState::new: entries are dropped that no longer exist in  *)
(* the TPM or whose public area has changed.                               *)
ValidateDropsOnlyStale ==
    [][ \A h \in PHandle :
          phase = "start" /\ phase' = phase /\ cache[h] # None /\ cache'[h] = None =>
              \E g \in PHandle :
                h \in Removed(cache, g) /\ cache[g] # None /\ persistent[g] # cache[g] ]_vars

(* The doc of TEARDOWN: after Ctrl-C the contexts are flushed before the   *)
(* program exits. (Behind a resource manager, which flushes what its       *)
(* client leaves, they are not flushed by the program either.)             *)
FlushedBeforeExit ==
    phase = "down" /\ exit = "graceful" =>
        \A x \in loaded : x \notin tpm_sessions /\ (x \in Slot => objects[x] = None)
=============================================================================
