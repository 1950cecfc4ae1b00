---------------------------- MODULE TaskStateProofs ----------------------------
(***************************************************************************)
(* Proofs about TaskState: what a run of tpm2sh has loaded is remembered   *)
(* until it is flushed, on every path, and the maps of handles agree; then *)
(* about the key cache of a run: what it promised is on disk, evict keeps  *)
(* its key, and only stale entries are dropped.                            *)
(***************************************************************************)
EXTENDS TaskState, TLAPS

(* The steps of delete, which frees handles it does not own, and the steps *)
(* of all other commands. No command has steps of both kinds.              *)
DeleteStep ==
    {"list_sessions", "list_objects", "list_persistent", "each", "uncache_list", "uncache"}
UseStep ==
    {"reads", "maybe", "execute", "save_context", "load_key", "auth", "secret", "open",
     "policy", "flush_new", "new_object", "store", "evict", "move", "refresh_list",
     "refresh", "refresh_flush", "drop_stale"}

Domains ==
    /\ DOMAIN objects = Slot
    /\ virt_handles \in [VHandle -> Slot \cup {None}]

(* HandleMaps holds in every phase.                                        *)
Maps ==
    \A v, w \in VHandle : virt_handles[v] # None =>
        /\ virt_handles[v] \in phys_handles
        /\ virt_handles[v] = virt_handles[w] => v = w

(* A command that deletes by pattern has loaded nothing itself.            *)
Script ==
    phase = "run" => \/ todo \in Seq(DeleteStep) /\ owed = {}
                     \/ todo \in Seq(UseStep)

(* A session that is opened is used by the very next step.                 *)
OpenedIsUsed(s) ==
    \A i \in 1..Len(s) : s[i] = "open" => i + 1 \in 1..Len(s) /\ s[i + 1] = "policy"
Opened == phase = "run" => OpenedIsUsed(todo)

Began == phase = "start" => owed = {}
Dropped == phase = "drop" => owed \subseteq pending
Ended == phase = "down" /\ exit = "graceful" => owed = {}

(* If no command was lost, what was loaded and is still there is owed.     *)
Kept == "lost" \notin trouble => \A x \in loaded : Holds(x) => x \in owed

Inv ==
    /\ Domains /\ Maps /\ Script /\ Opened /\ Began /\ NothingForgotten
    /\ Dropped /\ Ended /\ Kept

-----------------------------------------------------------------------------
(* Lists of steps.                                                         *)

(* The rest of a list of steps is one, and keeps the session's step.       *)
LEMMA TailSteps ==
    ASSUME NEW S, NEW s \in Seq(S), s # <<>>
    PROVE  /\ Tail(s) \in Seq(S)
           /\ Head(s) \in S
           /\ OpenedIsUsed(s) => OpenedIsUsed(Tail(s))
<1>1. Tail(s) \in Seq(S) /\ Head(s) \in S  OBVIOUS
<1>2. ASSUME OpenedIsUsed(s)
      PROVE  OpenedIsUsed(Tail(s))
  <2>1. Len(s) \in Nat /\ Len(s) >= 1 /\ Len(Tail(s)) = Len(s) - 1  OBVIOUS
  <2>2. \A i \in 1..Len(Tail(s)) : Tail(s)[i] = s[i + 1]  OBVIOUS
  <2>. SUFFICES ASSUME NEW i \in 1..Len(Tail(s)), Tail(s)[i] = "open"
                PROVE  i + 1 \in 1..Len(Tail(s)) /\ Tail(s)[i + 1] = "policy"
    BY DEF OpenedIsUsed
  <2>3. i + 1 \in 1..Len(s) /\ s[i + 1] = "open"  BY <2>1, <2>2
  <2>4. i + 2 \in 1..Len(s) /\ s[i + 2] = "policy"  BY <2>3, <1>2, <2>1 DEF OpenedIsUsed
  <2>. QED  BY <2>1, <2>2, <2>4
<1>. QED  BY <1>1, <1>2

(* The scripts of the commands.                                            *)
LEMMA ScriptSteps ==
    ASSUME NEW o \in Op, NEW s \in Scripts(o.cmd)
    PROVE  /\ s \in Seq(DeleteStep) \/ s \in Seq(UseStep)
           /\ OpenedIsUsed(s)
<1>1. o.cmd \in {"create_primary", "load", "use", "plain", "evict", "delete", "memory"}
  BY DEF Op
<1>2. s \in {create_primary, load, create, seal, unseal, import, pcr_event, reset_lock,
             algorithm, inspect_handle, evict, delete, list_all_memory}
  BY <1>1 DEF Scripts
<1>3. s = delete \/ s \in {create_primary, load, create, seal, unseal, import, pcr_event,
                           reset_lock, algorithm, inspect_handle, evict, list_all_memory}
  BY <1>2
<1>4. CASE s = delete
  <2>1. s \in Seq(DeleteStep)  BY <1>4 DEF delete, DeleteStep
  <2>2. \A i \in 1..Len(s) : s[i] \in DeleteStep  BY <2>1
  <2>. QED  BY <2>1, <2>2 DEF OpenedIsUsed, DeleteStep
<1>5. CASE s # delete
  <2>. DEFINE Plain == UseStep \ {"open"}
  <2>1. s \in Seq(Plain)
    <3>1. create_primary \in Seq(Plain)  BY DEF create_primary, UseStep
    <3>2. load \in Seq(Plain)  BY DEF load, UseStep
    <3>3. create \in Seq(Plain) /\ seal \in Seq(Plain)  BY DEF create, seal, UseStep
    <3>4. unseal \in Seq(Plain) /\ import \in Seq(Plain)  BY DEF unseal, import, UseStep
    <3>5. pcr_event \in Seq(Plain) /\ reset_lock \in Seq(Plain)  BY DEF pcr_event, reset_lock, UseStep
    <3>6. algorithm \in Seq(Plain) /\ inspect_handle \in Seq(Plain)
      BY DEF algorithm, inspect_handle, UseStep
    <3>7. evict \in Seq(Plain)  BY DEF evict, UseStep
    <3>8. list_all_memory \in Seq(Plain)  BY DEF list_all_memory, UseStep
    <3>. QED  BY <1>3, <1>5, <3>1, <3>2, <3>3, <3>4, <3>5, <3>6, <3>7, <3>8
  <2>2. \A i \in 1..Len(s) : s[i] \in Plain  BY <2>1
  <2>3. s \in Seq(UseStep)  BY <2>1
  <2>. QED  BY <2>2, <2>3 DEF OpenedIsUsed
<1>. QED  BY <1>4, <1>5

-----------------------------------------------------------------------------
(* Where the process stands.                                               *)

(* A step that is not one of delete is a step of a list of UseStep, and    *)
(* the list goes on with such steps.                                       *)
LEMMA AtUse ==
    ASSUME Inv, NEW step \in UseStep, Step(step)
    PROVE  /\ phase = "run" /\ todo \in Seq(UseStep) /\ todo # <<>> /\ Head(todo) = step
           /\ Tail(todo) \in Seq(UseStep)
           /\ OpenedIsUsed(todo) /\ OpenedIsUsed(Tail(todo))
<1>1. phase = "run" /\ todo # <<>> /\ Head(todo) = step  BY DEF Step, At
<1>2. ASSUME todo \in Seq(DeleteStep) PROVE FALSE
  <2>1. step \in DeleteStep  BY <1>1, <1>2, TailSteps
  <2>. QED  BY <2>1 DEF UseStep, DeleteStep
<1>3. todo \in Seq(UseStep)  BY <1>1, <1>2 DEF Inv, Script
<1>. QED  BY <1>1, <1>3, TailSteps DEF Inv, Opened

(* The same of the steps of delete.                                        *)
LEMMA AtDelete ==
    ASSUME Inv, NEW step \in DeleteStep, Step(step)
    PROVE  /\ phase = "run" /\ todo \in Seq(DeleteStep) /\ todo # <<>> /\ Head(todo) = step
           /\ owed = {}
           /\ Tail(todo) \in Seq(DeleteStep)
           /\ OpenedIsUsed(todo) /\ OpenedIsUsed(Tail(todo))
<1>1. phase = "run" /\ todo # <<>> /\ Head(todo) = step  BY DEF Step, At
<1>2. ASSUME todo \in Seq(UseStep) PROVE FALSE
  <2>1. step \in UseStep  BY <1>1, <1>2, TailSteps
  <2>. QED  BY <2>1 DEF UseStep, DeleteStep
<1>3. todo \in Seq(DeleteStep) /\ owed = {}  BY <1>1, <1>2 DEF Inv, Script
<1>. QED  BY <1>1, <1>3, TailSteps DEF Inv, Opened

(* An empty list of steps is a list of any steps.                          *)
LEMMA NoSteps == <<>> \in Seq(UseStep) /\ <<>> \in Seq(DeleteStep) /\ OpenedIsUsed(<<>>)
BY DEF OpenedIsUsed

-----------------------------------------------------------------------------
(* Initial states.                                                         *)

LEMMA InitInv == Init => Inv
<1>. SUFFICES ASSUME Init PROVE Inv  OBVIOUS
<1>1. Domains  BY HandleAssumption DEF Init, Domains, NoKeys
<1>2. Maps  BY DEF Init, Maps, NoKeys
<1>3. Script /\ Opened /\ Began /\ Dropped  BY DEF Init, Script, Opened, Began, Dropped
<1>4. NothingForgotten  BY DEF Init, NothingForgotten
<1>5. Ended /\ Kept  BY DEF Init, Ended, Kept
<1>. QED  BY <1>1, <1>2, <1>3, <1>4, <1>5 DEF Inv

-----------------------------------------------------------------------------
(* The end of a run.                                                       *)

LEMMA EndMaps == ASSUME NEW how, End(how) PROVE Maps' /\ (virt_handles \in [VHandle -> Slot \cup {None}])'
BY DEF End, NoKeys, Maps

-----------------------------------------------------------------------------
(* Steps of a command.                                                     *)

(* What a step of a command has to show.                                   *)
LEMMA RunStep ==
    ASSUME phase' = "run", Domains', Maps', Kept', NothingForgotten', OpenedIsUsed(todo'),
           (todo' \in Seq(DeleteStep) /\ owed' = {}) \/ todo' \in Seq(UseStep)
    PROVE  Inv'
<1>1. Script' /\ Began' /\ Dropped' /\ Ended'  BY DEF Script, Began, Dropped, Ended
<1>2. Opened'  BY DEF Opened, OpenedIsUsed
<1>. QED  BY <1>1, <1>2 DEF Inv

(* Everything owed is in the maps, except before the steps that flush or   *)
(* keep the handle in hand.                                                *)
Noted == owed \subseteq phys_handles \cup sessions

LEMMA NotedAt ==
    ASSUME Inv, NEW step \in (UseStep \cup DeleteStep) \ {"policy", "flush_new", "refresh_flush"},
           Step(step)
    PROVE  Noted
BY DEF Inv, NothingForgotten, Step, At, Noted

(* A step that changes neither what the TPM holds for the program nor what *)
(* the program notes of it.                                                *)
LEMMA QuietStep ==
    ASSUME Inv, Noted, phase' = "run", trouble \subseteq trouble',
           UNCHANGED <<objects, tpm_sessions, fields, owed, loaded>>,
           OpenedIsUsed(todo'),
           (todo' \in Seq(DeleteStep) /\ owed = {}) \/ todo' \in Seq(UseStep)
    PROVE  Inv'
<1>1. Domains' /\ Maps'  BY DEF Inv, Domains, Maps, fields
<1>2. Kept'  BY DEF Inv, Kept, Holds, fields
<1>3. NothingForgotten'  BY DEF Noted, NothingForgotten, fields
<1>. QED  BY <1>1, <1>2, <1>3, RunStep

(* Transmissions without effect.                                           *)
LEMMA QuietTransmission ==
    ASSUME Answered(UNCHANGED tpm) \/ Rejected \/ OutOfMemory \/ Lost(UNCHANGED tpm)
    PROVE  trouble \subseteq trouble' /\ UNCHANGED <<objects, tpm_sessions>>
BY DEF Answered, Rejected, OutOfMemory, Lost, tpm

LEMMA QueryInv == Inv /\ Query => Inv'
<1>. SUFFICES ASSUME Inv, Query PROVE Inv'  OBVIOUS
<1>1. PICK step \in {"reads", "maybe", "execute", "save_context"} : Step(step)  BY DEF Query
<1>2. step \in UseStep  BY <1>1 DEF UseStep
<1>3. Noted  BY <1>1, <1>2, NotedAt
<1>4. todo' = Tail(todo) \/ todo' = <<>>  BY DEF Query, Proceed, Fail
<1>5. trouble \subseteq trouble' /\ UNCHANGED <<objects, tpm_sessions>>
  BY QuietTransmission DEF Query, tpm
<1>6. UNCHANGED <<fields, owed, loaded>> /\ phase' = "run"  BY <1>1 DEF Query, ghost, Step
<1>. QED  BY <1>1, <1>2, <1>3, <1>4, <1>5, <1>6, AtUse, NoSteps, QuietStep

LEMMA ResolveAuthInv == Inv /\ resolve_auth => Inv'
<1>. SUFFICES ASSUME Inv, resolve_auth PROVE Inv'  OBVIOUS
<1>1. Step("auth") /\ "auth" \in UseStep  BY DEF resolve_auth, UseStep
<1>2. Noted  BY <1>1, NotedAt
<1>3. UNCHANGED <<objects, tpm_sessions, fields, owed, loaded, trouble>> /\ phase' = "run"
  BY <1>1 DEF resolve_auth, tpm, ghost, Step
<1>. DEFINE t == Tail(todo)
<1>4. t \in Seq(UseStep) /\ OpenedIsUsed(t)  BY <1>1, AtUse
<1>5. todo' \in {t, <<"reads">> \o t, <<>> \o <<"open", "policy">> \o t,
                 <<"secret">> \o <<"open", "policy">> \o t}
  BY DEF resolve_auth
<1>. HIDE DEF t
<1>6. ASSUME NEW x \in UseStep \ {"open"}, NEW s \in Seq(UseStep), OpenedIsUsed(s)
      PROVE  <<x>> \o s \in Seq(UseStep) /\ OpenedIsUsed(<<x>> \o s)
  <2>1. <<x>> \o s \in Seq(UseStep) /\ Len(<<x>> \o s) = Len(s) + 1 /\ (<<x>> \o s)[1] = x
    OBVIOUS
  <2>2. \A i \in 1..Len(s) : (<<x>> \o s)[i + 1] = s[i]  OBVIOUS
  <2>3. ASSUME NEW i \in 1..Len(<<x>> \o s), (<<x>> \o s)[i] = "open"
        PROVE  i + 1 \in 1..Len(<<x>> \o s) /\ (<<x>> \o s)[i + 1] = "policy"
    <3>1. i # 1  BY <2>1, <2>3
    <3>2. i - 1 \in 1..Len(s) /\ s[i - 1] = "open"  BY <3>1, <2>1, <2>2, <2>3
    <3>3. i \in 1..Len(s) /\ s[i] = "policy"  BY <3>2, <1>6 DEF OpenedIsUsed
    <3>. QED  BY <3>3, <2>1, <2>2
  <2>. QED  BY <2>1, <2>3 DEF OpenedIsUsed
<1>7. <<"open", "policy">> \o t \in Seq(UseStep) /\ OpenedIsUsed(<<"open", "policy">> \o t)
  <2>. DEFINE u == <<"open", "policy">> \o t
  <2>1. u \in Seq(UseStep) /\ Len(u) = Len(t) + 2 /\ u[1] = "open" /\ u[2] = "policy"
    BY <1>4 DEF UseStep
  <2>2. \A i \in 1..Len(t) : u[i + 2] = t[i]  BY <1>4
  <2>3. ASSUME NEW i \in 1..Len(u), u[i] = "open"
        PROVE  i + 1 \in 1..Len(u) /\ u[i + 1] = "policy"
    <3>1. CASE i = 1  BY <3>1, <2>1, <1>4
    <3>2. CASE i = 2  BY <3>2, <2>1, <2>3
    <3>3. CASE i > 2
      <4>1. i - 2 \in 1..Len(t) /\ t[i - 2] = "open"  BY <3>3, <2>1, <2>2, <2>3, <1>4
      <4>2. i - 1 \in 1..Len(t) /\ t[i - 1] = "policy"  BY <4>1, <1>4 DEF OpenedIsUsed
      <4>. QED  BY <4>2, <2>1, <2>2
    <3>. QED  BY <3>1, <3>2, <3>3
  <2>. QED  BY <2>1, <2>3 DEF OpenedIsUsed
<1>8. <<>> \o <<"open", "policy">> \o t = <<"open", "policy">> \o t  BY <1>4
<1>9. <<"secret">> \o <<"open", "policy">> \o t = <<"secret">> \o (<<"open", "policy">> \o t)
  BY <1>4
<1>10. todo' \in Seq(UseStep) /\ OpenedIsUsed(todo')
  BY <1>4, <1>5, <1>6, <1>7, <1>8, <1>9 DEF UseStep
<1>. QED  BY <1>2, <1>3, <1>10, QuietStep

LEMMA StoreInv == Inv /\ Store => Inv'
<1>. SUFFICES ASSUME Inv, Store PROVE Inv'  OBVIOUS
<1>1. Step("store") /\ "store" \in UseStep  BY DEF Store, UseStep
<1>2. Noted  BY <1>1, NotedAt
<1>3. todo' = Tail(todo) \/ todo' = <<>>  BY DEF Store, Proceed, Fail
<1>4. UNCHANGED <<objects, tpm_sessions, fields, owed, loaded, trouble>> /\ phase' = "run"
  BY <1>1 DEF Store, tpm, Step
<1>. QED  BY <1>1, <1>2, <1>3, <1>4, AtUse, NoSteps, QuietStep

LEMMA EvictInv == Inv /\ Evict => Inv'
<1>. SUFFICES ASSUME Inv, Evict PROVE Inv'  OBVIOUS
<1>1. Step("evict") /\ "evict" \in UseStep  BY DEF Evict, UseStep
<1>2. Noted  BY <1>1, NotedAt
<1>3. todo' = Tail(todo) \/ todo' = <<>>  BY DEF Evict, Proceed, Fail
<1>4. trouble \subseteq trouble' /\ UNCHANGED <<objects, tpm_sessions>>
  BY DEF Evict, Answered, Rejected, Lost, Persist, tpm
<1>5. UNCHANGED <<fields, owed, loaded>> /\ phase' = "run"  BY <1>1 DEF Evict, ghost, Step
<1>. QED  BY <1>1, <1>2, <1>3, <1>4, <1>5, AtUse, NoSteps, QuietStep

LEMMA ListHandlesInv == Inv /\ delete_tpm_handles => Inv'
<1>. SUFFICES ASSUME Inv, NEW step \in {"list_sessions", "list_objects", "list_persistent"},
                     NEW handles, fetch_handles(step, handles)
              PROVE  Inv'
  BY DEF delete_tpm_handles
<1>1. Step(step) /\ step \in DeleteStep  BY DEF fetch_handles, DeleteStep
<1>2. Noted  BY <1>1, NotedAt DEF DeleteStep
<1>3. todo' = Tail(todo)  BY DEF fetch_handles, Proceed
<1>4. trouble \subseteq trouble' /\ UNCHANGED <<objects, tpm_sessions>>
  BY QuietTransmission DEF fetch_handles
<1>5. UNCHANGED <<fields, owed, loaded>> /\ phase' = "run"
  BY <1>1 DEF fetch_handles, ghost, Step
<1>. QED  BY <1>1, <1>2, <1>3, <1>4, <1>5, AtDelete, QuietStep

LEMMA LoopDoneInv == Inv /\ LoopDone => Inv'
<1>. SUFFICES ASSUME Inv, LoopDone PROVE Inv'  OBVIOUS
<1>1. PICK step \in {"each", "uncache", "refresh"} : Step(step)  BY DEF LoopDone
<1>2. step \in UseStep \/ step \in DeleteStep  BY DEF UseStep, DeleteStep
<1>3. Noted  BY <1>1, <1>2, NotedAt
<1>4. todo' = Tail(todo)  BY DEF LoopDone, Proceed
<1>5. UNCHANGED <<objects, tpm_sessions, fields, owed, loaded, trouble>> /\ phase' = "run"
  BY <1>1 DEF LoopDone, tpm, ghost, Step
<1>. QED  BY <1>1, <1>2, <1>3, <1>4, <1>5, AtUse, AtDelete, QuietStep

LEMMA ListEntriesInv == Inv /\ ListEntries => Inv'
<1>. SUFFICES ASSUME Inv, ListEntries PROVE Inv'  OBVIOUS
<1>1. PICK step \in {"uncache_list", "refresh_list"} : Step(step)  BY DEF ListEntries
<1>2. step \in UseStep \/ step \in DeleteStep  BY DEF UseStep, DeleteStep
<1>3. Noted  BY <1>1, <1>2, NotedAt
<1>4. todo' = Tail(todo)  BY DEF ListEntries, Proceed
<1>5. UNCHANGED <<objects, tpm_sessions, fields, owed, loaded, trouble>> /\ phase' = "run"
  BY <1>1 DEF ListEntries, tpm, ghost, Step
<1>. QED  BY <1>1, <1>2, <1>3, <1>4, <1>5, AtUse, AtDelete, QuietStep

LEMMA UncacheInv == Inv /\ delete_vtpm_handles => Inv'
<1>. SUFFICES ASSUME Inv, delete_vtpm_handles PROVE Inv'  OBVIOUS
<1>1. Step("uncache") /\ "uncache" \in DeleteStep  BY DEF delete_vtpm_handles, DeleteStep
<1>2. Noted  BY <1>1, NotedAt
<1>3. todo' = todo \/ todo' = <<>>  BY DEF delete_vtpm_handles, Fail
<1>4. UNCHANGED <<objects, tpm_sessions, fields, owed, loaded, trouble>> /\ phase' = "run"
  BY <1>1 DEF delete_vtpm_handles, tpm, ghost, Step
<1>. QED  BY <1>1, <1>2, <1>3, <1>4, AtDelete, NoSteps, QuietStep

LEMMA RefreshCacheInv == Inv /\ refresh_cache => Inv'
<1>. SUFFICES ASSUME Inv, refresh_cache PROVE Inv'  OBVIOUS
<1>1. Step("drop_stale") /\ "drop_stale" \in UseStep  BY DEF refresh_cache, UseStep
<1>2. Noted  BY <1>1, NotedAt
<1>3. todo' = todo \/ todo' = <<>> \/ todo' = Tail(todo)  BY DEF refresh_cache
<1>4. UNCHANGED <<objects, tpm_sessions, fields, owed, loaded, trouble>> /\ phase' = "run"
  BY <1>1 DEF refresh_cache, tpm, ghost, Step
<1>. QED  BY <1>1, <1>2, <1>3, <1>4, AtUse, NoSteps, QuietStep

-----------------------------------------------------------------------------
(* Steps that load or flush.                                               *)

(* A new object that is noted when it is loaded.                           *)
LEMMA Tracked ==
    ASSUME Inv, Noted, NEW p \in Slot, NEW k, Answered(Place(p, k)), phase' = "run",
           phys_handles' = phys_handles \cup {p}, sessions' = sessions,
           owed' = owed \cup {p}, loaded' = loaded \cup {p}
    PROVE  (DOMAIN objects = Slot)' /\ Kept' /\ NothingForgotten'
<1>1. objects' = [objects EXCEPT ![p] = k] /\ tpm_sessions' = tpm_sessions /\ trouble' = trouble
  BY DEF Answered, Place
<1>2. (DOMAIN objects = Slot)'  BY <1>1 DEF Inv, Domains
<1>3. Kept'
  <2>. SUFFICES ASSUME "lost" \notin trouble, NEW x \in loaded', Holds(x)' PROVE x \in owed'
    BY <1>1 DEF Kept
  <2>1. CASE x = p  BY <2>1
  <2>2. CASE x # p
    <3>1. Holds(x)  BY <2>2, <1>1 DEF Holds, Inv, Domains
    <3>. QED  BY <3>1, <2>2 DEF Inv, Kept
  <2>. QED  BY <2>1, <2>2
<1>4. NothingForgotten'  BY DEF Noted, NothingForgotten
<1>. QED  BY <1>2, <1>3, <1>4

(* An attempt that fails: nothing is noted, and if the TPM has executed    *)
(* the command, it was lost.                                               *)
LEMMA AttemptFails ==
    ASSUME Inv, Noted, phase' = "run", (DOMAIN objects = Slot)',
           UNCHANGED <<objects, tpm_sessions, trouble>> \/ "lost" \in trouble',
           UNCHANGED <<fields, owed, loaded>>
    PROVE  Domains' /\ Maps' /\ Kept' /\ NothingForgotten'
<1>1. Domains'  BY DEF Inv, Domains, fields
<1>2. Maps'  BY DEF Inv, Maps, fields
<1>3. Kept'  BY DEF Inv, Kept, Holds
<1>4. NothingForgotten'  BY DEF Noted, NothingForgotten, fields
<1>. QED  BY <1>1, <1>2, <1>3, <1>4

(* load_key_by_handle, for the target and for the object of a policy.      *)
LEMMA LoadKeyInv ==
    ASSUME Inv, NEW step \in {"load_key", "secret"}, Step(step), NEW h, load_key_by_handle(h),
           phase' = phase, sessions' = sessions
    PROVE  Inv'
<1>1. step \in UseStep  BY DEF UseStep
<1>2. Noted /\ phase' = "run"  BY <1>1, NotedAt DEF Step
<1>3. "flush_new" \in UseStep  BY DEF UseStep
<1>4. <<"flush_new">> \in Seq(UseStep) /\ OpenedIsUsed(<<"flush_new">>)
  BY <1>3 DEF OpenedIsUsed
<1>5. CASE todo' \in {Tail(todo), <<>>} /\ UNCHANGED <<tpm, trouble, phys_handles, virt_handles, owed, loaded>>
  BY <1>1, <1>2, <1>5, AtUse, NoSteps, QuietStep DEF fields, tpm
<1>6. CASE h \in VHandle /\ virt_handles[h] = None /\ LoadContext(h)
  <2>1. ASSUME NEW p \in Slot, Answered(Place(p, cache[h])), track(p), loaded' = loaded \cup {p},
               virt_handles' = IF todo' = <<"flush_new">> THEN virt_handles
                               ELSE [virt_handles EXCEPT ![h] = p]
        PROVE  Inv'
    <3>1. phys_handles' = phys_handles \cup {p} /\ owed' = owed \cup {p}  BY <2>1 DEF track
    <3>2. (DOMAIN objects = Slot)' /\ Kept' /\ NothingForgotten'
      BY <1>2, <2>1, <3>1, Tracked
    <3>3. Domains'  BY <1>6, <2>1, <3>2 DEF Inv, Domains
    <3>4. todo' \in Seq(UseStep) /\ OpenedIsUsed(todo')
      BY <1>1, <1>4, <2>1, AtUse DEF track, Proceed
    <3>5. Maps'
      <4>1. CASE todo' = <<"flush_new">>  BY <2>1, <3>1, <4>1 DEF Inv, Maps
      <4>2. CASE todo' # <<"flush_new">>
        <5>1. p \notin phys_handles  BY <2>1, <4>2 DEF track
        <5>2. \A v \in VHandle : virt_handles'[v] = IF v = h THEN p ELSE virt_handles[v]
          BY <2>1, <4>2 DEF Inv, Domains
        <5>. QED  BY <3>1, <5>1, <5>2 DEF Inv, Maps
      <4>. QED  BY <4>1, <4>2
    <3>. QED  BY <1>2, <3>2, <3>3, <3>4, <3>5, RunStep
  <2>2. ASSUME Rejected \/ Lost(h \notin stale /\ \E p \in Slot : Place(p, cache[h])), Fail,
               UNCHANGED <<phys_handles, virt_handles, owed, loaded, reg>>
        PROVE  Inv'
    <3>1. UNCHANGED <<objects, tpm_sessions, trouble>> \/ "lost" \in trouble'
      BY <2>2 DEF Rejected, Lost, tpm
    <3>2. (DOMAIN objects = Slot)'  BY <2>2 DEF Inv, Domains, Rejected, Lost, Place, tpm
    <3>3. todo' = <<>>  BY <2>2 DEF Fail
    <3>. QED  BY <1>2, <2>2, <3>1, <3>2, <3>3, AttemptFails, NoSteps, RunStep DEF fields
  <2>. QED  BY <1>6, <2>1, <2>2 DEF LoadContext
<1>. QED  BY <1>5, <1>6 DEF load_key_by_handle, Proceed, Fail

LEMMA LoadKeysInv == Inv /\ (LoadKey \/ load_policy_secret) => Inv'
<1>. SUFFICES ASSUME Inv, LoadKey \/ load_policy_secret PROVE Inv'  OBVIOUS
<1>1. CASE LoadKey  BY <1>1, LoadKeyInv DEF LoadKey
<1>2. CASE load_policy_secret
  <2>1. ASSUME NEW h, load_key_by_handle(h) PROVE Inv'
    BY <1>2, <2>1, LoadKeyInv DEF load_policy_secret
  <2>2. ASSUME Fail, UNCHANGED <<tpm, link, trouble, phys_handles, virt_handles, owed, loaded, reg>>
        PROVE  Inv'
    <3>1. Step("secret") /\ "secret" \in UseStep  BY <1>2 DEF load_policy_secret, UseStep
    <3>2. Noted  BY <3>1, NotedAt
    <3>3. phase' = "run" /\ sessions' = sessions  BY <1>2, <3>1 DEF load_policy_secret, Step
    <3>. QED  BY <2>2, <3>2, <3>3, NoSteps, QuietStep DEF Fail, tpm, fields
  <2>. QED  BY <1>2, <2>1, <2>2 DEF load_policy_secret
<1>. QED  BY <1>1, <1>2

LEMMA NewObjectInv == Inv /\ NewObject => Inv'
<1>. SUFFICES ASSUME Inv, NewObject PROVE Inv'  OBVIOUS
<1>1. Step("new_object") /\ "new_object" \in UseStep /\ "flush_new" \in UseStep
  BY DEF NewObject, UseStep
<1>2. Noted /\ phase' = "run" /\ UNCHANGED <<virt_handles, sessions>>
  BY <1>1, NotedAt DEF NewObject, Step
<1>3. <<"flush_new">> \in Seq(UseStep) /\ OpenedIsUsed(<<"flush_new">>)
  BY <1>1 DEF OpenedIsUsed
<1>4. ASSUME NEW p \in Slot, Answered(Place(p, op.key)), track(p), loaded' = loaded \cup {p}
      PROVE  Inv'
  <2>1. phys_handles' = phys_handles \cup {p} /\ owed' = owed \cup {p}  BY <1>4 DEF track
  <2>2. (DOMAIN objects = Slot)' /\ Kept' /\ NothingForgotten'
    BY <1>2, <1>4, <2>1, Tracked
  <2>3. Domains' /\ Maps'  BY <1>2, <2>1, <2>2 DEF Inv, Domains, Maps
  <2>4. todo' \in Seq(UseStep) /\ OpenedIsUsed(todo')
    BY <1>1, <1>3, <1>4, AtUse DEF track, Proceed
  <2>. QED  BY <1>2, <2>2, <2>3, <2>4, RunStep
<1>5. ASSUME Rejected \/ Lost(Loadable /\ \E p \in Slot : Place(p, op.key)), Fail,
             UNCHANGED <<phys_handles, owed, loaded, reg>>
      PROVE  Inv'
  <2>1. UNCHANGED <<objects, tpm_sessions, trouble>> \/ "lost" \in trouble'
    BY <1>5 DEF Rejected, Lost, tpm
  <2>2. (DOMAIN objects = Slot)'  BY <1>5 DEF Inv, Domains, Rejected, Lost, Place, tpm
  <2>3. todo' = <<>>  BY <1>5 DEF Fail
  <2>. QED  BY <1>2, <1>5, <2>1, <2>2, <2>3, AttemptFails, NoSteps, RunStep DEF fields
<1>. QED  BY <1>4, <1>5 DEF NewObject

(* A session is opened, and the handle in hand is used by the next step.   *)
LEMMA OpenInv == Inv /\ open => Inv'
<1>. SUFFICES ASSUME Inv, open PROVE Inv'  OBVIOUS
<1>1. Step("open") /\ "open" \in UseStep  BY DEF open, UseStep
<1>2. Noted /\ phase' = "run" /\ UNCHANGED fields  BY <1>1, NotedAt DEF open, Step
<1>3. ASSUME NEW s \in Session, Answered(StartSession(s)), reg' = s, owed' = owed \cup {s},
             loaded' = loaded \cup {s}, todo' = Tail(todo)
      PROVE  Inv'
  <2>1. objects' = objects /\ tpm_sessions' = tpm_sessions \cup {s} /\ trouble' = trouble
    BY <1>3 DEF Answered, StartSession
  <2>2. Domains' /\ Maps'  BY <1>2, <2>1 DEF Inv, Domains, Maps, fields
  <2>3. Kept'  BY <1>3, <2>1 DEF Inv, Kept, Holds
  <2>4. todo \in Seq(UseStep) /\ todo # <<>> /\ Head(todo) = "open" /\ OpenedIsUsed(todo)
        /\ Tail(todo) \in Seq(UseStep) /\ OpenedIsUsed(Tail(todo))
    BY <1>1, AtUse
  <2>5. 1 + 1 \in 1..Len(todo) /\ todo[1 + 1] = "policy"
    <3>1. Len(todo) \in Nat /\ 1 \in 1..Len(todo) /\ todo[1] = "open"  BY <2>4
    <3>. QED  BY <3>1, <2>4 DEF OpenedIsUsed
  <2>6. Tail(todo) # <<>> /\ Head(Tail(todo)) = "policy"
    <3>1. Len(todo) \in Nat /\ Len(Tail(todo)) = Len(todo) - 1  BY <2>4
    <3>2. 1 \in 1..Len(Tail(todo)) /\ Tail(todo)[1] = todo[1 + 1]  BY <2>4, <2>5, <3>1
    <3>3. Tail(todo) # <<>>  BY <3>2
    <3>. QED  BY <2>4, <2>5, <3>2, <3>3
  <2>7. NothingForgotten'  BY <1>2, <1>3, <2>6 DEF Noted, NothingForgotten, At, fields
  <2>. QED  BY <1>2, <1>3, <2>2, <2>3, <2>4, <2>7, RunStep
<1>4. ASSUME Rejected \/ Lost(\E s \in Session : StartSession(s)), Fail,
             UNCHANGED <<reg, owed, loaded>>
      PROVE  Inv'
  <2>1. UNCHANGED <<objects, tpm_sessions, trouble>> \/ "lost" \in trouble'
    BY <1>4 DEF Rejected, Lost, tpm
  <2>2. (DOMAIN objects = Slot)'  BY <1>4 DEF Inv, Domains, Rejected, Lost, StartSession, tpm
  <2>. QED  BY <1>2, <1>4, <2>1, <2>2, AttemptFails, NoSteps, RunStep DEF Fail
<1>. QED  BY <1>3, <1>4 DEF open, Proceed

LEMMA RunPolicyInv == Inv /\ run_policy => Inv'
<1>. SUFFICES ASSUME Inv, run_policy PROVE Inv'  OBVIOUS
<1>1. Step("policy") /\ "policy" \in UseStep /\ "flush_new" \in UseStep
  BY DEF run_policy, UseStep
<1>2. phase' = "run" /\ UNCHANGED <<phys_handles, virt_handles, owed, loaded, reg>>
  BY <1>1 DEF run_policy, Step, ghost
<1>3. owed \subseteq phys_handles \cup sessions \cup {reg}
  BY <1>1 DEF Inv, NothingForgotten, Step
<1>4. trouble \subseteq trouble' /\ UNCHANGED <<objects, tpm_sessions>>
  BY QuietTransmission DEF run_policy
<1>5. Domains' /\ Maps' /\ Kept'  BY <1>2, <1>4 DEF Inv, Domains, Maps, Kept, Holds
<1>6. CASE sessions' = sessions \cup {reg} /\ todo' = Tail(todo)
  <2>1. NothingForgotten'  BY <1>2, <1>3, <1>6 DEF NothingForgotten
  <2>. QED  BY <1>1, <1>2, <1>5, <1>6, <2>1, AtUse, RunStep
<1>7. CASE sessions' = sessions /\ todo' = <<"flush_new">>
  <2>1. NothingForgotten'  BY <1>2, <1>3, <1>7 DEF NothingForgotten, At
  <2>2. todo' \in Seq(UseStep) /\ OpenedIsUsed(todo')  BY <1>1, <1>7 DEF OpenedIsUsed
  <2>. QED  BY <1>2, <1>5, <2>1, <2>2, RunStep
<1>. QED  BY <1>6, <1>7 DEF run_policy, Proceed

(* A flush, whatever becomes of it, settles what was owed.                 *)
LEMMA Flushed ==
    ASSUME Inv, NEW x, FlushOk(x) \/ FlushFails(x), loaded' \subseteq loaded,
           owed \ {x} \subseteq owed'
    PROVE  (DOMAIN objects = Slot)' /\ Kept'
<1>1. CASE FlushOk(x)
  <2>1. objects' = (IF x \in Slot THEN [objects EXCEPT ![x] = None] ELSE objects)
        /\ tpm_sessions' = tpm_sessions \ {x} /\ trouble' = trouble
    BY <1>1 DEF FlushOk, Answered, Flush
  <2>2. (DOMAIN objects = Slot)'  BY <2>1 DEF Inv, Domains
  <2>3. ~Holds(x)'  BY <2>1 DEF Holds, Inv, Domains
  <2>4. ASSUME NEW y, y # x, Holds(y)' PROVE Holds(y)
    BY <2>1, <2>4 DEF Holds, Inv, Domains
  <2>5. Kept'  BY <2>1, <2>3, <2>4 DEF Inv, Kept
  <2>. QED  BY <2>2, <2>5
<1>2. CASE ~Holds(x) /\ Rejected
  BY <1>2 DEF Rejected, tpm, Inv, Domains, Kept, Holds
<1>3. CASE Lost(Flush(x))
  <2>1. "lost" \in trouble'  BY <1>3 DEF Lost
  <2>2. (DOMAIN objects = Slot)'  BY <1>3 DEF Lost, Flush, tpm, Inv, Domains
  <2>. QED  BY <2>1, <2>2 DEF Kept
<1>. QED  BY <1>1, <1>2, <1>3 DEF FlushFails

LEMMA FlushNewInv == Inv /\ FlushNew => Inv'
<1>. SUFFICES ASSUME Inv, FlushNew PROVE Inv'  OBVIOUS
<1>1. Step("flush_new")  BY DEF FlushNew
<1>2. phase' = "run" /\ UNCHANGED <<fields, loaded, reg>> /\ owed' = owed \ {reg} /\ todo' = <<>>
  BY <1>1 DEF FlushNew, Step, Fail
<1>3. (DOMAIN objects = Slot)' /\ Kept'  BY <1>2, Flushed DEF FlushNew
<1>4. Domains' /\ Maps'  BY <1>2, <1>3 DEF Inv, Domains, Maps, fields
<1>5. NothingForgotten'  BY <1>1, <1>2 DEF Inv, NothingForgotten, Step, fields
<1>. QED  BY <1>2, <1>3, <1>4, <1>5, NoSteps, RunStep

(* refresh_key loads an object and has it flushed by the next step.        *)
LEMMA RefreshKeyInv == Inv /\ refresh_key => Inv'
<1>. SUFFICES ASSUME Inv, refresh_key PROVE Inv'  OBVIOUS
<1>1. Step("refresh") /\ "refresh" \in UseStep /\ "refresh_flush" \in UseStep
  BY DEF refresh_key, UseStep
<1>2. Noted /\ phase' = "run" /\ UNCHANGED fields  BY <1>1, NotedAt DEF refresh_key, Step
<1>3. todo \in Seq(UseStep) /\ OpenedIsUsed(todo)  BY <1>1, AtUse
<1>4. ASSUME NEW h, NEW p \in Slot, Answered(Place(p, cache[h])), reg' = p,
             owed' = owed \cup {p}, loaded' = loaded \cup {p},
             todo' = <<"refresh_flush">> \o todo
      PROVE  Inv'
  <2>1. objects' = [objects EXCEPT ![p] = cache[h]] /\ tpm_sessions' = tpm_sessions
        /\ trouble' = trouble
    BY <1>4 DEF Answered, Place
  <2>2. Domains' /\ Maps'  BY <1>2, <2>1 DEF Inv, Domains, Maps, fields
  <2>3. Kept'
    <3>1. ASSUME NEW x, x # p, Holds(x)' PROVE Holds(x)
      BY <2>1, <3>1 DEF Holds, Inv, Domains
    <3>. QED  BY <1>4, <2>1, <3>1 DEF Inv, Kept
  <2>4. todo' \in Seq(UseStep) /\ Len(todo') = Len(todo) + 1 /\ todo'[1] = "refresh_flush"
        /\ \A i \in 1..Len(todo) : todo'[i + 1] = todo[i]
    BY <1>1, <1>3, <1>4
  <2>5. OpenedIsUsed(todo')
    <3>. SUFFICES ASSUME NEW i \in 1..Len(todo'), todo'[i] = "open"
                  PROVE  i + 1 \in 1..Len(todo') /\ todo'[i + 1] = "policy"
      BY DEF OpenedIsUsed
    <3>1. i # 1  BY <2>4
    <3>2. i - 1 \in 1..Len(todo) /\ todo[i - 1] = "open"  BY <3>1, <2>4, <1>3
    <3>3. i \in 1..Len(todo) /\ todo[i] = "policy"  BY <3>2, <1>3 DEF OpenedIsUsed
    <3>. QED  BY <3>3, <2>4
  <2>6. todo' # <<>> /\ Head(todo') = "refresh_flush"  BY <1>3, <2>4
  <2>7. NothingForgotten'  BY <1>2, <1>4, <2>6 DEF Noted, NothingForgotten, At, fields
  <2>. QED  BY <1>2, <2>2, <2>3, <2>4, <2>5, <2>7, RunStep
<1>5. ASSUME NEW h, \/ Rejected \/ OutOfMemory
                    \/ Lost(h \notin stale /\ \E p \in Slot : Place(p, cache[h])),
             UNCHANGED <<reg, owed, loaded, op, todo>>
      PROVE  Inv'
  <2>1. (UNCHANGED <<objects, tpm_sessions>> /\ trouble \subseteq trouble') \/ "lost" \in trouble'
    BY <1>5 DEF Rejected, OutOfMemory, Lost, tpm
  <2>2. (DOMAIN objects = Slot)'
    BY <1>5 DEF Inv, Domains, Rejected, OutOfMemory, Lost, Place, tpm
  <2>3. Domains' /\ Maps'  BY <1>2, <2>2 DEF Inv, Domains, Maps, fields
  <2>4. Kept'  BY <1>5, <2>1 DEF Inv, Kept, Holds
  <2>5. NothingForgotten'  BY <1>2, <1>5 DEF Noted, NothingForgotten, fields
  <2>. QED  BY <1>2, <1>3, <1>5, <2>3, <2>4, <2>5, RunStep
<1>. QED  BY <1>4, <1>5 DEF refresh_key

LEMMA RefreshFlushInv == Inv /\ refresh_flush => Inv'
<1>. SUFFICES ASSUME Inv, refresh_flush PROVE Inv'  OBVIOUS
<1>1. Step("refresh_flush") /\ "refresh_flush" \in UseStep  BY DEF refresh_flush, UseStep
<1>2. phase' = "run" /\ UNCHANGED <<fields, loaded, reg>> /\ owed' = owed \ {reg}
      /\ todo' = Tail(todo)
  BY <1>1 DEF refresh_flush, Step
<1>3. (DOMAIN objects = Slot)' /\ Kept'  BY <1>2, Flushed DEF refresh_flush
<1>4. Domains' /\ Maps'  BY <1>2, <1>3 DEF Inv, Domains, Maps, fields
<1>5. NothingForgotten'  BY <1>1, <1>2 DEF Inv, NothingForgotten, Step, fields
<1>. QED  BY <1>1, <1>2, <1>3, <1>4, <1>5, AtUse, RunStep

-----------------------------------------------------------------------------
(* Steps that let go of a handle.                                          *)

(* untrack forgets the handle in both maps.                                *)
LEMMA Untracked ==
    ASSUME Inv, NEW p, untrack(p)
    PROVE  Maps' /\ (virt_handles \in [VHandle -> Slot \cup {None}])'
<1>1. virt_handles' \in [VHandle -> Slot \cup {None}]  BY DEF Inv, Domains, untrack
<1>2. \A v \in VHandle : virt_handles'[v] = IF virt_handles[v] = p THEN None ELSE virt_handles[v]
  BY DEF untrack
<1>3. phys_handles' = phys_handles \ {p}  BY DEF untrack
<1>4. Maps'  BY <1>2, <1>3 DEF Inv, Maps
<1>. QED  BY <1>1, <1>4

LEMMA MoveInv == Inv /\ Move => Inv'
<1>. SUFFICES ASSUME Inv, Move PROVE Inv'  OBVIOUS
<1>1. Step("move") /\ "move" \in UseStep  BY DEF Move, UseStep
<1>2. Noted /\ phase' = "run" /\ UNCHANGED <<objects, tpm_sessions, sessions, trouble>>
  BY <1>1, NotedAt DEF Move, Step, tpm
<1>3. ASSUME NEW p, p = virt_handles[op.target], untrack(p), loaded' = loaded \ {p},
             owed' = owed \ {p}, todo' = Tail(todo)
      PROVE  Inv'
  <2>1. Maps' /\ Domains'  BY <1>2, <1>3, Untracked DEF Inv, Domains
  <2>2. Kept'  BY <1>2, <1>3 DEF Inv, Kept, Holds
  <2>3. NothingForgotten'  BY <1>2, <1>3 DEF Noted, NothingForgotten, untrack
  <2>. QED  BY <1>1, <1>2, <1>3, <2>1, <2>2, <2>3, AtUse, RunStep
<1>4. ASSUME Fail, UNCHANGED <<phys_handles, virt_handles, loaded, owed>>
      PROVE  Inv'
  BY <1>2, <1>4, NoSteps, QuietStep DEF Fail, fields
<1>. QED  BY <1>3, <1>4 DEF Move, Proceed

LEMMA DeleteOneInv == Inv /\ DeleteOne => Inv'
<1>. SUFFICES ASSUME Inv, DeleteOne PROVE Inv'  OBVIOUS
<1>1. Step("each") /\ "each" \in DeleteStep  BY DEF DeleteOne, DeleteStep
<1>2. phase' = "run" /\ UNCHANGED <<sessions, owed, loaded>>  BY <1>1 DEF DeleteOne, Step, ghost
<1>3. owed = {} /\ todo \in Seq(DeleteStep) /\ OpenedIsUsed(todo)  BY <1>1, AtDelete
<1>4. <<"uncache_list", "uncache">> \in Seq(DeleteStep)
      /\ OpenedIsUsed(<<"uncache_list", "uncache">>)
  BY DEF DeleteStep, OpenedIsUsed
<1>5. todo' \in {todo, <<"uncache_list", "uncache">>}  BY DEF DeleteOne
<1>6. NothingForgotten'  BY <1>2, <1>3 DEF NothingForgotten
<1>7. PICK x \in pending :
          /\ \/ FlushOk(x) \/ FlushFails(x)
             \/ Answered(Persist(x, None)) \/ Rejected \/ Lost(Persist(x, None))
          /\ untrack(x) \/ UNCHANGED <<phys_handles, virt_handles>>
  BY DEF DeleteOne
<1>8. (DOMAIN objects = Slot)' /\ Kept'
  <2>1. CASE FlushOk(x) \/ FlushFails(x)  BY <1>2, <2>1, Flushed
  <2>2. CASE Answered(Persist(x, None)) \/ Rejected \/ Lost(Persist(x, None))
    <3>1. UNCHANGED <<objects, tpm_sessions>> /\ trouble \subseteq trouble'
      BY <2>2 DEF Answered, Rejected, Lost, Persist, tpm
    <3>. QED  BY <1>2, <3>1 DEF Inv, Domains, Kept, Holds
  <2>. QED  BY <1>7, <2>1, <2>2
<1>9. Maps' /\ Domains'
  <2>1. CASE untrack(x)  BY <1>8, <2>1, Untracked DEF Domains
  <2>2. CASE UNCHANGED <<phys_handles, virt_handles>>  BY <1>8, <2>2 DEF Inv, Maps, Domains
  <2>. QED  BY <1>7, <2>1, <2>2
<1>. QED  BY <1>2, <1>3, <1>4, <1>5, <1>6, <1>8, <1>9, RunStep

-----------------------------------------------------------------------------
(* Start, end and environment.                                             *)

(* What a step outside the commands has to show when it keeps the phase or *)
(* ends the run.                                                           *)
LEMMA OtherStep ==
    ASSUME Inv, Domains', Maps', Kept', owed' \subseteq owed,
           \/ phase' = "down" /\ (exit' # "graceful" \/ owed' = {})
           \/ phase' = "start" /\ owed' = {}
           \/ UNCHANGED <<phase, todo, reg, phys_handles, sessions, pending, exit>>
    PROVE  Inv'
<1>1. Script' /\ Began' /\ Dropped' /\ Ended'
  BY DEF Inv, Script, Began, Dropped, Ended
<1>2. Opened'  BY DEF Inv, Opened, OpenedIsUsed
<1>3. NothingForgotten'  BY DEF Inv, NothingForgotten, At
<1>. QED  BY <1>1, <1>2, <1>3 DEF Inv

(* A step that neither touches the transient objects nor the maps.         *)
LEMMA Elsewhere ==
    ASSUME Inv, trouble \subseteq trouble',
           UNCHANGED <<objects, tpm_sessions, virt_handles, phys_handles, owed, loaded>>
    PROVE  Domains' /\ Maps' /\ Kept'
BY DEF Inv, Domains, Maps, Kept, Holds

(* The end of a run that leaves the TPM alone.                             *)
LEMMA EndInv ==
    ASSUME Inv, NEW how, End(how), trouble \subseteq trouble',
           UNCHANGED <<objects, tpm_sessions, owed, loaded>>,
           how # "graceful" \/ owed = {}
    PROVE  Inv'
<1>1. Maps' /\ Domains'  BY EndMaps DEF Inv, Domains
<1>2. Kept'  BY DEF Inv, Kept, Holds
<1>. QED  BY <1>1, <1>2, OtherStep DEF End

LEMMA StartInv == Inv /\ Start => Inv'
<1>. SUFFICES ASSUME Inv, Start PROVE Inv'  OBVIOUS
<1>1. Domains' /\ Maps'  BY DEF Start, Inv, Domains, Maps, tpm, fields
<1>2. Kept'  BY DEF Start, Kept
<1>3. owed' = {} /\ phase' = "start"  BY DEF Start
<1>. QED  BY <1>1, <1>2, <1>3, OtherStep

LEMMA StartingInv ==
    Inv /\ (fetch_persistent_names \/ open_cache \/ validate_list \/ validate_persistent_handles)
        => Inv'
<1>. SUFFICES ASSUME Inv, \/ fetch_persistent_names \/ open_cache \/ validate_list
                          \/ validate_persistent_handles
              PROVE  Inv'
  OBVIOUS
<1>1. phase = "start" /\ owed = {} /\ UNCHANGED <<owed, loaded>>
  BY DEF Inv, Began, fetch_persistent_names, open_cache, validate_list,
         validate_persistent_handles, ghost
<1>2. trouble \subseteq trouble' /\ UNCHANGED <<objects, tpm_sessions>>
  <2>1. CASE fetch_persistent_names  BY <2>1, QuietTransmission DEF fetch_persistent_names
  <2>2. CASE open_cache \/ validate_list  BY <2>2 DEF open_cache, validate_list, tpm
  <2>3. CASE validate_persistent_handles
    BY <2>3, QuietTransmission DEF validate_persistent_handles, ValidateOne, tpm
  <2>. QED  BY <2>1, <2>2, <2>3
<1>3. CASE phase' = "start" /\ UNCHANGED fields
  <2>1. Domains' /\ Maps' /\ Kept'  BY <1>1, <1>2, <1>3, Elsewhere DEF fields
  <2>. QED  BY <1>1, <1>3, <2>1, OtherStep
<1>4. CASE End("error")  BY <1>1, <1>2, <1>4, EndInv
<1>. QED
  BY <1>1, <1>3, <1>4 DEF fetch_persistent_names, open_cache, validate_list,
                          validate_persistent_handles

LEMMA RunInv == Inv /\ run => Inv'
<1>. SUFFICES ASSUME Inv, run PROVE Inv'  OBVIOUS
<1>1. owed = {} /\ phase' = "run" /\ UNCHANGED <<objects, tpm_sessions, fields, owed, loaded, trouble>>
  BY DEF run, Inv, Began, tpm, ghost
<1>2. Noted  BY <1>1 DEF Noted
<1>3. PICK o \in Op : todo' \in Scripts(o.cmd)  BY DEF run
<1>4. (todo' \in Seq(DeleteStep) \/ todo' \in Seq(UseStep)) /\ OpenedIsUsed(todo')
  BY <1>3, ScriptSteps
<1>. QED  BY <1>1, <1>2, <1>4, QuietStep

LEMMA LocalErrorInv == Inv /\ LocalError => Inv'
<1>. SUFFICES ASSUME Inv, LocalError PROVE Inv'  OBVIOUS
<1>1. UNCHANGED <<objects, tpm_sessions, owed, loaded, trouble>>  BY DEF LocalError, tpm
<1>2. CASE End("error")  BY <1>1, <1>2, EndInv
<1>3. ASSUME NEW step \in {"reads", "maybe", "load_key", "auth", "open", "execute",
                           "save_context", "store", "evict", "move"},
             phase = "run", At(step), Fail, UNCHANGED <<phase, fields>>
      PROVE  Inv'
  <2>1. Step(step) /\ step \in UseStep  BY <1>3 DEF Step, UseStep
  <2>2. Noted  BY <2>1, NotedAt
  <2>. QED  BY <1>1, <1>3, <2>2, NoSteps, QuietStep DEF Fail
<1>. QED  BY <1>2, <1>3 DEF LocalError

LEMMA DropInv == Inv /\ (BeginDrop \/ DropFlush \/ DropSave) => Inv'
<1>1. ASSUME Inv, BeginDrop PROVE Inv'
  <2>1. Domains' /\ Maps' /\ Kept'
    BY <1>1, Elsewhere DEF BeginDrop, tpm, fields, ghost
  <2>2. owed \subseteq phys_handles \cup sessions
    BY <1>1 DEF BeginDrop, Inv, NothingForgotten, At
  <2>3. Dropped'  BY <1>1, <2>2 DEF BeginDrop, Dropped, ghost
  <2>4. Script' /\ Opened' /\ Began' /\ NothingForgotten' /\ Ended'
    BY <1>1 DEF BeginDrop, Script, Opened, Began, NothingForgotten, Ended
  <2>. QED  BY <2>1, <2>3, <2>4 DEF Inv
<1>2. ASSUME Inv, DropFlush PROVE Inv'
  <2>1. PICK x \in pending : /\ pending' = pending \ {x} /\ owed' = owed \ {x}
                             /\ FlushOk(x) \/ FlushFails(x)
    BY <1>2 DEF DropFlush
  <2>2. phase' = "drop" /\ owed \subseteq pending /\ UNCHANGED <<fields, loaded>>
    BY <1>2 DEF DropFlush, Inv, Dropped
  <2>3. (DOMAIN objects = Slot)' /\ Kept'  BY <1>2, <2>1, <2>2, Flushed
  <2>4. Domains' /\ Maps'  BY <1>2, <2>2, <2>3 DEF Inv, Domains, Maps, fields
  <2>5. Script' /\ Opened' /\ Began' /\ NothingForgotten' /\ Dropped' /\ Ended'
    BY <2>1, <2>2 DEF Script, Opened, Began, NothingForgotten, Dropped, Ended
  <2>. QED  BY <2>3, <2>4, <2>5 DEF Inv
<1>3. ASSUME Inv, DropSave PROVE Inv'
  <2>1. owed = {}  BY <1>3 DEF DropSave, Inv, Dropped
  <2>2. trouble \subseteq trouble' /\ UNCHANGED <<objects, tpm_sessions, owed, loaded>>
        /\ End("graceful")
    BY <1>3 DEF DropSave, tpm
  <2>. QED  BY <1>3, <2>1, <2>2, EndInv
<1>. QED  BY <1>1, <1>2, <1>3

LEMMA WorldInv ==
    Inv /\ (CtrlC \/ Recover \/ Crash \/ Reboot \/ OthersFlush \/ OthersEvict) => Inv'
<1>1. ASSUME Inv, CtrlC \/ Recover \/ OthersEvict PROVE Inv'
  <2>1. UNCHANGED <<objects, tpm_sessions, proc, fields, ghost, trouble>>
    BY <1>1 DEF CtrlC, Recover, OthersEvict, Persist, tpm
  <2>2. Domains' /\ Maps' /\ Kept'  BY <1>1, <2>1, Elsewhere DEF fields, ghost
  <2>. QED  BY <1>1, <2>1, <2>2, OtherStep DEF proc, fields, ghost
<1>2. ASSUME Inv, Crash PROVE Inv'
  BY <1>2, EndInv DEF Crash, tpm
<1>3. ASSUME Inv, Reboot PROVE Inv'
  <2>1. UNCHANGED <<proc, fields, ghost>>  BY <1>3 DEF Reboot
  <2>2. Domains' /\ Maps'  BY <1>3, <2>1 DEF Reboot, NoKeys, Inv, Domains, Maps, fields
  <2>3. \A x : ~Holds(x)'  BY <1>3 DEF Reboot, NoKeys, Holds
  <2>. QED  BY <1>3, <2>1, <2>2, <2>3, OtherStep DEF Kept, proc, fields, ghost
<1>4. ASSUME Inv, OthersFlush PROVE Inv'
  <2>1. PICK p \in Slot : Flush(p) /\ owed' = owed \ {p}  BY <1>4 DEF OthersFlush
  <2>2. UNCHANGED <<proc, fields, loaded, exit>> /\ trouble \subseteq trouble'
    BY <1>4 DEF OthersFlush
  <2>3. objects' = [objects EXCEPT ![p] = None] /\ tpm_sessions' = tpm_sessions \ {p}
    BY <2>1 DEF Flush
  <2>4. Domains' /\ Maps'  BY <1>4, <2>2, <2>3 DEF Inv, Domains, Maps, fields
  <2>5. ~Holds(p)'  BY <1>4, <2>3 DEF Holds, Inv, Domains
  <2>6. ASSUME NEW y, y # p, Holds(y)' PROVE Holds(y)
    BY <1>4, <2>3, <2>6 DEF Holds, Inv, Domains
  <2>7. Kept'  BY <1>4, <2>1, <2>2, <2>5, <2>6 DEF Inv, Kept
  <2>. QED  BY <1>4, <2>1, <2>2, <2>4, <2>7, OtherStep DEF proc, fields
<1>. QED  BY <1>1, <1>2, <1>3, <1>4

-----------------------------------------------------------------------------
(* Theorems.                                                               *)

LEMMA NextInv == Inv /\ [Next]_vars => Inv'
<1>1. ASSUME Inv, Process PROVE Inv'
  BY <1>1, StartingInv, RunInv, QueryInv, LoadKeysInv, ResolveAuthInv, OpenInv, RunPolicyInv,
     FlushNewInv, NewObjectInv, StoreInv, EvictInv, MoveInv, ListHandlesInv, DeleteOneInv,
     LoopDoneInv, ListEntriesInv, UncacheInv, RefreshKeyInv, RefreshFlushInv, RefreshCacheInv,
     DropInv, Zenon
  DEF Process
<1>2. ASSUME Inv, UNCHANGED vars PROVE Inv'
  <2>1. UNCHANGED <<objects, tpm_sessions, proc, fields, ghost, trouble>>  BY <1>2 DEF vars, tpm
  <2>2. Domains' /\ Maps' /\ Kept'  BY <1>2, <2>1, Elsewhere DEF fields, ghost
  <2>. QED  BY <1>2, <2>1, <2>2, OtherStep DEF proc, fields, ghost
<1>. QED  BY <1>1, <1>2, StartInv, LocalErrorInv, WorldInv DEF Next

LEMMA InvAlways == Spec => []Inv
<1>. QED  BY InitInv, NextInv, PTL DEF Spec

(* NothingForgotten: on every path of every command, what the TPM has      *)
(* given to the run and the run has not tried to flush is in phys_handles  *)
(* or sessions, or in hand with its flush or use as the next step.         *)
THEOREM NothingIsForgotten == Spec => []NothingForgotten
<1>1. Inv => NothingForgotten  BY DEF Inv
<1>. QED  BY <1>1, InvAlways, PTL

(* HandleMaps: virt_handles leads into phys_handles and no two entries of  *)
(* the cache are taken to be loaded at the same place, also when other     *)
(* software frees handles that the TPM then gives out again (track,        *)
(* untrack).                                                               *)
THEOREM HandleMapsAgree == Spec => []HandleMaps
<1>1. Inv => HandleMaps  BY DEF Inv, Maps, HandleMaps
<1>. QED  BY <1>1, InvAlways, PTL

(* NothingLeftBehind: a run that ends by itself has tried to flush all it  *)
(* was given, and if no command was lost nothing of it is left in the TPM  *)
(* (Drop for TaskState).                                                   *)
THEOREM NothingIsLeftBehind == Spec => []NothingLeftBehind
<1>1. Inv => NothingLeftBehind  BY DEF Inv, Ended, Kept, Holds, NothingLeftBehind
<1>. QED  BY <1>1, InvAlways, PTL

-----------------------------------------------------------------------------
(* The key cache of a run: what PromisedIsDurable, EvictKeepsKey and       *)
(* DropsOnlyStale rest on.                                                 *)

Keys == Key \cup {None}

KeyTypes ==
    /\ cache \in [Handle -> Keys] /\ disk \in [Handle -> Keys]
    /\ persistent \in [PHandle -> Keys]
    /\ promised \subseteq Handle

(* What is not dirty is on disk as it is in memory.                        *)
Clean == \A h \in Handle : cache[h] # None /\ h \notin dirty => disk[h] = cache[h]

(* The steps of a start, of evict and of the listing of the memory, from   *)
(* each point on; the steps of the commands that make or use a key.        *)
NamesOn == <<"names", "cache", "validate_list", "validate">>
CacheOn == <<"cache", "validate_list", "validate">>
ListOn == <<"validate_list", "validate">>
ValidateOn == <<"validate">>
StartTodo == {NamesOn, CacheOn, ListOn, ValidateOn}

EvictOn == <<"evict", "move">>
MoveOn == <<"move">>
EvictTodo == {evict, EvictOn, MoveOn, <<"flush_new">>, <<>>}

RefreshListOn == <<"refresh_list", "refresh", "drop_stale", "reads">>
RefreshOn == <<"refresh", "drop_stale", "reads">>
InHandOn == <<"refresh_flush">> \o RefreshOn
DropOn == <<"drop_stale", "reads">>
ReadsOn == <<"reads">>
MemoryTodo == {list_all_memory, RefreshListOn, RefreshOn, InHandOn, DropOn, ReadsOn, <<>>}

MakeStep ==
    {"reads", "maybe", "execute", "save_context", "load_key", "auth", "secret", "open",
     "policy", "flush_new", "new_object", "store"}

(* Outside a command nothing is loaded or going to be dropped, and a run   *)
(* has promised nothing when it starts.                                    *)
Outside ==
    phase \in {"down", "start"} =>
        /\ virt_handles = NoKeys(VHandle) /\ dropping = {}
        /\ phase = "down" => cache = NoKeys(Handle)
        /\ phase = "start" =>
             /\ promised = {} /\ todo \in StartTodo
             /\ Head(todo) \in {"names", "cache"} => cache = NoKeys(Handle)
             /\ Head(todo) = "validate" => pending \subseteq PHandle

(* No key is below itself.                                                 *)
Acyclic ==
    \A k \in Key : \E S \in SUBSET Key :
        k \in S /\ Parent[k] \notin S /\ \A j \in Key : Parent[j] \in S => j \in S

(* What is printed or made persistent is cached, and the command is over;  *)
(* it is on disk when the run has ended. evict removes what is below the   *)
(* entry it replaces, which must not be the new entry itself.              *)
PromisedIsCached ==
    /\ Acyclic /\ phase \in {"run", "drop"} => \A h \in promised : cache[h] # None
    /\ phase = "run" /\ promised # {} => todo = <<>>
Durable ==
    Acyclic /\ phase = "down" /\ exit = "graceful" /\ "disk" \notin trouble =>
        \A h \in promised : disk[h] # None

(* The commands, and where they stand. A key is stored by the last step of *)
(* the command that makes it; evict knows the object it has loaded, until  *)
(* that is persistent.                                                     *)
Deleting == op.cmd = "delete" /\ todo \in Seq(DeleteStep) /\ dropping = {}

Listing ==
    /\ op.cmd = "memory" /\ {"cmd", "target"} \subseteq DOMAIN op
    /\ todo \in MemoryTodo
    /\ todo \in {RefreshOn, InHandOn} => pending \subseteq Cached

StoreIsLast(s, k) == \A i \in 1..Len(s) : s[i] = "store" => i = Len(s) /\ k \in Key
Making ==
    /\ op.cmd \in {"create_primary", "load", "use", "plain"}
    /\ todo \in Seq(MakeStep) /\ StoreIsLast(todo, op.key)
    /\ dropping = {}

Evicting ==
    /\ op.cmd = "evict" /\ todo \in EvictTodo /\ dropping = {}
    /\ op.target \in VHandle /\ op.out \in PHandle
    /\ todo = evict => virt_handles = NoKeys(VHandle)
    /\ todo = EvictOn =>
         /\ virt_handles[op.target] \in Slot /\ cache[op.target] \in Key
         /\ objects[virt_handles[op.target]] \in {cache[op.target], None}
    /\ todo = MoveOn =>
         cache[op.target] \in Key /\ persistent[op.out] = cache[op.target]

Course == phase = "run" => Deleting \/ Listing \/ Making \/ Evicting

(* Without trouble only stale entries are going to be dropped, and what    *)
(* refresh_key has in hand is there.                                       *)
Doomed ==
    phase = "run" /\ trouble = {} =>
        dropping \subseteq stale /\ (At("refresh_flush") => Holds(reg))

KeyInv ==
    /\ KeyTypes /\ Clean /\ Outside /\ PromisedIsCached /\ Course /\ Doomed
    /\ Durable

-----------------------------------------------------------------------------
(* Lists of steps.                                                         *)

(* A list with a step in front.                                            *)
LEMMA Prepend ==
    ASSUME NEW S, NEW x \in S, NEW s \in Seq(S)
    PROVE  /\ <<x>> \o s \in Seq(S) /\ <<x>> \o s # <<>>
           /\ Len(<<x>> \o s) = Len(s) + 1
           /\ Head(<<x>> \o s) = x /\ Tail(<<x>> \o s) = s
           /\ (<<x>> \o s)[1] = x /\ \A i \in 1..Len(s) : (<<x>> \o s)[i + 1] = s[i]
<1>1. /\ <<x>> \o s \in Seq(S) /\ Len(<<x>> \o s) = Len(s) + 1
      /\ (<<x>> \o s)[1] = x /\ \A i \in 1..Len(s) : (<<x>> \o s)[i + 1] = s[i]
  OBVIOUS
<1>. DEFINE t == <<x>> \o s
<1>. HIDE DEF t
<1>2. t \in Seq(S) /\ Len(t) = Len(s) + 1 /\ t[1] = x /\ \A i \in 1..Len(s) : t[i + 1] = s[i]
  BY <1>1 DEF t
<1>3. t # <<>> /\ Head(t) = x  BY <1>2
<1>4. Tail(t) \in Seq(S) /\ Len(Tail(t)) = Len(s)  BY <1>2, <1>3
<1>5. \A i \in 1..Len(s) : Tail(t)[i] = s[i]  BY <1>2, <1>3
<1>6. Tail(t) = s  BY <1>4, <1>5
<1>. QED  BY <1>1, <1>3, <1>6 DEF t

(* Where a start, evict and the listing go from each step.                 *)
LEMMA StartLists ==
    /\ NamesOn # <<>> /\ Head(NamesOn) = "names" /\ Tail(NamesOn) = CacheOn
    /\ CacheOn # <<>> /\ Head(CacheOn) = "cache" /\ Tail(CacheOn) = ListOn
    /\ ListOn # <<>> /\ Head(ListOn) = "validate_list" /\ Tail(ListOn) = ValidateOn
    /\ ValidateOn # <<>> /\ Head(ValidateOn) = "validate"
<1>1. NamesOn # <<>> /\ Head(NamesOn) = "names" /\ Tail(NamesOn) = CacheOn
  BY DEF NamesOn, CacheOn
<1>2. CacheOn # <<>> /\ Head(CacheOn) = "cache" /\ Tail(CacheOn) = ListOn
  BY DEF CacheOn, ListOn
<1>3. ListOn # <<>> /\ Head(ListOn) = "validate_list" /\ Tail(ListOn) = ValidateOn
  BY DEF ListOn, ValidateOn
<1>4. ValidateOn # <<>> /\ Head(ValidateOn) = "validate"  BY DEF ValidateOn
<1>. QED  BY <1>1, <1>2, <1>3, <1>4

LEMMA EvictLists ==
    /\ evict # <<>> /\ Head(evict) = "load_key" /\ Tail(evict) = EvictOn
    /\ EvictOn # <<>> /\ Head(EvictOn) = "evict" /\ Tail(EvictOn) = MoveOn
    /\ MoveOn # <<>> /\ Head(MoveOn) = "move" /\ Tail(MoveOn) = <<>>
    /\ <<"flush_new">> # <<>> /\ Head(<<"flush_new">>) = "flush_new"
<1>1. evict # <<>> /\ Head(evict) = "load_key" /\ Tail(evict) = EvictOn  BY DEF evict, EvictOn
<1>2. EvictOn # <<>> /\ Head(EvictOn) = "evict" /\ Tail(EvictOn) = MoveOn  BY DEF EvictOn, MoveOn
<1>3. MoveOn # <<>> /\ Head(MoveOn) = "move" /\ Tail(MoveOn) = <<>>  BY DEF MoveOn
<1>4. <<"flush_new">> # <<>> /\ Head(<<"flush_new">>) = "flush_new"  OBVIOUS
<1>. QED  BY <1>1, <1>2, <1>3, <1>4

LEMMA MemoryLists ==
    /\ list_all_memory # <<>> /\ Head(list_all_memory) = "reads"
    /\ Tail(list_all_memory) = RefreshListOn
    /\ RefreshListOn # <<>> /\ Head(RefreshListOn) = "refresh_list" /\ Tail(RefreshListOn) = RefreshOn
    /\ RefreshOn # <<>> /\ Head(RefreshOn) = "refresh" /\ Tail(RefreshOn) = DropOn
    /\ InHandOn # <<>> /\ Head(InHandOn) = "refresh_flush" /\ Tail(InHandOn) = RefreshOn
    /\ DropOn # <<>> /\ Head(DropOn) = "drop_stale" /\ Tail(DropOn) = ReadsOn
    /\ ReadsOn # <<>> /\ Head(ReadsOn) = "reads" /\ Tail(ReadsOn) = <<>>
<1>1. list_all_memory # <<>> /\ Head(list_all_memory) = "reads"  BY DEF list_all_memory
<1>2. Tail(list_all_memory) = RefreshListOn  BY DEF list_all_memory, RefreshListOn
<1>3. RefreshListOn # <<>> /\ Head(RefreshListOn) = "refresh_list"  BY DEF RefreshListOn
<1>4. Tail(RefreshListOn) = RefreshOn  BY DEF RefreshListOn, RefreshOn
<1>5. RefreshOn # <<>> /\ Head(RefreshOn) = "refresh" /\ Tail(RefreshOn) = DropOn
  BY DEF RefreshOn, DropOn
<1>6. RefreshOn \in Seq({"refresh_flush", "refresh", "drop_stale", "reads"})  BY DEF RefreshOn
<1>7. InHandOn # <<>> /\ Head(InHandOn) = "refresh_flush" /\ Tail(InHandOn) = RefreshOn
  BY <1>6, Prepend DEF InHandOn
<1>8. DropOn # <<>> /\ Head(DropOn) = "drop_stale" /\ Tail(DropOn) = ReadsOn  BY DEF DropOn, ReadsOn
<1>9. ReadsOn # <<>> /\ Head(ReadsOn) = "reads" /\ Tail(ReadsOn) = <<>>  BY DEF ReadsOn
<1>. QED  BY <1>1, <1>2, <1>3, <1>4, <1>5, <1>7, <1>8, <1>9

(* Which command is running is seen from the step it is at.                *)
LEMMA WhichCommand ==
    ASSUME KeyInv, NEW step, Step(step)
    PROVE  /\ phase = "run" /\ todo # <<>> /\ Head(todo) = step /\ promised = {}
           /\ step \in DeleteStep => Deleting
           /\ step \in {"refresh_list", "refresh", "refresh_flush", "drop_stale"} => Listing
           /\ step \in {"evict", "move"} => Evicting
           /\ step \in MakeStep \ {"reads", "load_key", "flush_new"} => Making
           /\ step = "reads" => Making \/ Listing
           /\ step \in {"load_key", "flush_new"} => Making \/ Evicting
<1>1. phase = "run" /\ todo # <<>> /\ Head(todo) = step  BY DEF Step, At
<1>2. promised = {} /\ (Deleting \/ Listing \/ Making \/ Evicting)
  BY <1>1 DEF KeyInv, PromisedIsCached, Course
<1>3. Deleting => step \in DeleteStep  BY <1>1, TailSteps DEF Deleting
<1>4. Making => step \in MakeStep  BY <1>1, TailSteps DEF Making
<1>5. Listing => step \in {"reads", "refresh_list", "refresh", "refresh_flush", "drop_stale"}
  BY <1>1, MemoryLists DEF Listing, MemoryTodo
<1>6. Evicting => step \in {"load_key", "evict", "move", "flush_new"}
  BY <1>1, EvictLists DEF Evicting, EvictTodo
<1>. QED  BY <1>1, <1>2, <1>3, <1>4, <1>5, <1>6 DEF DeleteStep, MakeStep

(* The rest of a list that stores last stores last.                        *)
LEMMA StoreTail ==
    ASSUME NEW S, NEW s \in Seq(S), s # <<>>, NEW k, StoreIsLast(s, k)
    PROVE  StoreIsLast(Tail(s), k)
<1>1. Len(s) \in Nat /\ Len(s) >= 1 /\ Len(Tail(s)) = Len(s) - 1  OBVIOUS
<1>2. \A i \in 1..Len(Tail(s)) : Tail(s)[i] = s[i + 1]  OBVIOUS
<1>3. ASSUME NEW i \in 1..Len(Tail(s)), Tail(s)[i] = "store"
      PROVE  i = Len(Tail(s)) /\ k \in Key
  <2>1. i + 1 \in 1..Len(s) /\ s[i + 1] = "store"  BY <1>1, <1>2, <1>3
  <2>2. i + 1 = Len(s) /\ k \in Key  BY <2>1 DEF StoreIsLast
  <2>3. i \in Nat /\ Len(Tail(s)) = Len(s) - 1  BY <1>1
  <2>4. \A a \in Nat : \A b : i + 1 = a /\ b = a - 1 => i = b  BY <2>3
  <2>5. i = Len(Tail(s))  BY <1>1, <2>2, <2>4, Zenon
  <2>. QED  BY <2>2, <2>5
<1>. QED  BY <1>3 DEF StoreIsLast

(* So does one with another step in front.                                 *)
LEMMA StorePrepend ==
    ASSUME NEW x \in MakeStep \ {"store"}, NEW s \in Seq(MakeStep), NEW k, StoreIsLast(s, k)
    PROVE  <<x>> \o s \in Seq(MakeStep) /\ StoreIsLast(<<x>> \o s, k)
<1>1. <<x>> \o s \in Seq(MakeStep) /\ Len(<<x>> \o s) = Len(s) + 1 /\ (<<x>> \o s)[1] = x
  BY Prepend
<1>2. \A i \in 1..Len(s) : (<<x>> \o s)[i + 1] = s[i]  BY Prepend
<1>3. ASSUME NEW i \in 1..Len(<<x>> \o s), (<<x>> \o s)[i] = "store"
      PROVE  i = Len(<<x>> \o s) /\ k \in Key
  <2>1. i # 1  BY <1>1, <1>3
  <2>2. i - 1 \in 1..Len(s) /\ s[i - 1] = "store"  BY <2>1, <1>1, <1>2, <1>3
  <2>. QED  BY <2>2, <1>1 DEF StoreIsLast
<1>. QED  BY <1>1, <1>3 DEF StoreIsLast

(* A command that makes or uses a key goes on, gives up, or has to flush   *)
(* what it has in hand.                                                    *)
LEMMA MakingOn ==
    ASSUME Making, todo # <<>>, UNCHANGED <<op, dropping>>,
           todo' \in {todo, Tail(todo), <<>>, <<"flush_new">>}
    PROVE  Making' /\ ~At("refresh_flush")'
<1>1. todo' \in Seq(MakeStep) /\ StoreIsLast(todo', op.key)
  <2>1. CASE todo' = Tail(todo)  BY <2>1, TailSteps, StoreTail DEF Making
  <2>2. CASE todo' \in {<<>>, <<"flush_new">>}
    <3>1. <<"flush_new">> \in Seq(MakeStep) /\ <<>> \in Seq(MakeStep)  BY DEF MakeStep
    <3>2. StoreIsLast(<<"flush_new">>, op.key) /\ StoreIsLast(<<>>, op.key)  BY DEF StoreIsLast
    <3>. QED  BY <2>2, <3>1, <3>2
  <2>3. CASE todo' = todo  BY <2>3 DEF Making
  <2>. QED  BY <2>1, <2>2, <2>3
<1>2. Making'  BY <1>1 DEF Making, StoreIsLast
<1>3. ASSUME todo' # <<>> PROVE Head(todo') \in MakeStep  BY <1>1, <1>3, TailSteps
<1>. QED  BY <1>2, <1>3 DEF At, MakeStep

-----------------------------------------------------------------------------
(* Steps of a command that leave the cache alone.                          *)

keys == <<cache, dirty, disk, persistent, promised>>

(* What such a step has to show.                                           *)
LEMMA KeysSame ==
    ASSUME KeyInv, phase = "run", phase' = "run", promised = {}, UNCHANGED keys,
           Course', Doomed'
    PROVE  KeyInv'
<1>1. KeyTypes' /\ Clean' /\ PromisedIsCached' /\ Outside' /\ Durable'
  BY DEF keys, KeyInv, KeyTypes, Clean, PromisedIsCached, Outside, Durable
<1>. QED  BY <1>1 DEF KeyInv

(* A step of a command that makes or uses a key, but does not store it.    *)
LEMMA MakingStep ==
    ASSUME KeyInv, NEW step, Step(step), Making, phase' = phase, UNCHANGED <<op, dropping>>,
           UNCHANGED keys, trouble \subseteq trouble', UNCHANGED stale,
           todo' \in {todo, Tail(todo), <<>>, <<"flush_new">>}
    PROVE  KeyInv'
<1>1. phase = "run" /\ todo # <<>> /\ promised = {}  BY WhichCommand
<1>2. Making' /\ ~At("refresh_flush")'  BY <1>1, MakingOn
<1>3. Course'  BY <1>2 DEF Course
<1>4. Doomed'  BY <1>2 DEF Doomed, Making
<1>. QED  BY <1>1, <1>3, <1>4, KeysSame

(* A step of evict that gives up, or flushes what it has in hand.          *)
LEMMA EvictingEnds ==
    ASSUME KeyInv, NEW step, Step(step), Evicting, phase' = phase, UNCHANGED <<op, dropping>>,
           UNCHANGED keys, todo' \in {<<>>, <<"flush_new">>}
    PROVE  KeyInv'
<1>1. phase = "run" /\ promised = {}  BY WhichCommand
<1>2. Evicting' /\ ~At("refresh_flush")'  BY EvictLists DEF Evicting, EvictTodo, At
<1>3. Course'  BY <1>2 DEF Course
<1>4. Doomed'  BY <1>2 DEF Doomed, Evicting
<1>. QED  BY <1>1, <1>3, <1>4, KeysSame

(* Transmissions without effect on the TPM.                                *)
LEMMA QuietTpm ==
    ASSUME Answered(UNCHANGED tpm) \/ Rejected \/ OutOfMemory \/ Lost(UNCHANGED tpm)
    PROVE  trouble \subseteq trouble' /\ UNCHANGED tpm
BY DEF Answered, Rejected, OutOfMemory, Lost

LEMMA QueryKeys == KeyInv /\ Query => KeyInv'
<1>. SUFFICES ASSUME KeyInv, Query PROVE KeyInv'  OBVIOUS
<1>1. PICK step \in {"reads", "maybe", "execute", "save_context"} : Step(step)  BY DEF Query
<1>2. todo' = Tail(todo) \/ todo' = <<>>  BY DEF Query, Proceed, Fail
<1>3. trouble \subseteq trouble' /\ UNCHANGED tpm  BY QuietTpm DEF Query
<1>4. UNCHANGED <<keys, phase, op, dropping, stale, pending, reg>>
  BY <1>3 DEF Query, keys, ghost, tpm
<1>5. CASE Making  BY <1>1, <1>2, <1>3, <1>4, <1>5, MakingStep
<1>6. CASE Listing /\ ~Making
  <2>1. step = "reads" /\ phase = "run" /\ promised = {} /\ Head(todo) = step
    BY <1>1, <1>6, WhichCommand DEF MakeStep
  <2>2. todo' \in {RefreshListOn, <<>>}
    BY <1>1, <1>2, <1>6, <2>1, MemoryLists DEF Listing, MemoryTodo, Step, At
  <2>3. Listing' /\ ~At("refresh_flush")'
    BY <1>4, <1>6, <2>2, MemoryLists DEF Listing, MemoryTodo, At
  <2>4. Course' /\ Doomed'  BY <1>3, <1>4, <2>1, <2>3 DEF Course, Doomed, KeyInv
  <2>. QED  BY <1>4, <2>1, <2>4, KeysSame
<1>. QED  BY <1>1, <1>5, <1>6, WhichCommand DEF MakeStep

-----------------------------------------------------------------------------
(* Commands that make or use a key, and evict.                             *)

LEMMA LoadKeyFrame ==
    ASSUME NEW h, load_key_by_handle(h)
    PROVE  /\ trouble \subseteq trouble' /\ UNCHANGED persistent
           /\ todo' \in {Tail(todo), <<>>, <<"flush_new">>}
<1>1. CASE LoadContext(h)
  BY <1>1 DEF LoadContext, Answered, Place, Lost, Rejected, track, Proceed, Fail, tpm
<1>2. CASE ~LoadContext(h)  BY <1>2 DEF load_key_by_handle, Proceed, Fail, tpm
<1>. QED  BY <1>1, <1>2

LEMMA LoadKeyKeys == KeyInv /\ Inv /\ LoadKey => KeyInv'
<1>. SUFFICES ASSUME KeyInv, Inv, LoadKey PROVE KeyInv'  OBVIOUS
<1>1. Step("load_key") /\ load_key_by_handle(op.target)  BY DEF LoadKey
<1>2. UNCHANGED <<keys, phase, op, dropping, stale>> /\ trouble \subseteq trouble'
  BY <1>1, LoadKeyFrame DEF LoadKey, keys
<1>3. todo' \in {Tail(todo), <<>>, <<"flush_new">>}  BY <1>1, LoadKeyFrame
<1>4. phase = "run" /\ promised = {} /\ (Making \/ Evicting)  BY <1>1, WhichCommand
<1>5. CASE Making  BY <1>1, <1>2, <1>3, <1>5, MakingStep
<1>6. CASE Evicting /\ todo' \in {<<>>, <<"flush_new">>}  BY <1>1, <1>2, <1>6, EvictingEnds
<1>7. CASE Evicting /\ todo' \notin {<<>>, <<"flush_new">>}
  <2>1. todo = evict /\ todo' = EvictOn
    BY <1>1, <1>3, <1>7, EvictLists DEF Evicting, EvictTodo, Step, At
  <2>2. op.target \in VHandle /\ virt_handles = NoKeys(VHandle)  BY <1>7, <2>1 DEF Evicting
  <2>3. virt_handles[op.target] = None /\ op.target \notin PHandle
    BY <2>2, HandleAssumption DEF NoKeys
  <2>4. cache[op.target] # None /\ LoadContext(op.target)
    BY <1>1, <1>7, <2>3 DEF load_key_by_handle, Fail
  <2>5. PICK p \in Slot : /\ Answered(Place(p, cache[op.target]))
                          /\ virt_handles' = [virt_handles EXCEPT ![op.target] = p]
    BY <1>7, <2>4 DEF LoadContext, Fail
  <2>6. virt_handles'[op.target] = p  BY <2>2, <2>5 DEF NoKeys
  <2>7. objects'[p] = cache[op.target]  BY <2>5 DEF Answered, Place, Inv, Domains
  <2>8. cache[op.target] \in Key  BY <2>2, <2>4 DEF KeyInv, KeyTypes, Keys, Handle
  <2>9. Evicting' /\ ~At("refresh_flush")'
    BY <1>2, <1>7, <2>1, <2>6, <2>7, <2>8, EvictLists DEF Evicting, EvictTodo, At, keys
  <2>10. Course' /\ Doomed'  BY <1>7, <1>2, <2>9 DEF Course, Doomed, Evicting
  <2>. QED  BY <1>2, <1>4, <2>10, KeysSame
<1>. QED  BY <1>4, <1>5, <1>6, <1>7

LEMMA SecretKeys == KeyInv /\ load_policy_secret => KeyInv'
<1>. SUFFICES ASSUME KeyInv, load_policy_secret PROVE KeyInv'  OBVIOUS
<1>1. Step("secret") /\ Making  BY WhichCommand DEF load_policy_secret, MakeStep
<1>2. /\ trouble \subseteq trouble' /\ UNCHANGED persistent
      /\ todo' \in {Tail(todo), <<>>, <<"flush_new">>}
  <2>1. CASE \E h \in Cached : load_key_by_handle(h)  BY <2>1, LoadKeyFrame
  <2>2. CASE Fail /\ UNCHANGED <<tpm, trouble>>  BY <2>2 DEF Fail, tpm
  <2>. QED  BY <2>1, <2>2 DEF load_policy_secret
<1>3. UNCHANGED <<keys, phase, op, dropping, stale>>  BY <1>2 DEF load_policy_secret, keys
<1>. QED  BY <1>1, <1>2, <1>3, MakingStep

LEMMA AuthKeys == KeyInv /\ resolve_auth => KeyInv'
<1>. SUFFICES ASSUME KeyInv, resolve_auth PROVE KeyInv'  OBVIOUS
<1>1. Step("auth") /\ Making  BY WhichCommand DEF resolve_auth, MakeStep
<1>2. phase = "run" /\ promised = {} /\ todo # <<>>  BY <1>1, WhichCommand
<1>3. UNCHANGED <<keys, phase, op, dropping, stale, trouble>>
  BY DEF resolve_auth, keys, tpm, ghost
<1>. DEFINE t == Tail(todo)
<1>4. t \in Seq(MakeStep) /\ StoreIsLast(t, op.key)
  BY <1>1, <1>2, TailSteps, StoreTail DEF Making
<1>5. todo' \in {t, <<"reads">> \o t, <<>> \o <<"open", "policy">> \o t,
                 <<"secret">> \o <<"open", "policy">> \o t}
  BY DEF resolve_auth
<1>. HIDE DEF t
<1>6. <<"open", "policy">> \o t = <<"open">> \o (<<"policy">> \o t)
  BY <1>4
<1>7. <<>> \o <<"open", "policy">> \o t = <<"open", "policy">> \o t  BY <1>4
<1>8. <<"secret">> \o <<"open", "policy">> \o t = <<"secret">> \o (<<"open", "policy">> \o t)
  BY <1>4
<1>9. {"reads", "secret", "open", "policy"} \subseteq MakeStep \ {"store"}  BY DEF MakeStep
<1>10. <<"open", "policy">> \o t \in Seq(MakeStep) /\ StoreIsLast(<<"open", "policy">> \o t, op.key)
  BY <1>4, <1>6, <1>9, StorePrepend
<1>11. todo' \in Seq(MakeStep) /\ StoreIsLast(todo', op.key)
  BY <1>4, <1>5, <1>7, <1>8, <1>9, <1>10, StorePrepend
<1>12. Making'  BY <1>1, <1>3, <1>11 DEF Making, StoreIsLast
<1>13. todo' # <<>> => Head(todo') \in MakeStep  BY <1>11, TailSteps
<1>14. Course' /\ Doomed'  BY <1>12, <1>13 DEF Course, Doomed, Making, At, MakeStep
<1>. QED  BY <1>2, <1>3, <1>14, KeysSame

LEMMA OpenKeys == KeyInv /\ (open \/ run_policy \/ NewObject) => KeyInv'
<1>. SUFFICES ASSUME KeyInv, open \/ run_policy \/ NewObject PROVE KeyInv'  OBVIOUS
<1>1. PICK step \in {"open", "policy", "new_object"} : Step(step)
  BY DEF open, run_policy, NewObject
<1>2. Making  BY <1>1, WhichCommand DEF MakeStep
<1>3. /\ trouble \subseteq trouble' /\ UNCHANGED persistent
      /\ todo' \in {Tail(todo), <<>>, <<"flush_new">>}
  <2>1. CASE open
    BY <2>1 DEF open, Answered, Rejected, Lost, StartSession, Proceed, Fail, tpm
  <2>2. CASE run_policy
    BY <2>2 DEF run_policy, Answered, Rejected, Lost, Proceed, tpm
  <2>3. CASE NewObject
    BY <2>3 DEF NewObject, Answered, Rejected, Lost, Place, track, Proceed, Fail, tpm
  <2>. QED  BY <2>1, <2>2, <2>3
<1>4. UNCHANGED <<keys, phase, op, dropping, stale>>
  BY <1>3 DEF open, run_policy, NewObject, keys, ghost
<1>. QED  BY <1>1, <1>2, <1>3, <1>4, MakingStep

LEMMA FlushFrame ==
    ASSUME NEW x, FlushOk(x) \/ FlushFails(x)
    PROVE  trouble \subseteq trouble' /\ UNCHANGED persistent
BY DEF FlushOk, FlushFails, Answered, Rejected, Lost, Flush, tpm

LEMMA FlushNewKeys == KeyInv /\ FlushNew => KeyInv'
<1>. SUFFICES ASSUME KeyInv, FlushNew PROVE KeyInv'  OBVIOUS
<1>1. Step("flush_new") /\ (Making \/ Evicting)  BY WhichCommand DEF FlushNew
<1>2. todo' = <<>> /\ trouble \subseteq trouble' /\ UNCHANGED persistent
  BY FlushFrame DEF FlushNew, Fail
<1>3. UNCHANGED <<keys, phase, op, dropping, stale>>  BY <1>2 DEF FlushNew, keys
<1>. QED  BY <1>1, <1>2, <1>3, MakingStep, EvictingEnds

LEMMA StoreEnds ==
    ASSUME NEW S, NEW s \in Seq(S), s # <<>>, NEW k, StoreIsLast(s, k), Head(s) = "store"
    PROVE  Tail(s) = <<>> /\ k \in Key
<1>1. Len(s) \in Nat /\ Len(s) >= 1 /\ Head(s) = s[1]  OBVIOUS
<1>2. 1 \in 1..Len(s) /\ s[1] = "store"  BY <1>1
<1>3. 1 = Len(s) /\ k \in Key  BY <1>2, Zenon DEF StoreIsLast
<1>4. Tail(s) \in Seq(S) /\ Len(Tail(s)) = Len(s) - 1  OBVIOUS
<1>5. \A t \in Seq(S) : Len(t) = 0 => t = <<>>  OBVIOUS
<1>6. 1 - 1 = 0  OBVIOUS
<1>. QED  BY <1>3, <1>4, <1>5, <1>6, Zenon

(* The store is the last step: the handle is printed, and that is all.     *)
LEMMA StoreKeys == KeyInv /\ Store => KeyInv'
<1>. SUFFICES ASSUME KeyInv, Store PROVE KeyInv'  OBVIOUS
<1>1. Step("store") /\ Making  BY WhichCommand DEF Store, MakeStep
<1>2. phase = "run" /\ promised = {} /\ todo # <<>> /\ Head(todo) = "store"
  BY <1>1, WhichCommand
<1>3. todo \in Seq(MakeStep) /\ StoreIsLast(todo, op.key)  BY <1>1 DEF Making
<1>7. Tail(todo) = <<>> /\ op.key \in Key  BY <1>2, <1>3, StoreEnds
<1>8. todo' = <<>>  BY <1>7 DEF Store, Proceed, Fail
<1>9. UNCHANGED <<disk, persistent, phase, op, dropping>>  BY DEF Store, tpm
<1>10. Making'  BY <1>1, <1>2, <1>8, <1>9, MakingOn
<1>11. Course' /\ Doomed'  BY <1>8, <1>10 DEF Course, Doomed, Making, At
<1>12. Outside' /\ Durable'  BY <1>2, <1>9 DEF Outside, Durable
<1>13. CASE \E v \in VHandle : cache[v] = None /\ cache' = [cache EXCEPT ![v] = op.key]
                               /\ dirty' = dirty \cup {v} /\ promised' = promised \cup {v}
  <2>. PICK v \in VHandle : /\ cache[v] = None /\ cache' = [cache EXCEPT ![v] = op.key]
                            /\ dirty' = dirty \cup {v} /\ promised' = promised \cup {v}
    BY <1>13
  <2>1. v \in Handle /\ op.key # None  BY <1>7, HandleAssumption DEF Handle
  <2>2. KeyTypes'  BY <1>2, <1>7, <1>9, <2>1 DEF KeyInv, KeyTypes, Keys
  <2>3. cache'[v] # None /\ \A h \in Handle : h # v => cache'[h] = cache[h]
    BY <2>1 DEF KeyInv, KeyTypes
  <2>4. Clean'  BY <1>9, <2>3 DEF KeyInv, Clean
  <2>5. PromisedIsCached'  BY <1>2, <1>8, <2>3 DEF PromisedIsCached
  <2>. QED  BY <1>11, <1>12, <2>2, <2>4, <2>5 DEF KeyInv
<1>14. CASE UNCHANGED <<cache, dirty, promised>>
  BY <1>2, <1>9, <1>11, <1>14, KeysSame DEF keys
<1>. QED  BY <1>13, <1>14 DEF Store

(* A step that leaves the cache alone and changes a persistent object.     *)
LEMMA PersistentChanges ==
    ASSUME KeyInv, phase = "run", phase' = "run", promised = {},
           UNCHANGED <<cache, dirty, disk, promised>>, persistent' \in [PHandle -> Keys],
           Course', Doomed'
    PROVE  KeyInv'
<1>1. KeyTypes' /\ Clean' /\ PromisedIsCached' /\ Outside' /\ Durable'
  BY DEF KeyInv, KeyTypes, Clean, PromisedIsCached, Outside, Durable
<1>. QED  BY <1>1 DEF KeyInv

LEMMA EvictKeys == KeyInv /\ Evict => KeyInv'
<1>. SUFFICES ASSUME KeyInv, Evict PROVE KeyInv'  OBVIOUS
<1>1. Step("evict") /\ Evicting /\ phase = "run" /\ promised = {}  BY WhichCommand DEF Evict
<1>2. todo = EvictOn  BY <1>1, EvictLists DEF Evicting, EvictTodo, Step, At
<1>. DEFINE k == objects[virt_handles[op.target]]
            Effect == persistent[op.out] = None /\ k # None /\ Persist(op.out, k)
<1>3. UNCHANGED <<cache, dirty, disk, promised, phase, op, dropping, fields>>
  BY DEF Evict, ghost
<1>4. \/ Effect /\ todo' = MoveOn
      \/ (Effect \/ UNCHANGED tpm) /\ todo' = <<>>
  BY <1>2, EvictLists DEF Evict, Answered, Rejected, Lost, Proceed, Fail
<1>5. op.out \in PHandle /\ cache[op.target] \in Key /\ k \in {cache[op.target], None}
  BY <1>1, <1>2 DEF Evicting
<1>. HIDE DEF k
<1>6. ASSUME Effect
      PROVE  persistent' \in [PHandle -> Keys] /\ persistent'[op.out] = cache[op.target]
  BY <1>5, <1>6 DEF Persist, KeyInv, KeyTypes, Keys
<1>7. persistent' \in [PHandle -> Keys]  BY <1>4, <1>6 DEF tpm, KeyInv, KeyTypes
<1>8. Evicting' /\ ~At("refresh_flush")'
  <2>1. CASE todo' = MoveOn
    <3>1. Effect  BY <1>4, <2>1, EvictLists
    <3>. QED  BY <1>1, <1>3, <1>5, <1>6, <2>1, <3>1, EvictLists DEF Evicting, EvictTodo, At
  <2>2. CASE todo' = <<>>  BY <1>1, <1>3, <2>2, EvictLists DEF Evicting, EvictTodo, At
  <2>. QED  BY <1>4, <2>1, <2>2
<1>9. Course' /\ Doomed'  BY <1>8 DEF Course, Doomed, Evicting
<1>. QED  BY <1>1, <1>3, <1>7, <1>9, PersistentChanges

-----------------------------------------------------------------------------
(* Removals.                                                               *)

LEMMA RemoveClean ==
    ASSUME KeyTypes, Clean, NEW S, RemoveSet(S)
    PROVE  /\ cache' \in [Handle -> Keys] /\ disk' \in [Handle -> Keys] /\ Clean'
           /\ \A h \in Handle : cache'[h] = IF h \in S THEN None ELSE cache[h]
<1>1. cache' = [h \in Handle |-> IF h \in S THEN None ELSE cache[h]]
      /\ disk' = [h \in Handle |-> IF h \in S THEN None ELSE disk[h]]
  BY DEF RemoveSet, Without, KeyTypes
<1>2. cache' \in [Handle -> Keys] /\ disk' \in [Handle -> Keys]  BY <1>1 DEF KeyTypes, Keys
<1>3. Clean'  BY <1>1 DEF Clean, RemoveSet
<1>. QED  BY <1>1, <1>2, <1>3

(* All removals of a command are of this form.                             *)
LEMMA RemoveSome ==
    ASSUME KeyTypes, Clean, NEW h,
           remove(h) \/ RemoveFails(h) \/ UNCHANGED <<cache, dirty, disk>>
    PROVE  /\ cache' \in [Handle -> Keys] /\ disk' \in [Handle -> Keys] /\ Clean'
           /\ \A g \in Handle : cache'[g] = cache[g]
                             \/ (g \in Removed(cache, h) /\ ~UNCHANGED <<cache, dirty, disk>>)
<1>1. CASE UNCHANGED <<cache, dirty, disk>>  BY <1>1 DEF KeyTypes, Clean
<1>2. CASE ~UNCHANGED <<cache, dirty, disk>>
  <2>1. PICK S \in SUBSET Removed(cache, h) : RemoveSet(S)
    BY <1>2 DEF remove, RemoveFails, PartsOf
  <2>. QED  BY <1>2, <2>1, RemoveClean
<1>. QED  BY <1>1, <1>2

(* What a step of a command that removes entries has to show.              *)
LEMMA RemovingStep ==
    ASSUME KeyInv, phase = "run", phase' = "run", promised = {}, UNCHANGED <<persistent, promised>>,
           cache' \in [Handle -> Keys], disk' \in [Handle -> Keys], Clean', Course', Doomed'
    PROVE  KeyInv'
<1>1. KeyTypes' /\ PromisedIsCached' /\ Outside' /\ Durable'
  BY DEF KeyInv, KeyTypes, PromisedIsCached, Outside, Durable
<1>. QED  BY <1>1 DEF KeyInv

(* So the entry evict makes is not below the entry it removes.             *)
LEMMA OutStays ==
    ASSUME Acyclic, NEW c \in [Handle -> Keys], NEW h \in Handle, NEW k \in Key, c[h] = k
    PROVE  h \notin Below(c, k)
<1>1. PICK S \in SUBSET Key : k \in S /\ Parent[k] \notin S /\ \A j \in Key : Parent[j] \in S => j \in S
  BY DEF Acyclic
<1>2. \A g \in Handle : c[g] # None /\ Parent[c[g]] \in S => c[g] \in S  BY <1>1 DEF Keys
<1>. QED  BY <1>1, <1>2 DEF Below

LEMMA MoveKeys == KeyInv /\ Move => KeyInv'
<1>. SUFFICES ASSUME KeyInv, Move PROVE KeyInv'  OBVIOUS
<1>1. Step("move") /\ Evicting /\ phase = "run" /\ promised = {}  BY WhichCommand DEF Move
<1>2. todo = MoveOn  BY <1>1, EvictLists DEF Evicting, EvictTodo, Step, At
<1>3. todo' = <<>>  BY <1>2, EvictLists DEF Move, Proceed, Fail
<1>4. UNCHANGED <<persistent, phase, op, dropping>>  BY DEF Move, tpm
<1>5. op.target \in Handle /\ op.out \in Handle /\ op.target # op.out /\ cache[op.target] \in Key
  BY <1>1, <1>2, HandleAssumption DEF Evicting, Handle
<1>6. Evicting' /\ ~At("refresh_flush")'
  BY <1>1, <1>3, <1>4, EvictLists DEF Evicting, EvictTodo, At
<1>7. Course' /\ Doomed'  BY <1>6 DEF Course, Doomed, Evicting
<1>8. Outside' /\ Durable'  BY <1>1, <1>4 DEF Outside, Durable
<1>. DEFINE saved == [cache EXCEPT ![op.out] = cache[op.target]]
            rest == [saved EXCEPT ![op.target] = None]
            gone == Removed(saved, op.target)
<1>9. /\ saved \in [Handle -> Keys] /\ saved[op.out] = cache[op.target]
      /\ saved[op.target] = cache[op.target]
      /\ \A h \in Handle : h # op.out => saved[h] = cache[h]
  BY <1>5 DEF KeyInv, KeyTypes, Keys
<1>10. rest \in [Handle -> Keys] /\ rest[op.out] = cache[op.target]
  BY <1>5, <1>9 DEF Keys
<1>11. gone = {op.target} \cup Below(rest, cache[op.target])  BY <1>9 DEF Removed
<1>. HIDE DEF saved, rest, gone
<1>12. Acyclic => op.out \notin gone  BY <1>5, <1>10, <1>11, OutStays
<1>13. PICK S : /\ cache' = Without(saved, S) /\ disk' = Without(disk, S)
                /\ dirty' = (dirty \cup {op.out}) \ S
                /\ \/ S = gone /\ promised' = promised \cup {op.out}
                   \/ UNCHANGED promised
  BY DEF Move, saved, gone
<1>14. /\ cache' = [h \in Handle |-> IF h \in S THEN None ELSE saved[h]]
       /\ disk' = [h \in Handle |-> IF h \in S THEN None ELSE disk[h]]
  BY <1>9, <1>13 DEF Without, KeyInv, KeyTypes
<1>15. KeyTypes'  BY <1>1, <1>4, <1>5, <1>9, <1>13, <1>14 DEF KeyInv, KeyTypes, Keys
<1>16. Clean'  BY <1>9, <1>13, <1>14 DEF KeyInv, Clean
<1>17. PromisedIsCached'
  <2>1. CASE S = gone /\ promised' = promised \cup {op.out}
    <3>1. Acyclic => cache'[op.out] # None
      BY <1>5, <1>9, <1>12, <1>14, <2>1, HandleAssumption
    <3>. QED  BY <1>1, <1>3, <2>1, <3>1 DEF PromisedIsCached
  <2>2. CASE UNCHANGED promised
    BY <1>1, <1>3, <2>2 DEF PromisedIsCached
  <2>. QED  BY <1>13, <2>1, <2>2
<1>. QED  BY <1>7, <1>8, <1>15, <1>16, <1>17 DEF KeyInv

-----------------------------------------------------------------------------
(* delete.                                                                 *)

LEMMA DeletingOn ==
    ASSUME Deleting, todo # <<>>, UNCHANGED <<op, dropping>>,
           todo' \in {todo, Tail(todo), <<>>, <<"uncache_list", "uncache">>}
    PROVE  Deleting' /\ ~At("refresh_flush")'
<1>1. todo' \in Seq(DeleteStep)
  <2>1. <<>> \in Seq(DeleteStep) /\ <<"uncache_list", "uncache">> \in Seq(DeleteStep)
    BY DEF DeleteStep
  <2>. QED  BY <2>1, TailSteps DEF Deleting
<1>2. todo' # <<>> => Head(todo') \in DeleteStep  BY <1>1, TailSteps
<1>. QED  BY <1>1, <1>2 DEF Deleting, At, DeleteStep

LEMMA DeletingGoesOn ==
    ASSUME KeyInv, NEW step \in DeleteStep, Step(step), UNCHANGED <<phase, op, dropping>>,
           todo' \in {todo, Tail(todo), <<>>, <<"uncache_list", "uncache">>}
    PROVE  phase = "run" /\ phase' = "run" /\ promised = {} /\ Course' /\ Doomed'
<1>1. phase = "run" /\ promised = {} /\ todo # <<>> /\ Deleting  BY WhichCommand
<1>2. Deleting' /\ ~At("refresh_flush")'  BY <1>1, DeletingOn
<1>. QED  BY <1>1, <1>2 DEF Course, Doomed, Deleting

LEMMA DeleteHandlesKeys == KeyInv /\ delete_tpm_handles => KeyInv'
<1>. SUFFICES ASSUME KeyInv, NEW step \in {"list_sessions", "list_objects", "list_persistent"},
                     NEW handles, fetch_handles(step, handles)
              PROVE  KeyInv'
  BY DEF delete_tpm_handles
<1>1. Step(step) /\ step \in DeleteStep /\ todo' = Tail(todo)
  BY DEF fetch_handles, DeleteStep, Proceed
<1>2. UNCHANGED tpm  BY QuietTpm DEF fetch_handles
<1>3. UNCHANGED <<keys, phase, op, dropping>>  BY <1>2 DEF fetch_handles, keys, tpm, ghost
<1>. QED  BY <1>1, <1>3, DeletingGoesOn, KeysSame

LEMMA DeleteOneKeys == KeyInv /\ DeleteOne => KeyInv'
<1>. SUFFICES ASSUME KeyInv, DeleteOne PROVE KeyInv'  OBVIOUS
<1>1. Step("each") /\ "each" \in DeleteStep  BY DEF DeleteOne, DeleteStep
<1>2. todo' \in {todo, <<"uncache_list", "uncache">>}  BY DEF DeleteOne
<1>3. UNCHANGED <<cache, dirty, disk, promised, phase, op, dropping>>  BY DEF DeleteOne, ghost
<1>4. PICK x : \/ FlushOk(x) \/ FlushFails(x)
               \/ x \in PHandle /\ (Answered(Persist(x, None)) \/ Rejected \/ Lost(Persist(x, None)))
  BY DEF DeleteOne
<1>5. persistent' \in [PHandle -> Keys]
  <2>1. CASE FlushOk(x) \/ FlushFails(x)  BY <2>1, FlushFrame DEF KeyInv, KeyTypes
  <2>2. CASE x \in PHandle /\ (Persist(x, None) \/ UNCHANGED tpm)
    BY <2>2 DEF Persist, tpm, KeyInv, KeyTypes, Keys
  <2>. QED  BY <1>4, <2>1, <2>2 DEF Answered, Rejected, Lost
<1>. QED  BY <1>1, <1>2, <1>3, <1>5, DeletingGoesOn, PersistentChanges

LEMMA UncacheKeys == KeyInv /\ delete_vtpm_handles => KeyInv'
<1>. SUFFICES ASSUME KeyInv, delete_vtpm_handles PROVE KeyInv'  OBVIOUS
<1>1. Step("uncache") /\ "uncache" \in DeleteStep  BY DEF delete_vtpm_handles, DeleteStep
<1>2. todo' \in {todo, <<>>}  BY DEF delete_vtpm_handles, Fail
<1>3. UNCHANGED <<persistent, promised, phase, op, dropping>>
  BY DEF delete_vtpm_handles, tpm, ghost
<1>4. PICK h : remove(h) \/ RemoveFails(h) \/ UNCHANGED <<cache, dirty, disk>>
  BY DEF delete_vtpm_handles, RemoveEntry
<1>5. cache' \in [Handle -> Keys] /\ disk' \in [Handle -> Keys] /\ Clean'
  BY <1>4, RemoveSome DEF KeyInv
<1>. QED  BY <1>1, <1>2, <1>3, <1>5, DeletingGoesOn, RemovingStep

-----------------------------------------------------------------------------
(* The listing of the memory.                                              *)

LEMMA LoopDoneKeys == KeyInv /\ LoopDone => KeyInv'
<1>. SUFFICES ASSUME KeyInv, LoopDone PROVE KeyInv'  OBVIOUS
<1>1. PICK step \in {"each", "uncache", "refresh"} : Step(step)  BY DEF LoopDone
<1>2. todo' = Tail(todo)  BY DEF LoopDone, Proceed
<1>3. UNCHANGED <<keys, phase, op, dropping, stale, trouble>>
  BY DEF LoopDone, keys, tpm, ghost
<1>4. CASE step # "refresh"
  BY <1>1, <1>2, <1>3, <1>4, DeletingGoesOn, KeysSame DEF DeleteStep
<1>5. CASE step = "refresh"
  <2>1. Listing /\ phase = "run" /\ promised = {}  BY <1>1, <1>5, WhichCommand
  <2>2. todo' = DropOn
    BY <1>1, <1>2, <1>5, <2>1, MemoryLists DEF Listing, MemoryTodo, Step, At
  <2>3. Listing' /\ ~At("refresh_flush")'
    BY <1>3, <2>1, <2>2, MemoryLists DEF Listing, MemoryTodo, At
  <2>4. Course' /\ Doomed'  BY <1>3, <2>1, <2>3 DEF Course, Doomed, KeyInv
  <2>. QED  BY <1>3, <2>1, <2>4, KeysSame
<1>. QED  BY <1>4, <1>5

LEMMA ListEntriesKeys == KeyInv /\ ListEntries => KeyInv'
<1>. SUFFICES ASSUME KeyInv, ListEntries PROVE KeyInv'  OBVIOUS
<1>2. todo' = Tail(todo)  BY DEF ListEntries, Proceed
<1>3. UNCHANGED <<keys, phase, op, dropping, stale, trouble>>
  BY DEF ListEntries, keys, tpm, ghost
<1>4. CASE Step("uncache_list")
  BY <1>2, <1>3, <1>4, DeletingGoesOn, KeysSame DEF DeleteStep
<1>5. CASE Step("refresh_list") /\ pending' = Cached \cap VHandle
  <2>1. Listing /\ phase = "run" /\ promised = {}  BY <1>5, WhichCommand
  <2>2. todo' = RefreshOn
    BY <1>2, <1>5, <2>1, MemoryLists DEF Listing, MemoryTodo, Step, At
  <2>3. pending' \subseteq Cached'  BY <1>3, <1>5 DEF Cached, keys
  <2>4. Listing' /\ ~At("refresh_flush")'
    BY <1>3, <2>1, <2>2, <2>3, MemoryLists DEF Listing, MemoryTodo, At
  <2>5. Course' /\ Doomed'  BY <1>3, <2>1, <2>4 DEF Course, Doomed, KeyInv
  <2>. QED  BY <1>3, <2>1, <2>5, KeysSame
<1>. QED  BY <1>4, <1>5 DEF ListEntries

LEMMA RefreshKeyKeys == KeyInv /\ Inv /\ refresh_key => KeyInv'
<1>. SUFFICES ASSUME KeyInv, Inv, refresh_key PROVE KeyInv'  OBVIOUS
<1>1. Step("refresh") /\ Listing /\ phase = "run" /\ promised = {}
  BY WhichCommand DEF refresh_key
<1>2. todo = RefreshOn /\ pending \subseteq Cached
  BY <1>1, MemoryLists DEF Listing, MemoryTodo, Step, At
<1>3. UNCHANGED <<cache, dirty, disk, promised, phase, stale>>  BY DEF refresh_key
<1>4. UNCHANGED persistent /\ trouble \subseteq trouble'
  BY DEF refresh_key, Answered, Rejected, OutOfMemory, Lost, Place, tpm
<1>5. UNCHANGED keys /\ Cached' = Cached  BY <1>3, <1>4 DEF keys, Cached
<1>6. PICK h \in pending :
        /\ pending' = pending \ {h}
        /\ \/ \E p \in Slot :
                /\ Answered(Place(p, cache[h])) /\ reg' = p
                /\ op' = [op EXCEPT !.target = h] /\ todo' = <<"refresh_flush">> \o todo
                /\ UNCHANGED dropping
           \/ /\ \/ h \in stale
                 \/ OutOfMemory \/ Lost(h \notin stale /\ \E p \in Slot : Place(p, cache[h]))
              /\ dropping' = dropping \cup {h} /\ UNCHANGED <<op, todo>>
  BY DEF refresh_key
<1>7. pending' \subseteq Cached' /\ cache[h] # None  BY <1>2, <1>5, <1>6 DEF Cached
<1>8. CASE \E p \in Slot : /\ Answered(Place(p, cache[h])) /\ reg' = p
                           /\ op' = [op EXCEPT !.target = h] /\ todo' = <<"refresh_flush">> \o todo
                           /\ UNCHANGED dropping
  <2>1. op'.cmd = "memory" /\ DOMAIN op' = DOMAIN op  BY <1>1, <1>8 DEF Listing
  <2>2. todo' = InHandOn  BY <1>2, <1>8 DEF InHandOn
  <2>3. Listing'  BY <1>1, <1>7, <2>1, <2>2 DEF Listing, MemoryTodo
  <2>4. Holds(reg)'  BY <1>7, <1>8 DEF Holds, Answered, Place, Inv, Domains
  <2>5. Doomed'  BY <1>1, <1>3, <1>4, <1>8, <2>4 DEF Doomed, KeyInv
  <2>. QED  BY <1>1, <1>3, <1>5, <2>3, <2>5, KeysSame DEF Course
<1>9. CASE /\ h \in stale \/ OutOfMemory \/ Lost(h \notin stale /\ \E p \in Slot : Place(p, cache[h]))
           /\ dropping' = dropping \cup {h} /\ UNCHANGED <<op, todo>>
  <2>1. Listing' /\ ~At("refresh_flush")'
    BY <1>1, <1>2, <1>7, <1>9, MemoryLists DEF Listing, At
  <2>2. trouble' = {} => trouble = {} /\ h \in stale
    BY <1>4, <1>9 DEF OutOfMemory, Lost
  <2>3. Doomed'  BY <1>1, <1>3, <1>9, <2>1, <2>2 DEF Doomed, KeyInv
  <2>. QED  BY <1>1, <1>3, <1>5, <2>1, <2>3, KeysSame DEF Course
<1>. QED  BY <1>6, <1>8, <1>9

LEMMA RefreshFlushKeys == KeyInv /\ refresh_flush => KeyInv'
<1>. SUFFICES ASSUME KeyInv, refresh_flush PROVE KeyInv'  OBVIOUS
<1>1. Step("refresh_flush") /\ Listing /\ phase = "run" /\ promised = {}
  BY WhichCommand DEF refresh_flush
<1>2. todo = InHandOn /\ pending \subseteq Cached
  BY <1>1, MemoryLists DEF Listing, MemoryTodo, Step, At
<1>3. UNCHANGED <<cache, disk, promised, phase, stale, op, pending>> /\ todo' = RefreshOn
  BY <1>2, MemoryLists DEF refresh_flush
<1>4. trouble \subseteq trouble' /\ UNCHANGED persistent  BY FlushFrame DEF refresh_flush
<1>5. Listing' /\ ~At("refresh_flush")'
  BY <1>1, <1>2, <1>3, MemoryLists DEF Listing, MemoryTodo, Cached, At
<1>6. dropping' = dropping \/ (FlushFails(reg) /\ dirty' = dirty)  BY DEF refresh_flush
<1>7. dirty \subseteq dirty'  BY DEF refresh_flush
<1>8. Doomed'
  <2>. SUFFICES ASSUME trouble' = {} PROVE dropping' \subseteq stale'
    BY <1>5 DEF Doomed
  <2>1. trouble = {} /\ dropping \subseteq stale /\ Holds(reg)
    BY <1>1, <1>4 DEF KeyInv, Doomed, Step
  <2>2. ~FlushFails(reg)  BY <2>1 DEF FlushFails, Lost
  <2>. QED  BY <1>3, <1>6, <2>1, <2>2
<1>9. KeyTypes' /\ Clean' /\ PromisedIsCached'
  BY <1>1, <1>3, <1>4, <1>7 DEF KeyInv, KeyTypes, Clean, PromisedIsCached
<1>10. Outside' /\ Durable'  BY <1>1, <1>3 DEF Outside, Durable
<1>. QED  BY <1>5, <1>8, <1>9, <1>10 DEF KeyInv, Course

LEMMA RefreshCacheKeys == KeyInv /\ refresh_cache => KeyInv'
<1>. SUFFICES ASSUME KeyInv, refresh_cache PROVE KeyInv'  OBVIOUS
<1>1. Step("drop_stale") /\ Listing /\ phase = "run" /\ promised = {}
  BY WhichCommand DEF refresh_cache
<1>2. todo = DropOn  BY <1>1, MemoryLists DEF Listing, MemoryTodo, Step, At
<1>3. UNCHANGED <<persistent, promised, phase, stale, op, trouble>>
  BY DEF refresh_cache, tpm, ghost
<1>4. todo' \in {DropOn, ReadsOn, <<>>}  BY <1>2, MemoryLists DEF refresh_cache
<1>5. dropping' \subseteq dropping  BY DEF refresh_cache
<1>6. PICK h : remove(h) \/ RemoveFails(h) \/ UNCHANGED <<cache, dirty, disk>>
  BY DEF refresh_cache, RemoveEntry
<1>7. cache' \in [Handle -> Keys] /\ disk' \in [Handle -> Keys] /\ Clean'
  BY <1>6, RemoveSome DEF KeyInv
<1>8. Listing' /\ ~At("refresh_flush")'
  BY <1>1, <1>3, <1>4, MemoryLists DEF Listing, MemoryTodo, At
<1>9. Course' /\ Doomed'  BY <1>1, <1>3, <1>5, <1>8 DEF Course, Doomed, KeyInv
<1>. QED  BY <1>1, <1>3, <1>7, <1>9, RemovingStep

-----------------------------------------------------------------------------
(* The start of a run, its end, and the world.                             *)

LEMMA InitKeys == Init => KeyInv
<1>. SUFFICES ASSUME Init PROVE KeyInv  OBVIOUS
<1>1. disk \in [Handle -> Keys]  BY HandleAssumption DEF Init, Handle, Keys
<1>2. KeyTypes  BY <1>1 DEF Init, KeyTypes, NoKeys, Keys, Handle
<1>3. Clean  BY DEF Init, Clean, NoKeys
<1>4. Outside /\ PromisedIsCached /\ Course /\ Doomed /\ Durable
  BY DEF Init, Outside, PromisedIsCached, Course, Doomed, Durable
<1>. QED  BY <1>2, <1>3, <1>4 DEF KeyInv

(* A run that ends keeps what is on disk.                                  *)
LEMMA EndKeys ==
    ASSUME KeyInv, NEW how, End(how), UNCHANGED <<persistent, promised>>,
           disk' \in [Handle -> Keys],
           Acyclic /\ how = "graceful" /\ "disk" \notin trouble' => \A h \in promised : disk'[h] # None
    PROVE  KeyInv'
<1>1. KeyTypes' /\ Clean'  BY DEF KeyInv, KeyTypes, Clean, End, NoKeys, Keys
<1>2. Outside' /\ PromisedIsCached' /\ Course' /\ Doomed'
  BY DEF Outside, PromisedIsCached, Course, Doomed, End
<1>3. Durable'  BY DEF Durable, End
<1>. QED  BY <1>1, <1>2, <1>3 DEF KeyInv

LEMMA StartKeys == KeyInv /\ Start => KeyInv'
<1>. SUFFICES ASSUME KeyInv, Start PROVE KeyInv'  OBVIOUS
<1>1. KeyTypes' /\ Clean'  BY DEF KeyInv, KeyTypes, Clean, Start, tpm
<1>2. todo' = NamesOn /\ Head(todo') = "names"  BY StartLists DEF Start, NamesOn
<1>3. Outside'
  BY <1>2 DEF KeyInv, Outside, Start, StartTodo, fields
<1>4. PromisedIsCached' /\ Course' /\ Doomed' /\ Durable'
  BY DEF PromisedIsCached, Course, Doomed, Durable, Start
<1>. QED  BY <1>1, <1>3, <1>4 DEF KeyInv

(* What a step of the start has to show.                                   *)
LEMMA Starting ==
    ASSUME KeyTypes', Clean', Outside', phase' = "start"
    PROVE  KeyInv'
<1>1. PromisedIsCached' /\ Course' /\ Doomed' /\ Durable'
  BY DEF PromisedIsCached, Course, Doomed, Durable
<1>. QED  BY <1>1 DEF KeyInv

LEMMA StartingKeys ==
    KeyInv /\ (fetch_persistent_names \/ open_cache \/ validate_list) => KeyInv'
<1>. SUFFICES ASSUME KeyInv, fetch_persistent_names \/ open_cache \/ validate_list PROVE KeyInv'
  OBVIOUS
<1>. USE DEF KeyInv
<1>1. phase = "start" /\ virt_handles = NoKeys(VHandle) /\ dropping = {} /\ promised = {}
  BY DEF fetch_persistent_names, open_cache, validate_list, Outside
<1>2. CASE fetch_persistent_names
  <2>1. UNCHANGED tpm  BY <1>2, QuietTpm DEF fetch_persistent_names
  <2>2. UNCHANGED <<persistent, disk, promised>>  BY <1>2, <2>1 DEF fetch_persistent_names, tpm
  <2>3. CASE End("error")  BY <2>2, <2>3, EndKeys DEF KeyTypes
  <2>4. CASE Proceed /\ UNCHANGED <<phase, dropping, fields, cache, dirty>>
    <3>1. todo = NamesOn
      BY <1>1, <1>2, StartLists DEF fetch_persistent_names, At, Outside, StartTodo
    <3>2. todo' = CacheOn /\ Head(todo') = "cache"  BY <2>4, <3>1, StartLists DEF Proceed
    <3>3. cache = NoKeys(Handle)  BY <1>1, <3>1, StartLists DEF Outside
    <3>4. Outside'
      BY <1>1, <2>2, <2>4, <3>2, <3>3 DEF Outside, StartTodo, fields
    <3>5. KeyTypes' /\ Clean'  BY <2>2, <2>4 DEF KeyTypes, Clean
    <3>. QED  BY <1>1, <2>4, <3>4, <3>5, Starting
  <2>. QED  BY <1>2, <2>3, <2>4 DEF fetch_persistent_names
<1>3. CASE open_cache
  <2>1. todo = CacheOn  BY <1>1, <1>3, StartLists DEF open_cache, At, Outside, StartTodo
  <2>2. todo' = ListOn /\ Head(todo') = "validate_list"
    BY <1>3, <2>1, StartLists DEF open_cache, Proceed
  <2>3. UNCHANGED <<persistent, disk, promised, phase, dropping, virt_handles>> /\ cache' = disk
    BY <1>3 DEF open_cache, tpm, fields, ghost
  <2>4. Outside'  BY <1>1, <2>2, <2>3 DEF Outside, StartTodo
  <2>5. KeyTypes' /\ Clean'  BY <2>3 DEF KeyTypes, Clean
  <2>. QED  BY <1>1, <2>3, <2>4, <2>5, Starting
<1>4. CASE validate_list
  <2>1. todo = ListOn  BY <1>1, <1>4, StartLists DEF validate_list, At, Outside, StartTodo
  <2>2. todo' = ValidateOn /\ Head(todo') = "validate"
    BY <1>4, <2>1, StartLists DEF validate_list, Proceed
  <2>3. UNCHANGED <<persistent, disk, promised, phase, dropping, virt_handles, cache, dirty>>
    BY <1>4 DEF validate_list, tpm, fields, ghost
  <2>4. pending' \subseteq PHandle  BY <1>4 DEF validate_list
  <2>5. Outside'  BY <1>1, <2>2, <2>3, <2>4 DEF Outside, StartTodo
  <2>6. KeyTypes' /\ Clean'  BY <2>3 DEF KeyTypes, Clean
  <2>. QED  BY <1>1, <2>3, <2>5, <2>6, Starting
<1>. QED  BY <1>2, <1>3, <1>4

(* A check of a persistent handle transmits nothing that changes the TPM.  *)
LEMMA ValidateFrame ==
    ASSUME NEW h, ValidateOne(h)
    PROVE  UNCHANGED tpm /\ (remove(h) \/ UNCHANGED <<cache, dirty, disk>>)
<1>1. UNCHANGED tpm  BY QuietTpm DEF ValidateOne
<1>. QED  BY <1>1 DEF ValidateOne

LEMMA ValidateKeys == KeyInv /\ validate_persistent_handles => KeyInv'
<1>. SUFFICES ASSUME KeyInv, validate_persistent_handles PROVE KeyInv'  OBVIOUS
<1>. USE DEF KeyInv
<1>1. /\ phase = "start" /\ virt_handles = NoKeys(VHandle) /\ dropping = {} /\ promised = {}
      /\ todo \in StartTodo /\ Head(todo) = "validate" /\ pending \subseteq PHandle
  BY DEF validate_persistent_handles, Outside, At
<1>2. UNCHANGED <<phase, todo, dropping, virt_handles, promised>>
  BY DEF validate_persistent_handles, fields, ghost
<1>3. PICK h \in pending :
        /\ pending' = pending \ {h}
        /\ ValidateOne(h) \/ UNCHANGED <<tpm, cache, dirty, disk>>
  BY DEF validate_persistent_handles
<1>4. UNCHANGED persistent /\ (remove(h) \/ UNCHANGED <<cache, dirty, disk>>)
  BY <1>3, ValidateFrame DEF tpm
<1>5. cache' \in [Handle -> Keys] /\ disk' \in [Handle -> Keys] /\ Clean'
  BY <1>4, RemoveSome
<1>6. KeyTypes'  BY <1>2, <1>4, <1>5 DEF KeyTypes
<1>7. Outside'  BY <1>1, <1>2, <1>3 DEF Outside
<1>. QED  BY <1>1, <1>2, <1>5, <1>6, <1>7, Starting

(* The command lines and their scripts.                                    *)
LEMMA OpScripts ==
    ASSUME NEW o \in Op, NEW s \in Scripts(o.cmd)
    PROVE  \/ o.cmd = "delete" /\ s \in Seq(DeleteStep)
           \/ o.cmd = "memory" /\ {"cmd", "target"} \subseteq DOMAIN o /\ s = list_all_memory
           \/ o.cmd = "evict" /\ s = evict /\ o.target \in VHandle /\ o.out \in PHandle
           \/ /\ o.cmd \in {"create_primary", "load", "use", "plain"}
              /\ s \in Seq(MakeStep) /\ StoreIsLast(s, o.key)
<1>1. CASE o.cmd = "delete"
  <2>1. s = delete  BY <1>1 DEF Scripts
  <2>2. delete \in Seq(DeleteStep)  BY DEF delete, DeleteStep
  <2>. QED  BY <1>1, <2>1, <2>2
<1>2. CASE o.cmd = "memory"  BY <1>2 DEF Scripts, Op
<1>3. CASE o.cmd = "evict"
  <2>1. o.target \in VHandle /\ o.out \in PHandle  BY <1>3 DEF Op
  <2>2. s = evict  BY <1>3 DEF Scripts
  <2>. QED  BY <1>3, <2>1, <2>2
<1>4. CASE o.cmd \in {"create_primary", "load"}
  <2>1. o.key \in Key  BY <1>4 DEF Op
  <2>2. s \in {create_primary, load}  BY <1>4 DEF Scripts
  <2>3. create_primary \in Seq(MakeStep) /\ StoreIsLast(create_primary, o.key)
    BY <2>1 DEF create_primary, MakeStep, StoreIsLast
  <2>4. load \in Seq(MakeStep) /\ StoreIsLast(load, o.key)
    BY <2>1 DEF load, MakeStep, StoreIsLast
  <2>. QED  BY <1>4, <2>2, <2>3, <2>4
<1>5. CASE o.cmd \in {"use", "plain"}
  <2>. DEFINE Plain == MakeStep \ {"store"}
  <2>1. s \in {create, seal, unseal, import, pcr_event, reset_lock, algorithm, inspect_handle}
    BY <1>5 DEF Scripts
  <2>2. create \in Seq(Plain) /\ seal \in Seq(Plain)  BY DEF create, seal, MakeStep
  <2>3. unseal \in Seq(Plain) /\ import \in Seq(Plain)  BY DEF unseal, import, MakeStep
  <2>4. pcr_event \in Seq(Plain) /\ reset_lock \in Seq(Plain)  BY DEF pcr_event, reset_lock, MakeStep
  <2>5. algorithm \in Seq(Plain) /\ inspect_handle \in Seq(Plain)
    BY DEF algorithm, inspect_handle, MakeStep
  <2>6. s \in Seq(Plain)  BY <2>1, <2>2, <2>3, <2>4, <2>5
  <2>7. s \in Seq(MakeStep) /\ \A i \in 1..Len(s) : s[i] \in Plain  BY <2>6
  <2>8. StoreIsLast(s, o.key)  BY <2>7 DEF StoreIsLast
  <2>. QED  BY <1>5, <2>7, <2>8
<1>6. o.cmd \in {"create_primary", "load", "use", "plain", "evict", "delete", "memory"}
  BY DEF Op
<1>. QED  BY <1>1, <1>2, <1>3, <1>4, <1>5, <1>6

LEMMA RunsNow ==
    ASSUME KeyInv, phase = "start", phase' = "run", promised = {}, dropping = {},
           UNCHANGED <<keys, dropping>>,
           (Deleting \/ Listing \/ Making \/ Evicting)', ~At("refresh_flush")'
    PROVE  KeyInv'
<1>1. KeyTypes' /\ Clean' /\ PromisedIsCached' /\ Outside' /\ Durable'
  BY DEF keys, KeyInv, KeyTypes, Clean, PromisedIsCached, Outside, Durable
<1>2. Course' /\ Doomed'  BY DEF Course, Doomed
<1>. QED  BY <1>1, <1>2 DEF KeyInv

LEMMA RunKeys == KeyInv /\ run => KeyInv'
<1>. SUFFICES ASSUME KeyInv, run PROVE KeyInv'  OBVIOUS
<1>1. /\ phase = "start" /\ phase' = "run" /\ virt_handles = NoKeys(VHandle) /\ dropping = {}
      /\ promised = {}
  BY DEF run, KeyInv, Outside
<1>2. UNCHANGED <<keys, virt_handles, dropping, stale>>
  BY DEF run, keys, tpm, ghost, fields
<1>3. PICK o \in Op : op' = o /\ todo' \in Scripts(o.cmd)  BY DEF run
<1>4. \/ op'.cmd = "delete" /\ todo' \in Seq(DeleteStep)
      \/ op'.cmd = "memory" /\ {"cmd", "target"} \subseteq DOMAIN op' /\ todo' = list_all_memory
      \/ op'.cmd = "evict" /\ todo' = evict /\ op'.target \in VHandle /\ op'.out \in PHandle
      \/ /\ op'.cmd \in {"create_primary", "load", "use", "plain"}
         /\ todo' \in Seq(MakeStep) /\ StoreIsLast(todo', op'.key)
  BY <1>3, OpScripts
<1>5. CASE op'.cmd = "delete" /\ todo' \in Seq(DeleteStep)
  <2>1. Deleting'  BY <1>1, <1>2, <1>5 DEF Deleting
  <2>2. todo' # <<>> => Head(todo') \in DeleteStep  BY <1>5, TailSteps
  <2>. QED  BY <2>1, <2>2, <1>1, <1>2, RunsNow DEF At, DeleteStep
<1>6. CASE op'.cmd = "memory" /\ {"cmd", "target"} \subseteq DOMAIN op' /\ todo' = list_all_memory
  <2>1. Listing'  BY <1>6, MemoryLists DEF Listing, MemoryTodo
  <2>. QED  BY <2>1, <1>1, <1>2, <1>6, MemoryLists, RunsNow DEF At
<1>7. CASE op'.cmd = "evict" /\ todo' = evict /\ op'.target \in VHandle /\ op'.out \in PHandle
  <2>1. Evicting'  BY <1>1, <1>2, <1>7, EvictLists DEF Evicting, EvictTodo
  <2>. QED  BY <2>1, <1>1, <1>2, <1>7, EvictLists, RunsNow DEF At
<1>8. CASE /\ op'.cmd \in {"create_primary", "load", "use", "plain"}
           /\ todo' \in Seq(MakeStep) /\ StoreIsLast(todo', op'.key)
  <2>1. Making'  BY <1>1, <1>2, <1>8 DEF Making, StoreIsLast
  <2>2. todo' # <<>> => Head(todo') \in MakeStep  BY <1>8, TailSteps
  <2>. QED  BY <2>1, <2>2, <1>1, <1>2, RunsNow DEF At, MakeStep
<1>. QED  BY <1>4, <1>5, <1>6, <1>7, <1>8

LEMMA LocalErrorKeys == KeyInv /\ LocalError => KeyInv'
<1>. SUFFICES ASSUME KeyInv, LocalError PROVE KeyInv'  OBVIOUS
<1>1. UNCHANGED <<disk, persistent, promised, stale, trouble>>  BY DEF LocalError, tpm
<1>2. CASE End("error")  BY <1>1, <1>2, EndKeys DEF KeyInv, KeyTypes
<1>3. CASE /\ phase = "run" /\ Fail
           /\ \E step \in {"reads", "maybe", "load_key", "auth", "open", "execute", "save_context",
                           "store", "evict", "move"} : At(step)
           /\ UNCHANGED <<phase, op, pending, dropping, virt_handles, cache, dirty>>
  <2>1. PICK step : Step(step)  BY <1>3 DEF Step
  <2>2. promised = {} /\ todo # <<>>  BY <2>1, WhichCommand
  <2>3. todo' = <<>> /\ UNCHANGED keys  BY <1>1, <1>3 DEF Fail, keys
  <2>4. Course'
    <3>1. CASE Deleting  BY <3>1, <1>3, <2>2, <2>3, DeletingOn DEF Course
    <3>2. CASE Making  BY <3>2, <1>3, <2>2, <2>3, MakingOn DEF Course
    <3>3. CASE Listing  BY <3>3, <1>3, <2>3, MemoryLists DEF Course, Listing, MemoryTodo
    <3>4. CASE Evicting  BY <3>4, <1>3, <2>3, EvictLists DEF Course, Evicting, EvictTodo
    <3>. QED  BY <1>3, <3>1, <3>2, <3>3, <3>4 DEF KeyInv, Course
  <2>5. Doomed'  BY <1>1, <1>3, <2>3 DEF KeyInv, Doomed, At
  <2>. QED  BY <1>3, <2>2, <2>3, <2>4, <2>5, KeysSame
<1>. QED  BY <1>2, <1>3 DEF LocalError, fields

LEMMA DropKeys == KeyInv /\ (BeginDrop \/ DropFlush \/ DropSave) => KeyInv'
<1>. SUFFICES ASSUME KeyInv, BeginDrop \/ DropFlush \/ DropSave PROVE KeyInv'  OBVIOUS
<1>1. CASE BeginDrop \/ DropFlush
  <2>1. phase \in {"run", "drop"} /\ phase' = "drop" /\ UNCHANGED keys
    BY <1>1, FlushFrame DEF BeginDrop, DropFlush, keys, tpm, ghost
  <2>2. KeyTypes' /\ Clean' /\ PromisedIsCached'
    BY <2>1 DEF KeyInv, KeyTypes, Clean, PromisedIsCached, keys
  <2>3. Outside' /\ Course' /\ Doomed' /\ Durable'
    BY <2>1 DEF Outside, Course, Doomed, Durable
  <2>. QED  BY <2>2, <2>3 DEF KeyInv
<1>2. CASE DropSave
  <2>1. phase = "drop" /\ End("graceful") /\ UNCHANGED <<persistent, promised>>
    BY <1>2 DEF DropSave, tpm
  <2>2. PICK saved \in SUBSET dirty :
          /\ disk' = [h \in Handle |-> IF h \in saved THEN cache[h] ELSE disk[h]]
          /\ trouble' = IF saved = dirty THEN trouble ELSE trouble \cup {"disk"}
    BY <1>2 DEF DropSave
  <2>3. disk' \in [Handle -> Keys]  BY <2>2 DEF KeyInv, KeyTypes
  <2>4. ASSUME Acyclic, "disk" \notin trouble', NEW h \in promised PROVE disk'[h] # None
    <3>1. saved = dirty  BY <2>2, <2>4
    <3>2. h \in Handle /\ cache[h] # None
      BY <2>1, <2>4 DEF KeyInv, KeyTypes, PromisedIsCached
    <3>. QED  BY <2>2, <3>1, <3>2 DEF KeyInv, Clean
  <2>. QED  BY <2>1, <2>3, <2>4, EndKeys
<1>. QED  BY <1>1, <1>2

(* Steps that touch neither the process nor the cache, nor, in a command,  *)
(* a persistent object.                                                    *)
LEMMA WorldKeys ==
    KeyInv /\ Inv
      /\ (CtrlC \/ Recover \/ Crash \/ Reboot \/ OthersFlush \/ OthersEvict \/ UNCHANGED vars)
        => KeyInv'
<1>. SUFFICES ASSUME KeyInv, Inv,
                     CtrlC \/ Recover \/ Crash \/ Reboot \/ OthersFlush \/ OthersEvict \/ UNCHANGED vars
              PROVE  KeyInv'
  OBVIOUS
<1>1. CASE Crash
  <2>1. End("crash") /\ UNCHANGED <<disk, persistent, promised, trouble>>  BY <1>1 DEF Crash, tpm
  <2>. QED  BY <2>1, EndKeys DEF KeyInv, KeyTypes
<1>2. CASE ~Crash
  <2>1. UNCHANGED <<proc, fields, cache, dirty, disk, promised, exit>>
    BY <1>2 DEF CtrlC, Recover, Reboot, OthersFlush, OthersEvict, vars, ghost
  <2>2. phase = "run" => UNCHANGED <<persistent, stale>>
    BY <1>2 DEF CtrlC, Recover, Reboot, OthersFlush, Flush, OthersEvict, vars, tpm
  <2>3. trouble' = trouble \/ (trouble' = trouble \cup {"others"} /\ trouble' # {})
    BY <1>2 DEF CtrlC, Recover, Reboot, OthersFlush, OthersEvict, vars
  <2>4. persistent' \in [PHandle -> Keys]
    BY <1>2 DEF CtrlC, Recover, Reboot, OthersFlush, Flush, OthersEvict, Persist, vars, tpm,
                KeyInv, KeyTypes, Keys
  <2>5. KeyTypes' /\ Clean' /\ Outside' /\ PromisedIsCached'
    BY <2>1, <2>4 DEF KeyInv, KeyTypes, Clean, Outside, PromisedIsCached, proc, fields
  <2>6. Durable'  BY <2>1, <2>3 DEF KeyInv, Durable, proc
  <2>7. ASSUME phase = "run" PROVE Course'
    <3>1. Deleting => Deleting'  BY <2>1 DEF Deleting, proc
    <3>2. Listing => Listing'  BY <2>1 DEF Listing, Cached, proc
    <3>3. Making => Making'  BY <2>1 DEF Making, StoreIsLast, proc
    <3>4. Evicting => Evicting'
      <4>. SUFFICES ASSUME Evicting PROVE Evicting'  OBVIOUS
      <4>1. \A p \in Slot : objects'[p] \in {objects[p], None}
        <5>1. CASE OthersFlush  BY <5>1 DEF OthersFlush, Flush, Inv, Domains
        <5>2. CASE ~OthersFlush
          BY <1>2, <2>7, <5>2 DEF CtrlC, Recover, Reboot, OthersEvict, Persist, vars, tpm
        <5>. QED  BY <5>1, <5>2
      <4>. QED  BY <2>1, <2>2, <2>7, <4>1 DEF Evicting, proc, fields
    <3>. QED  BY <2>7, <3>1, <3>2, <3>3, <3>4 DEF KeyInv, Course
  <2>8. Course'  BY <2>1, <2>7 DEF Course, proc
  <2>9. Doomed'
    <3>. SUFFICES ASSUME phase = "run", trouble' = {}
                  PROVE  dropping' \subseteq stale' /\ (At("refresh_flush")' => Holds(reg)')
      BY <2>1 DEF Doomed, proc
    <3>1. UNCHANGED <<objects, tpm_sessions, reg, todo, dropping, stale>>
      BY <1>2, <2>1 DEF CtrlC, Recover, Reboot, OthersFlush, OthersEvict, vars, tpm, proc
    <3>2. trouble = {}  BY <2>3
    <3>. QED  BY <3>1, <3>2 DEF KeyInv, Doomed, At, Holds
  <2>. QED  BY <2>5, <2>6, <2>8, <2>9 DEF KeyInv
<1>. QED  BY <1>1, <1>2

LEMMA NextKeys == Inv /\ KeyInv /\ [Next]_vars => KeyInv'
<1>. SUFFICES ASSUME Inv, KeyInv, [Next]_vars PROVE KeyInv'  OBVIOUS
<1>1. CASE Query \/ LoadKey \/ resolve_auth \/ load_policy_secret \/ open \/ run_policy
           \/ FlushNew \/ NewObject \/ Store \/ Evict \/ Move
  BY <1>1, QueryKeys, LoadKeyKeys, AuthKeys, SecretKeys, OpenKeys, FlushNewKeys, StoreKeys,
     EvictKeys, MoveKeys
<1>2. CASE delete_tpm_handles \/ DeleteOne \/ LoopDone \/ ListEntries \/ delete_vtpm_handles
           \/ refresh_key \/ refresh_flush \/ refresh_cache
  BY <1>2, DeleteHandlesKeys, DeleteOneKeys, LoopDoneKeys, ListEntriesKeys, UncacheKeys,
     RefreshKeyKeys, RefreshFlushKeys, RefreshCacheKeys
<1>3. CASE fetch_persistent_names \/ open_cache \/ validate_list \/ validate_persistent_handles
           \/ run \/ BeginDrop \/ DropFlush \/ DropSave \/ LocalError \/ Start
  BY <1>3, StartingKeys, ValidateKeys, RunKeys, DropKeys, LocalErrorKeys, StartKeys
<1>4. CASE CtrlC \/ Recover \/ Crash \/ Reboot \/ OthersFlush \/ OthersEvict \/ UNCHANGED vars
  BY <1>4, WorldKeys
<1>. QED  BY <1>1, <1>2, <1>3, <1>4 DEF Next, Process

LEMMA KeyInvAlways == Spec => []KeyInv
<1>. QED  BY InitKeys, NextKeys, InvAlways, PTL DEF Spec

(* PromisedIsDurable: a handle that was printed or made persistent has its *)
(* record on disk when the run ends by itself and the disk works, because  *)
(* nothing is removed after the store or the move that ends the command    *)
(* (save_transient, evict, Drop for TaskState). No key may be below        *)
(* itself: evict removes what is below the entry it replaces.              *)
THEOREM PromisesAreKept == ASSUME Acyclic PROVE Spec => []PromisedIsDurable
<1>1. KeyInv => PromisedIsDurable  BY DEF KeyInv, Durable, PromisedIsDurable
<1>. QED  BY <1>1, KeyInvAlways, PTL

-----------------------------------------------------------------------------
(* Which steps change records and persistent objects, and which drop       *)
(* entries.                                                                *)

(* In evict only the two steps that make the object persistent and move    *)
(* the entry change anything that holds the key.                           *)
LEMMA EvictFrame ==
    ASSUME KeyInv, phase = "run", Evicting, [Next]_vars, ~Evict, ~Move
    PROVE  UNCHANGED <<disk, persistent>>
<1>1. ~(\E step \in DeleteStep \cup {"refresh_list", "refresh", "refresh_flush", "drop_stale"} :
          Step(step))
  BY EvictLists DEF Evicting, EvictTodo, Step, At, DeleteStep
<1>2. CASE Query \/ resolve_auth
  BY <1>2, QuietTpm DEF Query, resolve_auth, tpm
<1>3. CASE LoadKey  BY <1>3, LoadKeyFrame DEF LoadKey
<1>4. CASE load_policy_secret \/ open \/ run_policy \/ NewObject \/ Store
  BY <1>4, EvictLists DEF load_policy_secret, open, run_policy, NewObject, Store, Step, At,
     Evicting, EvictTodo
<1>5. CASE FlushNew  BY <1>5, FlushFrame DEF FlushNew
<1>6. CASE delete_tpm_handles \/ DeleteOne \/ LoopDone \/ ListEntries \/ delete_vtpm_handles
           \/ refresh_key \/ refresh_flush \/ refresh_cache
  BY <1>1, <1>6 DEF delete_tpm_handles, fetch_handles, DeleteOne, LoopDone, ListEntries,
     delete_vtpm_handles, refresh_key, refresh_flush, refresh_cache, DeleteStep
<1>7. CASE fetch_persistent_names \/ open_cache \/ validate_list \/ validate_persistent_handles
           \/ run \/ DropFlush \/ DropSave \/ Start \/ Reboot \/ OthersEvict
  BY <1>7 DEF fetch_persistent_names, open_cache, validate_list, validate_persistent_handles,
     run, DropFlush, DropSave, Start, Reboot, OthersEvict
<1>8. CASE BeginDrop \/ LocalError \/ CtrlC \/ Recover \/ Crash \/ UNCHANGED vars
  BY <1>8 DEF BeginDrop, LocalError, CtrlC, Recover, Crash, vars, tpm
<1>9. CASE OthersFlush  BY <1>9 DEF OthersFlush, Flush
<1>. QED  BY <1>2, <1>3, <1>4, <1>5, <1>6, <1>7, <1>8, <1>9 DEF Next, Process

(* EvictKeepsKey: wherever evict fails or dies, the key it moves is in a   *)
(* usable record or in the TPM, because the record goes only after the     *)
(* object is known to be persistent (evict, VtpmCache::remove).            *)
THEOREM EvictNeverLosesKey == Spec => EvictKeepsKey
<1>1. ASSUME KeyInv, [Next]_vars, phase = "run", op.cmd = "evict", stale' = stale,
             NEW k \in Key, k = cache[op.target], Obtainable(k)
      PROVE  Obtainable(k)'
  <2>1. Evicting  BY <1>1 DEF KeyInv, Course, Deleting, Listing, Making
  <2>2. CASE Evict
    <3>1. Step("evict") /\ todo = EvictOn
      BY <2>1, <2>2, EvictLists DEF Evict, Evicting, EvictTodo, Step, At
    <3>2. UNCHANGED disk  BY <2>2 DEF Evict
    <3>3. UNCHANGED persistent
          \/ (persistent[op.out] = None /\ \E j : persistent' = [persistent EXCEPT ![op.out] = j])
      BY <2>2 DEF Evict, Answered, Rejected, Lost, Persist, tpm
    <3>4. \A h \in PHandle : persistent[h] = k => persistent'[h] = k
      <4>. SUFFICES ASSUME NEW h \in PHandle, persistent[h] = k PROVE persistent'[h] = k
        OBVIOUS
      <4>1. k # None  BY HandleAssumption
      <4>. QED  BY <1>1, <3>3, <4>1 DEF KeyInv, KeyTypes
    <3>. QED  BY <1>1, <3>2, <3>4 DEF Obtainable
  <2>3. CASE Move
    <3>1. Step("move") /\ todo = MoveOn
      BY <2>1, <2>3, EvictLists DEF Move, Evicting, EvictTodo, Step, At
    <3>2. op.out \in PHandle /\ persistent'[op.out] = k
      BY <1>1, <2>1, <2>3, <3>1 DEF Evicting, Move, tpm
    <3>. QED  BY <3>2 DEF Obtainable
  <2>4. CASE ~Evict /\ ~Move
    BY <1>1, <2>1, <2>4, EvictFrame DEF Obtainable
  <2>. QED  BY <2>2, <2>3, <2>4
<1>2. KeyInv /\ [Next]_vars =>
        [phase = "run" /\ op.cmd = "evict" /\ stale' = stale =>
            \A k \in Key : k = cache[op.target] /\ Obtainable(k) => Obtainable(k)']_vars
  BY <1>1
<1>. QED  BY <1>2, KeyInvAlways, PTL DEF Spec, EvictKeepsKey

(* At the start of a run, and when the listing drops entries, nothing else *)
(* changes the cache.                                                      *)
LEMMA DropFrame ==
    ASSUME KeyInv, phase = "start" \/ Step("drop_stale"), phase' = phase, [Next]_vars,
           ~validate_persistent_handles, ~refresh_cache, ~open_cache
    PROVE  UNCHANGED cache
<1>1. CASE phase = "start"
  <2>1. ~(\E step : Step(step))  BY <1>1 DEF Step
  <2>2. CASE fetch_persistent_names  BY <1>1, <2>2 DEF fetch_persistent_names, End
  <2>3. CASE validate_list \/ run \/ BeginDrop \/ DropFlush \/ DropSave
    BY <1>1, <2>3 DEF validate_list, run, BeginDrop, DropFlush, DropSave
  <2>4. CASE LocalError \/ Crash  BY <1>1, <2>4 DEF LocalError, Crash, End
  <2>5. CASE Start \/ CtrlC \/ Recover \/ Reboot \/ OthersFlush \/ OthersEvict \/ UNCHANGED vars
    BY <2>5 DEF Start, CtrlC, Recover, Reboot, OthersFlush, OthersEvict, vars
  <2>6. CASE Query \/ LoadKey \/ resolve_auth \/ load_policy_secret \/ open \/ run_policy
             \/ FlushNew \/ NewObject \/ Store \/ Evict \/ Move
    BY <2>1, <2>6 DEF Query, LoadKey, resolve_auth, load_policy_secret, open, run_policy,
       FlushNew, NewObject, Store, Evict, Move
  <2>7. CASE delete_tpm_handles \/ DeleteOne \/ LoopDone \/ ListEntries \/ delete_vtpm_handles
             \/ refresh_key \/ refresh_flush
    BY <2>1, <2>7 DEF delete_tpm_handles, fetch_handles, DeleteOne, LoopDone, ListEntries,
       delete_vtpm_handles, refresh_key, refresh_flush
  <2>. QED  BY <2>2, <2>3, <2>4, <2>5, <2>6, <2>7 DEF Next, Process
<1>2. CASE Step("drop_stale")
  <2>1. phase = "run" /\ todo # <<>> /\ Head(todo) = "drop_stale"  BY <1>2 DEF Step, At
  <2>2. CASE Query \/ LoadKey \/ resolve_auth \/ load_policy_secret \/ open \/ run_policy
             \/ FlushNew \/ NewObject \/ Store \/ Evict \/ Move
    BY <2>1, <2>2 DEF Query, LoadKey, resolve_auth, load_policy_secret, open, run_policy,
       FlushNew, NewObject, Store, Evict, Move, Step, At
  <2>3. CASE delete_tpm_handles \/ DeleteOne \/ LoopDone \/ ListEntries \/ delete_vtpm_handles
             \/ refresh_key \/ refresh_flush
    BY <2>1, <2>3 DEF delete_tpm_handles, fetch_handles, DeleteOne, LoopDone, ListEntries,
       delete_vtpm_handles, refresh_key, refresh_flush, Step, At
  <2>4. CASE fetch_persistent_names \/ validate_list \/ run \/ BeginDrop \/ DropFlush \/ DropSave
    BY <2>1, <2>4 DEF fetch_persistent_names, validate_list, run, BeginDrop, DropFlush, DropSave
  <2>5. CASE LocalError \/ Crash  BY <2>1, <2>5 DEF LocalError, Crash, End
  <2>6. CASE Start \/ CtrlC \/ Recover \/ Reboot \/ OthersFlush \/ OthersEvict \/ UNCHANGED vars
    BY <2>6 DEF Start, CtrlC, Recover, Reboot, OthersFlush, OthersEvict, vars
  <2>. QED  BY <2>2, <2>3, <2>4, <2>5, <2>6 DEF Next, Process
<1>. QED  BY <1>1, <1>2

(* Only contexts become stale.                                             *)
OnlyContexts == stale \subseteq VHandle

LEMMA StaleContexts == Spec => []OnlyContexts
<1>. USE DEF OnlyContexts
<1>1. Init => OnlyContexts  BY DEF Init
<1>2. ASSUME OnlyContexts, [Next]_vars PROVE OnlyContexts'
  <2>1. CASE Store \/ Reboot  BY <1>2, <2>1 DEF Store, Reboot
  <2>2. CASE Query \/ LoadKey \/ resolve_auth \/ load_policy_secret \/ open \/ run_policy
             \/ FlushNew \/ NewObject \/ Evict \/ Move
    BY <1>2, <2>2 DEF Query, LoadKey, resolve_auth, load_policy_secret, open, run_policy,
       FlushNew, NewObject, Evict, Move
  <2>3. CASE delete_tpm_handles \/ DeleteOne \/ LoopDone \/ ListEntries \/ delete_vtpm_handles
             \/ refresh_key \/ refresh_flush \/ refresh_cache
    BY <1>2, <2>3 DEF delete_tpm_handles, fetch_handles, DeleteOne, LoopDone, ListEntries,
       delete_vtpm_handles, refresh_key, refresh_flush, refresh_cache
  <2>4. CASE fetch_persistent_names \/ open_cache \/ validate_list \/ validate_persistent_handles
             \/ run \/ BeginDrop \/ DropFlush \/ DropSave \/ LocalError
    BY <1>2, <2>4 DEF fetch_persistent_names, open_cache, validate_list,
       validate_persistent_handles, run, BeginDrop, DropFlush, DropSave, LocalError
  <2>5. CASE Start \/ CtrlC \/ Recover \/ Crash \/ OthersFlush \/ OthersEvict \/ UNCHANGED vars
    BY <1>2, <2>5 DEF Start, CtrlC, Recover, Crash, OthersFlush, OthersEvict, vars
  <2>. QED  BY <1>2, <2>1, <2>2, <2>3, <2>4, <2>5 DEF Next, Process
<1>. HIDE DEF OnlyContexts
<1>. QED  BY <1>1, <1>2, PTL DEF Spec

(* DropsOnlyStale: if every command is answered, the TPM has room and no   *)
(* other software interferes, starting a run and listing the memory drop   *)
(* only entries the TPM does not accept any more, or entries below         *)
(* (validate_persistent_handles, refresh_cache).                           *)
THEOREM OnlyStaleIsDropped == Spec => DropsOnlyStale
<1>1. ASSUME KeyInv, OnlyContexts, [Next]_vars, NEW h \in Handle, phase = "start" \/ Step("drop_stale"),
             phase' = phase, cache[h] # None, cache'[h] = None, trouble' = {}
      PROVE  \E g \in Handle :
               /\ h \in Removed(cache, g) /\ cache[g] # None
               /\ g \in stale \/ (g \in PHandle /\ persistent[g] # cache[g])
  <2>1. CASE open_cache
    <3>1. phase = "start" /\ Head(todo) = "cache"  BY <2>1 DEF open_cache, At
    <3>. QED  BY <1>1, <3>1 DEF KeyInv, Outside, NoKeys
  <2>2. CASE validate_persistent_handles
    <3>1. phase = "start" /\ Head(todo) = "validate"  BY <2>2 DEF validate_persistent_handles, At
    <3>2. pending \subseteq PHandle  BY <1>1, <3>1 DEF KeyInv, Outside
    <3>3. PICK g \in pending : cache[g] # None /\ ValidateOne(g)
      BY <1>1, <2>2 DEF validate_persistent_handles
    <3>4. g \in PHandle /\ g \in Handle  BY <3>2, <3>3 DEF Handle
    <3>5. h \in Removed(cache, g)
      BY <1>1, <3>3, ValidateFrame, RemoveSome DEF KeyInv
    <3>6. persistent[g] # cache[g]  BY <1>1, <3>3 DEF ValidateOne, Lost
    <3>. QED  BY <3>3, <3>4, <3>5, <3>6
  <2>3. CASE refresh_cache
    <3>1. phase = "run"  BY <2>3 DEF refresh_cache, Step
    <3>2. trouble = {} /\ dropping \subseteq stale
      BY <1>1, <2>3, <3>1 DEF refresh_cache, KeyInv, Doomed
    <3>3. PICK g \in dropping : cache[g] # None /\ (remove(g) \/ RemoveFails(g))
      BY <1>1, <2>3 DEF refresh_cache, RemoveEntry
    <3>4. h \in Removed(cache, g)  BY <1>1, <3>3, RemoveSome DEF KeyInv
    <3>5. g \in Handle  BY <1>1, <3>2, <3>3 DEF Handle, OnlyContexts
    <3>. QED  BY <3>2, <3>3, <3>4, <3>5
  <2>4. CASE ~open_cache /\ ~validate_persistent_handles /\ ~refresh_cache
    BY <1>1, <2>4, DropFrame
  <2>. QED  BY <2>1, <2>2, <2>3, <2>4
<1>2. KeyInv /\ OnlyContexts /\ [Next]_vars =>
        [\A h \in Handle :
          (phase = "start" \/ Step("drop_stale")) /\ phase' = phase
            /\ cache[h] # None /\ cache'[h] = None /\ trouble' = {} =>
              \E g \in Handle :
                /\ h \in Removed(cache, g) /\ cache[g] # None
                /\ g \in stale \/ (g \in PHandle /\ persistent[g] # cache[g])]_vars
  BY <1>1
<1>. QED  BY <1>2, KeyInvAlways, StaleContexts, PTL DEF Spec, DropsOnlyStale
=============================================================================
