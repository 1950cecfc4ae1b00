-------------------------- MODULE VtpmCacheRefinement --------------------------
(***************************************************************************)
(* What survives a restart: the cache implements KeyStore, a clean context *)
(* comes back, and load heals the directory. All need a directory that can *)
(* be read. Nothing is assumed of the policies that callers pass: save     *)
(* does not check their length and load does, and what becomes of one that *)
(* is too long is part of what is shown.                                   *)
(***************************************************************************)
EXTENDS VtpmCacheProofs

(* While records are loaded, only ones that load accepts are cached.       *)
Accepted ==
    pc = "loading" => \A h \in Handle : contexts[h] # None =>
                          contexts[h].policy <= MAX_POLICY_COUNT

LEMMA AcceptedStep == Inv /\ Accepted /\ [Next]_vars => Accepted'
<1>. SUFFICES ASSUME Inv, Accepted, [Next]_vars, pc' = "loading", NEW h \in Handle,
                     contexts'[h] # None
              PROVE  contexts'[h].policy <= MAX_POLICY_COUNT
  BY DEF Accepted
<1>1. CASE \E s \in Supplied : New(s)
  BY <1>1 DEF New, Inv, Control, DownIsEmpty, NoContexts
<1>2. CASE \E f \in File : LoadRecord(f)
  BY <1>2 DEF LoadRecord, Loadable, Accepted, Inv, TypeOK
<1>3. CASE pc = "loading" /\ UNCHANGED contexts
  BY <1>3 DEF Accepted
<1>4. CASE Call
  BY <1>4, <1>1 DEF Call, save_transient, save_transient_full, save_persistent,
     mark_dirty, control, flush, remove, remove_missing, remove_fails
<1>5. CASE Step
  BY <1>5, <1>2, <1>3 DEF Step, LoadFails, LoadRejects, LoadSkips, memory, Forget,
     LoadDone, SaveSkip, SaveCreate, SaveSync, SaveRename, SaveFails, SaveDone,
     PopParent, RemoveChild, RemoveChildFails, RemoveDone, Return
<1>. QED  BY <1>3, <1>4, <1>5 DEF Next, Crash, Forget, vars, memory, control

(* Every cached key is stored under its own handle.                        *)
LEMMA CachedType ==
    ASSUME Inv, NEW h \in Handle, contexts[h] # None
    PROVE  /\ contexts[h] \in VtpmKey /\ contexts[h].handle = h
           /\ Loadable(h, contexts[h]) <=> contexts[h].policy <= MAX_POLICY_COUNT
           /\ contexts[h].policy \in Nat
<1>1. contexts[h] \in VtpmKey /\ contexts[h].handle = h
  BY DEF Inv, TypeOK, ReverseIndex
<1>2. contexts[h].policy \in 0..MaxPolicy
  BY <1>1 DEF VtpmKey
<1>. QED  BY <1>1, <1>2, DataAssumption DEF Loadable

(* Stable follows the directory.                                           *)
LEMMA StableType ==
    /\ Stable = [h \in Handle |-> IF Loadable(h, disk[h]) THEN disk[h] ELSE None]
    /\ Stable \in [Handle -> {key \in VtpmKey : key.policy <= MAX_POLICY_COUNT} \cup {None}]
BY DEF Stable, Loadable

(* Steps that leave the records alone leave the stable copy alone. *)
LEMMA StableSame ==
    ASSUME UNCHANGED disk
    PROVE  Stable' = Stable
BY DEF Stable, Loadable

(* Deleting a context deletes its stable copy with it.                     *)
LEMMA DropIsDelete ==
    ASSUME Inv, Running, Running', NEW h \in Handle, contexts[h] # None,
           DropContext(h)
    PROVE  KS!Delete(h)
<1>1. /\ disk' = [disk EXCEPT ![h] = None]
      /\ disk \in [File -> VtpmKey \cup {Garbage, None}]
      /\ Handle \subseteq File
  BY DropContextInv DEF Inv, TypeOK, File
<1>2. Stable' = [Stable EXCEPT ![h] = None]
  BY <1>1, NoneAssumption DEF Stable, Loadable
<1>3. Seen = contexts /\ Seen' = contexts'
  BY DEF Seen
<1>. QED  BY <1>2, <1>3 DEF KS!Delete, DropContext, Running

(* Caching a key stores it in memory only.                                 *)
LEMMA InsertIsPut ==
    ASSUME Inv, Running, UNCHANGED <<disk, pc>>, NEW h \in Handle,
           NEW key \in VtpmKey, Insert(h, key)
    PROVE  KS!Put(h)
<1>1. Stable' = Stable
  BY StableSame
<1>2. Seen = contexts /\ Seen' = contexts'
  BY DEF Seen, Running
<1>. QED  BY <1>1, <1>2 DEF KS!Put, Insert, Running

(* A rename makes the stable copy what memory holds.                       *)
LEMMA RenameIsPersist ==
    ASSUME Inv, SaveRename
    PROVE  KS!Persist(current)
<1>1. /\ current \in Handle /\ contexts[current] # None
      /\ temp = contexts[current]
      /\ disk \in [File -> VtpmKey \cup {Garbage, None}]
      /\ Handle \subseteq File
  BY DEF SaveRename, Inv, TypeOK, Control, SavingControl, File
<1>. DEFINE lasts == contexts[current].policy <= MAX_POLICY_COUNT
<1>2. contexts[current] \in VtpmKey /\ (Loadable(current, contexts[current]) <=> lasts)
  BY <1>1, CachedType
<1>3. disk' = [disk EXCEPT ![current] = contexts[current]]
  BY <1>1 DEF SaveRename
<1>4. Stable' = [Stable EXCEPT ![current] = IF lasts THEN contexts[current] ELSE None]
  <2>1. \A h \in Handle : disk'[h] = IF h = current THEN contexts[current] ELSE disk[h]
    BY <1>1, <1>3
  <2>2. \A h \in Handle : Loadable(h, disk'[h])
                             <=> IF h = current THEN lasts ELSE Loadable(h, disk[h])
    BY <1>2, <2>1
  <2>3. Stable' = [h \in Handle |-> IF Loadable(h, disk'[h]) THEN disk'[h] ELSE None]
    BY DEF Stable, Loadable
  <2>. HIDE DEF lasts
  <2>. QED  BY <1>1, <2>1, <2>2, <2>3, StableType
<1>5. Seen = contexts /\ Seen' = contexts' /\ Running /\ Running' /\ contexts' = contexts
  BY DEF Seen, Running, SaveRename
<1>. QED  BY <1>1, <1>2, <1>4, <1>5 DEF KS!Persist, Running

(* The end of new shows the owner exactly the stable copy.                 *)
LEMMA LoadDoneIsStart ==
    ASSUME Inv, Accepted, Known, LoadDone
    PROVE  KS!Start
<1>1. contexts = Stable
  <2>. SUFFICES ASSUME NEW h \in Handle PROVE contexts[h] = Stable[h]
    BY StableType DEF Inv, TypeOK
  <2>1. CASE contexts[h] # None
    <3>1. disk[h] = contexts[h]
      BY <2>1 DEF LoadDone, Inv, CleanIsOnDisk, Control, LoadingControl
    <3>2. contexts[h].policy <= MAX_POLICY_COUNT
      BY <2>1 DEF LoadDone, Accepted
    <3>. QED  BY <2>1, <3>1, <3>2, CachedType DEF Stable
  <2>2. CASE contexts[h] = None
    BY <2>2 DEF LoadDone, Known, Stable
  <2>. QED  BY <2>1, <2>2
<1>2. Stable' = Stable
  BY StableSame DEF LoadDone
<1>3. ~Running /\ Running' /\ Seen' = contexts /\ Running' = TRUE
  BY DEF LoadDone, Running, Seen
<1>. QED  BY <1>1, <1>2, <1>3 DEF KS!Start

(* A process that dies loses what is not stable.                           *)
LEMMA ForgetIsStop ==
    ASSUME Inv, Forget, UNCHANGED disk
    PROVE  KS!Stop \/ UNCHANGED <<Running, Seen, Stable>>
<1>1. Stable' = Stable
  BY StableSame
<1>2. ~Running' /\ Running' = FALSE /\ Seen' = NoContexts
  BY DEF Forget, Running, Seen
<1>3. CASE Running
  BY <1>1, <1>2, <1>3 DEF KS!Stop, KS!Empty, NoContexts
<1>4. CASE ~Running
  BY <1>1, <1>2, <1>4 DEF Seen, Running
<1>. QED  BY <1>3, <1>4

(* Steps that touch neither the records nor the contexts are invisible.    *)
LEMMA Stutter ==
    ASSUME UNCHANGED <<disk, contexts>>, Running' = Running
    PROVE  UNCHANGED <<Running, Seen, Stable>>
<1>1. Stable' = Stable
  BY StableSame
<1>. QED  BY <1>1 DEF Seen, NoContexts

(* So are the steps of load.                                               *)
LEMMA LoadingStutters ==
    ASSUME Stable' = Stable, pc \in {"down", "loading"}, pc' \in {"down", "loading"}
    PROVE  UNCHANGED <<Running, Seen, Stable>>
BY DEF Running, Seen, NoContexts

(* Every step of the cache is a step of the key store or a stutter. *)
LEMMA RefinementStep ==
    ASSUME ~ReadFault, Inv, Accepted, Known, [Next]_vars
    PROVE  [KS!Next]_<<Running, Seen, Stable>>
<1>. DEFINE Abstract == KS!Next \/ UNCHANGED <<Running, Seen, Stable>>
<1>. SUFFICES Abstract
  OBVIOUS
<1>1. CASE Call
  <2>1. CASE \E s \in Supplied : New(s)
    <3>1. Stable' = Stable
      BY <2>1, StableSame DEF New
    <3>. QED  BY <2>1, <3>1, LoadingStutters DEF New
  <2>2. CASE \E h \in Handle : remove(h)
    BY <2>2, DropIsDelete DEF remove, Running, KS!Next
  <2>3. ASSUME NEW pub \in Public, NEW pol \in 0..MaxPolicy,
               NEW par \in ParentsOf[pub], NEW ctx \in Context,
               save_transient(pub, par, ctx, pol)
        PROVE  Abstract
    <3>1. CASE UNCHANGED contexts
      BY <2>3, <3>1, Stutter DEF save_transient, Running
    <3>2. CASE ~UNCHANGED contexts
      <4>1. PICK i \in 0..(TRANSIENT_COUNT - 1) :
              Insert(Probe(i), Key(Probe(i), pub, par, ctx, pol))
        BY <2>3, <3>2 DEF save_transient
      <4>2. Probe(i) \in Handle
        BY ProbeType DEF Inv, TypeOK, Handle
      <4>. DEFINE p == Probe(i)
      <4>3. Key(p, pub, par, ctx, pol) \in VtpmKey
        <5>. HIDE DEF p
        <5>1. par \in Public \cup {NullPublic}
          BY DataAssumption
        <5>. QED  BY <4>2, <5>1 DEF Key, VtpmKey, p
      <4>4. KS!Put(p)
        BY <2>3, <4>1, <4>2, <4>3, InsertIsPut DEF save_transient, Running
      <4>. QED  BY <4>2, <4>4 DEF KS!Next
    <3>. QED  BY <3>1, <3>2
  <2>4. ASSUME NEW pub \in Public, NEW pol \in 0..MaxPolicy,
               NEW par \in ParentsOf[pub], NEW k \in Handle,
               save_persistent(k, pub, par, pol)
        PROVE  Abstract
    <3>. DEFINE key == Key(k, pub, par, DefaultContext, pol)
    <3>1. CASE UNCHANGED contexts
      BY <2>4, <3>1, Stutter DEF save_persistent, Running
    <3>2. CASE Insert(k, key)
      <4>1. key \in VtpmKey
        <5>1. par \in Public \cup {NullPublic}
          BY DataAssumption
        <5>. QED  BY <5>1, DataAssumption DEF Key, VtpmKey
      <4>2. KS!Put(k)
        BY <2>4, <3>2, <4>1, InsertIsPut DEF save_persistent, Running
      <4>. QED  BY <4>2 DEF KS!Next
    <3>. QED  BY <2>4, <3>1, <3>2 DEF save_persistent
  <2>5. CASE \/ save_transient_full
             \/ \E h \in Handle : mark_dirty(h)
             \/ \E d \in BOOLEAN : flush(d)
             \/ \E h \in Handle : remove_missing(h) \/ remove_fails(h)
    <3>1. UNCHANGED <<disk, contexts>> /\ Running' = Running
      BY <2>5 DEF save_transient_full, mark_dirty, flush, remove_missing,
                  remove_fails, memory, control, Running
    <3>. QED  BY <3>1, Stutter
  <2>. HIDE DEF Abstract
  <2>. QED  BY <1>1, <2>1, <2>2, <2>3, <2>4, <2>5 DEF Call
<1>2. CASE Step
  <2>1. CASE \E f \in File : LoadRecord(f) \/ LoadSkips(f)
    <3>1. Stable' = Stable
      BY <2>1, StableSame DEF LoadRecord, LoadSkips
    <3>. QED  BY <2>1, <3>1, LoadingStutters DEF LoadRecord, LoadSkips
  <2>2. ASSUME NEW f \in File, LoadRejects(f)
        PROVE  Abstract
    <3>1. disk \in [File -> VtpmKey \cup {Garbage, None}] /\ Handle \subseteq File
      BY DEF Inv, TypeOK, File
    <3>2. disk' = [disk EXCEPT ![f] = None] \/ disk' = disk
      BY <2>2 DEF LoadRejects, RemoveUnusable
    <3>3. f \in Handle => ~Loadable(f, disk[f])
      BY <2>2, FileAssumption DEF LoadRejects
    <3>4. Stable' = Stable
      BY <3>1, <3>2, <3>3, NoneAssumption DEF Stable, Loadable
    <3>. QED  BY <2>2, <3>4, LoadingStutters DEF LoadRejects
  <2>3. CASE \E f \in File : LoadFails(f)
    BY <2>3, ForgetIsStop DEF LoadFails, KS!Next
  <2>4. CASE LoadDone
    BY <2>4, LoadDoneIsStart DEF KS!Next
  <2>5. CASE SaveRename
    <3>1. current \in Handle
      BY <2>5 DEF SaveRename, Inv, Control, SavingControl
    <3>. QED  BY <2>5, <3>1, RenameIsPersist DEF KS!Next
  <2>6. CASE \E k \in Handle : RemoveChild(k)
    BY <2>6, DropIsDelete DEF RemoveChild, Running, KS!Next, Inv, Control,
                              RemovingControl
  <2>7. CASE SaveFails \/ SaveDone \/ RemoveDone
             \/ \E k \in Handle : RemoveChildFails(k)
    <3>1. UNCHANGED disk /\ Running /\ (\/ Forget
                                        \/ pc' = "idle" /\ UNCHANGED contexts)
      BY <2>7 DEF SaveFails, SaveDone, RemoveDone, RemoveChildFails, Return,
                  memory, Running
    <3>2. CASE Forget
      BY <3>1, <3>2, ForgetIsStop DEF KS!Next
    <3>3. CASE pc' = "idle" /\ UNCHANGED contexts
      BY <3>1, <3>3, Stutter DEF Running
    <3>. QED  BY <3>1, <3>2, <3>3
  <2>8. CASE \/ \E h \in Handle : SaveSkip(h) \/ SaveCreate(h)
             \/ SaveSync \/ PopParent
    <3>1. UNCHANGED <<disk, contexts>> /\ Running' = Running
      BY <2>8 DEF SaveSkip, SaveCreate, SaveSync, PopParent, memory, Running
    <3>. QED  BY <3>1, Stutter
  <2>. HIDE DEF Abstract
  <2>. QED  BY <1>2, <2>1, <2>2, <2>3, <2>4, <2>5, <2>6, <2>7, <2>8 DEF Step
<1>3. CASE Crash
  BY <1>3, ForgetIsStop DEF Crash, KS!Next
<1>4. CASE UNCHANGED vars
  <2>1. UNCHANGED <<disk, contexts>> /\ Running' = Running
    BY <1>4 DEF vars, memory, control, Running
  <2>. QED  BY <2>1, Stutter
<1>. HIDE DEF Abstract
<1>. QED  BY <1>1, <1>2, <1>3, <1>4 DEF Next

(* Every behaviour of the cache, crashes and failing writes included, is a *)
(* behaviour of the key store.                                             *)
THEOREM Refinement == ~ReadFault => (Spec => ImplementsKeyStore)
<1>. SUFFICES ASSUME ~ReadFault PROVE Spec => ImplementsKeyStore
  OBVIOUS
<1>1. Init => KS!Init
  BY StableType DEF Init, Running, Seen, KS!Init, KS!Empty, NoContexts
<1>2. Init => Known /\ Accepted
  BY DEF Init, Known, Accepted
<1>3. Inv /\ Known /\ [Next]_vars => Known'
  BY KnownStep
<1>4. Inv /\ Accepted /\ [Next]_vars => Accepted'
  BY AcceptedStep
<1>5. Inv /\ Accepted /\ Known /\ [Next]_vars => [KS!Next]_<<Running, Seen, Stable>>
  BY RefinementStep
<1>. QED  BY <1>1, <1>2, <1>3, <1>4, <1>5, InvHolds, PTL
          DEF Spec, ImplementsKeyStore, KS!Spec

-----------------------------------------------------------------------------
(* What a start finds: the clean contexts of the last cache, and nothing   *)
(* else than records that load is left in the directory.                   *)

(* What was clean when the last cache ended, while a new one starts: a      *)
(* record that load accepts is in place until it has been read, and then   *)
(* it is cached; one with too long a policy is never cached, whether load  *)
(* has deleted it or not.                                                  *)
Remembers(h) ==
    /\ before[h] \in VtpmKey
    /\ before[h].handle = h
    /\ IF before[h].policy <= MAX_POLICY_COUNT
       THEN /\ disk[h] = before[h]
            /\ pc = "loading" /\ h \notin todo => contexts[h] = before[h]
       ELSE /\ disk[h] \in {before[h], None}
            /\ contexts[h] = None

Remembered ==
    pc \in {"down", "loading"} =>
        \A h \in Handle : before[h] # None => Remembers(h)

(* The end of a process: what its last cache had clean is on disk.         *)
LEMMA RememberedForget ==
    ASSUME Inv, Remembered, Forget, UNCHANGED disk
    PROVE  Remembered'
<1>. SUFFICES ASSUME NEW h \in Handle, before'[h] # None
              PROVE  Remembers(h)'
  BY DEF Remembered
<1>1. pc' = "down" /\ contexts'[h] = None /\ before' = Clean
  BY DEF Forget, NoContexts
<1>2. CASE pc \in {"down", "loading"}
  <2>1. before' = before
    BY <1>1, <1>2 DEF Clean
  <2>. QED  BY <1>1, <1>2, <2>1 DEF Remembered, Remembers
<1>3. CASE pc \notin {"down", "loading"}
  <2>1. before'[h] = contexts[h] /\ contexts[h] # None /\ h \notin dirty
    BY <1>1, <1>3 DEF Clean
  <2>2. contexts[h] \in VtpmKey /\ contexts[h].handle = h /\ disk[h] = contexts[h]
    BY <2>1 DEF Inv, TypeOK, ReverseIndex, CleanIsOnDisk
  <2>. QED  BY <1>1, <2>1, <2>2 DEF Remembers
<1>. QED  BY <1>2, <1>3

(* Neither a start nor its end in the middle loses what is remembered.     *)
LEMMA RememberedStep ==
    ASSUME ~ReadFault, Inv, Remembered, [Next]_vars
    PROVE  Remembered'
<1>0. /\ disk \in [File -> VtpmKey \cup {Garbage, None}]
      /\ contexts \in [Handle -> VtpmKey \cup {None}]
      /\ Handle \subseteq File
      /\ OtherFile \cap Handle = {}
  BY FileAssumption DEF Inv, TypeOK, File
<1>1. CASE pc' \notin {"down", "loading"}
  BY <1>1 DEF Remembered
<1>2. CASE Forget /\ UNCHANGED disk
  BY <1>2, RememberedForget
<1>3. CASE UNCHANGED vars
  BY <1>3 DEF vars, memory, control, Remembered, Remembers
<1>4. CASE \E s \in Supplied : New(s)
  <2>. SUFFICES ASSUME NEW h \in Handle, before[h] # None
                PROVE  Remembers(h)'
    BY <1>4 DEF New, Remembered
  <2>1. Remembers(h) /\ contexts[h] = None
    BY <1>4 DEF New, Remembered, Inv, Control, DownIsEmpty, NoContexts
  <2>2. disk[h] # None => h \in todo'
    BY <1>0, <1>4 DEF New
  <2>. QED  BY <1>4, <2>1, <2>2, NoneAssumption DEF New, Remembers
<1>5. ASSUME NEW f \in File, LoadRecord(f)
      PROVE  Remembered'
  <2>. SUFFICES ASSUME NEW h \in Handle, before[h] # None
                PROVE  Remembers(h)'
    BY <1>5 DEF LoadRecord, Remembered
  <2>1. Remembers(h)
    BY <1>5 DEF LoadRecord, Remembered
  <2>2. CASE h = f
    <3>1. disk[h] = before[h] /\ before[h].policy <= MAX_POLICY_COUNT
      BY <1>5, <2>1, <2>2, NoneAssumption DEF LoadRecord, Loadable, Remembers
    <3>. QED  BY <1>0, <1>5, <2>1, <2>2, <3>1 DEF LoadRecord, Remembers
  <2>3. CASE h # f
    <3>1. contexts'[h] = contexts[h] /\ (h \in todo' <=> h \in todo)
      BY <1>0, <1>5, <2>3 DEF LoadRecord
    <3>. QED  BY <1>5, <2>1, <3>1 DEF LoadRecord, Remembers
  <2>. QED  BY <2>2, <2>3
<1>6. ASSUME NEW f \in File, LoadRejects(f)
      PROVE  Remembered'
  <2>. SUFFICES ASSUME NEW h \in Handle, before[h] # None
                PROVE  Remembers(h)'
    BY <1>6 DEF LoadRejects, Remembered
  <2>1. Remembers(h) /\ contexts' = contexts
    BY <1>6 DEF LoadRejects, memory, Remembered
  <2>2. disk' = [disk EXCEPT ![f] = None] \/ disk' = disk
    BY <1>6 DEF LoadRejects, RemoveUnusable
  <2>3. CASE h = f
    <3>1. ~Loadable(h, disk[h])
      BY <1>6, <2>3, FileAssumption DEF LoadRejects
    <3>2. ~(before[h].policy <= MAX_POLICY_COUNT)
      BY <2>1, <3>1 DEF Loadable, Remembers
    <3>3. disk'[h] = disk[h] \/ disk'[h] = None
      BY <1>0, <2>2
    <3>. QED  BY <1>6, <2>1, <3>2, <3>3 DEF LoadRejects, Remembers
  <2>4. CASE h # f
    <3>1. disk'[h] = disk[h] /\ (h \in todo' <=> h \in todo)
      BY <1>0, <1>6, <2>2, <2>4 DEF LoadRejects
    <3>. QED  BY <1>6, <2>1, <3>1 DEF LoadRejects, Remembers
  <2>. QED  BY <2>3, <2>4
<1>7. ASSUME NEW f \in File, LoadSkips(f)
      PROVE  Remembered'
  <2>1. f \notin Handle
    BY <1>0, <1>7 DEF LoadSkips
  <2>. QED  BY <1>7, <2>1 DEF LoadSkips, memory, Remembered, Remembers
<1>8. CASE Call
  BY <1>8, <1>1, <1>4 DEF Call, save_transient, save_transient_full,
     save_persistent, mark_dirty, control, flush, remove, remove_missing,
     remove_fails
<1>9. CASE Step
  BY <1>9, <1>1, <1>2, <1>5, <1>6, <1>7 DEF Step, LoadFails, LoadDone, SaveSkip,
     SaveCreate, SaveSync, SaveRename, SaveFails, SaveDone, PopParent,
     RemoveChild, RemoveChildFails, RemoveDone, Return
<1>10. CASE Crash
  BY <1>10, <1>2 DEF Crash
<1>. QED  BY <1>3, <1>8, <1>9, <1>10 DEF Next

(* What was clean when a cache ended comes back at the next start that     *)
(* completes, whatever was cut short in between, and a key whose policy is *)
(* longer than load accepts is dropped by it; nothing is assumed of the    *)
(* policies callers pass.                                                  *)
THEOREM CleanComesBack == ~ReadFault => (Spec => CleanIsDurable)
<1>. SUFFICES ASSUME ~ReadFault PROVE Spec => CleanIsDurable
  OBVIOUS
<1>. DEFINE Comes == pc = "loading" /\ pc' = "idle" =>
                       \A h \in Handle : before[h] # None =>
                         contexts'[h] = IF before[h].policy <= MAX_POLICY_COUNT
                                        THEN before[h] ELSE None
<1>1. Init => Remembered
  BY DEF Init, NoContexts, Remembered
<1>2. Inv /\ Remembered /\ [Next]_vars => Remembered'
  BY RememberedStep
<1>3. Remembered /\ [Next]_vars => [Comes]_vars
  <2>. SUFFICES ASSUME Remembered, Next, pc = "loading", pc' = "idle",
                       NEW h \in Handle, before[h] # None
                PROVE  contexts'[h] = IF before[h].policy <= MAX_POLICY_COUNT
                                      THEN before[h] ELSE None
    OBVIOUS
  <2>1. todo = {} /\ contexts' = contexts
    BY DEF Next, Call, Step, Crash, Forget, New, save_transient,
       save_transient_full, save_persistent, mark_dirty, flush, remove,
       remove_missing, remove_fails, LoadRecord, LoadFails, LoadRejects,
       LoadSkips, LoadDone, SaveSkip, SaveCreate, SaveSync, SaveRename,
       SaveFails, SaveDone, PopParent, RemoveChild, RemoveChildFails,
       RemoveDone
  <2>. QED  BY <2>1 DEF Remembered, Remembers
<1>. QED  BY <1>1, <1>2, <1>3, InvHolds, PTL DEF Spec, CleanIsDurable

(* SelfHeals, and what it rests on while the directory is being read: what *)
(* is not usable is still to be visited.                                   *)
Healed ==
    pc # "down" =>
        /\ \A h \in Handle : disk[h] # None =>
              \/ Loadable(h, disk[h]) \/ TooLong(h)
              \/ pc = "loading" /\ h \in todo
        /\ \A f \in SessionFile : disk[f] # None => pc = "loading" /\ f \in todo

(* A step that leaves a process running, touches no record and drops no    *)
(* context keeps what has been healed.                                     *)
LEMMA HealedSame ==
    ASSUME Healed, UNCHANGED disk, pc \notin {"down", "loading"},
           \A h \in Handle : contexts[h] # None => contexts'[h] # None
    PROVE  Healed'
BY DEF Healed, Loadable, TooLong

(* Deleting a record leaves nothing to heal.                               *)
LEMMA HealedDelete ==
    ASSUME Healed, NEW f \in File, disk \in [File -> VtpmKey \cup {Garbage, None}],
           disk' = [disk EXCEPT ![f] = None],
           \A h \in Handle : h # f => contexts'[h] = contexts[h],
           \/ pc \notin {"down", "loading"}
           \/ pc = "loading" /\ pc' = "loading" /\ todo' = todo \ {f}
    PROVE  Healed'
<1>. SUFFICES ASSUME NEW g \in Handle \cup SessionFile, disk'[g] # None
              PROVE  g # f /\ disk'[g] = disk[g]
  BY DEF Healed, Loadable, TooLong
<1>. QED  BY DEF File

(* No step leaves a record that load would have to reject.                 *)
LEMMA HealedStep ==
    ASSUME ~ReadFault, ~UnlinkFault, Inv, Healed, [Next]_vars
    PROVE  Healed'
<1>0. /\ disk \in [File -> VtpmKey \cup {Garbage, None}]
      /\ contexts \in [Handle -> VtpmKey \cup {None}]
      /\ Handle \subseteq File /\ SessionFile \subseteq File
      /\ SessionFile \cap Handle = {} /\ SessionFile \cap OtherFile = {}
      /\ OtherFile \cap Handle = {}
  BY FileAssumption DEF Inv, TypeOK, File
<1>1. ASSUME NEW k \in Handle, contexts[k] # None, DropContext(k),
             pc \notin {"down", "loading"}
      PROVE  Healed'
  <2>1. disk' = [disk EXCEPT ![k] = None]
    BY <1>1, DropContextInv
  <2>2. \A h \in Handle : h # k => contexts'[h] = contexts[h]
    BY <1>0, <1>1 DEF DropContext
  <2>. QED  BY <1>0, <1>1, <2>1, <2>2, HealedDelete
<1>2. CASE \E s \in Supplied : New(s)
  BY <1>0, <1>2 DEF New, Healed
<1>3. CASE \E k \in Handle : remove(k)
  BY <1>1, <1>3 DEF remove
<1>4. CASE \E f \in File : LoadRecord(f)
  BY <1>0, <1>4, NoneAssumption DEF LoadRecord, Healed, Loadable, TooLong
<1>5. ASSUME NEW f \in File, LoadRejects(f)
      PROVE  Healed'
  <2>1. disk' = [disk EXCEPT ![f] = None]
    BY <1>5 DEF LoadRejects, RemoveUnusable
  <2>. QED  BY <1>0, <1>5, <2>1, HealedDelete DEF LoadRejects, memory
<1>6. CASE \E f \in File : LoadSkips(f)
  BY <1>0, <1>6 DEF LoadSkips, memory, Healed, Loadable, TooLong
<1>7. CASE LoadDone
  BY <1>7 DEF LoadDone, Healed, Loadable, TooLong
<1>8. CASE SaveRename
  <2>1. PICK c \in Handle : c = current /\ contexts[c] # None /\ temp = contexts[c]
    BY <1>8 DEF SaveRename, Inv, Control, SavingControl
  <2>2. /\ disk' = [disk EXCEPT ![c] = contexts[c]] /\ contexts' = contexts
        /\ pc = "renaming" /\ pc' = "saving"
    BY <1>8, <2>1 DEF SaveRename
  <2>3. Loadable(c, disk'[c]) \/ TooLong(c)'
    BY <1>0, <2>1, <2>2, CachedType, DataAssumption DEF Loadable, TooLong
  <2>4. \A g \in Handle \cup SessionFile : g # c => disk'[g] = disk[g]
    BY <1>0, <2>2
  <2>5. c \notin SessionFile
    BY <1>0, <2>1
  <2>. QED  BY <2>2, <2>3, <2>4, <2>5 DEF Healed, Loadable, TooLong
<1>9. CASE \E k \in Handle : RemoveChild(k)
  BY <1>1, <1>9 DEF RemoveChild, Inv, Control, RemovingControl
<1>10. CASE pc' = "down"
  BY <1>10 DEF Healed
<1>11. CASE UNCHANGED <<disk, contexts>> /\ pc \notin {"down", "loading"}
  BY <1>11, HealedSame
<1>12. CASE UNCHANGED <<disk, contexts, pc, todo>>
  BY <1>12 DEF Healed, Loadable, TooLong
<1>13. ASSUME NEW h \in Handle, NEW key \in VtpmKey, Insert(h, key), UNCHANGED disk,
              pc = "idle"
       PROVE  Healed'
  <2>1. \A g \in Handle : contexts[g] # None => contexts'[g] # None
    BY <1>0, <1>13, NoneAssumption DEF Insert
  <2>. QED  BY <1>13, <2>1, HealedSame
<1>14. ASSUME NEW pub \in Public, NEW pol \in 0..MaxPolicy, NEW par \in ParentsOf[pub]
       PROVE  /\ \A ctx \in Context : save_transient(pub, par, ctx, pol) => Healed'
              /\ \A k \in Handle : save_persistent(k, pub, par, pol) => Healed'
  <2>0. par \in Public \cup {NullPublic}
    BY <1>14, DataAssumption
  <2>1. ASSUME NEW h \in Handle, NEW ctx \in Context
        PROVE  Key(h, pub, par, ctx, pol) \in VtpmKey
    BY <2>0 DEF Key, VtpmKey
  <2>2. ASSUME NEW ctx \in Context, save_transient(pub, par, ctx, pol)
        PROVE  Healed'
    <3>1. CASE UNCHANGED contexts
      BY <2>2, <3>1, <1>11 DEF save_transient
    <3>2. CASE ~UNCHANGED contexts
      <4>1. PICK i \in 0..(TRANSIENT_COUNT - 1) :
              Insert(Probe(i), Key(Probe(i), pub, par, ctx, pol))
        BY <2>2, <3>2 DEF save_transient
      <4>2. Probe(i) \in Handle
        BY ProbeType DEF Inv, TypeOK, Handle
      <4>. QED  BY <2>1, <2>2, <4>1, <4>2, <1>13 DEF save_transient
    <3>. QED  BY <3>1, <3>2
  <2>3. ASSUME NEW k \in Handle, save_persistent(k, pub, par, pol)
        PROVE  Healed'
    BY <2>1, <2>3, <1>11, <1>13, DataAssumption DEF save_persistent
  <2>. QED  BY <2>2, <2>3
<1>15. CASE Call
  BY <1>15, <1>2, <1>3, <1>11, <1>14 DEF Call, save_transient_full, mark_dirty,
     flush, remove_missing, remove_fails, memory
<1>16. CASE Step
  BY <1>16, <1>4, <1>5, <1>6, <1>7, <1>8, <1>9, <1>10, <1>11 DEF Step,
     LoadFails, Forget, SaveSkip, SaveCreate, SaveSync, SaveFails, SaveDone,
     PopParent, RemoveChildFails, RemoveDone, Return, memory
<1>. QED  BY <1>10, <1>12, <1>15, <1>16 DEF Next, Crash, Forget, vars, memory, control

(* With a directory that can be read and files that can be deleted,        *)
(* whatever litter the directory held, only records that load are left     *)
(* once new has returned, and a later step adds no others but those of     *)
(* keys whose policy is too long.                                          *)
THEOREM DirectoryHeals == ~ReadFault /\ ~UnlinkFault => (Spec => []SelfHeals)
<1>. SUFFICES ASSUME ~ReadFault, ~UnlinkFault PROVE Spec => []SelfHeals
  OBVIOUS
<1>1. Init => Healed
  BY DEF Init, Healed
<1>2. Inv /\ Healed /\ [Next]_vars => Healed'
  BY HealedStep
<1>3. Healed => SelfHeals
  BY DEF Healed, SelfHeals, Running
<1>. QED  BY <1>1, <1>2, <1>3, InvHolds, PTL DEF Spec

=============================================================================
