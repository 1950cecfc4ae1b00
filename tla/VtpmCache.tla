------------------------------- MODULE VtpmCache -------------------------------
(***************************************************************************)
(* The virtual TPM context cache of crates/vtpm/src/lib.rs: the in-memory  *)
(* maps of one VtpmCache, the directory of <handle>.bin records behind     *)
(* it, and the life of the process that owns it: VtpmCache::new, the       *)
(* public operations, Drop, a crash at any point, and the next start.      *)
(*                                                                         *)
(* The cache is used by one thread (&mut self), so an operation is only    *)
(* split where a crash or a failing system call can separate its effects:  *)
(* one step per directory entry of load, one per stage of write_atomic,    *)
(* one per record deleted by remove and remove_subtree.                    *)
(***************************************************************************)
EXTENDS Integers, Sequences

CONSTANTS
    TRANSIENT_START,   \* first virtual transient handle (0x80000000)
    TRANSIENT_END,     \* last virtual transient handle (0x80FFFFFF)
    PersistentHandle,  \* persistent handles (0x81......), above TRANSIENT_END
    SessionFile,       \* stems of HMAC and policy session files
    OtherFile,         \* stems whose type prefix is none of the known ones
    Public,            \* public areas (TpmtPublic) of real objects
    NullPublic,        \* the default public area: the "parent" of a primary
    Name,              \* names (Tpm2bName)
    tpm_make_name,     \* Public -> Name, or None for an unsupported name_alg
    ParentsOf,         \* the parents under which an object may be loaded
    Context,           \* saved context blobs (TpmsContext)
    DefaultContext,    \* the empty context of a persistent entry
    MAX_POLICY_COUNT,  \* policy commands accepted by load (16)
    MaxPolicy,         \* bound: longest policy a caller passes
    ForeignFile,       \* file contents other programs may have left behind
    ReadFault,         \* may reading a record fail with an I/O error?
    UnlinkFault,       \* may remove_file fail?
    WriteFault,        \* may creating, writing or renaming a file fail?
    None,              \* Option::None, and "no such file"
    Garbage            \* a stale, corrupt, truncated or oversized record

TransientHandle == TRANSIENT_START..TRANSIENT_END
TRANSIENT_COUNT == TRANSIENT_END - TRANSIENT_START + 1
Handle == TransientHandle \cup PersistentHandle
File == Handle \cup SessionFile \cup OtherFile

(* A cached key. A policy is abstracted to its number of commands, the     *)
(* only part of it that load limits.                                       *)
VtpmKey == [handle: Handle, public: Public, parent: Public \cup {NullPublic},
            context: Context, policy: 0..MaxPolicy]

ASSUME HandleAssumption ==
    /\ TRANSIENT_START \in Nat
    /\ TRANSIENT_END \in Nat
    /\ TRANSIENT_START <= TRANSIENT_END
    /\ PersistentHandle \subseteq {h \in Nat : h > TRANSIENT_END}

ASSUME FileAssumption ==
    /\ (SessionFile \cup OtherFile) \cap Handle = {}
    /\ SessionFile \cap OtherFile = {}

ASSUME NoneAssumption ==
    /\ None \notin Handle \cup Name \cup VtpmKey \cup {Garbage}
    /\ Garbage \notin VtpmKey
    /\ NullPublic \notin Public

ASSUME DataAssumption ==
    /\ tpm_make_name \in [Public -> Name \cup {None}]
    /\ ParentsOf \in [Public -> SUBSET (Public \cup {NullPublic})]
    /\ DefaultContext \in Context
    /\ MAX_POLICY_COUNT \in Nat
    /\ MaxPolicy \in Nat
    /\ ForeignFile \subseteq VtpmKey \cup {Garbage}
    /\ {ReadFault, UnlinkFault, WriteFault} \subseteq BOOLEAN

VARIABLES
    disk,                \* contents of <stem>.bin for every stem
    temp,                \* the temporary file of write_atomic; None: not in use
    contexts,            \* virtual handle -> cached key
    handles,             \* name -> live handle
    names,               \* virtual handle -> the name it published
    dirty,               \* handles that must be persisted
    next_virtual_handle, \* where the next allocation starts probing
    supplied,            \* the handles argument of the last VtpmCache::new
    pc,                  \* what the process is doing
    todo,                \* files to load, handles to save, children to delete
    ancestor_list,       \* publics whose children remove_subtree still visits
    current,             \* the handle being written, or the target of remove
    dropping,            \* is the current save the one of Drop?
    before,              \* history: contexts when remove was called; while no cache
                         \* is in use, the clean ones of the last that was
    result               \* outcome of the last completed call

memory == <<contexts, handles, names, dirty, next_virtual_handle, supplied>>
control == <<pc, todo, ancestor_list, current, dropping, before, result>>
vars == <<disk, temp, memory, control>>

NoContexts == [h \in Handle |-> None]
Live(cs) == {h \in Handle : cs[h] # None}

-----------------------------------------------------------------------------
(* The name index.                                                         *)

\* Mutant: retires the mapping even when another context took the name over.
UnpublishedAlways(hs, ns, h) ==
    IF ns[h] # None THEN [hs EXCEPT ![ns[h]] = None] ELSE hs

(* handles after unpublish_name(h): the entry is dropped only when it still *)
(* resolves to h.                                                          *)
unpublish_name(hs, ns, h) ==
    IF ns[h] # None /\ hs[ns[h]] = h
    THEN [hs EXCEPT ![ns[h]] = None]
    ELSE hs

\* Mutant: publishes without retiring the name the handle had before.
PublishOnly(hs, ns, h, n) == [hs EXCEPT ![n] = h]

(* handles after publish_name(h, n).                                       *)
publish_name(hs, ns, h, n) == [unpublish_name(hs, ns, h) EXCEPT ![n] = h]

(* find_by_name: None, or the key the live handle of the name resolves to. *)
find_by_name(n) ==
    IF handles[n] \in Handle THEN contexts[handles[n]] ELSE None

-----------------------------------------------------------------------------
(* VtpmCache::new and load.                                                *)

\* Mutant: off by one at the longest policy.
LoadableBelow(f, r) ==
    /\ r \in VtpmKey
    /\ r.handle = f
    /\ r.policy < MAX_POLICY_COUNT

(* VtpmKey::load succeeds on contents r of the file with stem f.           *)
Loadable(f, r) ==
    /\ r \in VtpmKey
    /\ r.handle = f
    /\ r.policy <= MAX_POLICY_COUNT

(* VtpmCache::new up to the directory scan. s is the handles argument: the *)
(* persistent objects of the TPM, by name.                                 *)
New(s) ==
    /\ pc = "down"
    /\ pc' = "loading"
    /\ todo' = {f \in File : disk[f] # None}
    /\ supplied' = s
    /\ handles' = s
    /\ next_virtual_handle' = TRANSIENT_START
    /\ UNCHANGED <<disk, temp, contexts, names, dirty,
                   ancestor_list, current, dropping, before, result>>

(* The contexts without dirty mark, those of the last cache after its end. *)
Clean ==
    IF pc \in {"down", "loading"} THEN before
    ELSE [h \in Handle |-> IF h \in dirty THEN None ELSE contexts[h]]

(* The process is gone: everything but the records is forgotten. A         *)
(* temporary file it leaves carries its pid and is never read again.       *)
Forget ==
    /\ temp' = None
    /\ contexts' = NoContexts
    /\ handles' = [n \in Name |-> None]
    /\ names' = NoContexts
    /\ dirty' = {}
    /\ next_virtual_handle' = TRANSIENT_START
    /\ supplied' = [n \in Name |-> None]
    /\ pc' = "down"
    /\ todo' = {}
    /\ ancestor_list' = <<>>
    /\ current' = None
    /\ dropping' = FALSE
    /\ before' = Clean
    /\ result' = "Ok"

(* A record that loads is cached and publishes its name.                   *)
LoadRecord(f) ==
    /\ pc = "loading" /\ f \in todo \cap Handle
    /\ Loadable(f, disk[f])
    /\ tpm_make_name[disk[f].public] # None
    /\ contexts' = [contexts EXCEPT ![f] = disk[f]]
    /\ handles' = publish_name(handles, names, f, tpm_make_name[disk[f].public])
    /\ names' = [names EXCEPT ![f] = tpm_make_name[disk[f].public]]
    /\ todo' = todo \ {f}
    /\ UNCHANGED <<disk, temp, dirty, next_virtual_handle, supplied,
                   pc, ancestor_list, current, dropping, before, result>>

(* A record whose name cannot be computed fails the whole call of new.     *)
LoadFails(f) ==
    /\ pc = "loading" /\ f \in todo \cap Handle
    /\ Loadable(f, disk[f])
    /\ tpm_make_name[disk[f].public] = None
    /\ Forget
    /\ UNCHANGED disk

\* Mutant: a record that fails to load is left in place.
KeepUnusable(f) == disk' = disk

(* remove_file on an entry that load rejects; a failure is only logged.    *)
RemoveUnusable(f) ==
    \/ disk' = [disk EXCEPT ![f] = None]
    \/ UnlinkFault /\ disk' = disk

(* An unusable record (or one whose read failed), or a session file.       *)
LoadRejects(f) ==
    /\ pc = "loading" /\ f \in todo \ OtherFile
    /\ \/ f \in SessionFile
       \/ f \in Handle /\ (ReadFault \/ ~Loadable(f, disk[f]))
    /\ RemoveUnusable(f)
    /\ todo' = todo \ {f}
    /\ UNCHANGED <<temp, memory, pc, ancestor_list, current, dropping,
                   before, result>>

(* Any other .bin file is left alone, and so is an entry that read_dir     *)
(* fails to return.                                                        *)
LoadSkips(f) ==
    /\ pc = "loading" /\ f \in todo
    /\ f \in OtherFile \/ ReadFault
    /\ todo' = todo \ {f}
    /\ UNCHANGED <<disk, temp, memory, pc, ancestor_list, current, dropping,
                   before, result>>

(* The handle after h, wrapping at the end of the transient range.         *)
Successor(h) == IF h + 1 > TRANSIENT_END THEN TRANSIENT_START ELSE h + 1

(* The end of new: allocation resumes after the largest cached handle.     *)
(* A persistent handle counts too, and is beyond the range: probing then   *)
(* starts over at TRANSIENT_START.                                         *)
LoadDone ==
    /\ pc = "loading" /\ todo = {}
    /\ IF Live(contexts) = {}
       THEN next_virtual_handle' = next_virtual_handle
       ELSE \E m \in Live(contexts) :
              /\ \A h \in Live(contexts) : h <= m
              /\ next_virtual_handle' =
                   IF m >= next_virtual_handle THEN Successor(m)
                   ELSE next_virtual_handle
    /\ pc' = "idle"
    /\ result' = "Ok"
    /\ before' = NoContexts
    /\ UNCHANGED <<disk, temp, contexts, handles, names, dirty, supplied,
                   todo, ancestor_list, current, dropping>>

-----------------------------------------------------------------------------
(* save_transient, save_persistent, mark_dirty.                            *)

\* Mutant: the probe does not wrap and stays at the last handle.
ProbeSaturating(i) ==
    LET v == next_virtual_handle + i
    IN  IF v > TRANSIENT_END THEN TRANSIENT_END ELSE v

(* The i-th handle save_transient tries.                                   *)
Probe(i) ==
    LET v == next_virtual_handle + i
    IN  IF v > TRANSIENT_END
        THEN TRANSIENT_START + (v - TRANSIENT_END - 1)
        ELSE v

Key(h, pub, par, ctx, pol) ==
    [handle |-> h, public |-> pub, parent |-> par, context |-> ctx,
     policy |-> pol]

(* The common tail of both: insert, publish the name, mark dirty.          *)
Insert(h, key) ==
    /\ contexts' = [contexts EXCEPT ![h] = key]
    /\ handles' = publish_name(handles, names, h, tpm_make_name[key.public])
    /\ names' = [names EXCEPT ![h] = tpm_make_name[key.public]]
    /\ dirty' = dirty \cup {h}

save_transient(pub, par, ctx, pol) ==
    /\ pc = "idle"
    /\ \E i \in 0..(TRANSIENT_COUNT - 1) :
         /\ contexts[Probe(i)] = None
         /\ \A j \in 0..(i - 1) : contexts[Probe(j)] # None
         /\ \/ /\ tpm_make_name[pub] # None
               /\ Insert(Probe(i), Key(Probe(i), pub, par, ctx, pol))
               /\ next_virtual_handle' = Successor(Probe(i))
               /\ result' = "Ok"
            \/ /\ tpm_make_name[pub] = None
               /\ UNCHANGED <<contexts, handles, names, dirty,
                              next_virtual_handle>>
               /\ result' = "OperationFailed"
    /\ UNCHANGED <<disk, temp, supplied, pc, todo, ancestor_list, current,
                   dropping, before>>

save_transient_full ==
    /\ pc = "idle"
    /\ \A i \in 0..(TRANSIENT_COUNT - 1) : contexts[Probe(i)] # None
    /\ result' = "NoHandles"
    /\ UNCHANGED <<disk, temp, memory, pc, todo, ancestor_list, current,
                   dropping, before>>

save_persistent(h, pub, par, pol) ==
    /\ pc = "idle"
    /\ \/ /\ h \in PersistentHandle
          /\ tpm_make_name[pub] # None
          /\ Insert(h, Key(h, pub, par, DefaultContext, pol))
          /\ result' = "Ok"
       \/ /\ h \in PersistentHandle
          /\ tpm_make_name[pub] = None
          /\ UNCHANGED <<contexts, handles, names, dirty>>
          /\ result' = "OperationFailed"
       \/ /\ h \notin PersistentHandle
          /\ UNCHANGED <<contexts, handles, names, dirty>>
          /\ result' = "InvalidHandleType"
    /\ UNCHANGED <<disk, temp, next_virtual_handle, supplied, pc, todo,
                   ancestor_list, current, dropping, before>>

mark_dirty(h) ==
    /\ pc = "idle"
    /\ dirty' = dirty \cup {h}
    /\ UNCHANGED <<disk, temp, contexts, handles, names, next_virtual_handle,
                   supplied, control>>

-----------------------------------------------------------------------------
(* flush, teardown and Drop: save writes every dirty context.              *)

(* The call begins: the dirty handles are collected up front. d tells a     *)
(* flush from the teardown of Drop, after which the cache is gone.         *)
flush(d) ==
    /\ pc = "idle"
    /\ pc' = "saving"
    /\ todo' = dirty
    /\ dropping' = d
    /\ UNCHANGED <<disk, temp, memory, ancestor_list, current, before, result>>

(* A dirty handle without a context has nothing to write.                  *)
SaveSkip(h) ==
    /\ pc = "saving" /\ h \in todo
    /\ contexts[h] = None
    /\ dirty' = dirty \ {h}
    /\ todo' = todo \ {h}
    /\ UNCHANGED <<disk, temp, contexts, handles, names, next_virtual_handle,
                   supplied, pc, ancestor_list, current, dropping, before,
                   result>>

\* Mutant: the record itself is opened for writing, not a temporary file.
CreateInPlace(h) ==
    /\ pc = "saving" /\ h \in todo
    /\ contexts[h] # None
    /\ disk' = [disk EXCEPT ![h] = Garbage]
    /\ temp' = temp
    /\ current' = h
    /\ pc' = "writing"
    /\ UNCHANGED <<memory, todo, ancestor_list, dropping, before, result>>

(* write_atomic: the temporary file exists but is not complete.            *)
SaveCreate(h) ==
    /\ pc = "saving" /\ h \in todo
    /\ contexts[h] # None
    /\ temp' = Garbage
    /\ current' = h
    /\ pc' = "writing"
    /\ UNCHANGED <<disk, memory, todo, ancestor_list, dropping, before, result>>

(* write_atomic: write_all and sync_all have completed.                    *)
SaveSync ==
    /\ pc = "writing"
    /\ temp' = contexts[current]
    /\ pc' = "renaming"
    /\ UNCHANGED <<disk, memory, todo, ancestor_list, current, dropping,
                   before, result>>

\* Mutant: all that was collected is reported clean with the first record.
RenameCleansAll ==
    /\ pc = "renaming"
    /\ disk' = [disk EXCEPT ![current] = temp]
    /\ temp' = None
    /\ dirty' = dirty \ todo
    /\ todo' = {}
    /\ current' = None
    /\ pc' = "saving"
    /\ UNCHANGED <<contexts, handles, names, next_virtual_handle, supplied,
                   ancestor_list, dropping, before, result>>

\* Mutant: the record is written and the handle stays dirty.
RenameKeepsDirty ==
    /\ pc = "renaming"
    /\ disk' = [disk EXCEPT ![current] = temp]
    /\ temp' = None
    /\ todo' = todo \ {current}
    /\ current' = None
    /\ pc' = "saving"
    /\ UNCHANGED <<memory, ancestor_list, dropping, before, result>>

(* write_atomic: the rename; only now does the handle stop being dirty.    *)
SaveRename ==
    /\ pc = "renaming"
    /\ disk' = [disk EXCEPT ![current] = temp]
    /\ temp' = None
    /\ dirty' = dirty \ {current}
    /\ todo' = todo \ {current}
    /\ current' = None
    /\ pc' = "saving"
    /\ UNCHANGED <<contexts, handles, names, next_virtual_handle, supplied,
                   ancestor_list, dropping, before, result>>

(* The call returns r to its caller; Drop only logs r and the cache goes.  *)
Return(r) ==
    IF dropping
    THEN Forget
    ELSE /\ temp' = None
         /\ pc' = "idle"
         /\ result' = r
         /\ todo' = {}
         /\ ancestor_list' = <<>>
         /\ current' = None
         /\ before' = NoContexts
         /\ UNCHANGED <<memory, dropping>>

(* A failing create, write, sync or rename ends the whole save: the        *)
(* handles not yet written stay dirty. The temporary file is removed; one  *)
(* that cannot be removed is truncated by the next create.                 *)
SaveFails ==
    /\ WriteFault
    /\ \/ pc = "saving" /\ \E h \in todo : contexts[h] # None
       \/ pc \in {"writing", "renaming"}
    /\ Return("Io")
    /\ UNCHANGED disk

SaveDone ==
    /\ pc = "saving" /\ todo = {}
    /\ Return("Ok")
    /\ UNCHANGED disk

-----------------------------------------------------------------------------
(* remove and remove_subtree.                                              *)

\* Mutant: the record of the removed context stays in the directory.
DropKeepsFile(h) ==
    /\ disk' = disk
    /\ contexts' = [contexts EXCEPT ![h] = None]
    /\ dirty' = dirty \ {h}
    /\ handles' = unpublish_name(handles, names, h)
    /\ names' = [names EXCEPT ![h] = None]
    /\ UNCHANGED <<temp, next_virtual_handle, supplied>>

\* Mutant: the name stays published.
DropKeepsName(h) ==
    /\ disk' = [disk EXCEPT ![contexts[h].handle] = None]
    /\ contexts' = [contexts EXCEPT ![h] = None]
    /\ dirty' = dirty \ {h}
    /\ UNCHANGED <<handles, names, temp, next_virtual_handle, supplied>>

\* Mutant: the context itself is left in the map.
DropKeepsContext(h) ==
    /\ disk' = [disk EXCEPT ![contexts[h].handle] = None]
    /\ dirty' = dirty \ {h}
    /\ UNCHANGED <<contexts, handles, names, temp, next_virtual_handle, supplied>>

(* The record is deleted first, then the context, its dirty mark and its   *)
(* name. A missing file is not an error.                                   *)
DropContext(h) ==
    /\ disk' = [disk EXCEPT ![contexts[h].handle] = None]
    /\ contexts' = [contexts EXCEPT ![h] = None]
    /\ dirty' = dirty \ {h}
    /\ handles' = unpublish_name(handles, names, h)
    /\ names' = [names EXCEPT ![h] = None]
    /\ UNCHANGED <<temp, next_virtual_handle, supplied>>

remove(h) ==
    /\ pc = "idle"
    /\ contexts[h] # None
    /\ DropContext(h)
    /\ pc' = "removing"
    /\ current' = h
    /\ before' = contexts
    /\ ancestor_list' = <<contexts[h].public>>
    /\ todo' = {}
    /\ UNCHANGED <<dropping, result>>

(* Nothing is cached under the handle: an empty list is returned.          *)
remove_missing(h) ==
    /\ pc = "idle"
    /\ contexts[h] = None
    /\ result' = "Ok"
    /\ UNCHANGED <<disk, temp, memory, pc, todo, ancestor_list, current,
                   dropping, before>>

(* The record of the target itself cannot be deleted.                      *)
remove_fails(h) ==
    /\ pc = "idle"
    /\ UnlinkFault /\ contexts[h] # None
    /\ result' = "Io"
    /\ UNCHANGED <<disk, temp, memory, pc, todo, ancestor_list, current,
                   dropping, before>>

(* remove_subtree takes the next public off the queue and walks the        *)
(* contexts that name it as their parent.                                  *)
PopParent ==
    /\ pc = "removing" /\ todo = {} /\ ancestor_list # <<>>
    /\ todo' = {k \in Handle : /\ contexts[k] # None
                               /\ contexts[k].parent = Head(ancestor_list)}
    /\ ancestor_list' = Tail(ancestor_list)
    /\ UNCHANGED <<disk, temp, memory, pc, current, dropping, before, result>>

\* Mutant: only the direct children are deleted.
RemoveOneLevel(k) ==
    /\ pc = "removing" /\ k \in todo
    /\ DropContext(k)
    /\ todo' = todo \ {k}
    /\ UNCHANGED <<ancestor_list, pc, current, dropping, before, result>>

(* One child is deleted; its own children are queued.                      *)
RemoveChild(k) ==
    /\ pc = "removing" /\ k \in todo
    /\ DropContext(k)
    /\ todo' = todo \ {k}
    /\ ancestor_list' = Append(ancestor_list, contexts[k].public)
    /\ UNCHANGED <<pc, current, dropping, before, result>>

(* A record that cannot be deleted ends the call: what was deleted stays   *)
(* deleted, the rest of the subtree stays cached.                          *)
RemoveChildFails(k) ==
    /\ pc = "removing" /\ k \in todo
    /\ UnlinkFault
    /\ Return("Io")
    /\ UNCHANGED disk

RemoveDone ==
    /\ pc = "removing" /\ todo = {} /\ ancestor_list = <<>>
    /\ Return("Ok")
    /\ UNCHANGED disk

-----------------------------------------------------------------------------
(* The process dies: the directory keeps what had reached it.              *)
Crash ==
    /\ pc # "down"
    /\ Forget
    /\ UNCHANGED disk

Init ==
    /\ disk \in [File -> ForeignFile \cup {None}]
    /\ temp = None
    /\ contexts = NoContexts
    /\ handles = [n \in Name |-> None]
    /\ names = NoContexts
    /\ dirty = {}
    /\ next_virtual_handle = TRANSIENT_START
    /\ supplied = [n \in Name |-> None]
    /\ pc = "down"
    /\ todo = {}
    /\ ancestor_list = <<>>
    /\ current = None
    /\ dropping = FALSE
    /\ before = NoContexts
    /\ result = "Ok"

(* What the device may report: each persistent object has one name. new    *)
(* refuses a map with any other kind of handle.                            *)
Supplied ==
    {s \in [Name -> PersistentHandle \cup {None}] :
        \A m, n \in Name : m # n /\ s[m] = s[n] => s[m] = None}

(* Calls of the owner.                                                     *)
Call ==
    \/ \E s \in Supplied : New(s)
    \/ \E pub \in Public, pol \in 0..MaxPolicy :
         \E par \in ParentsOf[pub] :
            \/ \E ctx \in Context : save_transient(pub, par, ctx, pol)
            \/ \E h \in Handle : save_persistent(h, pub, par, pol)
    \/ save_transient_full
    \/ \E h \in Handle : mark_dirty(h)
    \/ \E d \in BOOLEAN : flush(d)
    \/ \E h \in Handle : remove(h) \/ remove_missing(h) \/ remove_fails(h)

(* Steps a call takes by itself once begun.                                *)
Step ==
    \/ \E f \in File : LoadRecord(f) \/ LoadFails(f) \/ LoadRejects(f) \/ LoadSkips(f)
    \/ LoadDone
    \/ \E h \in Handle : SaveSkip(h) \/ SaveCreate(h)
    \/ SaveSync \/ SaveRename \/ SaveFails \/ SaveDone
    \/ PopParent
    \/ \E k \in Handle : RemoveChild(k) \/ RemoveChildFails(k)
    \/ RemoveDone

Next == Call \/ Step \/ Crash

Spec == Init /\ [][Next]_vars

(* The cache waits for nothing but the file system: a call that has begun  *)
(* keeps running unless the process dies.                                  *)
FairSpec == Spec /\ WF_vars(Step)

-----------------------------------------------------------------------------
(* Correctness.                                                            *)

TypeOK ==
    /\ disk \in [File -> VtpmKey \cup {Garbage, None}]
    /\ temp \in VtpmKey \cup {Garbage, None}
    /\ contexts \in [Handle -> VtpmKey \cup {None}]
    /\ handles \in [Name -> Handle \cup {None}]
    /\ names \in [Handle -> Name \cup {None}]
    /\ dirty \subseteq Handle
    /\ next_virtual_handle \in TransientHandle
    /\ supplied \in [Name -> PersistentHandle \cup {None}]
    /\ pc \in {"down", "loading", "idle", "saving", "writing", "renaming",
               "removing"}
    /\ todo \subseteq File
    /\ ancestor_list \in Seq(Public)
    /\ current \in Handle \cup {None}
    /\ dropping \in BOOLEAN
    /\ before \in [Handle -> VtpmKey \cup {None}]
    /\ result \in {"Ok", "Io", "NoHandles", "OperationFailed",
                   "InvalidHandleType"}

(* The reverse index holds the name of every cached context and of no      *)
(* other handle, and every context is stored under its own handle.         *)
ReverseIndex ==
    \A h \in Handle :
        IF contexts[h] = None
        THEN names[h] = None
        ELSE /\ names[h] = tpm_make_name[contexts[h].public]
             /\ names[h] # None
             /\ contexts[h].handle = h

(* publish_name and unpublish_name never leave a dangling mapping: what a  *)
(* name resolves to is a cached context that published this very name, or  *)
(* a persistent handle the caller of new supplied for it.                  *)
NoDanglingName ==
    \A n \in Name : handles[n] # None =>
        \/ names[handles[n]] = n
        \/ handles[n] = supplied[n]

(* Contexts that share a public area cannot retire each other's mapping: a *)
(* name stops resolving to a handle only by resolving to another one, or   *)
(* when the context of that very handle goes or changes.                   *)
OwnNameOnly ==
    [][ \A n \in Name :
          (handles[n] # None /\ handles'[n] = None /\ pc' # "down")
            => contexts'[handles[n]] # contexts[handles[n]] ]_vars

(* save_transient reports NoHandles only when every handle of the          *)
(* transient range is taken, wherever the probe started and wrapped.       *)
NoHandlesMeansFull ==
    pc = "idle" /\ result = "NoHandles" =>
        \A h \in TransientHandle : contexts[h] # None

(* A record replaces the one before it whole: whatever is unreadable in    *)
(* the directory was there before the program first started.               *)
NeverPartial == [][ \A f \in File : disk'[f] = Garbage => disk[f] = Garbage ]_vars

(* A context that is not dirty is on disk as it is in memory, at every     *)
(* step of every call, failed ones included: a crash cannot lose it.       *)
CleanIsOnDisk ==
    \A h \in Handle :
        contexts[h] # None /\ h \notin dirty => disk[h] = contexts[h]

(* What was clean when a cache ended, by a crash or by Drop, is what the   *)
(* next one that starts has under that handle, also when starts were cut   *)
(* short in between. One exception: save accepts a policy that is longer   *)
(* than load does, and the next start drops that key.                      *)
(* (Needs a directory that can be read.)                                   *)
CleanIsDurable ==
    [][ pc = "loading" /\ pc' = "idle" =>
          \A h \in Handle : before[h] # None =>
              contexts'[h] = IF before[h].policy <= MAX_POLICY_COUNT
                             THEN before[h] ELSE None ]_vars

(* When save has been through its list nothing is dirty any more, although *)
(* a previous save may have failed half way.                               *)
SaveCompletes == pc = "saving" /\ todo = {} => dirty = {}

(* new has returned and the cache is in use.                              *)
Running == pc \notin {"down", "loading"}

(* No record outlives its context: once new has returned, what a restart   *)
(* would load is cached. So a key that remove deleted, at any depth of the *)
(* subtree, does not come back, and no allocation meets a record it does   *)
(* not know. (Needs a directory that can be read.)                         *)
NoResurrection ==
    Running =>
        \A h \in Handle : Loadable(h, disk[h]) => contexts[h] # None

(* The record of a key that was saved with a policy load does not accept.  *)
TooLong(h) ==
    /\ contexts[h] # None
    /\ disk[h] \in VtpmKey /\ disk[h].handle = h
    /\ disk[h].policy > MAX_POLICY_COUNT

(* load heals the directory: once new has returned, every record that is   *)
(* left is one that loads, and no session file is left. What save adds     *)
(* since then is of the same kind, except for a policy that is too long.   *)
(* (Needs a directory that can be read and files that can be deleted.)     *)
SelfHeals ==
    Running =>
        /\ \A h \in Handle : disk[h] # None => Loadable(h, disk[h]) \/ TooLong(h)
        /\ \A f \in SessionFile : disk[f] = None

Gone == {h \in Handle : before[h] # None /\ contexts[h] = None}

(* S contains the target and, with a key, every key under it.              *)
Subtree(S) ==
    /\ current \in S
    /\ \A k \in Handle : \A x \in S :
          /\ before[k] # None /\ before[x] # None
          /\ before[k].parent = before[x].public
          => k \in S

(* When remove succeeds it has deleted the target and all its descendants, *)
(* however the parent links run (shared publics and cycles included), and  *)
(* nothing else: the deleted set is the least subtree of the target.       *)
RemovesSubtree ==
    pc = "removing" /\ todo = {} /\ ancestor_list = <<>> =>
        /\ Subtree(Gone)
        /\ \A S \in SUBSET Handle : Subtree(S) => Gone \subseteq S
        /\ \A h \in Handle \ Gone : contexts[h] = before[h]

(* The key store the cache implements. Until new has returned the owner    *)
(* sees no key; a restart brings back the records that load.               *)
Seen == IF Running THEN contexts ELSE NoContexts
Stable == [h \in Handle |-> IF Loadable(h, disk[h]) THEN disk[h] ELSE None]

KS == INSTANCE KeyStore WITH
        Slot <- Handle, Record <- VtpmKey, Nothing <- None,
        Lasting <- {key \in VtpmKey : key.policy <= MAX_POLICY_COUNT},
        up <- Running, mem <- Seen, stable <- Stable

(* The cache implements the key store: every step of every call, failed    *)
(* or interrupted, changes one key of the store or none, deletes a key     *)
(* with its record, and a start restores what had been made stable: all    *)
(* that was saved but keys whose policy is longer than load accepts.       *)
(* (Needs a directory that can be read.)                                   *)
ImplementsKeyStore == KS!Spec

(* Every call returns, unless the process dies first.                      *)
CallsReturn == pc \notin {"down", "idle"} ~> pc \in {"down", "idle"}

=============================================================================
