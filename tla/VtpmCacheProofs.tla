---------------------------- MODULE VtpmCacheProofs ----------------------------
(***************************************************************************)
(* Proofs about VtpmCache for every range of handles, every set of publics *)
(* and names, every shape of the parent relation and every combination of  *)
(* file system faults.                                                     *)
(***************************************************************************)
EXTENDS VtpmCache, TLAPS

-----------------------------------------------------------------------------
(* The inductive invariant.                                                *)

(* Nothing is cached while the process is down.                            *)
DownIsEmpty ==
    pc = "down" => /\ contexts = NoContexts
                   /\ names = NoContexts
                   /\ handles = [n \in Name |-> None]
                   /\ dirty = {}

(* A record still to be loaded is not cached, and loading changes nothing  *)
(* that would have to be written back.                                     *)
LoadingControl ==
    pc = "loading" => /\ dirty = {}
                      /\ \A h \in Handle : contexts[h] # None => h \notin todo

(* While saving, what is dirty is still on the list; the record being      *)
(* written is a cached context, and complete once it may be renamed.       *)
SavingControl ==
    /\ pc \in {"saving", "writing", "renaming"} =>
         /\ todo \subseteq Handle
         /\ dirty = todo
    /\ pc \in {"writing", "renaming"} =>
         /\ current \in todo
         /\ contexts[current] # None
    /\ pc = "renaming" => temp = contexts[current]

(* remove_subtree deletes only contexts that are cached.                   *)
RemovingControl ==
    pc = "removing" => /\ \A k \in todo : k \in Handle /\ contexts[k] # None
                       /\ ~dropping

Control ==
    /\ DownIsEmpty
    /\ LoadingControl
    /\ SavingControl
    /\ RemovingControl
    /\ pc \in {"down", "loading", "idle"} => ~dropping

Inv ==
    /\ TypeOK
    /\ Control
    /\ ReverseIndex
    /\ NoDanglingName
    /\ CleanIsOnDisk
    /\ NoHandlesMeansFull

-----------------------------------------------------------------------------
(* The operators the actions are built from.                               *)

(* The handle after a cached one is a transient handle, also when the      *)
(* cached one is persistent.                                               *)
LEMMA SuccessorType ==
    ASSUME NEW h \in Handle
    PROVE  Successor(h) \in TransientHandle
BY HandleAssumption DEF Successor, Handle, TransientHandle

(* Every handle that save_transient tries is in the transient range.       *)
LEMMA ProbeType ==
    ASSUME next_virtual_handle \in TransientHandle,
           NEW i \in 0..(TRANSIENT_COUNT - 1)
    PROVE  Probe(i) \in TransientHandle
BY HandleAssumption DEF Probe, TransientHandle, TRANSIENT_COUNT

(* The probe visits every handle of the transient range.                   *)
LEMMA ProbeCovers ==
    ASSUME next_virtual_handle \in TransientHandle,
           NEW h \in TransientHandle
    PROVE  \E i \in 0..(TRANSIENT_COUNT - 1) : Probe(i) = h
<1>1. CASE h >= next_virtual_handle
  <2>1. /\ h - next_virtual_handle \in 0..(TRANSIENT_COUNT - 1)
        /\ Probe(h - next_virtual_handle) = h
    BY <1>1, HandleAssumption DEF Probe, TransientHandle, TRANSIENT_COUNT
  <2>. QED  BY <2>1
<1>2. CASE h < next_virtual_handle
  <2>. DEFINE i == h - next_virtual_handle + TRANSIENT_COUNT
  <2>1. /\ i \in 0..(TRANSIENT_COUNT - 1)
        /\ Probe(i) = h
    BY <1>2, HandleAssumption DEF Probe, TransientHandle, TRANSIENT_COUNT
  <2>. QED  BY <2>1
<1>. QED  BY <1>1, <1>2, HandleAssumption DEF TransientHandle

(* Retiring a name touches that name only, and only when it still resolves *)
(* to the handle.                                                          *)
LEMMA UnpublishNames ==
    ASSUME handles \in [Name -> Handle \cup {None}],
           names \in [Handle -> Name \cup {None}],
           NEW h \in Handle
    PROVE  /\ unpublish_name(handles, names, h) \in [Name -> Handle \cup {None}]
           /\ \A n \in Name :
                unpublish_name(handles, names, h)[n] =
                  IF names[h] = n /\ handles[n] = h THEN None ELSE handles[n]
BY NoneAssumption DEF unpublish_name

(* Publishing leaves every other name as retiring leaves it.               *)
LEMMA PublishNames ==
    ASSUME handles \in [Name -> Handle \cup {None}],
           names \in [Handle -> Name \cup {None}],
           NEW h \in Handle, NEW m \in Name
    PROVE  /\ publish_name(handles, names, h, m) \in [Name -> Handle \cup {None}]
           /\ \A n \in Name :
                publish_name(handles, names, h, m)[n] =
                  IF n = m THEN h
                  ELSE IF names[h] = n /\ handles[n] = h THEN None
                  ELSE handles[n]
BY UnpublishNames DEF publish_name

(* The public of a key has a name whenever tpm_make_name succeeds.         *)
LEMMA NameType ==
    ASSUME NEW k \in VtpmKey
    PROVE  /\ tpm_make_name[k.public] \in Name \cup {None}
           /\ k.handle \in Handle
           /\ k.public \in Public
BY DataAssumption DEF VtpmKey

-----------------------------------------------------------------------------
(* Every step preserves the invariant. First the parts steps share.        *)

(* A process that is gone leaves a state that satisfies the invariant.     *)
LEMMA ForgetInv ==
    ASSUME Inv, Forget, UNCHANGED disk
    PROVE  Inv'
<1>1. TypeOK'
  <2>1. next_virtual_handle' \in TransientHandle
    BY HandleAssumption DEF Forget, TransientHandle
  <2>2. /\ contexts' \in [Handle -> VtpmKey \cup {None}]
        /\ handles' \in [Name -> Handle \cup {None}]
        /\ names' \in [Handle -> Name \cup {None}]
        /\ supplied' \in [Name -> PersistentHandle \cup {None}]
    BY DEF Forget, NoContexts
  <2>4. before' \in [Handle -> VtpmKey \cup {None}]
    BY DEF Inv, TypeOK, Forget, Clean
  <2>3. /\ disk' \in [File -> VtpmKey \cup {Garbage, None}]
        /\ ancestor_list' \in Seq(Public)
    BY DEF Inv, TypeOK, Forget
  <2>. QED  BY <2>1, <2>2, <2>3, <2>4 DEF TypeOK, Forget
<1>2. Control'
  BY DEF Control, Forget, DownIsEmpty, LoadingControl, SavingControl, RemovingControl
<1>3. ReverseIndex' /\ NoDanglingName' /\ CleanIsOnDisk' /\ NoHandlesMeansFull'
  BY DEF Forget, NoContexts, ReverseIndex, NoDanglingName, CleanIsOnDisk,
         NoHandlesMeansFull
<1>. QED  BY <1>1, <1>2, <1>3 DEF Inv

(* A call that is over leaves one too, whatever it returns.                *)
LEMMA ReturnInv ==
    ASSUME Inv, UNCHANGED disk, NEW r \in {"Ok", "Io"}, Return(r)
    PROVE  Inv'
<1>1. CASE dropping
  BY <1>1, ForgetInv DEF Return
<1>2. CASE ~dropping
  <2>. USE <1>2
  <2>1. TypeOK'
    BY DEF Inv, TypeOK, Return, memory, NoContexts
  <2>2. Control'
    BY DEF Inv, Control, Return, memory, DownIsEmpty, LoadingControl,
           SavingControl, RemovingControl
  <2>3. ReverseIndex' /\ NoDanglingName' /\ CleanIsOnDisk' /\ NoHandlesMeansFull'
    BY DEF Inv, Return, memory, ReverseIndex, NoDanglingName, CleanIsOnDisk,
           NoHandlesMeansFull
  <2>. QED  BY <2>1, <2>2, <2>3 DEF Inv
<1>. QED  BY <1>1, <1>2

(* Caching a key under its own handle and publishing its name keeps the    *)
(* index exact.                                                            *)
LEMMA InsertIndex ==
    ASSUME Inv, UNCHANGED <<disk, supplied>>,
           NEW h \in Handle, NEW key \in VtpmKey,
           key.handle = h, tpm_make_name[key.public] # None,
           contexts' = [contexts EXCEPT ![h] = key],
           handles' = publish_name(handles, names, h, tpm_make_name[key.public]),
           names' = [names EXCEPT ![h] = tpm_make_name[key.public]]
    PROVE  /\ contexts' \in [Handle -> VtpmKey \cup {None}]
           /\ handles' \in [Name -> Handle \cup {None}]
           /\ names' \in [Handle -> Name \cup {None}]
           /\ ReverseIndex'
           /\ NoDanglingName'
<1>. DEFINE m == tpm_make_name[key.public]
<1>0. /\ contexts \in [Handle -> VtpmKey \cup {None}]
      /\ handles \in [Name -> Handle \cup {None}]
      /\ names \in [Handle -> Name \cup {None}]
      /\ m \in Name
      /\ key # None
  BY NameType, NoneAssumption DEF Inv, TypeOK
<1>1. /\ handles' \in [Name -> Handle \cup {None}]
      /\ \A n \in Name :
           handles'[n] = IF n = m THEN h
                         ELSE IF names[h] = n /\ handles[n] = h THEN None
                         ELSE handles[n]
  <2>. HIDE DEF m
  <2>. QED  BY <1>0, PublishNames DEF m
<1>2. contexts' \in [Handle -> VtpmKey \cup {None}]
  BY <1>0
<1>3. names' \in [Handle -> Name \cup {None}]
  BY <1>0
<1>4. ReverseIndex'
  BY <1>0, NoneAssumption DEF Inv, ReverseIndex
<1>5. NoDanglingName'
  <2>. SUFFICES ASSUME NEW n \in Name, handles'[n] # None
                PROVE  names'[handles'[n]] = n \/ handles'[n] = supplied[n]
    BY DEF NoDanglingName
  <2>. HIDE DEF m
  <2>1. CASE n = m
    BY <2>1, <1>0, <1>1 DEF m
  <2>2. CASE n # m
    <3>1. handles'[n] = handles[n] /\ ~(names[h] = n /\ handles[n] = h)
      BY <2>2, <1>1
    <3>2. names[handles[n]] = n \/ handles[n] = supplied[n]
      BY <3>1 DEF Inv, NoDanglingName
    <3>3. handles[n] \in Handle
      BY <3>1, <1>0
    <3>. QED  BY <3>1, <3>2, <3>3, <1>0 DEF m
  <2>. QED  BY <2>1, <2>2
<1>. QED  BY <1>1, <1>2, <1>3, <1>4, <1>5

(* Deleting a context with its record, its mark and its name keeps the     *)
(* index exact and touches no other record.                                *)
LEMMA DropContextInv ==
    ASSUME Inv, NEW h \in Handle, contexts[h] # None, DropContext(h)
    PROVE  /\ disk' \in [File -> VtpmKey \cup {Garbage, None}]
           /\ disk' = [disk EXCEPT ![h] = None]
           /\ contexts' \in [Handle -> VtpmKey \cup {None}]
           /\ handles' \in [Name -> Handle \cup {None}]
           /\ names' \in [Handle -> Name \cup {None}]
           /\ dirty' \subseteq Handle
           /\ ReverseIndex'
           /\ NoDanglingName'
           /\ CleanIsOnDisk'
<1>0. /\ contexts \in [Handle -> VtpmKey \cup {None}]
      /\ handles \in [Name -> Handle \cup {None}]
      /\ names \in [Handle -> Name \cup {None}]
      /\ disk \in [File -> VtpmKey \cup {Garbage, None}]
      /\ Handle \subseteq File
      /\ contexts[h].handle = h
  BY DEF Inv, TypeOK, File, ReverseIndex
<1>1. /\ disk' = [disk EXCEPT ![h] = None]
      /\ disk' \in [File -> VtpmKey \cup {Garbage, None}]
  BY <1>0 DEF DropContext
<1>2. contexts' \in [Handle -> VtpmKey \cup {None}]
  BY <1>0 DEF DropContext
<1>3. names' \in [Handle -> Name \cup {None}] /\ dirty' \subseteq Handle
  BY <1>0 DEF DropContext, Inv, TypeOK
<1>4. /\ handles' \in [Name -> Handle \cup {None}]
      /\ \A n \in Name :
           handles'[n] = IF names[h] = n /\ handles[n] = h THEN None
                         ELSE handles[n]
  BY <1>0, UnpublishNames DEF DropContext
<1>5. ReverseIndex'
  BY <1>0, NoneAssumption DEF Inv, ReverseIndex, DropContext
<1>6. NoDanglingName'
  <2>. SUFFICES ASSUME NEW n \in Name, handles'[n] # None
                PROVE  names'[handles'[n]] = n \/ handles'[n] = supplied'[n]
    BY DEF NoDanglingName
  <2>1. handles'[n] = handles[n] /\ ~(names[h] = n /\ handles[n] = h)
    BY <1>4
  <2>2. names[handles[n]] = n \/ handles[n] = supplied[n]
    BY <2>1 DEF Inv, NoDanglingName
  <2>3. handles[n] \in Handle /\ supplied' = supplied
    BY <2>1, <1>0 DEF DropContext
  <2>. QED  BY <2>1, <2>2, <2>3, <1>0 DEF DropContext
<1>7. CleanIsOnDisk'
  BY <1>0, <1>1 DEF Inv, CleanIsOnDisk, DropContext
<1>. QED  BY <1>1, <1>2, <1>3, <1>4, <1>5, <1>6, <1>7

-----------------------------------------------------------------------------
(* The steps of new and load.                                              *)

(* Starting a process keeps the invariant: memory starts empty. *)
LEMMA NewInv ==
    ASSUME Inv, NEW s \in Supplied, New(s)
    PROVE  Inv'
<1>0. s \in [Name -> PersistentHandle \cup {None}]
  BY DEF Supplied
<1>1. TypeOK'
  <2>1. next_virtual_handle' \in TransientHandle
    BY HandleAssumption DEF New, TransientHandle
  <2>2. /\ handles' \in [Name -> Handle \cup {None}]
        /\ supplied' \in [Name -> PersistentHandle \cup {None}]
    BY <1>0 DEF New, Handle
  <2>. QED  BY <2>1, <2>2 DEF New, Inv, TypeOK
<1>2. Control'
  BY DEF New, Inv, Control, DownIsEmpty, LoadingControl, SavingControl,
         RemovingControl, NoContexts
<1>3. ReverseIndex' /\ NoDanglingName' /\ CleanIsOnDisk' /\ NoHandlesMeansFull'
  BY DEF New, Inv, ReverseIndex, NoDanglingName, CleanIsOnDisk,
         NoHandlesMeansFull
<1>. QED  BY <1>1, <1>2, <1>3 DEF Inv

(* A loaded record is clean, cached as it is on disk, and publishes its name. *)
LEMMA LoadRecordInv ==
    ASSUME Inv, NEW f \in File, LoadRecord(f)
    PROVE  Inv'
<1>0. f \in Handle /\ disk[f] \in VtpmKey /\ disk[f].handle = f /\ disk[f] # None
  BY NoneAssumption DEF LoadRecord, Loadable
<1>1. /\ contexts' \in [Handle -> VtpmKey \cup {None}]
      /\ handles' \in [Name -> Handle \cup {None}]
      /\ names' \in [Handle -> Name \cup {None}]
      /\ ReverseIndex'
      /\ NoDanglingName'
  BY <1>0, InsertIndex DEF LoadRecord
<1>2. TypeOK'
  BY <1>1 DEF LoadRecord, Inv, TypeOK
<1>3. Control'
  BY <1>0 DEF LoadRecord, Inv, TypeOK, Control, DownIsEmpty, LoadingControl,
              SavingControl, RemovingControl
<1>4. CleanIsOnDisk' /\ NoHandlesMeansFull'
  BY <1>0 DEF LoadRecord, Inv, TypeOK, CleanIsOnDisk, NoHandlesMeansFull
<1>. QED  BY <1>1, <1>2, <1>3, <1>4 DEF Inv

(* load deletes only records that are not cached. *)
LEMMA LoadRejectsInv ==
    ASSUME Inv, NEW f \in File, LoadRejects(f)
    PROVE  Inv'
<1>0. disk' = [disk EXCEPT ![f] = None] \/ disk' = disk
  BY DEF LoadRejects, RemoveUnusable
<1>1. TypeOK'
  BY <1>0 DEF LoadRejects, memory, Inv, TypeOK
<1>2. Control'
  BY DEF LoadRejects, memory, Inv, Control, DownIsEmpty, LoadingControl,
         SavingControl, RemovingControl
<1>3. CleanIsOnDisk'
  <2>. SUFFICES ASSUME NEW h \in Handle, contexts[h] # None
                PROVE  disk'[h] = disk[h]
    BY DEF LoadRejects, memory, Inv, CleanIsOnDisk
  <2>1. h # f
    BY DEF LoadRejects, Inv, Control, LoadingControl
  <2>. QED  BY <2>1, <1>0 DEF Inv, TypeOK, File
<1>4. ReverseIndex' /\ NoDanglingName' /\ NoHandlesMeansFull'
  BY DEF LoadRejects, memory, Inv, ReverseIndex, NoDanglingName,
         NoHandlesMeansFull
<1>. QED  BY <1>1, <1>2, <1>3, <1>4 DEF Inv

(* Skipping a directory entry changes nothing the invariant speaks of. *)
LEMMA LoadSkipsInv ==
    ASSUME Inv, NEW f \in File, LoadSkips(f)
    PROVE  Inv'
<1>1. TypeOK'
  BY DEF LoadSkips, memory, Inv, TypeOK
<1>2. Control'
  BY DEF LoadSkips, memory, Inv, Control, DownIsEmpty, LoadingControl,
         SavingControl, RemovingControl
<1>3. ReverseIndex' /\ NoDanglingName' /\ CleanIsOnDisk' /\ NoHandlesMeansFull'
  BY DEF LoadSkips, memory, Inv, ReverseIndex, NoDanglingName, CleanIsOnDisk,
         NoHandlesMeansFull
<1>. QED  BY <1>1, <1>2, <1>3 DEF Inv

(* new leaves the next handle inside the transient range. *)
LEMMA LoadDoneInv ==
    ASSUME Inv, LoadDone
    PROVE  Inv'
<1>1. next_virtual_handle' \in TransientHandle
  BY SuccessorType DEF LoadDone, Live, Inv, TypeOK
<1>2. TypeOK'
  BY <1>1 DEF LoadDone, NoContexts, Inv, TypeOK
<1>3. Control'
  BY DEF LoadDone, Inv, Control, DownIsEmpty, LoadingControl, SavingControl,
         RemovingControl
<1>4. ReverseIndex' /\ NoDanglingName' /\ CleanIsOnDisk' /\ NoHandlesMeansFull'
  BY DEF LoadDone, Inv, ReverseIndex, NoDanglingName, CleanIsOnDisk,
         NoHandlesMeansFull
<1>. QED  BY <1>1, <1>2, <1>3, <1>4 DEF Inv

-----------------------------------------------------------------------------
(* save_transient, save_persistent and mark_dirty.                         *)

(* A new entry is dirty, so nothing is claimed of its record.              *)
LEMMA InsertInv ==
    ASSUME Inv, pc = "idle",
           NEW h \in Handle, NEW key \in VtpmKey,
           key.handle = h, tpm_make_name[key.public] # None, Insert(h, key),
           next_virtual_handle' \in TransientHandle,
           result' = "Ok",
           UNCHANGED <<disk, temp, supplied, pc, todo, ancestor_list, current,
                       dropping, before>>
    PROVE  Inv'
<1>1. /\ contexts' \in [Handle -> VtpmKey \cup {None}]
      /\ handles' \in [Name -> Handle \cup {None}]
      /\ names' \in [Handle -> Name \cup {None}]
      /\ ReverseIndex'
      /\ NoDanglingName'
  BY InsertIndex DEF Insert
<1>2. TypeOK'
  BY <1>1 DEF Insert, Inv, TypeOK
<1>3. Control'
  BY DEF Inv, Control, DownIsEmpty, LoadingControl, SavingControl,
         RemovingControl
<1>4. CleanIsOnDisk' /\ NoHandlesMeansFull'
  BY DEF Insert, Inv, TypeOK, CleanIsOnDisk, NoHandlesMeansFull
<1>. QED  BY <1>1, <1>2, <1>3, <1>4 DEF Inv

(* A call that only reports an error leaves the cache as it was.           *)
LEMMA ReportInv ==
    ASSUME Inv, pc = "idle", UNCHANGED <<disk, temp, contexts, handles, names>>,
           UNCHANGED <<dirty, next_virtual_handle, supplied, pc, todo>>,
           UNCHANGED <<ancestor_list, current, dropping, before>>,
           result' \in {"Ok", "Io", "OperationFailed", "InvalidHandleType"}
    PROVE  Inv'
<1>1. TypeOK'
  BY DEF Inv, TypeOK
<1>2. Control'
  BY DEF Inv, Control, DownIsEmpty, LoadingControl, SavingControl,
         RemovingControl
<1>3. ReverseIndex' /\ NoDanglingName' /\ CleanIsOnDisk' /\ NoHandlesMeansFull'
  BY DEF Inv, ReverseIndex, NoDanglingName, CleanIsOnDisk, NoHandlesMeansFull
<1>. QED  BY <1>1, <1>2, <1>3 DEF Inv

(* save_transient keeps the index, the allocator and the records consistent. *)
LEMMA SaveTransientInv ==
    ASSUME Inv, NEW pub \in Public, NEW par \in ParentsOf[pub],
           NEW ctx \in Context, NEW pol \in 0..MaxPolicy,
           save_transient(pub, par, ctx, pol)
    PROVE  Inv'
<1>1. PICK i \in 0..(TRANSIENT_COUNT - 1) :
        \/ /\ tpm_make_name[pub] # None
           /\ Insert(Probe(i), Key(Probe(i), pub, par, ctx, pol))
           /\ next_virtual_handle' = Successor(Probe(i))
           /\ result' = "Ok"
        \/ /\ UNCHANGED <<contexts, handles, names, dirty,
                          next_virtual_handle>>
           /\ result' = "OperationFailed"
  BY DEF save_transient
<1>2. CASE result' = "Ok"
  <2>1. Probe(i) \in Handle
    BY ProbeType DEF Inv, TypeOK, Handle
  <2>. DEFINE h == Probe(i)
              key == Key(h, pub, par, ctx, pol)
  <2>2. key \in VtpmKey /\ key.handle = h /\ key.public = pub
    <3>. HIDE DEF h
    <3>1. par \in Public \cup {NullPublic}
      BY DataAssumption
    <3>. QED  BY <2>1, <3>1 DEF Key, VtpmKey, h
  <2>3. next_virtual_handle' \in TransientHandle
    BY <1>1, <1>2, <2>1, SuccessorType
  <2>. QED  BY <1>1, <1>2, <2>1, <2>2, <2>3, InsertInv DEF save_transient
<1>3. CASE result' = "OperationFailed"
  BY <1>1, <1>3, ReportInv DEF save_transient
<1>. QED  BY <1>1, <1>2, <1>3

(* NoHandles is reported only after every transient handle was tried. *)
LEMMA SaveTransientFullInv ==
    ASSUME Inv, save_transient_full
    PROVE  Inv'
<1>1. \A h \in TransientHandle : contexts[h] # None
  BY ProbeCovers DEF save_transient_full, Inv, TypeOK
<1>2. TypeOK'
  BY DEF save_transient_full, memory, Inv, TypeOK
<1>3. Control'
  BY DEF save_transient_full, memory, Inv, Control, DownIsEmpty,
         LoadingControl, SavingControl, RemovingControl
<1>4. ReverseIndex' /\ NoDanglingName' /\ CleanIsOnDisk' /\ NoHandlesMeansFull'
  BY <1>1 DEF save_transient_full, memory, Inv, ReverseIndex, NoDanglingName,
              CleanIsOnDisk, NoHandlesMeansFull
<1>. QED  BY <1>2, <1>3, <1>4 DEF Inv

(* save_persistent may replace a key and its name without a dangling one. *)
LEMMA SavePersistentInv ==
    ASSUME Inv, NEW h \in Handle, NEW pub \in Public,
           NEW par \in ParentsOf[pub], NEW pol \in 0..MaxPolicy,
           save_persistent(h, pub, par, pol)
    PROVE  Inv'
<1>. DEFINE key == Key(h, pub, par, DefaultContext, pol)
<1>1. CASE /\ tpm_make_name[pub] # None
           /\ Insert(h, key)
           /\ result' = "Ok"
  <2>1. key \in VtpmKey /\ key.handle = h /\ key.public = pub
    <3>1. par \in Public \cup {NullPublic}
      BY DataAssumption
    <3>. QED  BY <3>1, DataAssumption DEF Key, VtpmKey
  <2>2. next_virtual_handle' \in TransientHandle
    BY DEF save_persistent, Inv, TypeOK
  <2>. QED  BY <1>1, <2>1, <2>2, InsertInv DEF save_persistent
<1>2. CASE /\ UNCHANGED <<contexts, handles, names, dirty>>
           /\ result' \in {"OperationFailed", "InvalidHandleType"}
  BY <1>2, ReportInv DEF save_persistent
<1>. QED  BY <1>1, <1>2 DEF save_persistent

(* mark_dirty only weakens what is claimed of the records. *)
LEMMA MarkDirtyInv ==
    ASSUME Inv, NEW h \in Handle, mark_dirty(h)
    PROVE  Inv'
<1>1. TypeOK'
  BY DEF mark_dirty, control, Inv, TypeOK
<1>2. Control'
  BY DEF mark_dirty, control, Inv, Control, DownIsEmpty, LoadingControl,
         SavingControl, RemovingControl
<1>3. ReverseIndex' /\ NoDanglingName' /\ CleanIsOnDisk' /\ NoHandlesMeansFull'
  BY DEF mark_dirty, control, Inv, ReverseIndex, NoDanglingName,
         CleanIsOnDisk, NoHandlesMeansFull
<1>. QED  BY <1>1, <1>2, <1>3 DEF Inv

-----------------------------------------------------------------------------
(* The steps of save.                                                      *)

(* save starts with the list of all dirty handles. *)
LEMMA FlushInv ==
    ASSUME Inv, NEW d \in BOOLEAN, flush(d)
    PROVE  Inv'
<1>1. TypeOK'
  BY DEF flush, memory, Inv, TypeOK, File
<1>2. Control'
  BY DEF flush, memory, Inv, TypeOK, Control, DownIsEmpty, LoadingControl,
         SavingControl, RemovingControl
<1>3. ReverseIndex' /\ NoDanglingName' /\ CleanIsOnDisk' /\ NoHandlesMeansFull'
  BY DEF flush, memory, Inv, ReverseIndex, NoDanglingName, CleanIsOnDisk,
         NoHandlesMeansFull
<1>. QED  BY <1>1, <1>2, <1>3 DEF Inv

(* Dropping a mark that has no context loses nothing. *)
LEMMA SaveSkipInv ==
    ASSUME Inv, NEW h \in Handle, SaveSkip(h)
    PROVE  Inv'
<1>1. TypeOK'
  BY DEF SaveSkip, Inv, TypeOK
<1>2. Control'
  BY DEF SaveSkip, Inv, Control, DownIsEmpty, LoadingControl, SavingControl,
         RemovingControl
<1>3. ReverseIndex' /\ NoDanglingName' /\ CleanIsOnDisk' /\ NoHandlesMeansFull'
  BY DEF SaveSkip, Inv, ReverseIndex, NoDanglingName, CleanIsOnDisk,
         NoHandlesMeansFull
<1>. QED  BY <1>1, <1>2, <1>3 DEF Inv

(* The temporary file is not a record. *)
LEMMA SaveCreateInv ==
    ASSUME Inv, NEW h \in Handle, SaveCreate(h)
    PROVE  Inv'
<1>1. TypeOK'
  BY DEF SaveCreate, memory, Inv, TypeOK
<1>2. Control'
  BY DEF SaveCreate, memory, Inv, Control, DownIsEmpty, LoadingControl,
         SavingControl, RemovingControl
<1>3. ReverseIndex' /\ NoDanglingName' /\ CleanIsOnDisk' /\ NoHandlesMeansFull'
  BY DEF SaveCreate, memory, Inv, ReverseIndex, NoDanglingName, CleanIsOnDisk,
         NoHandlesMeansFull
<1>. QED  BY <1>1, <1>2, <1>3 DEF Inv

(* The temporary file now holds the key as it is in memory. *)
LEMMA SaveSyncInv ==
    ASSUME Inv, SaveSync
    PROVE  Inv'
<1>0. current \in Handle
  BY DEF SaveSync, Inv, Control, SavingControl
<1>1. TypeOK'
  BY <1>0 DEF SaveSync, memory, Inv, TypeOK
<1>2. Control'
  BY DEF SaveSync, memory, Inv, Control, DownIsEmpty, LoadingControl,
         SavingControl, RemovingControl
<1>3. ReverseIndex' /\ NoDanglingName' /\ CleanIsOnDisk' /\ NoHandlesMeansFull'
  BY DEF SaveSync, memory, Inv, ReverseIndex, NoDanglingName, CleanIsOnDisk,
         NoHandlesMeansFull
<1>. QED  BY <1>1, <1>2, <1>3 DEF Inv

(* The renamed record is the key in memory, so its mark may go. *)
LEMMA SaveRenameInv ==
    ASSUME Inv, SaveRename
    PROVE  Inv'
<1>0. /\ current \in Handle
      /\ current \in File
      /\ temp = contexts[current]
      /\ disk \in [File -> VtpmKey \cup {Garbage, None}]
  BY DEF SaveRename, Inv, TypeOK, Control, SavingControl, File
<1>1. TypeOK'
  BY <1>0 DEF SaveRename, Inv, TypeOK
<1>2. Control'
  BY DEF SaveRename, Inv, Control, DownIsEmpty, LoadingControl, SavingControl,
         RemovingControl
<1>3. CleanIsOnDisk'
  <2>. SUFFICES ASSUME NEW h \in Handle, contexts[h] # None, h \notin dirty'
                PROVE  disk'[h] = contexts[h]
    BY DEF CleanIsOnDisk, SaveRename
  <2>1. h \in File
    BY DEF File
  <2>. QED  BY <1>0, <2>1 DEF SaveRename, Inv, CleanIsOnDisk
<1>4. ReverseIndex' /\ NoDanglingName' /\ NoHandlesMeansFull'
  BY DEF SaveRename, Inv, ReverseIndex, NoDanglingName, NoHandlesMeansFull
<1>. QED  BY <1>1, <1>2, <1>3, <1>4 DEF Inv

-----------------------------------------------------------------------------
(* The steps of remove.                                                    *)

(* Deleting the target of remove keeps the invariant. *)
LEMMA RemoveInv ==
    ASSUME Inv, NEW h \in Handle, remove(h)
    PROVE  Inv'
<1>0. contexts[h] # None /\ contexts[h].public \in Public
  BY NameType DEF remove, Inv, TypeOK
<1>1. /\ disk' \in [File -> VtpmKey \cup {Garbage, None}]
      /\ contexts' \in [Handle -> VtpmKey \cup {None}]
      /\ handles' \in [Name -> Handle \cup {None}]
      /\ names' \in [Handle -> Name \cup {None}]
      /\ dirty' \subseteq Handle
      /\ ReverseIndex' /\ NoDanglingName' /\ CleanIsOnDisk'
  BY <1>0, DropContextInv DEF remove
<1>2. TypeOK'
  <2>1. ancestor_list' \in Seq(Public)
    BY <1>0 DEF remove
  <2>. QED  BY <1>1, <2>1 DEF remove, DropContext, Inv, TypeOK
<1>3. Control'
  BY DEF remove, Inv, Control, DownIsEmpty, LoadingControl, SavingControl,
         RemovingControl
<1>4. NoHandlesMeansFull'
  BY DEF remove, NoHandlesMeansFull
<1>. QED  BY <1>1, <1>2, <1>3, <1>4 DEF Inv

(* The children that remove_subtree collects are cached contexts. *)
LEMMA PopParentInv ==
    ASSUME Inv, PopParent
    PROVE  Inv'
<1>1. TypeOK'
  <2>1. ancestor_list' \in Seq(Public)
    BY DEF PopParent, Inv, TypeOK
  <2>2. todo' \subseteq File
    BY DEF PopParent, File
  <2>. QED  BY <2>1, <2>2 DEF PopParent, memory, Inv, TypeOK
<1>2. Control'
  BY DEF PopParent, memory, Inv, Control, DownIsEmpty, LoadingControl,
         SavingControl, RemovingControl
<1>3. ReverseIndex' /\ NoDanglingName' /\ CleanIsOnDisk' /\ NoHandlesMeansFull'
  BY DEF PopParent, memory, Inv, ReverseIndex, NoDanglingName, CleanIsOnDisk,
         NoHandlesMeansFull
<1>. QED  BY <1>1, <1>2, <1>3 DEF Inv

(* Deleting a child keeps the invariant for the children still listed. *)
LEMMA RemoveChildInv ==
    ASSUME Inv, NEW k \in Handle, RemoveChild(k)
    PROVE  Inv'
<1>0. contexts[k] # None /\ contexts[k].public \in Public
  BY NameType DEF RemoveChild, Inv, TypeOK, Control, RemovingControl
<1>1. /\ disk' \in [File -> VtpmKey \cup {Garbage, None}]
      /\ contexts' \in [Handle -> VtpmKey \cup {None}]
      /\ handles' \in [Name -> Handle \cup {None}]
      /\ names' \in [Handle -> Name \cup {None}]
      /\ dirty' \subseteq Handle
      /\ ReverseIndex' /\ NoDanglingName' /\ CleanIsOnDisk'
  BY <1>0, DropContextInv DEF RemoveChild
<1>2. TypeOK'
  <2>1. ancestor_list' \in Seq(Public)
    BY <1>0 DEF RemoveChild, Inv, TypeOK
  <2>. QED  BY <1>1, <2>1 DEF RemoveChild, DropContext, Inv, TypeOK
<1>3. Control'
  BY DEF RemoveChild, DropContext, Inv, TypeOK, Control, DownIsEmpty,
         LoadingControl, SavingControl, RemovingControl
<1>4. NoHandlesMeansFull'
  BY DEF RemoveChild, NoHandlesMeansFull
<1>. QED  BY <1>1, <1>2, <1>3, <1>4 DEF Inv

-----------------------------------------------------------------------------
(* The invariant holds for ever.                                           *)

(* The first start of the program satisfies the invariant. *)
LEMMA InitInv == Init => Inv
<1>. SUFFICES ASSUME Init PROVE Inv
  OBVIOUS
<1>1. TypeOK
  <2>1. next_virtual_handle \in TransientHandle
    BY HandleAssumption DEF Init, TransientHandle
  <2>2. /\ contexts \in [Handle -> VtpmKey \cup {None}]
        /\ handles \in [Name -> Handle \cup {None}]
        /\ names \in [Handle -> Name \cup {None}]
        /\ supplied \in [Name -> PersistentHandle \cup {None}]
        /\ before \in [Handle -> VtpmKey \cup {None}]
    BY DEF Init, NoContexts
  <2>3. disk \in [File -> VtpmKey \cup {Garbage, None}]
    BY DataAssumption DEF Init
  <2>4. ancestor_list \in Seq(Public)
    BY DEF Init
  <2>. QED  BY <2>1, <2>2, <2>3, <2>4 DEF TypeOK, Init
<1>2. Control
  BY DEF Init, Control, DownIsEmpty, LoadingControl, SavingControl,
         RemovingControl
<1>3. ReverseIndex /\ NoDanglingName /\ CleanIsOnDisk /\ NoHandlesMeansFull
  BY DEF Init, NoContexts, ReverseIndex, NoDanglingName, CleanIsOnDisk,
         NoHandlesMeansFull
<1>. QED  BY <1>1, <1>2, <1>3 DEF Inv

(* Every step of every call, a failure and a crash preserve the invariant. *)
LEMMA NextInv == Inv /\ [Next]_vars => Inv'
<1>. SUFFICES ASSUME Inv, [Next]_vars PROVE Inv'
  OBVIOUS
<1>1. CASE Call
  <2>1. CASE \E s \in Supplied : New(s)
    BY <2>1, NewInv
  <2>2. CASE \E pub \in Public, pol \in 0..MaxPolicy :
               \E par \in ParentsOf[pub] : \E ctx \in Context :
                  save_transient(pub, par, ctx, pol)
    BY <2>2, SaveTransientInv
  <2>3. CASE \E pub \in Public, pol \in 0..MaxPolicy :
               \E par \in ParentsOf[pub] : \E h \in Handle :
                  save_persistent(h, pub, par, pol)
    BY <2>3, SavePersistentInv
  <2>4. CASE save_transient_full
    BY <2>4, SaveTransientFullInv
  <2>5. CASE \E h \in Handle : mark_dirty(h)
    BY <2>5, MarkDirtyInv
  <2>6. CASE \E d \in BOOLEAN : flush(d)
    BY <2>6, FlushInv
  <2>7. CASE \E h \in Handle : remove(h)
    BY <2>7, RemoveInv
  <2>8. CASE \E h \in Handle : remove_missing(h) \/ remove_fails(h)
    BY <2>8, ReportInv DEF remove_missing, remove_fails, memory
  <2>. QED  BY <1>1, <2>1, <2>2, <2>3, <2>4, <2>5, <2>6, <2>7, <2>8 DEF Call
<1>2. CASE Step
  <2>1. CASE \E f \in File : LoadRecord(f)
    BY <2>1, LoadRecordInv
  <2>2. CASE \E f \in File : LoadFails(f)
    BY <2>2, ForgetInv DEF LoadFails
  <2>3. CASE \E f \in File : LoadRejects(f)
    BY <2>3, LoadRejectsInv
  <2>4. CASE \E f \in File : LoadSkips(f)
    BY <2>4, LoadSkipsInv
  <2>5. CASE LoadDone
    BY <2>5, LoadDoneInv
  <2>6. CASE \E h \in Handle : SaveSkip(h)
    BY <2>6, SaveSkipInv
  <2>7. CASE \E h \in Handle : SaveCreate(h)
    BY <2>7, SaveCreateInv
  <2>8. CASE SaveSync
    BY <2>8, SaveSyncInv
  <2>9. CASE SaveRename
    BY <2>9, SaveRenameInv
  <2>10. CASE SaveFails \/ SaveDone
    BY <2>10, ReturnInv DEF SaveFails, SaveDone
  <2>11. CASE PopParent
    BY <2>11, PopParentInv
  <2>12. CASE \E k \in Handle : RemoveChild(k)
    BY <2>12, RemoveChildInv
  <2>13. CASE RemoveDone \/ \E k \in Handle : RemoveChildFails(k)
    BY <2>13, ReturnInv DEF RemoveDone, RemoveChildFails
  <2>. QED  BY <1>2, <2>1, <2>2, <2>3, <2>4, <2>5, <2>6, <2>7, <2>8, <2>9,
               <2>10, <2>11, <2>12, <2>13 DEF Step
<1>3. CASE Crash
  BY <1>3, ForgetInv DEF Crash
<1>4. CASE UNCHANGED vars
  <2>1. TypeOK'
    BY <1>4 DEF vars, memory, control, Inv, TypeOK
  <2>2. Control'
    BY <1>4 DEF vars, memory, control, Inv, Control, DownIsEmpty,
                LoadingControl, SavingControl, RemovingControl
  <2>3. ReverseIndex' /\ NoDanglingName' /\ CleanIsOnDisk' /\ NoHandlesMeansFull'
    BY <1>4 DEF vars, memory, control, Inv, ReverseIndex, NoDanglingName,
                CleanIsOnDisk, NoHandlesMeansFull
  <2>. QED  BY <2>1, <2>2, <2>3 DEF Inv
<1>. QED  BY <1>1, <1>2, <1>3, <1>4 DEF Next

(* The inductive invariant of the cache holds in every reachable state. *)
THEOREM InvHolds == Spec => []Inv
BY InitInv, NextInv, PTL DEF Spec

-----------------------------------------------------------------------------
(* What follows from the invariant.                                        *)

(* Every variable keeps its type.                                          *)
THEOREM TypeCorrect == Spec => []TypeOK
BY InvHolds, PTL DEF Inv

(* The name index of the cache is exact: the reverse index covers the      *)
(* cached contexts and only them.                                          *)
THEOREM ReverseIndexCorrect == Spec => []ReverseIndex
BY InvHolds, PTL DEF Inv

(* No name ever resolves to a handle that does not carry it.               *)
THEOREM NamesCorrect == Spec => []NoDanglingName
BY InvHolds, PTL DEF Inv

(* A context that is not dirty survives a crash at any point.              *)
THEOREM DurabilityCorrect == Spec => []CleanIsOnDisk
BY InvHolds, PTL DEF Inv

(* The allocator gives up only when the transient range is exhausted.      *)
THEOREM AllocationCorrect == Spec => []NoHandlesMeansFull
BY InvHolds, PTL DEF Inv

(* A save that has been through its list leaves nothing dirty.             *)
THEOREM SaveCorrect == Spec => []SaveCompletes
<1>1. Inv => SaveCompletes
  BY DEF Inv, Control, SavingControl, SaveCompletes
<1>. QED  BY <1>1, InvHolds, PTL

-----------------------------------------------------------------------------
(* What a step may do to the directory.                                    *)

(* A step deletes a file, or makes a record what its context is, or leaves *)
(* the directory alone.                                                    *)
DiskStep ==
    \/ disk' = disk
    \/ \E f \in File : disk' = [disk EXCEPT ![f] = None]
    \/ \E h \in Handle : /\ contexts[h] # None
                         /\ disk' = [disk EXCEPT ![h] = contexts[h]]

(* A step leaves the records alone, deletes one, or writes a cached key. *)
LEMMA DiskSteps == Inv /\ [Next]_vars => DiskStep
<1>. SUFFICES ASSUME Inv, [Next]_vars PROVE DiskStep
  OBVIOUS
<1>1. ASSUME NEW h \in Handle, contexts[h] # None, DropContext(h)
      PROVE  DiskStep
  BY <1>1, DropContextInv DEF DiskStep, File
<1>2. CASE Call
  <2>1. CASE \E h \in Handle : remove(h)
    BY <2>1, <1>1 DEF remove
  <2>2. CASE disk' = disk
    BY <2>2 DEF DiskStep
  <2>. QED  BY <1>2, <2>1, <2>2 DEF Call, New, save_transient, save_persistent,
               save_transient_full, mark_dirty, flush, remove_missing, remove_fails
<1>3. CASE Step
  <2>1. CASE \E f \in File : LoadRejects(f)
    BY <2>1 DEF LoadRejects, RemoveUnusable, DiskStep
  <2>2. CASE SaveRename
    BY <2>2 DEF SaveRename, DiskStep, Inv, Control, SavingControl
  <2>3. CASE \E k \in Handle : RemoveChild(k)
    BY <2>3, <1>1 DEF RemoveChild, Inv, Control, RemovingControl
  <2>4. CASE disk' = disk
    BY <2>4 DEF DiskStep
  <2>. QED  BY <1>3, <2>1, <2>2, <2>3, <2>4 DEF Step, LoadRecord, LoadFails,
               LoadSkips, LoadDone, SaveSkip, SaveCreate, SaveSync, SaveFails,
               SaveDone, PopParent, RemoveChildFails, RemoveDone
<1>4. CASE Crash \/ UNCHANGED vars
  BY <1>4 DEF Crash, vars, DiskStep
<1>. QED  BY <1>2, <1>3, <1>4 DEF Next

(* No step ever makes a record unreadable.                                 *)
THEOREM WritesAreWhole == Spec => NeverPartial
<1>1. Inv /\ [Next]_vars =>
        [\A f \in File : disk'[f] = Garbage => disk[f] = Garbage]_vars
  <2>. SUFFICES ASSUME Inv, [Next]_vars, NEW f \in File, disk'[f] = Garbage
                PROVE  disk[f] = Garbage
    OBVIOUS
  <2>1. /\ DiskStep
        /\ disk \in [File -> VtpmKey \cup {Garbage, None}]
        /\ contexts \in [Handle -> VtpmKey \cup {None}]
        /\ None # Garbage
        /\ Garbage \notin VtpmKey
    BY DiskSteps, NoneAssumption DEF Inv, TypeOK
  <2>. QED  BY <2>1 DEF DiskStep
<1>. QED  BY <1>1, InvHolds, PTL DEF Spec, NeverPartial

-----------------------------------------------------------------------------
(* Names are retired by their own handle only.                             *)

(* A name is retired by the removal or change of its own context only. *)
THEOREM NamesAreOwned == Spec => OwnNameOnly
<1>. DEFINE Owned ==
       \A n \in Name :
          (handles[n] # None /\ handles'[n] = None /\ pc' # "down")
            => contexts'[handles[n]] # contexts[handles[n]]
<1>1. Inv /\ [Next]_vars => Owned
  <2>. SUFFICES ASSUME Inv, [Next]_vars, NEW n \in Name, handles[n] # None,
                       handles'[n] = None, pc' # "down"
                PROVE  contexts'[handles[n]] # contexts[handles[n]]
    OBVIOUS
  <2>0. /\ contexts \in [Handle -> VtpmKey \cup {None}]
        /\ handles \in [Name -> Handle \cup {None}]
        /\ names \in [Handle -> Name \cup {None}]
    BY DEF Inv, TypeOK
  <2>1. ASSUME NEW h \in Handle, contexts[h] # None, DropContext(h)
        PROVE  contexts'[handles[n]] # contexts[handles[n]]
    BY <2>0, <2>1, UnpublishNames DEF DropContext
  <2>2. ASSUME NEW h \in Handle, NEW key \in VtpmKey,
               tpm_make_name[key.public] # None,
               contexts' = [contexts EXCEPT ![h] = key],
               handles' = publish_name(handles, names, h, tpm_make_name[key.public])
        PROVE  contexts'[handles[n]] # contexts[handles[n]]
    <3>. DEFINE m == tpm_make_name[key.public]
    <3>1. m \in Name
      BY <2>2, NameType
    <3>2. handles'[n] = IF n = m THEN h
                        ELSE IF names[h] = n /\ handles[n] = h THEN None
                        ELSE handles[n]
      <4>. HIDE DEF m
      <4>. QED  BY <2>0, <2>2, <3>1, PublishNames DEF m
    <3>3. n # m /\ names[h] = n /\ handles[n] = h
      BY <3>2, NoneAssumption
    <3>4. contexts[h] # key
      BY <3>3, NoneAssumption DEF Inv, ReverseIndex
    <3>. QED  BY <2>0, <2>2, <3>3, <3>4
  <2>3. handles' = handles => FALSE
    OBVIOUS
  <2>4. CASE Call
    <3>1. CASE \E s \in Supplied : New(s)
      BY <3>1 DEF New, Inv, Control, DownIsEmpty
    <3>2. CASE \E h \in Handle : remove(h)
      BY <3>2, <2>1 DEF remove
    <3>3. ASSUME NEW pub \in Public, NEW pol \in 0..MaxPolicy,
                 NEW par \in ParentsOf[pub], NEW ctx \in Context,
                 save_transient(pub, par, ctx, pol)
          PROVE  contexts'[handles[n]] # contexts[handles[n]]
      <4>1. PICK i \in 0..(TRANSIENT_COUNT - 1) :
              /\ tpm_make_name[pub] # None
              /\ Insert(Probe(i), Key(Probe(i), pub, par, ctx, pol))
        BY <3>3, <2>3 DEF save_transient
      <4>2. Probe(i) \in Handle
        BY ProbeType DEF Inv, TypeOK, Handle
      <4>. DEFINE h == Probe(i)
                  key == Key(h, pub, par, ctx, pol)
      <4>3. key \in VtpmKey /\ key.public = pub
        <5>. HIDE DEF h
        <5>1. par \in Public \cup {NullPublic}
          BY DataAssumption
        <5>. QED  BY <4>2, <5>1 DEF Key, VtpmKey, h
      <4>. QED  BY <4>1, <4>2, <4>3, <2>2 DEF Insert
    <3>4. ASSUME NEW pub \in Public, NEW pol \in 0..MaxPolicy,
                 NEW par \in ParentsOf[pub], NEW h \in Handle,
                 save_persistent(h, pub, par, pol)
          PROVE  contexts'[handles[n]] # contexts[handles[n]]
      <4>. DEFINE key == Key(h, pub, par, DefaultContext, pol)
      <4>1. tpm_make_name[pub] # None /\ Insert(h, key)
        BY <3>4, <2>3 DEF save_persistent
      <4>2. key \in VtpmKey /\ key.public = pub
        <5>1. par \in Public \cup {NullPublic}
          BY DataAssumption
        <5>. QED  BY <5>1, DataAssumption DEF Key, VtpmKey
      <4>. QED  BY <4>1, <4>2, <2>2 DEF Insert
    <3>. QED  BY <2>4, <2>3, <3>1, <3>2, <3>3, <3>4 DEF Call, memory,
                 save_transient_full, mark_dirty, flush, remove_missing,
                 remove_fails
  <2>5. CASE Step
    <3>1. CASE \E f \in File : LoadRecord(f)
      BY <3>1, <2>2 DEF LoadRecord, Loadable
    <3>2. CASE \E k \in Handle : RemoveChild(k)
      BY <3>2, <2>1 DEF RemoveChild, Inv, Control, RemovingControl
    <3>3. CASE SaveFails \/ SaveDone \/ RemoveDone
               \/ \E k \in Handle : RemoveChildFails(k)
      BY <3>3, <2>3 DEF SaveFails, SaveDone, RemoveDone, RemoveChildFails,
                        Return, Forget, memory
    <3>. QED  BY <2>5, <2>3, <3>1, <3>2, <3>3 DEF Step, memory, LoadFails,
                 Forget, LoadRejects, LoadSkips, LoadDone, SaveSkip,
                 SaveCreate, SaveSync, SaveRename, PopParent
  <2>6. CASE Crash \/ UNCHANGED vars
    BY <2>6, <2>3 DEF Crash, Forget, vars, memory
  <2>. QED  BY <2>4, <2>5, <2>6 DEF Next
<1>2. Owned => [Owned]_vars
  OBVIOUS
<1>. QED  BY <1>1, <1>2, InvHolds, PTL DEF Spec, OwnNameOnly

-----------------------------------------------------------------------------
(* A directory that can be read holds no record the cache does not know.   *)

(* NoResurrection, and what it rests on while records are being loaded.    *)
Known ==
    pc # "down" => \A h \in Handle :
        Loadable(h, disk[h]) => contexts[h] # None \/ (pc = "loading" /\ h \in todo)

(* What load has not reached yet is the only record memory does not know. *)
LEMMA KnownStep == ~ReadFault /\ Inv /\ Known /\ [Next]_vars => Known'
<1>. SUFFICES ASSUME ~ReadFault, Inv, Known, [Next]_vars, pc' # "down",
                     NEW h \in Handle, Loadable(h, disk'[h])
              PROVE  contexts'[h] # None \/ (pc' = "loading" /\ h \in todo')
  BY DEF Known, Loadable
<1>0. /\ contexts \in [Handle -> VtpmKey \cup {None}]
      /\ disk \in [File -> VtpmKey \cup {Garbage, None}]
      /\ h \in File
      /\ disk'[h] # None
  BY NoneAssumption DEF Inv, TypeOK, File, Loadable
<1>1. ASSUME NEW k \in Handle, contexts[k] # None, DropContext(k), pc # "down",
             pc # "loading"
      PROVE  contexts'[h] # None
  <2>1. disk' = [disk EXCEPT ![k] = None]
    BY <1>1, DropContextInv
  <2>2. h # k /\ disk'[h] = disk[h]
    BY <2>1, <1>0
  <2>. QED  BY <2>2, <1>0, <1>1 DEF Known, DropContext
<1>2. ASSUME NEW k \in Handle, NEW key \in VtpmKey, Insert(k, key),
             pc = "idle", UNCHANGED disk
      PROVE  contexts'[h] # None
  BY <1>2, <1>0, NoneAssumption DEF Insert, Known
<1>3. CASE Call
  <2>1. CASE \E s \in Supplied : New(s)
    BY <2>1, <1>0 DEF New
  <2>2. CASE \E k \in Handle : remove(k)
    BY <2>2, <1>1 DEF remove
  <2>3. ASSUME NEW pub \in Public, NEW pol \in 0..MaxPolicy,
               NEW par \in ParentsOf[pub], NEW ctx \in Context,
               save_transient(pub, par, ctx, pol)
        PROVE  contexts'[h] # None
    <3>1. CASE UNCHANGED contexts
      BY <2>3, <3>1 DEF save_transient, Known
    <3>2. CASE ~UNCHANGED contexts
      <4>1. PICK i \in 0..(TRANSIENT_COUNT - 1) :
              Insert(Probe(i), Key(Probe(i), pub, par, ctx, pol))
        BY <2>3, <3>2 DEF save_transient
      <4>2. Probe(i) \in Handle
        BY ProbeType DEF Inv, TypeOK, Handle
      <4>. DEFINE p == Probe(i)
      <4>3. Key(p, pub, par, ctx, pol) \in VtpmKey
        <5>. HIDE DEF p
        <5>1. par \in Public \cup {NullPublic}
          BY DataAssumption
        <5>. QED  BY <4>2, <5>1 DEF Key, VtpmKey, p
      <4>. QED  BY <2>3, <4>1, <4>2, <4>3, <1>2 DEF save_transient
    <3>. QED  BY <3>1, <3>2
  <2>4. ASSUME NEW pub \in Public, NEW pol \in 0..MaxPolicy,
               NEW par \in ParentsOf[pub], NEW k \in Handle,
               save_persistent(k, pub, par, pol)
        PROVE  contexts'[h] # None
    <3>. DEFINE key == Key(k, pub, par, DefaultContext, pol)
    <3>1. CASE UNCHANGED contexts
      BY <2>4, <3>1 DEF save_persistent, Known
    <3>2. CASE Insert(k, key)
      <4>1. key \in VtpmKey
        <5>1. par \in Public \cup {NullPublic}
          BY DataAssumption
        <5>. QED  BY <5>1, DataAssumption DEF Key, VtpmKey
      <4>. QED  BY <2>4, <3>2, <4>1, <1>2 DEF save_persistent
    <3>. QED  BY <2>4, <3>1, <3>2 DEF save_persistent
  <2>5. CASE /\ UNCHANGED <<disk, contexts>>
             /\ pc = "idle"
    BY <2>5 DEF Known
  <2>. QED  BY <1>3, <2>1, <2>2, <2>3, <2>4, <2>5 DEF Call, memory, control,
               save_transient_full, mark_dirty, flush, remove_missing,
               remove_fails
<1>4. CASE Step
  <2>1. CASE \E f \in File : LoadRecord(f)
    BY <2>1, <1>0, NoneAssumption DEF LoadRecord, Loadable, Known
  <2>2. ASSUME NEW f \in File, LoadRejects(f)
        PROVE  pc' = "loading" /\ (contexts'[h] # None \/ h \in todo')
    <3>1. disk' = [disk EXCEPT ![f] = None] \/ disk' = disk
      BY <2>2 DEF LoadRejects, RemoveUnusable
    <3>2. disk'[h] = disk[h]
      BY <3>1, <1>0
    <3>3. h # f
      BY <2>2, <3>2, FileAssumption DEF LoadRejects
    <3>. QED  BY <2>2, <3>2, <3>3 DEF LoadRejects, memory, Known
  <2>3. CASE \E f \in File : LoadSkips(f)
    BY <2>3, FileAssumption DEF LoadSkips, memory, Known
  <2>4. CASE LoadDone
    BY <2>4 DEF LoadDone, Known
  <2>5. CASE SaveRename
    BY <2>5, <1>0 DEF SaveRename, Inv, Control, SavingControl, Known
  <2>6. CASE \E k \in Handle : RemoveChild(k)
    BY <2>6, <1>1 DEF RemoveChild, Inv, Control, RemovingControl
  <2>7. CASE /\ UNCHANGED <<disk, contexts>>
             /\ pc \notin {"down", "loading"}
    BY <2>7 DEF Known
  <2>. QED  BY <1>4, <2>1, <2>2, <2>3, <2>4, <2>5, <2>6, <2>7 DEF Step, memory,
               LoadFails, Forget, SaveSkip, SaveCreate, SaveSync, SaveFails,
               SaveDone, Return, PopParent, RemoveChildFails, RemoveDone
<1>5. CASE Crash \/ UNCHANGED vars
  BY <1>5 DEF Crash, Forget, vars, memory, control, Known
<1>. QED  BY <1>3, <1>4, <1>5 DEF Next

(* With a directory that can be read, a deleted key never comes back.      *)
THEOREM DeletedStaysDeleted == ~ReadFault => (Spec => []NoResurrection)
<1>. SUFFICES ASSUME ~ReadFault PROVE Spec => []NoResurrection
  OBVIOUS
<1>1. Init => Known
  BY DEF Init, Known
<1>2. Inv /\ Known /\ [Next]_vars => Known'
  BY KnownStep
<1>3. Known => NoResurrection
  BY DEF Known, NoResurrection, Running
<1>. QED  BY <1>1, <1>2, <1>3, InvHolds, PTL DEF Spec

-----------------------------------------------------------------------------
(***************************************************************************)
(* remove deletes exactly the subtree of its target: the proof. The queue  *)
(* of remove_subtree is a frontier between what is gone and what has yet   *)
(* to be visited.                                                          *)
(***************************************************************************)
(* p waits in the queue of publics whose children are to be visited.       *)
Queued(p) == \E i \in 1..Len(ancestor_list) : ancestor_list[i] = p

(* A cached context under a deleted one is about to be deleted itself, or  *)
(* the public of its parent is still queued.                               *)
Frontier ==
    \A x \in Gone, k \in Handle :
        contexts[k] # None /\ contexts[k].parent = before[x].public
            => k \in todo \/ Queued(before[x].public)

(* Nothing is queued or about to be deleted that is not under a deleted    *)
(* context, and nothing outside the subtree has been deleted.              *)
OnlyUnder ==
    /\ \A i \in 1..Len(ancestor_list) :
          \E x \in Gone : before[x].public = ancestor_list[i]
    /\ \A k \in todo : \E x \in Gone : before[x].public = contexts[k].parent
    /\ \A S \in SUBSET Handle : Subtree(S) => Gone \subseteq S

(* Survivors are as they were when remove was called.                      *)
Survivors == \A h \in Handle : contexts[h] # None => contexts[h] = before[h]

SubtreeInv ==
    pc = "removing" => /\ current \in Gone
                       /\ Survivors
                       /\ Frontier
                       /\ OnlyUnder

(* The invariant gives the property when the queue is empty.               *)
LEMMA SubtreeEnd == Inv /\ SubtreeInv => RemovesSubtree
<1>. SUFFICES ASSUME Inv, SubtreeInv, pc = "removing", todo = {},
                     ancestor_list = <<>>
              PROVE  /\ Subtree(Gone)
                     /\ \A S \in SUBSET Handle : Subtree(S) => Gone \subseteq S
                     /\ \A h \in Handle \ Gone : contexts[h] = before[h]
  BY DEF RemovesSubtree
<1>1. \A p : ~Queued(p)
  BY DEF Queued
<1>2. Subtree(Gone)
  <2>. SUFFICES ASSUME NEW k \in Handle, NEW x \in Gone, before[k] # None,
                       before[k].parent = before[x].public
                PROVE  k \in Gone
    BY DEF SubtreeInv, Subtree
  <2>. QED  BY <1>1 DEF SubtreeInv, Frontier, Survivors, Gone
<1>3. \A h \in Handle \ Gone : contexts[h] = before[h]
  BY DEF SubtreeInv, Survivors, Gone
<1>. QED  BY <1>2, <1>3 DEF SubtreeInv, OnlyUnder

(* The first step of remove opens the frontier at the target.              *)
LEMMA RemoveSubtree ==
    ASSUME Inv, NEW h \in Handle, remove(h)
    PROVE  SubtreeInv'
<1>0. /\ contexts \in [Handle -> VtpmKey \cup {None}]
      /\ contexts[h] # None
      /\ contexts' = [contexts EXCEPT ![h] = None]
      /\ before' = contexts /\ current' = h /\ todo' = {}
      /\ ancestor_list' = <<contexts[h].public>>
  BY DEF Inv, TypeOK, remove, DropContext
<1>1. Gone' = {h}
  BY <1>0 DEF Gone
<1>2. Survivors'
  BY <1>0 DEF Survivors
<1>3. ancestor_list'[1] = contexts[h].public /\ Len(ancestor_list') = 1
  BY <1>0
<1>4. Frontier'
  BY <1>0, <1>1, <1>3 DEF Frontier, Queued
<1>5. OnlyUnder'
  BY <1>0, <1>1, <1>3 DEF OnlyUnder, Subtree
<1>. QED  BY <1>0, <1>1, <1>2, <1>4, <1>5 DEF SubtreeInv

(* Taking a public off the queue moves its children to the list.           *)
LEMMA PopParentSubtree ==
    ASSUME Inv, SubtreeInv, PopParent
    PROVE  SubtreeInv'
<1>0. /\ ancestor_list \in Seq(Public) /\ ancestor_list # <<>> /\ todo = {}
      /\ ancestor_list' = Tail(ancestor_list)
      /\ contexts' = contexts /\ before' = before /\ current' = current
      /\ pc = "removing"
  BY DEF Inv, TypeOK, PopParent, memory
<1>1. Gone' = Gone
  BY <1>0 DEF Gone
<1>2. /\ Len(ancestor_list') = Len(ancestor_list) - 1
      /\ \A i \in 1..Len(ancestor_list') :
           /\ ancestor_list'[i] = ancestor_list[i + 1]
           /\ i + 1 \in 1..Len(ancestor_list)
      /\ 1 \in 1..Len(ancestor_list)
      /\ Head(ancestor_list) = ancestor_list[1]
      /\ Len(ancestor_list) \in Nat
  BY <1>0
<1>3. \A p : Queued(p) => p = Head(ancestor_list) \/ Queued(p)'
  <2>. SUFFICES ASSUME NEW p, NEW i \in 1..Len(ancestor_list),
                       ancestor_list[i] = p, p # Head(ancestor_list)
                PROVE  \E j \in 1..Len(ancestor_list') : ancestor_list'[j] = p
    BY DEF Queued
  <2>1. i # 1
    BY <1>2
  <2>2. i - 1 \in 1..Len(ancestor_list') /\ (i - 1) + 1 = i
    BY <2>1, <1>2
  <2>. QED  BY <2>2, <1>2
<1>4. Frontier'
  <2>. SUFFICES ASSUME NEW x \in Gone, NEW k \in Handle, contexts[k] # None,
                       contexts[k].parent = before[x].public
                PROVE  k \in todo' \/ Queued(before[x].public)'
    BY <1>0, <1>1 DEF Frontier, Queued
  <2>1. Queued(before[x].public)
    BY <1>0 DEF SubtreeInv, Frontier
  <2>2. CASE before[x].public = Head(ancestor_list)
    BY <2>2 DEF PopParent
  <2>. QED  BY <2>1, <2>2, <1>0, <1>3 DEF Queued
<1>5. OnlyUnder'
  <2>1. \A i \in 1..Len(ancestor_list') :
          \E x \in Gone : before[x].public = ancestor_list'[i]
    BY <1>0, <1>2 DEF SubtreeInv, OnlyUnder
  <2>2. \A k \in todo' : \E x \in Gone : before[x].public = contexts[k].parent
    BY <1>0, <1>2 DEF SubtreeInv, OnlyUnder, PopParent
  <2>3. \A S \in SUBSET Handle : Subtree(S)' => Gone \subseteq S
    BY <1>0 DEF SubtreeInv, OnlyUnder, Subtree
  <2>. QED  BY <1>0, <1>1, <2>1, <2>2, <2>3 DEF OnlyUnder
<1>6. Survivors'
  BY <1>0 DEF SubtreeInv, Survivors
<1>. QED  BY <1>0, <1>1, <1>4, <1>5, <1>6 DEF SubtreeInv

(* Deleting a child queues its public, so the frontier moves past it.      *)
LEMMA RemoveChildSubtree ==
    ASSUME Inv, SubtreeInv, NEW c \in Handle, RemoveChild(c)
    PROVE  SubtreeInv'
<1>0. /\ contexts \in [Handle -> VtpmKey \cup {None}]
      /\ ancestor_list \in Seq(Public)
      /\ pc = "removing" /\ c \in todo /\ contexts[c] # None
      /\ contexts' = [contexts EXCEPT ![c] = None]
      /\ before' = before /\ current' = current /\ todo' = todo \ {c}
      /\ contexts[c].public \in Public
      /\ ancestor_list' = Append(ancestor_list, contexts[c].public)
      /\ \A k \in todo : k \in Handle
  BY NameType DEF Inv, TypeOK, RemoveChild, DropContext, Control, RemovingControl
<1>1. contexts[c] = before[c]
  BY <1>0 DEF SubtreeInv, Survivors
<1>2. Gone' = Gone \cup {c}
  BY <1>0, <1>1 DEF Gone
<1>3. /\ Len(ancestor_list') = Len(ancestor_list) + 1
      /\ \A i \in 1..Len(ancestor_list) :
           /\ ancestor_list'[i] = ancestor_list[i]
           /\ i \in 1..Len(ancestor_list')
      /\ Len(ancestor_list) + 1 \in 1..Len(ancestor_list')
      /\ ancestor_list'[Len(ancestor_list) + 1] = before[c].public
      /\ \A i \in 1..Len(ancestor_list') :
           i \in 1..Len(ancestor_list) \/ i = Len(ancestor_list) + 1
  BY <1>0, <1>1
<1>4. \A p : Queued(p) \/ p = before[c].public => Queued(p)'
  BY <1>3 DEF Queued
<1>5. Survivors'
  BY <1>0 DEF SubtreeInv, Survivors
<1>6. Frontier'
  <2>. SUFFICES ASSUME NEW x \in Gone \cup {c}, NEW k \in Handle,
                       contexts'[k] # None,
                       contexts'[k].parent = before[x].public
                PROVE  k \in todo' \/ Queued(before[x].public)'
    BY <1>0, <1>2 DEF Frontier, Queued
  <2>1. k # c /\ contexts'[k] = contexts[k]
    BY <1>0
  <2>2. CASE x = c
    BY <2>2, <1>0, <1>4 DEF Queued
  <2>3. CASE x \in Gone
    BY <2>1, <2>3, <1>0, <1>4 DEF SubtreeInv, Frontier, Queued
  <2>. QED  BY <2>2, <2>3
<1>7. OnlyUnder'
  <2>1. \A i \in 1..Len(ancestor_list') :
          \E x \in Gone' : before[x].public = ancestor_list'[i]
    BY <1>0, <1>2, <1>3 DEF SubtreeInv, OnlyUnder
  <2>2. \A k \in todo' : \E x \in Gone' : before[x].public = contexts'[k].parent
    <3>. SUFFICES ASSUME NEW k \in todo'
                  PROVE  \E x \in Gone' : before[x].public = contexts'[k].parent
      OBVIOUS
    <3>1. k \in todo /\ contexts'[k] = contexts[k]
      BY <1>0
    <3>. QED  BY <3>1, <1>0, <1>2 DEF SubtreeInv, OnlyUnder
  <2>3. ASSUME NEW S \in SUBSET Handle, Subtree(S)'
        PROVE  Gone' \subseteq S
    <3>1. Subtree(S)
      BY <1>0, <2>3 DEF Subtree
    <3>2. Gone \subseteq S
      BY <3>1, <1>0 DEF SubtreeInv, OnlyUnder
    <3>3. PICK x \in Gone : before[x].public = before[c].parent
      BY <1>0, <1>1 DEF SubtreeInv, OnlyUnder
    <3>4. before[c] # None /\ before[x] # None /\ x \in S
      BY <3>2, <1>0, <1>1 DEF Gone
    <3>5. c \in S
      BY <3>1, <3>3, <3>4 DEF Subtree
    <3>. QED  BY <3>2, <3>5, <1>2
  <2>. QED  BY <1>0, <2>1, <2>2, <2>3 DEF OnlyUnder
<1>. QED  BY <1>0, <1>2, <1>5, <1>6, <1>7 DEF SubtreeInv

(* remove deletes its target, everything under it and nothing else, for    *)
(* any number of contexts and any shape of the parent relation.            *)
THEOREM RemoveCorrect == Spec => []RemovesSubtree
<1>1. Init => SubtreeInv
  BY DEF Init, SubtreeInv
<1>2. Inv /\ SubtreeInv /\ [Next]_vars => SubtreeInv'
  <2>. SUFFICES ASSUME Inv, SubtreeInv, [Next]_vars PROVE SubtreeInv'
    OBVIOUS
  <2>1. CASE \E h \in Handle : remove(h)
    BY <2>1, RemoveSubtree
  <2>2. CASE PopParent
    BY <2>2, PopParentSubtree
  <2>3. CASE \E k \in Handle : RemoveChild(k)
    BY <2>3, RemoveChildSubtree
  <2>4. CASE pc' # "removing"
    BY <2>4 DEF SubtreeInv
  <2>5. CASE UNCHANGED vars
    BY <2>5 DEF vars, memory, control, SubtreeInv, Survivors, Frontier,
                OnlyUnder, Gone, Queued, Subtree
  <2>6. ASSUME Call, ~\E h \in Handle : remove(h)
        PROVE  pc' # "removing"
    BY <2>6 DEF Call, New, save_transient, save_persistent, control,
                save_transient_full, mark_dirty, flush, remove_missing,
                remove_fails
  <2>7. ASSUME Step, ~PopParent, ~\E k \in Handle : RemoveChild(k)
        PROVE  pc' # "removing"
    BY <2>7 DEF Step, LoadRecord, LoadFails, Forget, LoadRejects, LoadSkips,
                LoadDone, SaveSkip, SaveCreate, SaveSync, SaveRename,
                SaveFails, SaveDone, Return, RemoveChildFails, RemoveDone
  <2>8. CASE Crash
    BY <2>8, <2>4 DEF Crash, Forget
  <2>. QED  BY <2>1, <2>2, <2>3, <2>4, <2>5, <2>6, <2>7, <2>8 DEF Next
<1>. QED  BY <1>1, <1>2, SubtreeEnd, InvHolds, PTL DEF Spec

=============================================================================
