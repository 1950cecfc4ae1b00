-------------------------------- MODULE Queries --------------------------------
(***************************************************************************)
(* The queries that ask a TPM repeatedly until they have a whole answer:   *)
(* get_capability and its callers and find_persistent                      *)
(* (crates/device/src/lib.rs), read_all_pcrs (crates/sh/src/pcr.rs) and    *)
(* read_nv_index (crates/sh/src/command/memory.rs).                        *)
(*                                                                         *)
(* Between two commands of a query other software may change what the TPM  *)
(* holds. The TPM is external; it is honest, or it answers anything.       *)
(***************************************************************************)
EXTENDS Integers, Sequences, FiniteSets, SequencesExt, FiniteSetsExt

CONSTANTS
    CAPABILITY_PAGE_SIZE,  \* items asked for in one page
    MaxProp,               \* the largest property value (2^32 - 1)
    Span,                  \* handles in a class (2^24)
    Class,                 \* the class fetch_handles is asked for
    Handles, Banks, Algs,  \* where the TPM may hold objects; ids of banks, algorithms
    Names, Target,         \* names of objects; the one find_persistent looks for
    Pcr,                   \* indices of PCRs
    MaxDigests,            \* external: digests that fit into one response
    NvSizes,               \* sizes of the NV index and of the largest read
    BadItems,              \* what a TPM that is not honest may list
    MaxChanges,            \* bound: changes by other software
    None

ASSUME QueryAssumption ==
    /\ {CAPABILITY_PAGE_SIZE, Span, MaxDigests} \subseteq Nat \ {0}
    /\ {MaxProp, Class, MaxChanges} \subseteq Nat
    /\ NvSizes \subseteq Nat
    /\ Handles \cup Banks \cup Algs \cup BadItems \subseteq 0..MaxProp
    /\ Pcr \subseteq Nat /\ IsFiniteSet(Pcr)
    /\ Target \in Names /\ None \notin Names \cup Nat

VARIABLES
    call,      \* the query in progress
    pc,        \* the loop it is in
    prop,      \* get_capability: the property the next page starts from
    results,   \* what has been collected
    todo,      \* find_persistent: handles still to be read
    remaining, \* read_all_pcrs: what is still to be read, a mask by bank
    store,     \* read_all_pcrs: the digests by bank and index
    limit,     \* read_nv_index: <<data_size, max_read_size>>
    answer,    \* what the query returned, as a sequence
    beat,      \* alternates with every round, so that none is a stuttering step
    honest,    \* external: does the TPM answer as its specification says?
    objects,   \* external: the name of the object at each handle
    masks,     \* external: the PCRs allocated in each bank
    version,   \* external: how often each PCR has been extended
    changes,   \* bound: changes by other software so far
    stable,    \* history: handles whose object did not change during the call
    seen       \* history: <<handle, name>> of all objects during the call

tpm == <<honest, objects, masks, version, changes, stable, seen>>
vars == <<call, pc, prop, results, todo, remaining, store, limit, answer, beat, tpm>>

Ascending(seq) == \A i, j \in DOMAIN seq : i < j => seq[i] < seq[j]

(* The numbers of a set in ascending order: the k-th has k not above it.   *)
Sorted(S) ==
    [k \in 1..Cardinality(S) |-> CHOOSE x \in S : Cardinality({y \in S : y <= x}) = k]

Calls == {"algs", "handles", "find", "pcrs", "nv"}
Slot == Banks \X Pcr
Held == {h \in Handles : objects[h] # None}

Init ==
    /\ call \in Calls /\ pc = "start" /\ prop = 0 /\ results = <<>>
    /\ todo = <<>> /\ remaining = <<>> /\ limit = <<0, 0>>
    /\ store = [s \in Slot |-> None] /\ answer = <<>> /\ beat = FALSE
    /\ honest \in BOOLEAN
    /\ objects \in IF honest /\ call \in {"handles", "find"} THEN [Handles -> Names \cup {None}]
                                                            ELSE {[h \in Handles |-> None]}
    /\ masks \in IF call = "pcrs" THEN [Banks -> SUBSET Pcr] ELSE {[b \in Banks |-> {}]}
    /\ version = [p \in Pcr |-> 0] /\ changes = 0
    /\ stable = Held /\ seen = {<<h, objects[h]>> : h \in Held}

Ended == pc \in {"done", "failed"}
Return(r) == pc' = "done" /\ answer' = r
Fail == pc' = "failed" /\ UNCHANGED answer

(* Any transmission may fail; every caller passes the error on.            *)
TransmitFails ==
    /\ pc # "start" /\ ~Ended
    /\ Fail
    /\ UNCHANGED <<call, prop, results, todo, remaining, store, limit, beat, tpm>>

-----------------------------------------------------------------------------
(* The TPM (external).                                                     *)

ClassOf(h) == h \div Span

(* What a capability lists, by property: the handles of the class that was *)
(* asked for, or of that class and all above it.                           *)
Listed ==
    CASE call \in {"handles", "find"} -> {Held, {h \in Held : ClassOf(h) = Class}}
      [] call = "pcrs" -> {Banks}
      [] OTHER -> {Algs}

(* A page: the first items from prop on in their order, fewer than asked   *)
(* for if the TPM likes but not none, and whether there are more. A TPM    *)
(* that is not honest lists anything.                                      *)
HonestPages(list) ==
    LET from == {i \in list : i >= prop}
        First(items) == /\ Ascending(items)
                        /\ \A x \in from \ ToSet(items) : items # <<>> /\ x > Last(items)
    IN  {[items |-> items, more |-> from # ToSet(items)]
         : items \in {seq \in BoundedSeq(from, CAPABILITY_PAGE_SIZE) : First(seq)}}

Pages ==
    IF honest
    THEN UNION {HonestPages(list) : list \in Listed}
    ELSE [items: BoundedSeq(BadItems, CAPABILITY_PAGE_SIZE), more: BOOLEAN]

-----------------------------------------------------------------------------
(* get_capability and its callers.                                         *)

(* fetch_handles starts at the first handle of the class, others at 0.     *)
PropertyStart == IF call \in {"handles", "find"} THEN Class * Span ELSE 0

(* Handles saturate at the end of their range; the other properties are    *)
(* 16 bits wide and cannot overflow.                                       *)
NextProp(last) ==
    IF call \in {"handles", "find"} THEN Min({last + 1, MaxProp}) ELSE last + 1

StartPaging ==
    /\ pc = "start" /\ call # "nv"
    /\ prop' = PropertyStart /\ pc' = "page"
    /\ UNCHANGED <<call, results, todo, remaining, store, limit, answer, beat, tpm>>

(* fetch_handles keeps the handles of the class, in their order.           *)
InClass(seq) ==
    LET places == Sorted({i \in DOMAIN seq : ClassOf(seq[i]) = Class})
    IN  [k \in DOMAIN places |-> seq[places[k]]]

(* fetch_pcr_bank_list: banks without PCRs are skipped, the others must    *)
(* all have the same mask. The mask is the bank's own: the TPM lists it    *)
(* with the bank.                                                          *)
Allocated(list) == {b \in ToSet(list) \cap Banks : masks[b] # {}}
BanksAgree(list) == \A a, b \in Allocated(list) : masks[a] = masks[b]

(* The caller of get_capability takes the list.                            *)
Collected(list) ==
    CASE call = "algs" -> Return(list) /\ UNCHANGED <<todo, remaining>>
      [] call = "handles" -> Return(InClass(list)) /\ UNCHANGED <<todo, remaining>>
      [] call = "find" ->
            /\ todo' = InClass(list) /\ pc' = "names"
            /\ UNCHANGED <<remaining, answer>>
      [] call = "pcrs" ->
            IF Allocated(list) # {} /\ BanksAgree(list)
            THEN /\ remaining' = [b \in Allocated(list) |-> masks[b]]
                 /\ pc' = "pcrs" /\ UNCHANGED <<todo, answer>>
            ELSE Fail /\ UNCHANGED <<todo, remaining>>

\* Mutant: the next page starts at the last item instead of after it.
PageRepeatsLast(page) ==
    /\ pc = "page"
    /\ results' = results \o page.items
    /\ IF page.more /\ page.items # <<>> /\ Last(page.items) > prop
       THEN /\ prop' = Last(page.items)
            /\ UNCHANGED <<pc, todo, remaining, answer>>
       ELSE Collected(results') /\ UNCHANGED prop
    /\ beat' = ~beat
    /\ UNCHANGED <<call, store, limit, tpm>>

(* One page: it is appended, and the loop goes on after its last item if   *)
(* the TPM has more and that item is beyond where the page started.        *)
Page(page) ==
    /\ pc = "page"
    /\ results' = results \o page.items
    /\ IF page.more /\ page.items # <<>> /\ NextProp(Last(page.items)) > prop
       THEN /\ prop' = NextProp(Last(page.items))
            /\ UNCHANGED <<pc, todo, remaining, answer>>
       ELSE Collected(results') /\ UNCHANGED prop
    /\ beat' = ~beat
    /\ UNCHANGED <<call, store, limit, tpm>>

get_capability == pc = "page" /\ \E page \in Pages : Page(page)

\* Mutant: a handle that has gone ends the search.
FindStopsAtGone(name) ==
    /\ pc = "names" /\ todo # <<>>
    /\ IF name \in {Target, None}
       THEN Return(IF name = Target THEN <<Head(todo)>> ELSE <<>>) /\ UNCHANGED todo
       ELSE todo' = Tail(todo) /\ UNCHANGED <<pc, answer>>
    /\ beat' = ~beat
    /\ UNCHANGED <<call, prop, results, remaining, store, limit, tpm>>

(* find_persistent reads one public area: name is None when the TPM says   *)
(* that there is no object at the handle (any more).                       *)
FindRead(name) ==
    /\ pc = "names" /\ todo # <<>>
    /\ IF name = Target
       THEN Return(<<Head(todo)>>) /\ UNCHANGED todo
       ELSE todo' = Tail(todo) /\ UNCHANGED <<pc, answer>>
    /\ beat' = ~beat
    /\ UNCHANGED <<call, prop, results, remaining, store, limit, tpm>>

find_persistent ==
    /\ pc = "names" /\ todo # <<>>
    /\ \E name \in IF honest THEN {IF Head(todo) \in Handles THEN objects[Head(todo)] ELSE None}
                             ELSE Names \cup {None} : FindRead(name)

FindNothing ==
    /\ pc = "names" /\ todo = <<>>
    /\ Return(<<>>)
    /\ UNCHANGED <<call, prop, results, todo, remaining, store, limit, beat, tpm>>

-----------------------------------------------------------------------------
(* read_all_pcrs. A response has a selection (banks with the PCRs          *)
(* returned) and digests, which belong to the selected PCRs in order.      *)

(* The PCRs a selection returns, as <<entry, index>>, and the place of     *)
(* each in the order of the digests: by entry, then by index.              *)
Returned(selection) ==
    {e \in (DOMAIN selection) \X Pcr : e[2] \in selection[e[1]].pcrs}

Position(selection, e) ==
    Cardinality({d \in Returned(selection) : d[1] < e[1] \/ (d[1] = e[1] /\ d[2] <= e[2])})

Selection(rest) ==
    LET algs == Sorted(DOMAIN rest)
    IN  [i \in DOMAIN algs |-> [hash |-> algs[i], pcrs |-> rest[algs[i]]]]

Unread == \E b \in DOMAIN remaining : remaining[b] # {}

Digest(slot) == <<slot, version[slot[2]]>>

(* An honest TPM returns the first selected PCRs, as many as fit.          *)
Cut(selection, k) ==
    [i \in DOMAIN selection |->
        [hash |-> selection[i].hash,
         pcrs |-> {p \in selection[i].pcrs : Position(selection, <<i, p>>) <= k}]]

Digests(selection) ==
    [k \in 1..Cardinality(Returned(selection)) |->
        LET e == CHOOSE e \in Returned(selection) : Position(selection, e) = k
        IN  Digest(<<selection[e[1]].hash, e[2]>>)]

Responses ==
    IF honest
    THEN LET asked == Selection(remaining)
         IN  {[selection |-> Cut(asked, k), digests |-> Digests(Cut(asked, k))]
              : k \in 1..Min({MaxDigests, Cardinality(Returned(asked))})}
    ELSE [selection: BoundedSeq([hash: Banks \cup {None}, pcrs: SUBSET Pcr], 1),
          digests: {<<>>, <<None>>, <<None, None>>}]

(* update_remaining_selection: the first entry of each bank is what was    *)
(* read of it.                                                             *)
ReadOf(bank, selection) ==
    LET entries == {i \in DOMAIN selection : selection[i].hash = bank}
    IN  IF entries = {} THEN {} ELSE selection[Min(entries)].pcrs

(* The digest of a PCR; the last one if a response has several.            *)
Stored(slot, response) ==
    LET entries == {i \in DOMAIN response.selection :
                        response.selection[i].hash = slot[1] /\ slot[2] \in response.selection[i].pcrs}
    IN  IF entries = {} THEN store[slot]
        ELSE response.digests[Position(response.selection, <<Max(entries), slot[2]>>)]

\* Mutant: what was asked for is taken as read.
PcrReadAssumesAll(response) ==
    /\ pc = "pcrs" /\ Unread
    /\ store' = [s \in Slot |-> Stored(s, response)]
    /\ remaining' = [b \in DOMAIN remaining |-> {}]
    /\ beat' = ~beat
    /\ UNCHANGED <<call, pc, prop, results, todo, limit, answer, tpm>>

(* One round of the loop: the digests go to their PCRs, and what the       *)
(* response selects is no longer asked for. A bank that was not asked for  *)
(* or a missing digest is an error.                                        *)
PcrRead(response) ==
    LET valid == /\ \A i \in DOMAIN response.selection : response.selection[i].hash \in DOMAIN remaining
                 /\ Len(response.digests) >= Cardinality(Returned(response.selection))
    IN  /\ pc = "pcrs" /\ Unread
        /\ \/ /\ valid
              /\ store' = [s \in Slot |-> Stored(s, response)]
              /\ remaining' = [b \in DOMAIN remaining |-> remaining[b] \ ReadOf(b, response.selection)]
              /\ UNCHANGED <<pc, answer>>
           \/ /\ ~valid
              /\ Fail
              /\ UNCHANGED <<store, remaining>>
        /\ beat' = ~beat
        /\ UNCHANGED <<call, prop, results, todo, limit, tpm>>

read_all_pcrs ==
    /\ pc = "pcrs" /\ Unread
    /\ \E response \in Responses : PcrRead(response)

PcrReadDone ==
    /\ pc = "pcrs" /\ ~Unread
    /\ Return(<<>>)
    /\ UNCHANGED <<call, prop, results, todo, remaining, store, limit, beat, tpm>>

-----------------------------------------------------------------------------
(* read_nv_index. Data is represented by its offset in the index; results  *)
(* is what has been received, so its length is the offset of the next      *)
(* read.                                                                   *)

(* fetch_tpm_property(NvBufferMax) and read_nv_public.                     *)
NvStart ==
    /\ pc = "start" /\ call = "nv"
    /\ limit' \in NvSizes \X NvSizes
    /\ honest => limit'[2] > 0
    /\ pc' = "nv"
    /\ UNCHANGED <<call, prop, results, todo, remaining, store, answer, beat, tpm>>

ChunkSize == Min({limit[2], limit[1] - Len(results)})

Chunk(n) == [i \in 1..n |-> Len(results) + i - 1]

\* Mutant: the chunk is not limited to what is left of the index.
NvReadUnlimited ==
    /\ pc = "nv" /\ Len(results) < limit[1]
    /\ IF limit[2] = 0 THEN Return(results) /\ UNCHANGED results
                       ELSE results' = results \o Chunk(limit[2]) /\ UNCHANGED <<pc, answer>>
    /\ beat' = ~beat
    /\ UNCHANGED <<call, prop, todo, remaining, store, limit, tpm>>

\* Mutant: an empty response is asked for again.
NvReadRetries ==
    /\ pc = "nv" /\ Len(results) < limit[1]
    /\ \E n \in IF honest THEN {ChunkSize} ELSE 0..(ChunkSize + 1) :
           results' = results \o Chunk(n)
    /\ beat' = ~beat
    /\ UNCHANGED <<call, pc, prop, todo, remaining, store, limit, answer, tpm>>

(* One read; an empty response ends the loop with what there is.           *)
NvRead ==
    /\ pc = "nv" /\ Len(results) < limit[1]
    /\ \E n \in IF honest THEN {ChunkSize} ELSE 0..(ChunkSize + 1) :
           IF n = 0 THEN Return(results) /\ UNCHANGED results
                    ELSE results' = results \o Chunk(n) /\ UNCHANGED <<pc, answer>>
    /\ beat' = ~beat
    /\ UNCHANGED <<call, prop, todo, remaining, store, limit, tpm>>

NvDone ==
    /\ pc = "nv" /\ Len(results) >= limit[1]
    /\ Return(results)
    /\ UNCHANGED <<call, prop, results, todo, remaining, store, limit, beat, tpm>>

-----------------------------------------------------------------------------
(* Other software (external) replaces or removes an object, or extends a   *)
(* PCR. What a TPM that is not honest holds does not matter.               *)

Others ==
    /\ ~Ended /\ honest /\ changes < MaxChanges
    /\ changes' = changes + 1
    /\ \/ /\ call \in {"handles", "find"}
          /\ \E h \in Handles, name \in Names \cup {None} :
                /\ name # objects[h]
                /\ objects' = [objects EXCEPT ![h] = name]
                /\ stable' = stable \ {h}
                /\ seen' = IF name = None THEN seen ELSE seen \cup {<<h, name>>}
          /\ UNCHANGED version
       \/ /\ call = "pcrs"
          /\ \E p \in Pcr : version' = [version EXCEPT ![p] = @ + 1]
          /\ UNCHANGED <<objects, stable, seen>>
    /\ UNCHANGED <<call, pc, prop, results, todo, remaining, store, limit, answer, beat, honest, masks>>

Host == \/ StartPaging \/ get_capability \/ find_persistent \/ FindNothing
        \/ read_all_pcrs \/ PcrReadDone \/ NvStart \/ NvRead \/ NvDone

Next == Host \/ TransmitFails \/ Others

Spec == Init /\ [][Next]_vars

(* The thread runs, and every transmission returns (TransmitReturns).      *)
FairSpec == Spec /\ WF_vars(Host)

-----------------------------------------------------------------------------

(* A list assembled from pages, while other software changes what is       *)
(* listed, has no item twice and keeps the order; it has every handle that *)
(* was there all the time, and none that never was (get_capability,        *)
(* fetch_handles).                                                         *)
ListIsWhole ==
    (pc = "done" /\ honest) =>
        /\ call = "algs" => Ascending(answer) /\ ToSet(answer) = Algs
        /\ call = "handles" =>
              /\ Ascending(answer)
              /\ {h \in stable : ClassOf(h) = Class} \subseteq ToSet(answer)
              /\ ToSet(answer) \subseteq {h \in Handles : ClassOf(h) = Class /\ \E n \in Names : <<h, n>> \in seen}

(* find_persistent returns a handle that had the name, and returns none    *)
(* only if no handle had it all the time, also when objects vanish         *)
(* between the list and the read of their public areas.                    *)
FindIsRight ==
    (pc = "done" /\ call = "find" /\ honest) =>
        /\ answer # <<>> => <<Head(answer), Target>> \in seen
        /\ answer = <<>> => \A h \in stable : ClassOf(h) = Class => objects[h] # Target

(* read_all_pcrs returns every PCR of every allocated bank, each with one  *)
(* of the values that PCR has had since the call, however the responses    *)
(* are cut.                                                                *)
AllPcrsRead ==
    (pc = "done" /\ call = "pcrs" /\ honest) =>
        \A s \in Slot : IF s[2] \in masks[s[1]]
                        THEN store[s] \in {<<s, v>> : v \in 0..version[s[2]]}
                        ELSE store[s] = None

(* read_nv_index returns the whole index and nothing beyond it.            *)
NvIsWhole ==
    (pc = "done" /\ call = "nv" /\ honest) =>
        answer = [i \in 1..limit[1] |-> i - 1]

(* Every query ends: listing and reading NV whatever the TPM answers,      *)
(* reading PCRs if the TPM always returns one of those it is asked for.    *)
QueriesReturn == (honest \/ call # "pcrs") ~> Ended
=============================================================================
