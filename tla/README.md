# A TLA+ model of tpm2-library

This directory holds a verification development for the `tpm2-library`
workspace (`src/`): TLA+ modules translated from the Rust sources, TLC
configurations that check them on small instances, and proofs checked by TLAPS.
`PROJECT.json` lists the components, runs, mutants, hazards, findings and
theorems, and maps every definition to the lines it stands for.

## 1. The system

`tpm2sh` (crates/sh) is a command-line program; every run executes one command
and exits. It talks to a TPM through `tpm2-device` and keeps, in a directory,
the saved contexts of keys so that later runs can load them again (`tpm2-vtpm`).
Everything is single threaded (`&mut`, `Rc<RefCell<..>>`), except that the
Ctrl-C handler sets a global flag the device polls.

| Component | State | Operations | Interacts with |
| --- | --- | --- | --- |
| vtpm cache (`crates/vtpm/src/lib.rs`) | `contexts`, `handles` (name to handle), `names` (the reverse), `dirty`, `next_virtual_handle`; one file per key | `new`, `find_*`, `fetch_ancestors`, `save_transient`, `save_persistent`, `mark_dirty`, `remove`, `flush`, `teardown`, Drop | task state; file system |
| vtpm policy (`policy.rs`) | none | encode and decode the stored policy commands | cache, task state |
| device (`crates/device/src/lib.rs`) | command and response buffers, deadline | `transmit`, paging of `get_capability`, contexts, policy sessions, stream transport, `TpmResponder` | TPM character device; `interrupted` callback |
| task state (`crates/sh/src/task.rs`) | `phys_handles`, `virt_handles`, `sessions`, `auth_map`, the cache | `new` (validates), `track`/`untrack`, `load_key_by_*`, `resolve_auth`, `execute`, `evict_control`, `refresh_cache`, Drop (flushes, saves) | device, cache |
| commands (`crates/sh/src/command`) | none of their own | `create-primary`, `create`, `load`, `seal`, `unseal`, `import`, `evict`, `delete`, `memory`, `pcr-event`, `reset-lock`, `algorithm`, `return-code` | task state |
| handle and PCR selections (`handle.rs`, `pcr.rs`) | none | match a pattern; read all PCRs | commands |
| policy language (`crates/policy-language`) | a software policy session while it compiles | parse an expression, compile it to commands and a digest, rebuild and display it | commands, vtpm policy |
| key files (`crates/tpmkey`) | none | check a key and convert it to and from its ASN.1 value | commands, vtpm policy |
| wire protocol (`crates/protocol`) | a frame buffer, borrowed views of it | marshal, unmarshal, cast, read and write commands and responses | everything |
| cryptography (`crates/crypto`) | none | OpenSSL wrappers, templates | commands |

What is hard here is not concurrency of threads but what happens *between* the
steps of a command: Ctrl-C and time-outs while the TPM works on a command, the
death of the process between two system calls, a command of several that fails,
other software that uses the same TPM, and records on disk, contexts in memory,
objects in the TPM and maps of handles that must agree on what exists. The
properties that make the components correct are:

* cache: the index of names is exact, allocation finds a free handle if there is
  one, a clean key survives a crash, a deleted key does not come back, `remove`
  deletes exactly a subtree, no record is ever half written;
* device: a response belongs to the command that was sent, each command is
  executed at most once and in order, every transmission returns; over a stream,
  frames are not mixed unless an error has left the two ends out of step, and
  they never wait for each other; a query
  that takes many commands returns a whole answer, and returns;
* task state: what the TPM has given to a run is flushed by it on every path,
  a handle that was printed is on disk at the end, `evict` loses no key, cached
  keys are dropped only when the TPM no longer accepts them, the run ends;
* policies: the digest that protects a key means what was typed, the stored
  commands reach that digest in a session and nothing else does, and a policy
  survives key file, cache record and display;
* protocol: what is marshalled is read back, a body has one encoding, damaged or
  incomplete frames are not misread, and views stay inside their frame.

## 2. Modules

| Module | Models |
| --- | --- |
| `VtpmCache` | the cache, its directory and the life of its process |
| `KeyStore` | what the cache promises: a map in memory and a stable copy |
| `VtpmCacheProofs`, `VtpmCacheRefinement` | proofs about `VtpmCache` |
| `PosixTransport` | `TpmDevice::transmit` over `TpmPosixDevice` |
| `Exchange` | what a transmission promises the layers above |
| `PosixTransportProofs` | proofs about `PosixTransport` |
| `StreamTransport` | `transmit` over `TpmStreamTransport`, `TpmResponder::serve`, and the byte streams between them |
| `StreamTransportProofs` | proofs about `StreamTransport` |
| `Queries` | `get_capability` and its callers, `find_persistent`, `read_all_pcrs`, `read_nv_index` |
| `QueriesProofs` | proofs about `Queries` |
| `TaskState` | runs of `tpm2sh`: task state, commands, cleanup |
| `TaskStateProofs` | proofs about `TaskState` |
| `PolicyCommands` | the software session and the compilation of single conditions |
| `PolicyLanguage` | parser, printer, compiler and reconstruction of policies |
| `KeyFile` | checks and conversions of `TpmKeyFile` |
| `PolicyFlow` | the life of a policy: typed, compiled, filed, cached, shown, run in a session |
| `PolicyMeaning` | what a text and a digest mean, and the properties that compare them |
| `PolicyFlowProofs` | proofs about `PolicyFlow` |
| `Bytes`, `ResponseCode` | big-endian numbers, limits; `TpmRc` |
| `WireTypes`, `WireCodec` | the TPM structures as schemas; `TpmSized`, `TpmMarshal`, `TpmUnmarshal`, `TpmField` |
| `CommandTable`, `CommandBodies` | every command of the dispatch table; the traits of its bodies |
| `Wire` | frames, views and what happens to their bytes |
| `WireProofs` | proofs about `Wire` |
| `MC_*` | constants of the instances TLC checks |

The layers meet at the two abstract specifications: `PosixTransport` and the pair
of `StreamTransport` are shown to implement `Exchange`, `VtpmCache` to implement
`KeyStore`, and `TaskState` takes transmissions with the outcomes of `Exchange`
and the cache with the steps of `KeyStore`, plus `remove` of a subtree
(`RemovesSubtree`). `Queries` takes from the transports that every transmission
returns. `PolicyFlow` composes the policy language, the key files and the policy
commands of the cache; the recursive parts of the language (`parse`,
`compile_walk`, `from_commands`, `Display`) are its parameters, given by
`PolicyLanguage` in the runs, which keeps recursion out of the module that is
proved about. `Wire` reads and writes parameters with `CommandBodies` and that with
`WireCodec`; which types and commands there are is a parameter of all three, given
by `WireTypes` and `CommandTable` in `MC_Wire`.

### VtpmCache

`contexts`, `handles`, `names`, `dirty` and `next_virtual_handle` are the fields
of the struct; `disk` is the directory, by file stem. An operation is one
step unless a crash or a failing system call can separate its effects: `load` is
one step per directory entry, `write_atomic` one step per create, sync and
rename, `remove` and `remove_subtree` one step per record. `Crash` may happen
anywhere. Foreign, corrupt and misnamed files may be there at the first start. A
policy is abstracted to its length, the only thing `load` limits. A crash is the
death of the process: what was written is in the page cache, so power loss and
the missing `fsync` of the directory are outside the model.

### PosixTransport

The host has `pc` (idle, sending, receiving), the response buffer (whose bytes,
from which offset, how many), the declared size and the deadline. Bytes are
counted, not represented; the device is external, modelled as Linux's TPM
character device behaves: one command at a time, a write is refused while a
command is executing or a response has not been touched, a new command discards
the rest of an old response, and a response nobody reads may be dropped. `Tick`
is the passing of the time limit. The buffer records of which command each byte
is, so that a stale response would be seen.

### TaskState

A command is a list of steps (`create_primary`, `load`, ...), each with at most
one transmission that matters; queries without effect are `reads`, queries only
some command lines need are `maybe`. A transmission is `Answered`, `Rejected` by
the TPM, or `Lost`: refused, or abandoned after which the TPM may have executed
it. An abandoned command is executed at once or never in the model; the device
refuses everything else while it is executing, so a later execution cannot be
told apart. After Ctrl-C every transmission is lost, as `recv` then returns
`Interrupted` before it reads. `Flush`, `Place`, `Persist`, `StartSession` and
`Loadable` are the TPM, modelled from how the code uses it. Flushing is rejected
only if there is nothing to flush, and `read_public` of an object that is there
is not rejected; a warning code of the TPM (retry, testing) counts as lost.
`Others` lets other software flush transient objects at any time and replace
persistent ones between runs. The variables `owed`, `loaded`, `promised`,
`trouble` are history: they change no behaviour. What the commands compute
(templates, key files, tables, certificates) is left out. A resource manager
(`/dev/tpmrm0`, the default device) flushes what its client leaves behind when
the device is closed; the model is the harder case of a plain device.

### StreamTransport

Each end (`Host`, `Tpm`) has a `pc`, the bytes it still has to write and the bytes
it has collected; a stream holds at most `Capacity` bytes, so a write may have to
wait for the reader. A byte is represented by the frame it belongs to and its
place in it: what `read_frame` collects can then be compared with the frame it
should be. Commands are marshalled by the host and declare their length; what the
handler of `serve` returns is any bytes, of any length, declaring any size.
`frame_size` reads the size from what stands where a header should be (any of
`AnySize` if that is the inside of a frame) and rejects one that is out of range.
`serve` executes a command when it has all of it. An end may close at any time, the
connection may break for good, which loses what is under way, and a single read or
write may fail on a connection that lives on (`FailsOnce`: a timeout of a socket is
returned as `Io`). Every error returns from `transmit` or `serve` (which of the
errors it is decides nothing), leaves the streams as they are, and both may be
called again.

After such an error the next frame may start inside the old one: the code has no
way to find a frame boundary again. The history variable `inStep` says that this
has not happened yet. It is lost by an error after part of a frame has been written
or read while bytes can still arrive, and by a reply that is not one frame; not by an error
before the first byte, nor by one on a stream that is dead. `FramesStayWhole` and
`ImplementsExchange` speak of the time before, except that no buffer ever outgrows
the largest frame. Afterwards nothing better can be said: TLC finds that
`transmit` returns the response of an earlier command, and that either end is given
bytes of two frames as one (section 6).

### Queries

One query is one behaviour; a step is one command and what the code does with
the answer. `Others` creates, removes and replaces objects and extends PCRs
between two commands. The TPM is honest (it answers as its specification says,
in pages of any size it likes) or it answers anything (`honest = FALSE`, with
`BadItems` as the items it invents); the results are about the first, and only
the termination of listing and of reading NV also about the second. `beat` makes
every round a step that is not a stuttering one: a loop that never ends is a
counterexample to `QueriesReturn`, not silence. The digests of a response carry
no index: `Position` is the place of a PCR in the order in which the code walks
the selection, and the digest at that place is stored.

### PolicyCommands to PolicyFlow

A text is a sequence of tokens; what is inside an identifier is one value. A
hash is the term it was computed from, so digests are equal exactly when what
was hashed is: collisions are the only thing lost. `compile_walk` extends a
software session exactly as the code does, the restart before every branch of a
disjunction included. `PolicyFlow` then moves a policy through `create` (or a
file another tool wrote), `TpmKeyFile`, the record of the cache with its limits,
`memory`, and `TpmPolicySession::run` against a TPM whose PCRs, keys and known
authorizations change meanwhile. Options and results are sets of at most one
element.

### Bytes to Wire

A type is a schema: a record that says which building block of the crate it is
(integer, enumeration, buffer, list, sized wrapper, structure, union) and which
types it is made of. `WireTypes` has one definition per type of
`protocol/src/data`, `CommandTable` one per command of `frame/data.rs`.
`WireCodec` gives the crate's traits one case per block: the generated code is
modelled by what the macros generate. Integers are their big-endian bytes.
A trait of a type calls the same trait of the types in it. So that this needs no
`RECURSIVE` operator, which the prover could not reason about, each trait `X` is a
constant and `ByKindX` its cases, written with the constants; `MC_Wire` gives each
`X` the value `ByKindX`, which ties the knot. `LenTo`, `MarshalTo`, `UnmarshalTo` and
`CastTo` do the first items of a list or fields of a structure. `Rank` says how deep a
type is. `SchemaAssumption` says what schemas the macros accept: a type is made of
types of lower rank, a union is a field that an earlier integer or enumeration
selects, and an optional structure (`TpmtSymDef`) is a selector and unions that have
an empty arm for `TPM_ALG_NULL`; `TableAssumption` says that the parameters of each
command are the fields of such a structure. TLC evaluates both for all types and
commands of the crate.
`Wire` keeps one buffer and at most one view. The view is its kind and length;
its areas are found again at every access, as in the code, and `fresh` records
whether anything but the area accessors wrote through it since the cast.

## 3. Runs

| Run | What it shows |
| --- | --- |
| `cache` | two transient and one persistent handle, crashes, failing writes and deletes: `ReverseIndex`, `NoDanglingName`, `NoHandlesMeansFull`, `CleanIsOnDisk`, `SaveCompletes`, `NoResurrection`, `OwnNameOnly`, `NeverPartial` |
| `cache_remove` | three handles and every parent relation over two publics, cycles included: `RemovesSubtree`, `CallsReturn` |
| `cache_start` | a littered directory, caches that end and start again, and policies `load` accepts or refuses: `SelfHeals`, `ImplementsKeyStore`, `CleanIsDurable` |
| `transport` | `Paired`, `ImplementsExchange`, `TransmitReturns` |
| `stream` | client and responder over streams that are small, close, break or fail once, and a handler that returns anything: `FramesStayWhole`, `ImplementsExchange`, `BothReturn` |
| `queries` | lists, searches and reads in pieces while the TPM changes: `ListIsWhole`, `FindIsRight`, `AllPcrsRead`, `NvIsWhole`, `QueriesReturn` |
| `task` | `NothingForgotten`, `HandleMaps`, `NothingLeftBehind`, `PromisedIsDurable`, `EvictKeepsKey`, `DropsOnlyStale`, `ProcessEnds` |
| `policy` | every expression up to a depth, odd texts, foreign files: `RunAuthorizes`, `OnlyConditionsRefuse`, `DigestMeansText`, `ShownCanBeTyped`, `OwnKeysLast` |
| `wire` | every command and response of the table, in eleven variants, and damaged frames of six of them: `RoundTrip`, `Canonical`, `AreasTile`, `AreaWritesStay` |
| `doc_validate`, `doc_teardown`, `doc_policy_and` | three statements of the docs the code does not keep, section 5 |

Bounds, and why they suffice:

* Handles. Two transient handles make the range full, wrap the probe and let two
  contexts share a name; three allow a subtree of depth two and a cycle. The
  persistent handle lies beyond the range, as in the code.
* Publics. Two with different names are needed to replace a key by another at
  one handle; one without a name exercises the failing start.
* Policies. `MAX_POLICY_COUNT` is scaled down; only longer or not longer counts.
  In `cache_start` callers pass policies at the limit and above it.
* Transport. Header and chunk are two bytes and frames at most five, so a header
  may take two reads, a response three, and a chunk may end inside, at or beyond
  the declared end. Responses are whole, cut short, too long, out of range or
  undecodable. Three commands let a stale response survive one and meet another.
* Task. One primary key and one child whose policy refers to the primary by
  PolicySecret: the deepest chain of loads a command performs. Two object slots
  (the TPM can be full), one session, two cached handles, one persistent handle.
  One run of the program is explored, from every kind of state an earlier one
  may leave: contexts still valid or void, three shapes of the directory, slots
  of the TPM free, partly or wholly taken.
* Streams. A header of two bytes, commands of two and four, streams of two: a
  frame may be only a header, fit, or wait for the reader. Replies are frames,
  shorter or longer than they declare, or declare a size out of range; bytes that
  are no header declare a size in range or not. Two commands: the first may fail
  anywhere and the second meet what is left of it.
* Queries. Pages of two items and five items to list, two classes of handles of
  which one ends where the numbers end, so that paging meets its last page, the
  next class and the largest property. Two banks of three PCRs and responses of
  at most two digests; NV sizes below, at and above the largest read. Two changes
  by other software during a query.
* Policies. All conjunctions and disjunctions of two and three leaves, of two
  pairs, and of a leaf and a pair on either side; one PCR and two, with and
  without a given value; secrets on transient, persistent, permanent and NV
  handles; every text of at most two tokens and near misses of `secret(..)` and
  `pcr(..)`. `MAX_POLICY_COUNT` is seven: reached by some expressions and not by
  others.
* Frames. Variant n of a body picks the arm of its unions, the sizes of its buffers
  (none, one byte, the capacity or 257), lists and enumerations: between them
  they reach every arm of every union. Sessions: none, one, two, eight and nine.
  Damage: one cut, extension, changed byte or write in frames of six commands
  and their responses, two of them in three frames; a byte becomes 0, 2 or 255.

Deadlock is not checked where the system may stop: a process that is down, a
transport after its last command, a query that has returned, a policy that has
been run.

### Fairness

* `VtpmCache.FairSpec`: a call that is in progress takes its next step. The
  thread runs; nothing is assumed of crashes or of new calls.
* `PosixTransport.FairSpec`: the thread that is inside `transmit` runs, and time
  passes (`Tick`). Nothing is assumed of the TPM or of the driver.
* `StreamTransport.FairSpec`: the two processes go on with the call they are in.
  Nothing is assumed of when they end, of new calls or of the connection; in
  particular no wait is ended by an error of a live stream (`FailsOnce`).
* `Queries.FairSpec`: the thread runs, and a transmission returns.
* `TaskState.FairSpec`: the process runs. Each of its steps is at most one
  transmission, and `TransmitReturns` is what justifies treating it as a step.

### Mutants

For every property of every passing run `PROJECT.json` names a definition and a
mutated form of it (next to it in the module, marked `Mutant:`) under which TLC
finds the property violated: a forgotten `untrack`, a wrap-around off by one, a
record written in place, a chunk taken for a whole buffer, and so on.

## 4. Proofs

All theorems hold for every value of the constants that satisfies the `ASSUME`s
of the module; no bound of the runs is used.

**The cache** (`VtpmCacheProofs`). The invariants the runs check are not
inductive: `CleanIsOnDisk` needs to know where a save stands, `NoHandlesMeansFull`
what the probe has seen. `Inv` adds `Control`, which ties `pc` to the list, the
current key and the stage of the write. One lemma per action shows that it keeps
`Inv`; the theorems `TypeCorrect`, `ReverseIndexCorrect`, `NamesCorrect`,
`DurabilityCorrect`, `AllocationCorrect` and `SaveCorrect` are its consequences.
`WritesAreWhole` and `NamesAreOwned` are action properties proved from `Inv`.
`DeletedStaysDeleted` needs `~ReadFault`: a record that could not be read at a
start may be left behind when it also cannot be deleted.

**Subtrees** (`VtpmCacheProofs`, second part). `RemoveCorrect`: when `remove` is through, the
removed handles are the least set that contains the target and is closed under
"has a parent whose public area was removed", and everything else is untouched,
for any parent relation. The invariant `SubtreeInv` says what the queue stands
for: every survivor below a removed key has its parent still queued.

**Refinement to KeyStore** (`VtpmCacheRefinement`). `Refinement`: with a readable
directory every step of the cache is a step of `KeyStore` or a stutter; the stable
copy is the set of records `load` would accept. The assumption is needed: an
unreadable record is deleted at a start. So is one with too long a policy, which
`save` does not check: `KeyStore` has a set of `Lasting` records, and a key that is
saved and not one of them has no stable copy from then on. `Accepted`, that `load`
caches none of the others, is the invariant this needs. `CleanComesBack` is about a whole restart and
assumes nothing of policies: what was clean when a cache ended is what the next one
has when `new` returns, and a key whose policy is too long is dropped. It needs a
readable directory. Its invariant `Remembered` follows the clean contexts of the
last cache (`before`) through starts that are cut short: the record of each is in
place until it has been read, and then it is cached; a record with too long a policy
may be there or deleted and is never cached. `DirectoryHeals`: after a start nothing
but records that load is in the directory, and nothing else is added but the record
of a key with too long a policy. It needs `Healed`, which says while
`load` is under way that each entry it has been through loads or is gone; and
deletion to work: the code ignores a failure to delete a record it rejects.

**The transport** (`PosixTransportProofs`). `Inv` joins `TypeOK` and `Paired` with
the order of command numbers (`Order`: what is queued, held and executed is never
newer than the last command sent), the state of the receive loop (`Progress`)
and `Prefix`: while receiving, the buffer is empty or holds a prefix of the
response to this very command. `ResponsesArePaired` follows, and
`TransportRefinement` shows step by step that `transmit` implements `Exchange`.

**The stream** (`StreamTransportProofs`). `FramesStayWhole` says nothing of the bytes
that are still under way. `Flow(e)` puts what end `e` has read, what the stream
holds and what the peer has still to write in one sequence, which reading and
writing leave as it is. The invariant `IInv` has a part that always holds (`Types`,
and `Lengths`, which bounds what is read by a header and then by the size that passed
`frame_size`) and one that holds while the ends are in step (`InStep`). While the
connection stands, `Commands` and `Responses` say that each of the two flows is a
prefix of one frame of the last command, and that only one of them holds anything,
and `Fresh` that a command that is not out yet has not been executed; `HostHas` and
`TpmHas` keep what is needed of the part already read when the connection breaks, and
`Wants` ties the size that was accepted to the header. The work is in the errors: one
that leaves `inStep` true leaves no byte behind that another call could meet.
`FramesAreWhole` follows, and `StreamRefinement`: up to the first error that leaves the
ends out of step, host, streams and responder are an `Exchange`. Nothing is assumed of
the handler.

**Task state** (`TaskStateProofs`). `NothingForgotten` alone is not inductive: a
step is only known to be the right one from the list of steps that is left. `Inv`
adds `Script` (a command that deletes by pattern owes nothing; no command mixes
its steps with those of another kind), `Opened` (a session that is opened is
used by the next step), `Maps`, and what holds before, during and after the
cleanup (`Began`, `Dropped`, `Ended`). `Kept` says that, unless a transmission
was lost, what was loaded and is still there is owed. One lemma per action, and
`NothingIsForgotten`, `HandleMapsAgree` and `NothingIsLeftBehind` follow, for
every number of slots, handles and keys.

The keys of a run have an invariant of their own, `KeyInv`. `PromisedIsDurable`
speaks of the end of a run only; before it, `PromisedIsCached` says that what was
printed is in memory and that the command has nothing left to do that could
remove it, and `Clean` that what is not dirty is on disk as it is in memory. To
know what a step is about to do, `Course` says where the command stands: `Making`
(a key is stored by the last step of the command that makes it), `Evicting` (the
object in hand is the cached key until the key is persistent), `Listing` and
`Deleting`. `Doomed` says that what the listing has decided to drop is stale, unless
there was trouble. `PromisesAreKept` assumes `Acyclic`, no key is its own ancestor:
`evict` removes what is below the entry it replaces, after it has stored the new
entry of the same key, and would remove that one too if the key were below
itself. The parent of a key is fixed when a TPM creates it, so the assumption
holds of every TPM. `EvictNeverLosesKey` and `OnlyStaleIsDropped` do not need it.

**Queries** (`QueriesProofs`). An answer is only known to be whole from what has
been collected before it. `QueryInv` has one part per loop. `Paging`: what is
collected is in order and lies below `prop`, is among what has ever been there
(`Allowed`), and contains everything below `prop` that has been there all the time
(`Needed`). The heart is that a TPM with more items has one above the last of the
page, hence the next property is that item's successor: it neither repeats nor
skips one, and saturating at `MaxProp` never happens with more to come. `Finding`:
a handle that has had the name all the time has not been read yet. `PcrsReading`:
an allocated PCR is still asked for or has one of its values, and no other has
any. For a round of it `PositionsDiffer` shows that the places of the returned
PCRs are distinct and within the digests, `DigestAtPosition` that the digest
there is the PCR's own, and `SelectionAsks` that each bank has exactly one entry;
with `ResponseStores` the round updates exactly what the response returned,
however the TPM cuts it. `NvReading`: what is received is the beginning of the
index. The steps of `Others` keep all of it because `stable` only shrinks and
`seen` and `version` only grow. `Sorted` orders a finite set by rank instead of
by recursion, and `SortedLists` shows that it does.

**Frames** (`WireProofs`). `AreasAreInside` and `AreaWritesStayInside` hold for
every command table, every set of requests and any number of damages, casts and
writes. The invariant says that a view lies inside its buffer (`BufferOk`), that there
is none of an empty one (`Idle`), and that a fresh command view could be cast again
(`Fresh`). The heart is `AreaByte`: a frame that differs from a valid one in one
byte of an area has the same header and the same authorization size, hence the
same ranges. `ByteAssumption` says that what is marshalled and written are
bytes; TLC evaluates it for all requests of the `wire` run.

`FramesRoundTrip` needs to know what requests are made of: `RequestAssumption`
gives them the handles of the dispatch table, sessions whose buffers fit their
size fields, a response code of `TpmRc`, and parameters that the codec reads back
as they were written, with the length that was announced (`CodecOk`). TLC evaluates
it for every request of the run; about the frames around the parameters nothing is
assumed. A frame is seven strings after each other (`Parts`), and `PartsSlices`
finds each of them at the place where `wire.rs` looks for it. `HandlesRead` shows that
the handles are found in their area, `AreaIsValid` that a walk over up to
`MAX_SESSIONS` sessions ends exactly where they end, and `CodesRead` that each of the
response codes reads as itself, which is where the formats and indices of `TpmRc`
could be mistaken for each other. With them `CommandFrameReads` and
`ResponseFrameReads` give the envelope checks and the contents of a whole frame, and
`SendableIsMarshalled` that nothing that fits the buffer is refused. The invariant
that carries this to every state (`Unaltered`) is that the buffer and the frame that
was marshalled agree as far as both go until a byte is changed: a cut frame then has
the size field of the whole one and is refused, and of one that is followed by
others exactly the frame is taken. `Joins` and `AfterSessions` are recursive
functions; that they satisfy their equations is proved by induction over sets of
numbers (`JoinsExist`, `AfterExist`).

`BodiesAreCanonical` holds for every schema and dispatch table, and for frames of
every length, damaged or not. Its hypothesis `Traits` is that each trait `X` has the
value that `ByKindX` defines, for the types `WireCodec` allows: the definition of the
traits, and no statement about what they compute. The equations can be satisfied, by
recursion over the ranks, and the operators `MC_Wire` gives satisfy them by
construction. Nothing is asked of the bounds `Size`.
The claim about a type (`Agrees`) is stronger than the property, as it has to hold
for parts in the middle of an area: of any byte string, `Unmarshal` and `CastPrefix`
both refuse it, or both take the same beginning of it, and the value that was read
announces that length and marshals back to those bytes. Integers, enumerations and
buffers have it by `Spelled1`, `Spelled2` and `Spelled4`: a size field that was read is
written back as the bytes it was read from. For lists and structures `ItemsRead` says
it of the first items, by induction over their number (`AllItemsAgree`); it also has
to say that the views, which keep no values, find at the place of a selector the very
bytes it was read as, so that both decoders choose the same arm of a union
(`UnionStep`), and that nothing was taken after a selector that is `TPM_ALG_NULL`, where
`marshal` stops, `unmarshal` reads empty arms and the views look at nothing.
`TypesAgree` then takes a type of least rank that does not have it and finds that all
its parts do. What is left is that the parameter area lies inside every frame that
passes `validate` (`CommandParams`, `ResponseParams`).

**Policies** (`PolicyFlowProofs`). `RunsAuthorize`, `RefusalsAreConditions` and
`OwnKeysAreKept` hold for every set of texts, key files, handles, names and PCRs,
and any number of changes of the environment. What the proofs need of the
language are their hypotheses. `Grammar(Expr, height)`: what is parsed is a
finite tree, each operand lower than its node, nodes have operands, and an
explicit PCR digest of the right size has a value for each PCR.
`Compiler(Expr)`: `compile_walk` goes over the operands of a node from left to
right, restarting the session before each operand of a disjunction, which ends
with the list of their digests; leaves are `compile_walk_pcr` and
`compile_walk_secret`. These are the equations by which `PolicyLanguage` defines
`compile_walk`; TLC evaluates them for all trees and texts of the `policy` run
(`GrammarAssumption` and `CompilerAssumption` of `MC_PolicyFlow`). From them
`WalkIsSound` shows by induction over the height that the commands compiled so
far take a session from zero to the digest of the software session, and that
each PolicyOR finds the digest it meets in its list. The induction is over sets
of numbers (`Least`, `UpTo`), as the induction theorems of the library cannot be
used. `PolicyInv` then says the same of each form the policy takes: `BuiltOk` of
the compiled commands, with the names the cache still has when they are saved
(`NamesAgree`); `FiledOk` of the key file, which `KeyComesBack` shows is read as it
was written; `CachedOk` of the record; `RunningOk` of what the session has yet to
run. For a policy of this program each also says that every command has the
form that `vtpm_policy_command_from_parts` accepts. `FilesAssumption` says that
key files of other tools have the authPolicy that goes with their policy, and
`FlowAssumption` that handles tell by their type where their object is and that no
object is without a name; TLC evaluates both. `ShownCanBeTyped` and
`DigestMeansText` compare a recursive printer, parser and meaning for every
expression and stay with TLC.

Only model-checked: liveness (`CallsReturn`, `TransmitReturns`, `BothReturn`,
`QueriesReturn`, `ProcessEnds`), which is out of the prover's reach; `DigestMeansText`,
and `ShownCanBeTyped`, which are about what recursive definitions over texts and
policies compute.

## 5. Findings

* `doc_policy_and`: the compiler emits a `PolicyRestart` before every branch of a
  disjunction. When the disjunction is not the first part of a conjunction, what
  was compiled before it is erased: the digest of "A and (B or C)" is that of
  "B or C", while the key is shown with the whole conjunction. `DigestMeansText`
  holds in the other direction for all expressions, and in both for those whose
  disjunctions come first.
* `doc_validate`: a time-out or interruption while the program starts deletes
  the records of persistent keys that are still there, and of the keys below.
* `doc_teardown`: after Ctrl-C the flushes of the cleanup fail like every other
  command, so that objects stay loaded (unless a resource manager removes them).

## 6. Other observations

Behaviour met while modelling that a maintainer may want to know of. It is part
of the models; no run is devoted to it.

* `find_by_name` does not fall back to scanning the cache as its comment says.
* The name of a persistent handle supplied to `VtpmCache::new` is lost, until the
  next start, when a context of the same public area is cached and removed.
* A policy of more than `MAX_POLICY_COUNT` commands is saved as clean, and the
  next start deletes the record (`CleanIsDurable` states it, `OwnKeysLast` excludes
  it).
* `evict` untracks the object it has made persistent without flushing it, so the
  transient copy stays in the TPM (`NothingForgotten` and `NothingLeftBehind` except
  it).
* After an I/O error on a stream that lives on (a read timeout, say) the response to
  the abandoned command, or the rest of it, is still to come, and the next `transmit`
  takes it for its own; after a failed write the next command is written behind the
  half-written one. `TpmTransport` is said to move "whole frames in either direction"
  (`crates/device/src/lib.rs:189`), and no doc says that a transport must not be used
  again after an error.
* `marshal` of `TpmsCapabilityData` and `TpmsAttest` does not compare the selector
  with the union (`tpms.rs:202`, `:534`), and a `TpmtSymDef` with the Null algorithm
  drops its key bits and mode (`tpmt.rs:315`). Such values are not read back as they
  were; `RoundTrip` is not about them.
* All branches of a disjunction are run in the session, so all of them must be
  accepted, not one (`OnlyConditionsRefuse` is stated accordingly).
* A secret on a permanent handle compiles, but the policy can then not be stored:
  `save_vtpm_policy` fails after `TPM2_Create` has been executed. A secret on a
  persistent object that is not in the cache cannot be resolved when it is run.
* `tpm_validate_secret` accepts an empty payload although its doc says otherwise
  (`crates/tpmkey/src/lib.rs:117`).
* `TpmResponse::unmarshal` of an error response succeeds for bodies without
  handles and parameters, and `TpmResponseView::cast` reports a rejection before
  the frame is validated.
* `serve` returns `Ok` also when its peer disconnects inside a frame.
* `read_all_pcrs` does not end with a TPM that returns none of the PCRs it is
  asked for, and `fetch_ancestors` does not with cyclic parents.

## 7. What is left

1. Two processes on one cache directory, without a lock: the code makes no promise
   about it that could be checked.
2. The wildcard patterns of `handle.rs` against a reference definition.
3. `FramesRoundTrip` takes from TLC that the parameters of a request are read back as
   they were marshalled (`CodecOk`). A proof for all values of a type would need a
   definition of these values, by rank like the traits.

## 8. Not modelled

`return-code` uses neither the TPM nor the cache.
`fetch_ancestors` and the iterators of the cache only read. OpenSSL wrappers and
the DER and PEM encodings have no control of their own. Patterns of handles,
names, `Display` and `FromStr` of protocol types, formatting, logging and progress
bars are left out; so are the unchecked casts, which the rest of the crate calls
on bytes it has validated. Failures of `create_dir_all` and of opening the
directory end the program before anything happened. Power loss, and with it the
missing `fsync` of the directory, is outside the cache model. In `TaskState`,
authorization values and the contents of policies matter to the TPM only: it may
reject any command; `PolicyFlow` looks at policies themselves.
