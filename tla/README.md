# buff: a TLA+ model of the relay

buff is a network clipboard: a server keeps named clips, a client copies to a
name and pastes from it. A paste may follow a copy that is still running, wait
for one that has not begun, or take a consume-once clip that exists for exactly
one reader. This directory models the parts of the code where that is hard:
the store's concurrency on one name, its quota, its disk layout and recovery,
the followable byte log, the HTTP edge that has to prove a stream complete, and
the binary that copies, pastes and serves under signals.

Every definition that stands for code is listed in `PROJECT.json` under `map`
with the lines it translates.

## 1. The system

### Components, their state and operations

**Registry and handle** (`store/registry.go`). A map from name to `clipHandle`;
a handle has a lease count, the pointers `current` and `live`, and the id clamp
`lastPrefix`. `acquire` finds or creates and leases; `release` drops the lease
and evicts a handle that is empty and unleased. *Correct if* one handle serves a
name and no generation sits in a handle that a lookup no longer finds.

**Gate** (`store/gate.go`). The handle's mutex and its close-and-replace notify
channel: `peek`, `transition`, `await`. *Correct if* no waiter parks beside
something it could read.

**Generations and ids** (`store/generation.go`, `store/genid.go`). live →
finalized → consumed; which generation a read resolves to; which id comes next.

**Writer** (`store/writer.go`). `Write` reserves and appends; `Close` stamps,
syncs and publishes off the lock, flips under it, then finishes the log and
reclaims what was superseded; `Abort` discards. *Correct if* a value appears
whole or not at all and every footprint is given back once.

**Open, Stat, Delete** (`store/store.go`). Resolve, perhaps wait, claim a
consume-once value under the gate, hand out a leased reader; retire a value
durably, then reclaim it off the lock. *Correct if* a consume-once value is
delivered at most once and is destroyed after.

**Reaper** (`store/reaper.go`). Snapshot the handles, peek without a lease, lease
the candidate, check again, retire. Also run by a writer refused for space,
behind a throttle.

**Quota** (`store/quota.go`). Two atomic counters reserved by load, check and
compare-and-swap. *Correct if* exact, and never raised past a cap.

**Disk medium and recovery** (`store/disk.go`, `store/recovery.go`). One directory
per generation; a marker file renamed to publish, claim, delete or abort, then an
fsync of the directory; a best-effort `RemoveAll`. The boot classifies each
directory, lets one name's finalized generations contest, removes the losers and
seeds the registry. *Correct if* no crash brings back what was delivered, failed
or replaced, or loses what was published.

**Followable buffer** (`store/internal/buffer`). A single-writer log that any
number of readers follow, over one shared read descriptor.

**HTTP edge** (`api`), **client** (`client`), **server runtime**
(`cmd/buff/server.go`). PUT streams a body into a writer; GET streams a reader out,
with a `Content-Length` or a completion trailer as proof; the client checks the
proof; a stop cancels every request and drains.

**Copy** (`cli/copy.go`, `cli/source.go`, `archive/stream.go`, `client/put.go`).
An archiver goroutine writes a tar into a pipe, the transport's write loop reads the
request body from it, the copy flow waits for the round trip, joins the archiver and
picks the error to report. *Correct if* the server commits only a whole source, the
cause is reported and not a symptom, a consume-once value is never left readable
behind a success, and the join cannot hang.

**Paste** (`cli/paste.go`, `cli/sink.go`, `archive/extract.go`). Chooses a sink from
the clip and the terminal and lands the body in a directory that other programs use.
A consume-once body is already spent: a collision before the first byte is landed on
a sibling name. *Correct if* a success is a whole landing, nobody else's file is
replaced, and a lost value is called lost.

**Entry point and runtime** (`cmd/buff`). The first signal cancels, the second exits.
`buff serve` joins `Serve`, the reaper and a watcher that drains. *Correct if* every
run ends once it is told to, whatever failed before.

**clip**, **wire**, **units**, argument parsing, configuration, tty: not modelled,
see section 6.

### How they interact

A request runs in its own goroutine: handler → store operation → gate closure →
medium. What a store operation does under the gate is atomic to everybody else;
what it does after the unlock (finalize I/O, removing a home, giving back quota,
releasing the lease) interleaves. The byte log is shared by one writer and its
readers with a lock of its own. Quota counters are shared by all names with no
lock. The disk is shared with the process that runs after a crash. Server and
client share a connection that either side, the network, an intermediary or the
stop can end.

### What is hard

Races between unlocked tails (lease release, reclaim, quota) and new operations;
a decision taken on a snapshot and applied later (sweep candidates, If-Match,
followers, compare-and-swap); one step of several failing, above all in the
rename-then-fsync commits; crashes between any two of them; wakeups; deadlines set
by two goroutines on one connection; a cut stream that looks finished; in the client,
failures that cause each other in three goroutines and a directory that changes between
a check and a rename. The list,
line by line and with the property aimed at each, is `hazards` in `PROJECT.json`.

## 2. The modules

| module | models | extends |
|---|---|---|
| `ClipRegister` | the promise of one name: a register written whole | |
| `Slot` | one name of the store, every operation on it | |
| `SlotInv` | `Slot`'s two inductive invariants | `Slot` |
| `SlotProofs` | their proofs and consequences, the refinement | `SlotInv` |
| `Quota` | the byte and clip budget, the sweep throttle | |
| `QuotaProofs` | exact counters, caps and spacing, proved | `Quota` |
| `Disk` | homes on disk, crashes, recovery | |
| `DiskProofs` | what survives a crash, proved | `Disk` |
| `Buffer` | the followable log and its descriptor | |
| `BufferProofs` | its invariant, proved | `Buffer` |
| `Relay` | PUT and GET end to end, the stop | |
| `RelayProofs` | its invariant, proved | `Relay` |
| `Command` | the process: its action, signals, exit status | |
| `Copy` | the copy pipeline and the client's Put | `Command` |
| `Paste` | the sinks, the extraction and the rescue | `Command` |
| `Serve` | the server's group and drain, the two mutexes of the store | `Command` |
| `Main` | one run of the binary | `Copy`, `Paste`, `Serve` |
| `CopyProofs`, `PasteProofs`, `ServeProofs` | their invariants, proved | `Main` |
| `MC*` | instances for TLC | |

The modules are cut where the code has an interface, and each stands on what the
next one shows:

- `Slot` sees a medium whose operations succeed or fail and a home that exists or
  not; `Disk` opens those operations up, over crashes.
- `Slot` sees a byte log as open, closed or aborted; `Buffer` opens it up.
- `Slot` counts clips as one step; `Quota` has every atomic access.
- `Slot` and `Buffer` assume that an upload reaches a terminal and that an ended
  stream's reader is closed; `Relay` shows it of the handlers (`TransfersEnd`),
  reducing the store to one generation's fate and size.
- `Slot` runs a gate closure as one step and takes leases as one step; `Serve` has
  the mutexes those steps hold, and shows that they cannot block each other for ever.
- `Copy` and `Paste` are the two clients of `Relay`: it has the bytes and the
  framing, they have what the process does with the verdict.

### Slot

Variables are grouped as in the code: `reg`, `leases` (registry); `current`,
`live`, `seed`, `armed` (handle and gate: `armed` is the set of readers whose
captured notify channel has not been closed); per generation `state`, `consume`,
`ttl`, `expires`, `prefix`, `match`, `log`, `home`; `clips` and `now`; and per
goroutine a program point with the locals that live across an unlock. Generations
are numbered in mint order, so a property can say "newer" without the ids, which
are clock readings and which the code compares.

A gate closure is one action (`CreateInstall`, `CloseFlip`, `OpenClaim`,
`DeleteCommit`, `ReapRecheck`...). The off-lock steps are `CloseStamp`,
`CloseFinalize`, `CloseFinish`, `DiscardFail`, and the common tail `Remove`,
`ReleaseGen`, `Release`. A sweep holds a bare handle pointer between
`SweepSnapshot` and `SweepPeek`, as `reapCandidates` does, and only leases in
`ReapAcquire`. `Faults` says which medium operations may fail, each in the ways the
code tells apart (a claim that never took, one that took and could not be flushed).
A removal that fails leaves its home `"left"`: logged, out of reach, given back to the
quota, and there until a boot collects it, which is `Disk`'s part.

`Slot` implements `ClipRegister` (`RegisterSpec`): value is the registered handle's
finalized current, writing its live. The mapping makes handles, leases and eviction
invisible; if an upload were lost with an evicted handle, the register would make a
step it does not have.

### Quota

One action per atomic access. Each writer has a name of its own, so `Slot`'s
contention is left out and the counters' is not. `Clock` moves the wall clock
anywhere, back too. `Inherited` are sizes restored at startup, which may exceed a
cap. A sum over processes is the number of its units (`Sum`, the cardinality of
`Units`), a form that can be proved about for a set of any size.

### Disk

`vol` is what a process sees, `dur` what is on stable storage; an fsync copies one
part of a home from one to the other, `Writeback` lets the kernel do so at any time
and in any order, a process crash keeps `vol`, a power loss replaces it by `dur`. A
home's data is full, short or garbled, its record whole or torn. `RemoveAll` is
several unlinks and a rmdir, any of which a crash may separate. Recovery runs in
steps too, so it can crash. A run checks several servers at once: `setting`, chosen
in `Init` and fixed, has `DiskOpts` (fsync, checksum), the system calls that fail, the
kinds of write and the number of crashes.

### Buffer

A follower's loop is split where it unlocks: snapshot, then act on the snapshot.
`Append` stores and then publishes in two steps. `Truncate` cuts the file from
outside, the one way a published byte can go missing. A first open may fail.

### Relay

One generation, one PUT and any number of GETs. `dl` is the connection's read
deadline, which the idle reader and the cancel watcher both set; `canceled` says
when net/http cancels a request context. A response carries a declared length or a
trailer; `Receive` moves bytes to the client, and `ReadResult` is the client's
verdict. With `Intermediary`, a body may end cleanly where it was cut, and a
trailer may be dropped. `Window` bounds what the transport takes from a handler
before the client reads.

The watcher's comment calls its guard "cheap, local insurance"
(`api/deadline.go:36`). In the model the guard is what `NextRequestReads` rests
on: net/http cancels every request context when the handler returns, so a watcher
that has not run yet can choose its context over its stop channel and fire then.

### Command and Main

`act` is what the arguments ask for, `signals` counts SIGINT and SIGTERM, `exit` is
the status. `Interrupt` may happen at any moment: the first cancels the context, the
second ends the process with 130. `Main` runs the three components under it, and the
requests that are one round trip (`Ask`).

### Copy

`prod` is the archiver, `loop` the transport's write loop, `flow` the copy flow. The
pipe is synchronous: `PipePiece` is a step of both sides. A file that shrank is a
`"cut"` entry, whose offer is taken before the archiver finds out. `closeWithError`
says what the pipe's reader gets for each result of `Stream`, and io.EOF is a clean
end there. `rec` is the recording reader's error. A response can arrive before the
body is read (`ServerRefuses`), and the join then closes the pipe under the archiver.
The server, the network, a proxy that strips headers and another writer of the slot are
environment; `ServerStores` commits a body that ended cleanly, which is what `Relay`
shows of it (`StoredIsWhole`).

Put waits for the write loop before it reports a transport error: net/http's contract,
quoted in `client/put.go:96-105`. It follows that a first signal does not end a copy
whose standard input stays silent; it ends when the read returns or at the second
signal. `cli/cli.go:59-61` says that a canceled run "stops promptly": true of every
operation of this model but that read, and `CommandEnds` makes the exception explicit
(`AwaitsInput`).

### Paste

`names` is the directory: the name aimed at, the sibling of a rescue, `ExtractNew`'s
temporary tree, and a file inside the target when that is a directory. Other programs
create and remove their own files there between any two steps (`ForeignCreate`,
`ForeignRemove`); they do not touch the paste's, and the sibling, which carries the
generation id, and the random temporary name are not taken by others. `"hollow"` is a
landing completed from a body that another landing had drained: nothing may ever show
one. An empty foreign directory may be replaced by the publishing rename, as
`archive/extract.go:40-43` says, so `NeverClobbers` is about files and trees. `-o` overwrites a file: the one it
names, or the one that has the clip's name in the directory it names (`cli/sink.go:204`).

### Serve

A request, List or a sweep is a walk through program points at the two mutexes:
`registryMu`, and `gateMu` of one name. `release` of the last lease takes the gate under
`registry.mu`, the only nesting. What a closure does is `Slot`'s; here it only ends,
and needs no lock (`closureMayRun`). A lock inversion would show only while a walk,
which has no lease, looks at the handle that a last lease is leaving: that is why
List and the sweep are in the model. A write that sweeps under pressure is a handler
that walks before it acquires; the lease it may already hold on another name is left
out.

## 3. The runs

| run | instance | states | what it shows |
|---|---|---|---|
| `slot_claim` | 1 writer, 2 readers, 2 generations, plain and consume-once, faults in create, finalize, claim, flush, open, remove | 1.8 M | the claim is exclusive, footprints exact, homes under readers stay; `Slot` implements `ClipRegister`; nothing returns |
| `slot_retain` | 2 writers at a cap of 2 with expiring and If-Match writes, a sweep, a Delete, 3 generations, failing unpublish and remove | 3.6 M | one handle per name, no lost update, nothing out of reach but logged leftovers, a stale candidate takes no fresh value |
| `slot_read` | 1 writer, 1 reader in every mode, a Delete, two clock readings, `FairSpec` | 0.3 M | no lost wakeup; follow-next gets a newer value; waiters are served, claimed values destroyed |
| `slot_reclaim` | 1 writer at a cap of 1, a sweep, a Delete, `FairSpec` | 0.1 M | expired values are reclaimed, operations return |
| `disk_power` | fsync on, two power losses, failing sync, rename, directory sync and remove; and fsync off with checksums, one power loss | 5.9 M | what was delivered or failed stays gone, what was published stays, what is served is whole |
| `disk_process` | two process crashes, fsync off, failing create, sync, write and rename, 3 generations, backward clock | 3.9 M | the contest keeps the newest and clears the rest |
| `buffer` | 2 readers, 2 bytes, truncation, `FairSpec` | 0.3 M | EOF only at the end of a finished log; no lost wakeup; the descriptor is closed once; followers end |
| `quota` | 2 writers, a cleaner, both caps, clock jumps | 0.5 M | counters exact; caps hold; sweeps spaced |
| `relay` | 1 reader, 2 bytes, window 1, panics, intermediary, `FairSpec` | 0.6 M | a read that looks complete is; what is stored is whole; blame; the next request reads; both sides end without their clients' help |
| `command` | a copy of up to 3 pieces from each source, a paste of 2 in each sink, a server with 2 handlers and a reaper, up to 2 signals | 0.2 M | only whole sources are committed, the cause is reported, no secret is left behind a success; landings are whole and clobber nothing, a loss is reported; every run ends |

Each property has a mutant in `PROJECT.json`: a plausible slip in the code (a
dropped guard, a missing reset, a swapped order) that makes it fail.

### What the runs refute

Two comments of the code say more than the code does. Each has a run that
expects a violation.

- `slot_cas_delete`: "the value cannot move between the check and the replace"
  (`store/store.go:242-244`). The hold ends at the install; the replace is at Close.
  A Delete in between lets a conditional write land over nothing. Another write
  cannot come in between: `NoLostUpdate` holds.
- `disk_undelete`: a Delete never reports "a success a crash could silently undo"
  (`store/store.go:539-541`). If the removal of the generation that the deleted one
  had superseded is still pending at a crash, its marker is still there and the next
  boot reinstates it.

A third comment is too strong without harm: `store/genid.go:29-31` says a backward
clock "cannot mint an id that sorts before an earlier generation of the same name",
but the clamp lives on the handle and is evicted with it. Nobody can hold the old id
as a follow-next baseline by then, since a lease keeps the handle: `FollowsNewer`
holds, and `disk_process` has the clock and the eviction too.

### Bounds

`MaxGen` 2 or 3: a value, the one that replaces it and, where a third matters
(follow-next, sweeps, the recovery contest), one more. Two handles are enough for an
evicted one and its successor: the model reuses an unleased handle as a fresh object.
Two readers race a claim; a third would lose the same way. `MaxNow` 2 with TTL 1:
before, at and after a deadline; a value expires strictly
after its deadline, so nothing less would do. `Wall` {1, 2} lets the clock go back once per pair
of writes. Two crashes put the second inside recovery or after it. Byte
counts of 2 leave room for a partial read, a partial append and an empty
source. Readers of one `Relay` generation do not affect each other, so one is enough.
Three pieces let an archive skip, send and then lose an entry; two handlers and the
reaper are a holder, a waiter and a walker of the two locks (three handlers pass too).

Deadlock is checked in `Slot` and `Quota`, where some operation can always start.
`Disk`, `Buffer`, `Relay` and `Main` end: generations and crashes are spent, the log is
finished and its readers closed, the exchange or the process is over. A deadlock of
`Serve`'s locks is a violation of `CommandEnds`.

The number of crashes and the faults are part of `setting`. A power loss after
`Writeback` of everything is a process crash, so `disk_power` needs no process crashes
of its own for one crash. A process crash and then a power loss is left out of the
runs and of the theorem about them: section 4, `OneKind`.

Symmetry is declared only in runs without liveness, over goroutines and handles that
the specification treats alike.

### Fairness

- `Slot`, on a medium whose calls succeed (`Faults` is empty in the runs with `FairSpec`): a
  goroutine inside an operation keeps running (Go's scheduler and the
  gate's mutex, which no closure holds across unbounded work); an upload reaches a
  terminal (`put`'s deferred Abort; `TransfersEnd` in `Relay`); a handler closes its
  reader once the log has ended (`get`'s deferred Close; `TransfersEnd`); the reaper's
  ticker fires. Nothing is asked of clients, no operation has to start, no wait has
  to be canceled, the clock need not move.
- `Buffer`: the same, for one log.
- `Relay`: handlers and the watcher run and armed deadlines pass; nothing is asked
  of clients, the network or the operator. It is the default configuration that
  justifies this: with `UploadIdle` and `UploadMax` both disabled there is no
  deadline. The bound on bytes stands for the clip size cap: a client that trickles
  bytes for ever under no cap and no maximum keeps its upload.

- `Main`: goroutines run, system calls return, the server answers a body that ended, the
  drain's window passes. Nothing is asked of standard input, of the writer that a
  `--wait` waits for, of a signal, of other programs or of a transfer's length. The
  reaper has strong fairness twice: `sync.Mutex` hands itself to a starving waiter, and
  a select over the stop and the ticker does not choose the ticker for ever.

## 4. What is proved

For every value of the constants, with the TLA+ proof system.

`SlotProofs` (assumptions: `RolesAssumption`, the goroutine sets are finite and
disjoint; `ConstantsAssumption`, the types of the constants, and `None` is no mode):

- `InvariantHolds`: `Spec => []IInv`;
- from it `TypeCorrect`, `HandleUnique`, `FootprintIsExact`, `DeliveredAtMostOnce`,
  `ReadableIsHomed`, `CleanEndMeansPublished`, and the action property
  `NothingReturns`.

The argument is about ownership. "At most once", "exact footprint" and "the home is
there" are not inductive: each needs to know that nobody else is about to act on the
same generation. `IInv` says who may. `Leased`: a goroutine has a lease exactly
between acquire and release. `OneHandle`: leases are counted right, so a leased
handle is the registered one. `Uploads`: a live generation has one uploader, and
there is one. `Debts`: a generation that somebody must reclaim is unreachable and
owed by one goroutine alone, at a program point that pays. `Claims`: a reader's
debt is the consume-once generation it claimed, which is why a supersede must not
take it on as well. Given those, `FootprintExact` is a count of reachable and owed
generations that each action changes by at most one; `Undelivered` carries the
claim's exclusivity; `Homed` and `Logs` follow the generation through its terminal.
There is one lemma per conjunct, with one case per action.

Ownership does not say which of two generations is newer, so a second invariant stands
on the first:

- `OrderHolds`: `Spec => []OrderInv`;
- from it `WakeupsAreKept`, `FollowersGetNewer` and `UpdatesAreNotLost`; with `IInv`,
  `QuiescentIsClean` and the action property `ValuesLeaveOnlyBy`.

`InOrder`: along one handle generations come in mint order and so do their ids, below
the handle's counter; this is what the clamp of `allocate` buys. `Follows`: while a
follower waits, its lease keeps the handle, so what is current there is its baseline or
newer both by mint and by id. Without the lease this would fail: an evicted handle
forgets its counter. `Noted`: an instant that was read before the unlock is not in the
future, so a value expired then is expired now. `Waits` says at which points a reader has
a mode, a baseline and an open channel; with it `NoLostWakeup` is inductive, because
every action that makes something readable closes the channels. `Kept` links the
homes that nobody tried to remove to owners, for `QuiescentClean`.

`ImplementsRegister` is the refinement `Spec => RegisterSpec`, step by step: every action
of `Slot` is one action of `ClipRegister` or leaves value, writing and taken alone. The
steps that move the registered handle (acquire, release with eviction) are stutters
only because an evicted handle is empty, which `OneHandle` and `Uploads` say. The two
invariants are used in it and no hypothesis is added.

`QuotaProofs` (assumption `QuotaAssumption`):

- `LoadsAreChecked`: what a process loaded is still what it checked when it swaps;
- `CapsHold` and `SweepsAreSpaced`: the two action properties, for any caps,
  interval, chunk sizes, clock and number of writers;
- `BalanceInvariant`, and from it `CountersBalance` and `TypeCorrect`: the counters are
  exact between any two atomic accesses, and never below zero.

`Balanced` equates a counter with sums over names and processes. A fold cannot be proved
about for a set of unknown size, a cardinality can: one lemma says what changing the
function at one index does to the sum, and each action changes one. `ChunkInv` (a
Write in progress has a chunk in hand and nobody else has) tells a sweep that runs
inside a Write from one that does not.

`CopyProofs` (assumption `CopyAssumption`; `MaxPieces` is any number):

- `CopyInvariant`, and from it `OnlyWholeCommitted`, `CauseReported`, `SecretsNotLeft`.

`CommitsOnlyWhole` and `BlameIsRight` speak of the end of a run; the invariant says why
the ends fit. `ArchiverInv`: an archiver's result is final, and "closed pipe" and
"canceled" have their cause already. `BodyInv`: a body ends once, cleanly only without
an error of its source. `AnswerInv`: a reply says what the server did. `FlowInv`: Put's
result is tied to the reply or to the recorded error. `EndInv` carries it past the
return, when the server may still store a body that it has.

`PasteProofs` (assumption `PasteAssumption`: the body has at least one piece):

- `PasteInvariant`, and from it `LandedWhole`, `LossIsReported` and the action property
  `NothingClobbered`.

`PieceInv`: a landing that goes on has written all it read, and a rescue starts with
nothing read. `NamesInv`: the name being filled is the paste's own, which no other
program removes. `RescueInv`: the sibling is free when the rescue takes it, so a rescue
does not collide again and the one try is enough.

`ServeProofs` (assumption `ServeAssumption`: the names of the goroutines differ):

- `LocksAreOrdered`: for any number of requests, a lock holder that is blocked waits for
  one that is not (`NoCircularWait`), because the owner of each lock is the one worker
  between its Lock and its Unlock (`LockInv`) and nobody takes `registry.mu` under the
  gate. `CommandEnds` shows the same of two handlers, with what follows from it: the
  server returns.

`BufferProofs` (assumption `BufferAssumption`: finitely many readers):

- `BufferInvariant`, and from it `EndsAreHonest`, `WakeupsAreKept`, `DescriptorIsShared`.

`LogInv` is the writer's: stored before published, one terminal. `StreamsInv` compares
each reader's offset and its snapshot, which is stale as soon as it unlocks, with the
log: a snapshot that says closed is exact for ever, one that says open is a lower bound.
`WakeInv`: while the captured channel is open the snapshot is exact. `ShareInv`: the
holders are counted, all have the same descriptor, and it is the one that is open.

`RelayProofs` (assumption `RelayAssumption`; any source, window and readers):

- `RelayInvariant`, and from it `CompleteIsWhole`, `OnlyWholeStored`,
  `KeptConnectionReads` and the action property `StopNotBlamed`.

`UploadInv` follows the bytes from the client to the commit, `AnswerInv` ties a reply to
what became of the generation, `DeadlineInv` says who may have put the connection's
deadline in the past at each point (once the watcher was stopped, nobody, because its
guard is set even where the watcher still runs), `ResponsesInv` says what a declared
length or a trailer was written from.

`DiskProofs` (assumption `DiskAssumption`; any number of generations, crashes and mix of
settings). A theorem that needs something of the server says so in its hypothesis:

- `BaseInvariant`, `GoneIsGone`: no hypothesis;
- `IntactInvariant`: none; `ServedIsIntact` under `Guarded`: if power can fail, every
  server flushes or checks checksums;
- `MarkerInvariant`, `MarkersAreCurrent` under `Removable`: removals do not fail, and where
  power can fail neither do the renames into quarantine;
- `OrderInvariant`, `PublishedIsKept` under `OneKind`: the crashes are power losses and the
  clock does not go back, or they are process crashes and, if the clock goes back,
  removals do not fail.

`CoreInv` and `MarkInv` say what each home carries at each point of its writer, under a
commit and during a boot; `GoneInv` adds that what ended has no marker left, in memory or,
with fsync, on stable storage. `IntactInv`: bytes and record are in before the marker,
also on stable storage. `OrderInv`: ids follow the mint order among the homes that a boot
could find. `HeirInv`: at every point of a life or a boot some home at least as new as the
last published one would be taken by the next boot (`WriterHeir`, `BootHeir`,
`LatestHeir`); a crash and the contest hand that role over and never drop it.

Each hypothesis is needed; TLC has a counterexample without it. With neither flush nor
checksum a power loss lets short bytes be served. A failed removal leaves a marker that
is nobody's. Both kinds of crash together can lose an acknowledged value, with fsync on:
a process dies after the rename of a publish and before its flush; the boot keeps that
generation, because its marker is visible, and removes the acknowledged one that it beats
in the contest; then the power fails, and stable storage has the removal and not the
marker. `store/recovery.go:35-38` says that the boot's mutations leave "a state the next
boot's scan classifies identically", "so no step needs durability"; that is so for crashes
of one kind. (The model lets the kernel write back in any order; a file system that
commits metadata strictly in order would not show it.)

A clock that goes back together with a power loss, or with a removal that fails, does so too: an
old marker is back or still there when the handle that knew its id has been evicted, so a
later write gets a smaller id and loses the contest at the next boot.

### Only model-checked

Liveness under fairness is outside the prover: `WaiterServed`, `ConsumedDestroyed`,
`ExpiredReclaimed`, `OperationsReturn`, `FollowersEnd`, `TransfersEnd`, `CommandEnds`. Every
invariant and every action property of a passing run is proved, those of `Disk` under the
hypotheses above. No module uses a RECURSIVE operator. A `TypeOK` that no run names
states the range of each variable of its module; `Slot`'s and `Quota`'s are theorems, and
`Disk`'s is part of `CoreInv`.

## 5. Plan

Next: what is durable of acknowledged values under both kinds of crash; the type invariants of `Buffer`,
`Relay` and `Main` as theorems; `ServeProofs` extended from the two locks to the drain.

## 6. Not modelled

- The in-memory medium: it is `Slot` with no faults.
- Several names at once: names meet only in the registry's map, whose lock `Serve`
  has, and in the quota.
- Header and argument parsing, the error tables, JSON, units, names, diagnostics and
  the listing's layout: stateless.
- Configuration and logging: read or written once, with no state of their own.
- Byte contents: lengths and integrity classes stand for them.
