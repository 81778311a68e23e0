# Verification of aurora-ltfs

TLA+ models of the parts of aurora-ltfs where correctness depends on the order of
events: the locks of libaltfs, the fence and the revalidation that follow a unit
attention, the indexes of a volume through syncs, unmounts, crashes and recoveries, the
extents of a file, the I/O scheduler, the directory tree with its incremental journal,
and the tape layer on its four SCSI drivers. TLC checks the models on small instances.
TLAPS proves, for every value of the constants, the volume lock, the fence and the
revalidation, and that a file reads back what was written to it.

Paths below are those of the repository (`src/libltfs/ltfs.c` and so on).

## The system

A volume is a tape with two partitions, the index partition (IP) and the data
partition (DP). Its directory tree lives in memory (`vol->index`) and goes to tape as
an *index*: a full one, or an incremental one with the changes since the last index.

| Part | State | Operations | Interacts with |
|---|---|---|---|
| Locks (`ltfs_locking_new.h`) | mutex, rwlock, flags `writer`, `long_lock` | acquire, try, short, long, downgrade, release | everything |
| Device fence, revalidation (`ltfs.c`, `tape.c`) | `vol->reval`, `reval_cond`, `device->fence`, `backend_mutex` | `ltfs_get_volume_lock`, `ltfs_wait_revalidation`, `ltfs_revalidate`, `tape_device_lock`, `tape_start_fence`, `tape_release_fence` | every request that reaches the drive |
| Index on tape (`ltfs.c`, `ltfs_internal.c`) | tape, MAM coherency, `index`, `append_pos`, `*_index_file_end`, journal, `full_index_to_go` | `ltfs_write_index`, `ltfs_sync_index`, `ltfs_unmount`, `ltfs_mount`, `ltfs_check_medium`, `ltfs_incindex_recovery` | tape layer, XML, journal |
| Raw data path (`ltfs_fsops_raw.c`) | extents of a dentry | read, write, add extent, truncate, clean-up | tape layer, I/O scheduler |
| I/O scheduler (`iosched/unified.c`, `cache_manager.c`) | request queues, cache pool, alternate extents | read, write, flush, truncate, close, background writer | raw data path |
| Dentries, file system operations (`fs.c`, `ltfs_fsops.c`, `xattr.c`) | tree, `numhandles`, `deleted` | open, close, create, unlink, rename, xattr | volume lock, journal, scheduler |
| Incremental journal (`inc_journal.c`) | journal entries, created directories | create, modify, remove, clear | index writer, recovery |
| Tape layer (`tape.c`) | positions, space flags, write error, attributes of the cartridge | read, write, seek, filemark, load, reserve, format | drivers |
| Drivers (`tape_drivers`) | path, reservation, counters | SCSI commands, reconnection, dumps | the drive |
| FUSE bridge, periodic sync, tools (`cmd`, `periodic_sync.c`) | - | handlers, timer thread, command lines | all of the above |

What is hard here, and hardly reached by a test: the drive may answer any command
with a unit attention while other threads wait for the device; locks are dropped and
retaken (downgrade, upgrade for revalidation, sync); an index takes at least three
tape commands, of which the drive may lose the buffered ones; the IP index is
overwritten in place; a mount may trust MAM and skip the search; the recovery writes
indexes itself; a file's data goes to tape long before its extent is added; the
background writer lets the locks go in the middle of a pass; a path to the drive is lost
in the middle of a command. `PROJECT.json` lists these hazards at their lines, each with
the properties that would catch it.

## Modules

| Module | Models | Runs |
|---|---|---|
| `ReadWriteLock` | what the library relies on when it takes a `MultiReaderSingleWriter` lock | abstract side of the refinement; extended by `Revalidation` |
| `MrswLock` | `ltfs_locking_new.h`, one action per access to the mutex, the rwlock and the flags | `mrsw_lock` |
| `DriveAccess` | what the fence and the revalidation promise: who may use the drive, and when | abstract side of the refinement |
| `Revalidation` | the locking wrappers around every drive access, and `ltfs_revalidate` | `reval_safety`, `reval_liveness` |
| `IndexStore` | index writes, data writes, sync, unmount, mount, check and recovery on a block-by-block tape | `index_crashes`, `index_policies`, `index_ip_overwritten` |
| `ExtentList` | the extent arithmetic of `ltfs_fsops_raw.c` as operators: add, truncate, clean-up, read | through `FileExtents`, `WriteRequests` |
| `FileExtents` | one file on tape: write, truncate, read, permanent write error | `file_edits` |
| `WriteRequests` | the data of the unified scheduler and the functions that edit it | through `Unified` |
| `Unified` | the unified scheduler: users and the background writer | `scheduler`, `scheduler_lost_error` |
| `IncJournal` | `inc_journal.c` as operators | through `Namespace` |
| `Namespace` | tree, file system operations, incremental index and its replay | `namespace`, `namespace_dropped` |
| `ScsiTape` | the drive, its cartridge and the paths to it (external) | through `TapeCalls` |
| `DriverCommon`, `SgTape`, `CamTape`, `ScsipiTape`, `IokitTape` | the drivers for Linux, FreeBSD, NetBSD, macOS and what they share | through `TapeCalls` |
| `Backends` | the drivers as one table of `struct tape_ops` | through `TapeCalls` |
| `TapeDevice`, `CartridgeMemory`, `VolumeTools` | `tape.c` over any driver; attributes of the cartridge; device part of mount, format and repair | through `TapeCalls` |
| `TapeCalls` | the calls that libltfs makes of a device, in every order | `tape_drivers` |
| `MrswLockProofs`, `RevalidationProofs` | theorems about the modules they are named after | TLAPS |
| `FiniteRecursion` | induction over a bounded number, and functions defined step by step | TLAPS |
| `ExtentListProofs`, `ExtentReadProofs`, `FileExtentsProofs` | edits of an extent list, the read loop, the file | TLAPS |
| `MC...` | symmetry sets and values of constants for TLC | |

### MrswLock

Variables are the fields of `MultiReaderSingleWriter` (the rwlock as its writer and
its set of readers) and a program counter per thread. Every label is the place before
one access to shared state, so the unlocked reads of `writer` (`release_mrsw`) and
`long_lock` (`acquireread_mrsw_short`) meet every interleaving. `rw_lock` itself, a
pthread object, is modelled by what POSIX promises.

`ImplementsReadWriteLock` is the refinement: `LockMode` maps a thread to the
protection it has. A downgrading thread counts as a reader from the moment it gives up
the write lock, although for one step it has no lock; it is right because the mutex
keeps writers out meanwhile.

### Revalidation

`mode` is `vol->lock` in its abstract form (justified by the refinement above),
`device` the owner of `backend_mutex`, `fence` and `reval` the fields of the same
names. `op[t]` selects the wrapper a thread runs; the module's header lists them with
their functions. They differ in the lock they take first, in whether they raise the
fence, wait on it or pass it up, and in what they do with an eject request. A tape
command answers ok, with an error, with a NEED_REVAL code or with
IS_UNEXPECTED_MOVE; the last two are bounded by `MaxFaults`. `load`, one of `Loads`,
says which operations the threads of a behaviour call and how often.

Some paths release a lock their caller no longer holds. pthread leaves this undefined;
the model lets the rwlock count one reader less (another reader's hold is gone) or,
when there is none, wrap so that no writer gets in again (`jam`). The operations with
such a path, and those that ignore the fence or write under a read lock, are the set
`Undisciplined` (`getx`, `logpage`, `fullsync`, `unmount`). `Disciplined` is a load without them, and
the properties that one of them breaks say so in their hypothesis.

`ImplementsDriveAccess` is the refinement of `DriveAccess`: a thread uses the drive while
its command, index write or status query is outstanding, checks the medium in the body of
`ltfs_revalidate`, and requests are let in while `vol->reval` is ok. A load that is not
`Disciplined` maps to a drive at rest, so nothing is said of it.

### IndexStore

`tape[p]` is the sequence of blocks of a partition after the label (blocks 0 to 3):
filemarks, data blocks, full and incremental indexes, indexes cut short. A write
truncates the partition there. `flushed` is what the drive has on tape; the rest may
vanish in a crash or a reset, until a filemark without the immediate bit, or a locate
to the other partition, flushes it. `mam[p].fresh` says that the volume change
reference recorded with the coherency attribute is still the drive's. `set`, one of
`Volumes`, says how the volume is set up and what may happen to it.

`todo` is the call stack of the operation that has the write lock on the volume, as
the steps it still has to take: `ltfs_write_index` is `Begin` (type, and the DP index
the IP one may need first), `Mark` (generation, pointers, first filemark), `Xml`,
`Close` (second filemark), `Mam` (one partition each) and `End`. `Sync` is the half of
`ltfs_sync_index` under the read lock, `SyncWrite` the other half with the decision
taken before. `Mount` chooses between MAM and `Check`; `Decide` and `Settle` are the
two halves of `ltfs_check_medium` around the incremental recovery. `Revalidate` is the
position and MAM check of `ltfs_revalidate`, reached from any refused command.

A change of the file system is a number and an index the set of changes it describes,
so "an index holds what was promised" is a subset test; a change with data remembers
its block in `where`.

### ExtentList and FileExtents

`AddExtent` is the walk of `_ltfs_fsraw_add_extent_unlocked` from the last entry back,
one case per branch (`Placed`), with the bytes it takes off `realsize`; `Truncated` is
the walk of `ltfs_fsraw_truncate`, `Cleaned` that of `ltfs_fsraw_cleanup_extent`. `ReadFile`
is the loop of `ltfs_fsraw_read` over extents and blocks, with the seek (`SeekTo`), the
short-block error and the block that `vol->last_block` keeps from the read before. All
loops are recursive functions, which both TLC and TLAPS accept. In `FileExtents` a write
is two actions, because `ltfs_fsraw_write` puts its blocks on tape under the device lock
(`WriteData`) and adds the extent under the file's `contents_lock` (`AddPending`). Each
byte on tape carries the number of its write and its file offset, so `ReadsBack` compares
what a read returns with the history `content`, for every range, tape position and cached
block. `WritePerm` is the clean-up after a permanent write error, which the unified
scheduler runs. A read is one action: it holds `contents_lock` and the device lock to its
end. Writes of no bytes are left out (`unified_write` returns at once).

### Unified and WriteRequests

A record holds the scheduler's data: the requests of each file's `dentry_priv`, the three
queues with their counters, the cache pool, and the bytes libltfs has (`disk`, whose
extents are `FileExtents`' subject). An operation is one step except where the code lets
its locks go: a write without a cache block waits (`wait`, then `retry` with its spare
block), and the background writer, once it has taken a file's requests to a list of its
own, writes them under the `io_lock` alone, handles an error after it has let go of that,
and hands the rest back. `content` is what the completed writes and truncates of the
users left, `failed` the files of which a tape write failed, `reported` those whose user
was told.

### Namespace and IncJournal

A dentry is a record with its parent, name, handles and WORM flags; a path is a sequence
of names. An operation is two steps: it changes the tree, and then it calls the journal
with the path it had. `doing` holds the operations of the threads between the two, with the
dentries whose `meta_lock` and `contents_lock` they keep; another operation waits for the
locks it shares with them, and an index, written under the write lock of the volume, for all
of them. `crossed` records that an operation moved or removed what one in `doing` was about
to tell the journal. A symlink takes two such operations because the code releases its locks
between creating the file and setting the target.

`WriteIncJournal` sorts the journal and writes its elements as the XML writer does,
`Replayed` applies them to the tree on tape as the XML reader does, and `ReplayExact`
compares the result with the tree in memory in every state without a pending operation, as if
the index were written there. `stale` holds the objects of which the tape lacks the present
state; what else an index says of an object is left out.

### The tape layer and its drivers

A function of a driver is an operator from the state of drive and driver to the set of its
outcomes `[s, ret]`, composed in the order of the code; `Transport` (external) is the
drive's answer to one command, with at most `faults` troubles in a behaviour: a path cut
before or after the command took effect, memory pressure, a reset, hardware and medium
errors, a corrupted block. `TapeDevice` calls the driver through constants, as `tape.c`
does through `struct tape_ops`, and `Backends` dispatches on the driver of the scene.
`TapeCalls` makes one call of libltfs a step; `silent` records a reset that a call met and
did not report, after which nothing is claimed of appends and reads until the drive is set
up again.

A format, and the new state of `ltfs.volumeLockState`, go through `ltfs_write_index` with its
calls of the tape: the status in the memory of the cartridge, the index on the data partition
that an index over the one on the index partition needs first, the filemarks around it, the
coherency attributes and the handling of permanent write errors. Of an index the model keeps
its partition and the lock in it; `newest` is the last one that reached the tape, which a
mount reads. Two more histories say what a caller never learned: `unheard`, an error that
`ltfs_write_label` or the EOD recovery passed over, and `unread`, a status of the cartridge
that could not be read.

## What the runs check

Passing runs (every property has a mutant of the code in `PROJECT.json` that breaks it):

| Run | Question |
|---|---|
| `mrsw_lock` | Do the steps on the mutex, rwlock and flags implement an atomic lock, and does a writer past the mutex get in, whatever readers do? Checks the inductive invariant `IInv` of the proofs. Three threads. |
| `reval_safety` | Is a suspect medium left alone, does the revalidation run alone, is the fence always somebody's to lower, is nothing left locked, fenced or running, and do the wrappers together implement `DriveAccess` (one user of the drive, let in again only when the medium is vouched for)? Checks `RInv`. Three threads and three loads: requests for data and syncs twice per thread; attributes beside them; and the attributes that reach the drive in their own ways, with the unmount. |
| `reval_liveness` | Does every request return? Two threads, two calls each. |
| `index_crashes` | Full indexes, coherency writes that fail unnoticed and two crashes anywhere, also inside the recovery: everything promised comes back, the check never gives up, nothing live is overwritten, MAM can be trusted, and an unmounted volume mounts. |
| `index_policies` | The same promise on three volumes: incremental indexes and two crashes; one command refused with buffered blocks lost; data on both partitions with `full_index_interval` = 1 and full recovery. Pointers and generations agree, the volume passes its own revalidation, a full index comes in time. |
| `file_edits` | Do reads give back what was written last, and do the extents stay in order, disjoint and counted, whatever order the extents of concurrent writes are added in? Checks `FInv`. |
| `scheduler` | With two users, two cache blocks and a partition that fills up: does a read return what was written, do the queues and the pool add up, is all of it on tape after unmount, does a write that waits for a block return? |
| `namespace` | Does the incremental index that could be written in any state replay to the tree in memory, with two threads whose operations overlap; does the journal only point to what exists, is no dentry freed in use, do WORM entries keep their place? |
| `tape_drivers` | On each driver, with the troubles it is meant to withstand: did a call that succeeded do exactly what it says, are the records before the append position kept, is the remembered position the drive's, the reservation held, and is a lock, or the mark of a write error, never taken back? |

### Where the code departs from what the repository says

Modelling turned up places where the code does not do what a document, a comment or a
test of the repository says. Three of them have a run of their own that ends in the
violation, with the quotation in `PROJECT.json`:

| Run | The code | Where it bites |
|---|---|---|
| `index_ip_overwritten` | the check writes its IP index at block 4, over live data | `ltfs_internal.c:1316` |
| `scheduler_lost_error` | a close between the writer's failed write and its error handler drops the error | `unified.c:1334` |
| `namespace_dropped` | a directory renamed away, back and away again loses its deletion record | `inc_journal.c:427` |

The others can be shown by checking the property as said here. For `Revalidation`: two
threads, one call each, `Disciplined` taken out of the property's hypothesis. For
`IndexStore`: `Plain` of `MCIndexStore` with the fields given and `MaxChanges = 2`. For the
rest: the configuration of the passing run with the property in place of its own.

| Property | Setting | The code | Where it bites |
|---|---|---|---|
| `FailedIsFinal` | `ops = {"tur"}`, `MaxFaults = 2` | a second NEED_REVAL takes the volume out of the failed state | `ltfs.c:3648` |
| `FencedStaysInside` | `ops = {"tur", "setx"}`, `MaxFaults = 1` | setxattr returns DEVICE_FENCED instead of waiting | `ltfs_fsops.c:1151` |
| `ReleasedByHolder` | `ops = {"getx"}`, `MaxFaults = 1` | getxattr releases a lock that `ltfs_revalidate` had released | `ltfs_fsops.c:1246` |
| `EveryRequestReturns` | `FairSpec`, one thread, `ops = {"unmount"}`, `MaxFaults = 1` | unmount releases a lock that `ltfs_revalidate` had released, and may wait for ever | `ltfs.c:2132` |
| `SuspectMediumUntouched` | one thread, `ops = {"unmount"}`, `MaxFaults = 1` | unmount drops the unit attention of its first query | `ltfs.c:2123` |
| `IndexWrittenUnderWriteLock` | `ops = {"tur", "fullsync"}`, `MaxFaults = 0` | attributes that sync write the index under the read lock | `xattr.c:1275` |
| `DeviceUsedByOwner` | `ops = {"tur", "logpage"}`, `MaxFaults = 1` | log page and MAM queries ignore the fence | `ltfs.c:4614` |
| `AcceptsOwnTape` without its hypothesis on `set` | `parts = {"ip", "dp"}`, `crashes = 0` | data behind the IP index fails the revalidation of an untouched tape | `ltfs.c:3815` |
| `AlwaysCheckable` | `faults = 1` | a refused, retried and interrupted index makes the check fail | `ltfs_internal.c:1096` |
| `AlwaysCheckable` | `types = {"auto"}` | an incremental index cut short makes the check fail | `ltfs_internal.c:2247` |
| `DurableOnTape` | `types = {"inc"}`, `crashes = 0`, `faults = 1` | a refused incremental index has emptied the journal; the next sync succeeds without the changes | `xml_writer_libltfs.c:837` |
| `LostBlocksRecovered` | `extra = TRUE` | `altfsck --full-recovery` misses the data behind the last index | `ltfs_internal.c:1270` |
| `FileEndTrue` | `faults = 1` | a mount whose IP recovery index failed goes on | `ltfs_internal.c:1361` |
| `LostBlocksDropped` | `FileExtents_edits.cfg` | the clean-up after a permanent write error leaves `byteoffset` out of an extent's last block, and keeps an extent whose last block is not on the medium | `ltfs_fsops_raw.c:460` |
| `FilemarkWritten` | `TapeCalls_drivers.cfg`, `Scenes <- FreeBsd` | behind an early warning every error of the filemark request becomes success, also when no filemark was written | `cam_tc.c:734` |
| `LabelsWritten` | `TapeCalls_drivers.cfg` | an error of the second block of a label is returned as a positive number, and after a reset or a lost path the format succeeds without that block | `ltfs.c:3286` |
| `RecoveryKeepsAll` | `TapeCalls_drivers.cfg` | any read error ends the search for the end of data, and the records behind it are erased | `tape.c:2207` |
| `PermLockKept` | `TapeCalls_drivers.cfg` | a permanent lock whose index could not be written is in the memory of the cartridge only; the next mount trusts the index, and the lock can be taken back | `xattr.c:1275` |
| `LockLosesNothing` | `TapeCalls_drivers.cfg` | the result of the first index of a lock is dropped, also when the drive was reset in it; the second is written where the drive stands now, over the label | `xattr.c:1275` |
| `JournalAlwaysExact` | `Namespace_replay.cfg` | an object that changes while a directory above it is renamed is journalled with its old path | `ltfs_internal.c:1566` |
| `WormComesBack` | `Namespace_replay.cfg` | WORM flags that were taken off a directory come back with the incremental index, which only sets them | `xml_reader_libltfs.c:866` |

These are why the passing runs leave some properties out, or state them of a part of the
loads, volumes and scenes: `index_policies` does not check `AlwaysCheckable`, a property of
`Revalidation` may speak of a `Disciplined` load, `AppendExact` leaves FreeBSD's filemarks
out, `GenerationKept` asks that no command is refused, `ReplayExact` and `JournalSound` that no
operation was overtaken (`crossed`), and `ReplayExact` that no deletion record was dropped and
not that WORM flags of a directory go. `FormatExact` and `RecordsKept` leave out a call with an
`unheard` error, `RecordsKept` a lock in which the drive was reset, and `LockKept` asks that the
memory of the cartridge could be read and, of a permanent lock, that an index has it.

### Bounds

- Threads: three suffice for every role of the lock and of the revalidation at once
  (the one that revalidates, one that waits, one that arrives); `reval_liveness` uses
  two, because liveness is checked without symmetry. The proofs have no such bound.
- `MaxFaults = 2` lets a second unit attention fall into the revalidation of the first;
  two calls let a thread come back after one.
- `MaxChanges = 2`: one change that was promised and one that was not. Two crashes: one,
  and one inside the recovery of the first. One refused command: its retry is reached, and
  a crash after it.
- `BlockSize = 2` with `MaxSize = 3`: extents start inside a block, end in a short one
  and span two; three writes split, cover and join one another, two of them pending
  at once. The invariant reads every range in every state, so the two reads or truncates
  before it (`MaxOthers`) leave any block in the cache. The proofs have no such bound.
- `scheduler`: one file of three blocks over a pool of one block that may grow to two, so
  that writes wait and the writer runs; a write that fits no block boundary; a truncate
  into a block; `MaxFilesize` at the size of the larger write, so that the file goes to
  the IP until it grows. Three operations let a write, a truncate and a removal or rename
  meet the writer.
- `namespace`: two names and four UIDs; four operations of one thread on a tree of two
  levels, so that a directory leaves its name and another takes it, with indexes and
  recoveries between; and three operations of two threads on that tree and on one with
  WORM entries, so that any two overlap before or after a third.
- `tape_drivers`: partitions of two records when records are written, so that the early
  warnings and the end are met, of eight for a format and of five for locks, where the second index on the data
  partition meets the end; one trouble per behaviour, of those the driver handles. Locks
  are set with the Linux driver only. `Threshold`, `LoadTries`, `ReadyTries` and `MaxDumps` are the
  code's limits at one or two.
- Symmetry over threads is used in `reval_safety`, over partitions in `file_edits`.
- Deadlock checking is off where the system really stops: a volume that altfsck refuses,
  a file, scheduler, tree or drive whose operations are used up.

### Fairness

`MrswLock!FairSpec`: a thread inside a lock function is scheduled, and one that holds
the lock comes to an end. Weak fairness only; nothing is assumed of the order in which
mutex and rwlock are handed out. `Revalidation!FairSpec`: weak fairness of each
thread's steps. The drive is never assumed to answer well; the number of bad answers
is bounded. `Unified!FairSpec`: the background writer moves when it has work or a user
waits, and a user moves who waits and could have a block: the code signals the writer's
condition variable and the users' (`cache_cond`), and the threads behind them run. Both
are written out as "not able to move again and again, or moves again and again".

## What is proved

Theorem modules rest on the named assumptions of the modules they extend and on nothing
else; there is no bound on threads, calls, faults, file sizes, writes or block sizes.

### The volume lock

`MrswLockProofs`, for every set `Threads` and any value outside it for `NoThread`:

- `LockInvariant`: `Spec => []IInv`.
- `WriterFlag`, `LongLock`: the two flag properties.
- `LockRefinement`: the coded lock implements `ReadWriteLock`.

The flag properties are not inductive: that `writer` is false for a reader follows
only from where the flag was last written. `IInv` says that a thread's label
determines which of the mutex and the rwlock it owns, that the rwlock is never shared
with a writer, and that a set flag belongs to a thread at one of the labels between
setting and clearing it. Each action moves one thread from one label to another and
changes exactly the ownership that the two labels differ in, so the invariant is kept
action by action (`AcquiringIInv`, `ReleasingIInv`). For the refinement, `ModeIsLabel`
turns `LockMode` into a function of the label, so a step is a stutter or one of the
four abstract actions at the thread that moved; the window inside the downgrade is
covered by the mutex.

### The fence and the revalidation

`RevalidationProofs`, for every set of threads and loads and every number of faults:

- `RevalidationInvariant`: `Spec => []RInv`.
- `SuspectUntouched`, `CheckAlone`, `TrustRegained`: no command reaches a suspect medium,
  the check has the volume and the device to itself, and `vol->reval` becomes ok only
  when the medium is vouched for (an action property).
- `FenceOwned`, `RestIsClean`: the fence is always somebody's to lower, and nothing is left
  behind at rest. These hold of every load.
- `SyncUnfenced`: an unmount of any load, and in a disciplined one a sync or a write, never
  finds the device fenced.
- `ReleaseByHolder`, `IndexUnderWriteLock`, `DeviceOwned`, `VolumeLockDiscipline`: in a
  disciplined load each lock is used by its rules; the last says that every step on `mode`
  is a step of `ReadWriteLock`.
- `AccessRefinement`: `Spec => ImplementsDriveAccess`.

`RInv` has a part for every load (`AnyInv`) and one for disciplined loads
(`DisciplinedInv`), because the operations of the table above really break the second.
`SuspectMediumUntouched` alone is not inductive: a suspect medium is safe because
the thread that found it still owns the device, then has the fence up or the write lock,
then has `vol->reval` set, and at each hand-over someone may be between reading one and
acting on it. `SuspectInv` lists these stages. `ChainInv` says what is up at each of them;
its last conjunct is the delicate one: while the finder has released its lock to take the
write lock, another thread may have taken it, and is safe only because it looks at
`vol->reval` again after acquiring. `OneRevalidates` and `LockInv` carry the rest.

The invariant speaks of each thread (`ThreadInv`, `LockInv`) and of the device and the lock
as a whole, so a step is proved twice: for the thread that moves (`ThreadSelf`, `LockSelf`,
`ChainSelf`), case by case over the actions, and for the others, of which only
what the step may do to shared state matters (`OthersKept`, `OthersUntouched`). `LockMoves`
and `Discreet` list what that is: the lock changes hands by its rules, and the device mutex
is taken when free and released by its owner. In `AccessRefinement` a step is sorted by where its
thread comes from and goes to (`Kinds`); each kind is one abstract action or a stutter, and
`Unused` follows from the ownership of the device.

### The extents of a file

`ExtentListProofs`, `ExtentReadProofs` and `FileExtentsProofs`, for every block size, every
set of partitions and every bound of `FileExtents`:

- `CutFrontKeepsBytes`, `JoinKeepsBytes`: an extent cut at its front, and two extents
  joined, read each byte from where it was.
- `AddExtentLaysOver`: the walk of `_ltfs_fsraw_add_extent_unlocked` on any list in order
  gives a list in order in which the new extent says where its bytes are and the old list
  says it of all others, and the bytes it frees are the ones replaced.
- `TruncatedCutsOff`, `CleanedBalances`: the same for the walk of a truncate; the clean-up
  takes off the size exactly the bytes of the extents it drops.
- `AddedInPlace`: a byte that is on tape where the list or the new extent says still is
  after the extent is added.
- `CleanupBlockExact`: the last block the clean-up computes is right for an extent that
  starts at a block boundary (for others see `LostBlocksDropped` above).
- `ReadFileReads`: the loop of `ltfs_fsraw_read` over extents and blocks returns, for any
  range, tape position and cached block, the bytes the extents stand for and zeros between
  them, and leaves a cached block that is current.
- `FileInvariant`: `Spec => []FInv`. `FileReadsBack`: `Spec => []ReadsBack`.

`ReadsBack` is not inductive: it speaks of the extents in the list, and the next step may
add one of a pending write. `FInv` adds that the bytes of each pending write are on tape
where its extent says (`BytesInPlace`), that the extents are in order, disjoint and
counted (`ListConsistent`, without which `AddExtent` does not find the place), and that the
cached block is the tape's (`CacheCurrent`, without which a read may skip the tape
wrongly). Appends keep these because blocks are only added behind what extents name;
edits of the list by the theorems above; reads by `ReadFileReads`.

The walks are recursive functions over a list, and what they compute is proved by
induction. The library's induction theorems take an operator as a parameter and cannot be
used; `FiniteRecursion` derives instead from the least number principle that a walk which
starts with `a` and steps by the function `G` exists, is unique, and stays in any set that
each step keeps. A loop is then given by such a `G`, and the set holds the results that
are right so far. The hypotheses of a step are packed into one predicate (`AtBlock`, `ReadTo`,
`Fillable`, `Between`), so that a leaf of a proof instantiates it as a whole.

### Only model-checked

- Every liveness property: `WriterPastTheGateGetsIn`, `EveryRequestReturns`,
  `EveryWriteReturns`. Liveness under fairness is outside the proof system's reach.
- `IndexStore`: an inductive invariant would have to describe every tape that a crash in
  any of its steps can leave, block by block; TLC enumerates them.
- `Unified`: the scheduler's steps are folds over the requests of a file, with a record of
  eight parts each; its properties would need an invariant for every one of them.
- `Namespace`: sorting and replaying a journal are inductions over paths and trees.
- The tape layer: its drivers call themselves through their error handlers and are written
  with `RECURSIVE` operators, which the proof system does not take.

## Abstractions

- In `IndexStore` a plain write error ends the session, as a crash does; the WRITE_PERM
  path, WORM media, no-space handling and formats before 2.5 are not modelled there.
- An index names all changes; `selfptr_inc` and `backptr_inc`, which nothing reads back
  in the modelled paths, are left out, and so is `journal_err`.
- An index cut short is one whose blocks were not all written.
- lost+found collects data blocks; that it also picks up fragments of indexes is not
  represented.
- A data write that is refused is not repeated by the model; the next `WriteData`
  stands for the retry of the caller.
- Labels are written by the format and stay intact.
- In `IndexStore` a failed locate leaves no `write_error`, which in the code refuses the later
  writes (`tape.c:935`), and an error of the data partition's index ends the index partition's
  too, which the code goes on to write (`ltfs.c:2756`).
- `Revalidation` leaves out requests that use the drive in further ways: `setxattr` of
  the recommended access order takes the device lock and raises no fence (`ltfs.c:4953`), and
  attributes of the cartridge (`xattr.c:1006`, `1262` and others) and drive dumps
  (`xattr.c:575`, `1075`) take no device lock at all.
- In `Namespace` the journal is a value, and a call of it is atomic: that
  `ltfs_set_dentry_dirty` changes the hash table without the `dirty_lock` is seen in the
  order of the calls, not as damage to the table. WORM flags are tested in the step that takes
  the locks, which the code does before them (`ltfs_fsops.c:494`, `675`). Left out are the roll-back
  of a create that fails after the dentry is made, and the use of a dentry that is freed
  while the journal still has it, which only an overtaken operation reaches. Times,
  extents and attributes of an object are one thing that is current on tape or not.
- In `Unified` memory allocation does not fail, reads from tape are those of `FileExtents`, and
  the profiler is left out. `Open` does not match the name again (`ltfs_fsops_raw.c:90`), which
  gives another value only when the criteria change in between. The pass of the index
  partition at unmount has no fault. Once a freed `dentry_priv` is used or an entry is queued
  twice (`broken`, which is reachable), nothing follows and nothing is said.
- The mount of `VolumeTools` reads no labels and indexes besides `newest` (their consistency is
  `IndexStore`'s subject). A process that dies between the two records of a lock leaves what a
  failed index write leaves.
- The drivers are without time limits, layouts of pages and the answers listed in the
  headers of their modules; the drive behind them is external.

Not modelled: the lock of `--enable-new-locking=no`, the FCFS scheduler (a pass-through), the
file and image backends of the tests, key managers, the dentry cache plugin, the command
line tools beyond their use of the device, configuration, messages and tracing, and the
syntax of XML. `PROJECT.json` gives the reason for each part.
