# A TLA+ model of logful-api

logful-api is the server of a mobile logging SDK.  Clients upload encrypted log
files, crash reports and attachments; the server decodes log files line by line
into a Graylog server, stores all files in a weed-fs volume server and keeps
metadata in MongoDB.  This directory holds TLA+ modules of the parts of the server
in which threads, queues, connections and scheduled tasks meet, the TLC
configurations that check them, and
machine-checked proofs of every safety invariant the configurations check.

Source paths below are relative to `src/src/main/java/`; `server/` abbreviates
`com/getui/logful/server/` and `gelf/` abbreviates `org/graylog2/gelfclient/`.

## 1. Inventory

| Component | State it keeps | Operations | Hard behaviour | Modelled by |
|---|---|---|---|---|
| Weed upload pipeline: `server/weed/*` | `connected`, `serverError`, two bounded queues, `weedMetaMap`, queue records in MongoDB, files in `weed/` | `write`, channel events, writer and reader thread of each connection | callers, event loop and threads of two connections at once; lost requests and answers; reconnects; blocking `put` on the event loop | `WeedFS`, `UploadLedger`, `WeedFSProofs`, `TrackingProofs` |
| Scheduled tasks: `server/schedule/ScheduledTasks` | none of their own | `retryPutQueue`, `clearMemory`, `clearFiles` | they act on the state of the other parts between any two of their steps | `WeedFS`, `Graylog`, `Intake` |
| Graylog client and GELF transport: `server/parse/GraylogClientService`, `gelf/transport/*` | `connected`, listener, bounded queue, message records | `write`, `createMessage`, connection events, sender thread of each connection | old and new sender share a queue; a message in the hands of a stopped thread; what the channel had not flushed; records that expire; start-up before the listener is set | `Graylog`, `GraylogProofs` |
| Log file intake: `server/controller/ClientRestController`, `server/parse/LogFile*`, `LocalFileSender`, the executor of `ServerApplication` | request phase, files in `temp/`, `error/`, `weed/`, thread pool and its queue | admission, transfer, submission, parsing, hand-over or quarantine | check-then-submit race; failing calls between two file operations; the pool is shared with the scheduled tasks, of which one deletes old files; an Error nobody catches; calls that wait or spin | `Intake`, `IntakeProofs` |
| Crash report and attachment intake: `ClientRestController` | as the weed pipeline | `v1UploadCrashReport`, `v1UploadAttachment` | two uploads of one attachment share a key, and a file name if their extensions agree | `WeedFS` (`Arrive`, `CheckSum`) |
| Administration: applications, grants, global level, control profiles, client users (`server/rest/*`, `server/mongod/*`) | MongoDB documents | REST handlers, all read-modify-write | lost updates, check-then-insert | `Registry`, `RegistryProofs`, `RegistryRacesProofs` |
| Key pairs: `server/auth/ApplicationKeyPairManager` | unsynchronised cache in front of MongoDB | `getKeyPair` | entries missed or lost, cache gone after a restart | `Registry` |
| OAuth2 tokens: `server/auth/OAuth2RepositoryTokenStore`, `OAuth2TokenCommonRepository`, `SimpleTokenEnhancer` | MongoDB documents | store, read, remove, expiry | find-then-save; a token removed between two reads of one request | `Registry` |
| Decryption: `src/native/interface.c`, `server/util/CryptoTool` | C globals, OpenSSL's table of algorithms, derived certificates, two `Cipher` objects, the lock of the class | both `AESDecrypt` methods, the native `security` | everything is shared by all parser and HTTP threads; a key of which half is not initialised; early returns under the lock | `CryptoTool`, `Decoding`, `DecodingProofs`, `OutcomeProofs` |
| Layout cache: `server/GlobalReference` | a bounded `HashMap` shared by all threads that write to Graylog | `getLayout` | unsynchronised check, eviction and insertion | `LayoutCache`, `Decoding`, `OutcomeProofs` |
| GELF encoders, UDP transport and chunking: `gelf/encoder/*`, `GelfUdpTransport` | none | pure conversions; the server only uses TCP | none that the server reaches | no |
| Queries, statistics, push, JVM statistics, filters, RSA and digests | none | read-only handlers, calls of services | none | no |

How they interact.  An HTTP thread admits a log file, stores it in `temp/` and
submits a parse task; the task sends every line to `GraylogClientService.write` and
to a local text file, and hands that file to `WeedFSClientService.write`.  Each line is
decrypted by `CryptoTool` and formatted with a layout of `GlobalReference`; requests
and the retry task use the same two classes at the same time.  Crash
reports and attachments go to the weed pipeline directly, and the reader thread of
the weed pipeline sends a message to Graylog for every stored crash report.  Both
clients park what they cannot take in MongoDB; `retryPutQueue` reads one page of
each collection per tick and calls the two `write` methods again.  `clearFiles`
deletes files older than the configured time to live under everybody's feet.
A client first gets a token with the public key of its application, and encrypts its
reports and log files with it; the report of its user is answered with `granted`,
which depends on the global configuration the administrator edits at the same time.

## 2. Modules and their correspondence to the code

Every map entry of `PROJECT.json` names the source lines a definition models.

**`UploadLedger`** is the abstract promise of the weed pipeline: every upload is
accepted once; its bytes are then on disk, stored, dropped or aged; bytes leave the
disk only if they are stored, dropped or too old; file metas are saved only for
stored bytes.  It knows no queue, thread or connection.

**`WeedFS`** is the pipeline.  One process per upload is the caller of `write()`
(an HTTP thread or a parse task), `Retriers` are executions of `retryPutQueue`, one
event loop runs the channel handlers, and every connection has its own writer and
reader thread while queues, map, disk and database are shared, as in the code.
`write()` is split at every access to shared state: the test of `connected`, the
test of `serverError`, the blocking `put`, the entry into `weedMetaMap`, the
deletion, the save.  `channelActive` is two steps because callers may run between
`connected.set(true)` and `serverError.set(false)`.  The reader's handling of an
answer is three steps (look-up and save; for a crash report the call of graylog's
`send()`; map removal and file deletion).  That call may wait for room in graylog's
queue, and while it waits the event loop may come to wait for the reader: nothing in the
specification makes it return.  An upload has a key (`KeyOf`) and a file name
(`FileOf`), which is the key with the extension: two uploads of one attachment share the
first and perhaps the second.  `Arrive` completes the file, `CheckSum` looks at it
afterwards, when it may be another upload's or gone.  A file is
represented by the upload whose bytes it has, so that a second upload under the same
name, the answer to an older submission and a retry of a finished upload can be told
apart.  The weed server is external: it answers submissions in order with one of the
`Replies` (201 complete, 201 incomplete, 201 empty, 500, other).

**`Graylog`** has the same shape: callers, retry task, event loop, and one
`GelfSenderThread` per connection.  `GelfMessage.logMessage` is modelled by the
field `linked`; `createMessage` never sets it, which is why the thread's branches for
"failed" and "retry successful" behave as they do.  `SetListener` is a step of its
own, since the transport begins to connect in its constructor.  `writeAndFlush` puts a
message into the outbound buffer of the channel, from which netty (`Flush`, external)
delivers it; what is in the buffer when the channel closes is `cut`, and the ignored
future tells nobody.  `ExpireRecord` is the TTL index `create()` makes on the collection
of parked messages.

**`Intake`** models a log file as the sequence of the kinds of its records.
Admission (`queueCapacity` and its buffer), transfer, submission, the thread pool
with its bounded queue, opening, one step per record, and `result()`.  `Failing`
names files for which calls to the file system and the database may fail.  `Batches`
are the sets of files that may arrive together; a behaviour has one of them.  What the
rest of the server does to a parse task is in the model as a choice: the class
`CryptoTool` may be unusable (`library`), and the Error of its first use ends the task
without `result()` (`ParseDies`); a race in the layout cache may throw into the parser or
catch its thread in a cycle (`Raced`, `ParseOutputThrows`, `ParseSpins`); `clearFiles`,
a job of the same pool, deletes old files of `temp/` and `error/` (`JobClears`); and the
queues of the two clients may be full (`blocked`), so that a `write()` waits.

**`CryptoTool`** is the native function `security` and the two `AESDecrypt` methods
that surround it.  Taking the lock of the class, the look-up of the certificate, the
registration of OpenSSL's algorithms, the search for cipher and digest, the derivation,
the entry in `keyMap`, `Cipher.init`, which may fail, and `doFinal` are steps of their own, so what the
lock protects can be seen when it is taken away.  A key is the sequence of its two halves: `EVP_BytesToKey`
fills 32 bytes of the 64 that `security` copies, so the other half is any member of
`Garbage`.  A chunk is one of four kinds, named for how it decrypts.

**`LayoutCache`** is `getLayout`, one step per access to the `HashMap`.  While another
thread removes or puts, a look-up may miss, a change or its count may be lost, the
iterator may throw, and two puts may close a bucket to a cycle, in which later calls
spin (the build targets Java 7).  Eviction is as the code has it: it brings the map
down to `MAX_CAPACITY` *before* the put.

**`Decoding`** composes the two by their callers: a log line is decrypted twice (tag and
message) and then formatted, a payload is decrypted once, a message that is sent again
is only formatted.  `Intake` takes the kind of a record for a property of the record;
`OwnOutcome` is what justifies that, and names the three exceptions: an unusable class and
a race in the cache are choices of `Intake`, a record whose own call of OpenSSL or of a
cipher fails is one of its "damaged" ones.
**`DecodingThreads`** holds the constants the two parts share.

**`Registry`** has the HTTP handlers that share the other MongoDB collections.  A
database call is one step, a handler several: read, change, find and write for the
configuration, count and save for profiles, find and insert for the upsert of a user,
look-up, load and put for the key cache.  A token request looks for the application's
token, stores it again or replaces it if it is expired, or makes one that carries the
public key; a report reads its token twice and then its application.  The order of
these calls is that of spring security's `DefaultTokenServices`, which is external.  `findOne` without a sort may return any
document.  `keyPairMap` is a `LinkedHashMap` without a lock, so while another thread
puts, a look-up may miss and a put may be undone.  `removeClient` is modelled as it is
written: it keeps the named clients that are *not* in the list.  The record `hist` only
remembers what the properties speak of; `hist.serial` is the configuration that results
from all completed updates one after the other, `hist.named` the applications an
administrator named in a grant that passed the check of `addGrantClient` or in a removal.

What makes each component correct: the pipeline and the Graylog client must not lose
what they accepted (except where a property names the exception), the intake must hand
on or keep every file and process what it accepted, the handlers of `Registry` must
keep issued keys and tokens usable and apply updates in full, and a record must become
what it is, whatever other threads decode.

**`MCWeedFS`, `MCGraylog`, `MCIntake`, `MCRegistry`, `MCDecoding`** give the constants values.  Definitions
commented "Faulty variant" are not used by the specifications: each one is a
plausible mistake in the definition that follows it, and the property named for it in
`PROJECT.json` fails when it is put in its place.

## 3. Runs

| Run | Shows |
|---|---|
| `weed_faults` | `NothingVanishes` and the refinement of `UploadLedger` with every kind of answer, failing calls, expiry, a lost connection and the retry task, for a crash report and for a log file |
| `weed_retry` | `ClosedIsSettled`, `NotLeftBehind`, `ParkedRecordsClose`, `EventLoopProgress` for a crash report over two connections, with two submissions under way, queues of capacity one and the retry task |
| `weed_progress` | `RecordedIsStored`, `CallersReturn`, `MapEntriesCleared` with queues of capacity one and two uploads of one attachment, with one file name or with two |
| `weed_latemap` | violation of `AnsweredLogIsSaved`: the answer overtakes the map entry |
| `graylog_safety` | `MessageKept`, `SenderTakesOne`, `NoDuplicates` over two connections with a message whose caller is interrupted and whose record expires, one whose save fails and one that cannot be formatted |
| `graylog_progress` | `QueueDrains`, `CallersReturn`, `RecordsResent` |
| `graylog_polled` | violation of `PolledIsKept`: the polled message dies with its thread |
| `graylog_marked` | violation of `ResentIsMarked`: resent records stay NORMAL |
| `intake_parse` | `CompleteIsHandedOn`, `DamagedIsQuarantined`, `AcceptedIsProcessed` with failing calls, odd file names, races in the layout cache, an unusable `CryptoTool`, full queues, expiry and a scheduled task in the pool; `NoRejection`: the buffer makes up for the check-then-submit gap |
| `intake_broken` | violation of `ParseErrorsAreKept`: a truncated gzip stream counts as success |
| `decoding` | `TestedIsUsed`, `OwnOutcome`, `CacheBounded`, `LockReleased` with two threads, lines of an old and a new client, failing library calls and more templates than the cache takes |
| `registry` | `IssuedKeyWorks`, `IssuedTokenWorks`, `SerialUpdatesApply`, `OnlyNamedAreTold`, `InsertRacesBounded` with two handlers, two applications, expiring tokens, failing calls and restarts |

What the properties do not say, so that a run is not read for more:

- `NothingVanishes` and the ledger take deletion because of `serverError` for a way out,
  as the code does, and a file that stays on disk satisfies them: they do not catch a meta
  that dies with its writer thread.  `NotLeftBehind` does, while the first connection
  lasts; `ParkedRecordsClose` does for records of the retry task.
- `MessageKept` names every way out of the Graylog client: expiry of the record, the
  buffer of a closed channel, the hands of a stopped thread.  It says there is no other.
  `SenderTakesOne` is about the last of these only: a connection can cost as many
  messages as its channel had buffered.
- `CompleteIsHandedOn` and `DamagedIsQuarantined` have as premises what other components
  must give a file: `CryptoTool` was loaded, no race in the layout cache hits its lines
  (`OwnOutcome` says when), none of its own calls fails, it is younger than the ttl.
- `OnlyNamedAreTold` allows that a client is granted because it was named in a removal:
  that is what `removeClient` does, and nothing in the repository says what it should do.

The four violations are disagreements between the code and its own comments; each
one has a finding in `PROJECT.json` with the quoted line.

### Bounds

`MaxConn` bounds the connections established in a behaviour; two are enough for an
old and a new thread to share a queue, and a third only repeats that.  `MaxInFlight`
bounds the submissions whose answer no reader has taken; it is a guard of
`WriterSubmit` only.  `MaxBuffered` bounds the
outbound buffer: two in `graylog_safety`, so that a closing channel cuts off more than one
message, one where progress is checked.  `Capacity` is one in most runs, so that every `put` can block
and "queue full" is reached with two callers.  `PageLimit` is one or covers all
records, the two cases that differ.  `MaxSent` caps a counter of writes; the
duplicate it would hide is visible one step earlier, as a queued copy.
`MaxRequests` bounds the HTTP requests between check and submission; it is a
premise of `NoRejection`, which fails without it.  In `Registry` it bounds the
requests of a behaviour, but for those on applications: three are a token, a grant and a report, or two
overlapping first inserts and a later read; three document ids and profile ids let a
third insert show, and three tokens a new one beside two that were made at the same
time.  In `Decoding` the capacity of the cache is one and `MaxDrift`, the difference
between entries and count that races may pile up, is one: four templates then take two
threads past the capacity, and eviction, its failure and a wrong count all happen.
Two values of `Garbage` are enough to tell two certificates of one application apart.
The workloads are checked one at a time: one mixes everything that is decrypted, the
other fills the cache.  The symmetry of `MCRegistry` is sound because all users have the
same level and only invariants are checked; new tokens and documents get any unused id,
so these need none.  Every set of uploads, messages
and files is as small as the property allows: interference needs two uploads, or one
upload and its own retry.  Two runs leave a kind of event to the others: `graylog_progress`
has no expiring record (it passes with one, beyond five minutes), and no passing run has a
`Malformed` message, which `createMessage` turns into nothing.  `CHECK_DEADLOCK FALSE` is set for `Intake`, where the
finite set of uploads may all be done.

### Fairness

Threads are weakly fair: callers, event loop, writer, reader and sender threads,
pool threads, netty's flush.  The retry and memory tasks are scheduled for ever.  The weed
server is assumed to answer what it receives.  In `Graylog` a blocked `put` is strongly
fair: waiters of a `LinkedBlockingQueue` are woken in turn, and the retry task that
could overtake them runs once in five minutes.  Nothing makes a connection succeed
or stay, a file arrive or time pass, and nothing makes a blocking call into another
component return: where a property needs that, it says so.  `StableLink` and `Calm` are
the premises on connection and answers.  `SendsReturn` is the premise of all four liveness
properties of `WeedFS` that graylog's `send()` lets the reader go again and again; what
justifies it is `CallersReturn` of `Graylog`, which in turn needs a graylog connection
that stays.  Without it the code really stops: reader, then event loop, then callers.
`AcceptedIsProcessed` of `Intake` has the premises that the queues of both clients have
room again and again (`[]<>~blocked`, by the two `CallersReturn`) and that no thread is
caught in a cycle of the layout cache; a thread that waits in `write()` is strongly fair
(`Waiting`), for a waiter of a `LinkedBlockingQueue` gets its turn.  `LockReleased` needs only that the thread that holds the lock
runs; a Java monitor is not fair, and nothing here assumes that a waiting thread gets it.

## 4. Proofs

Every invariant of section 3 is also a theorem, so it holds for every value of the
constants: any number of uploads, messages, files, threads, connections, retry tasks,
handlers and requests, and any capacity.  Each theorem rests only on the named
assumption of the module that declares the constants.  These say what the names mean
(`None` is no member of a data set, kinds of uploads, messages or files do not overlap
where the code tells them apart), that bounds and capacities are numbers and that sets
are finite where members are counted.  TLC evaluates them in every run.

| Module | Theorem | States |
|---|---|---|
| `WeedFSProofs` | `TypeCorrect`, `UploadsNeverVanish`, `MetasReferToStored`, `ClosedRecordsAreSettled` | `SafeSpec => []` `TypeOK`, `NothingVanishes`, `RecordedIsStored`, `ClosedIsSettled` |
| | `ImplementsLedger` | `SafeSpec => LedgerSpec` |
| `TrackingProofs` | `FilesAreTracked` | `SafeSpec => []NotLeftBehind` |
| `GraylogProofs` | `TypeCorrect`, `Kept`, `OneLoss`, `Once` | `SafeSpec => []` `TypeOK`, `MessageKept`, `SenderTakesOne`, `NoDuplicates` |
| `IntakeProofs` | `TypeCorrect`, `RoomForRequests`, `Quarantined`, `HandedOn` | `SafeSpec => []` `TypeOK`, `NoRejection`, `DamagedIsQuarantined`, `CompleteIsHandedOn` |
| `RegistryProofs` | `TypeCorrect`, `KeyWorks`, `TokenWorks`, `SerialUpdates`, `NamedAreTold` | `Spec => []` `TypeOK`, `IssuedKeyWorks`, `IssuedTokenWorks`, `SerialUpdatesApply`, `OnlyNamedAreTold` |
| `RegistryRacesProofs` | `RacesBounded` | `Spec => []InsertRacesBounded` |
| `DecodingProofs` | `GlobalsAreProtected` | `SafeSpec => []TestedIsUsed` |
| `OutcomeProofs` | `TypeCorrect`, `OutcomesAreOwn`, `CacheIsBounded` | `SafeSpec => []` `TypeOK`, `OwnOutcome`, `CacheBounded` |

No property but the type invariants comes close to being inductive; what each proof adds:

**`WeedFSProofs`.**  The inductive invariant is the conjunction of `TypeOK`, `HandsFull` (a
thread in the middle of its work holds what it works on, a retry task a record),
`AnswersTruthful` (every complete 201 on its way, in the event loop, in the read queue or
in a reader's hands is for stored bytes), `AllKnown` (what any queue, record, map entry or
thread names has been accepted), and the three properties.  That the reader may delete a
file rests on `AnswersTruthful`, that the writer may close a record on `NothingVanishes`
and `AllKnown`, and that the steps of threads are type correct on `HandsFull`.  The
refinement needs the invariant in the current state only.

**`TrackingProofs`.**  `NotLeftBehind` speaks of calls of `write()` that have returned; the
invariant begins at the put, when the caller has still to fill the map (`Answerable`,
`AllTracked`).  Until the first connection is lost, the only writer and reader that run
are its own, the channel is active, and a waiting reader holds nothing (`OneWriter`,
`OneReader`), so a meta or an answer is never overwritten or taken along by a thread that
ends; all answers are complete (`AllCreated`), so none is ignored.  `NoChannelYet` makes
"the connection was never lost" a fact that no later step restores.

**`GraylogProofs`.**  A lost message is the last thing its thread did: the thread is dead, its
channel gone, and threads of later connections have not started (`LossIsFinal`).
`MessageKept` is inductive once a thread that sends has a message; every action that
takes a message from one place puts it into another or into one of the three exits.  For `NoDuplicates` the
count of copies is replaced by the statement that a message is in at most one place of
the queue, in one thread's hands, or written once (`OnePlace`), and in none before its
caller has put it; a retry task only writes what has a record (`RetriedIsParked`).

**`IntakeProofs`.**  Every task is in exactly one place of the queue or one thread of the pool
(`TaskPlaces`); that is what makes the steps of a file independent of the others
(`OwnSteps`), and it makes the room in the queue countable (`RoomInv`).  `Quarantine`
and `Complete` say where the task of a damaged and of a sound file stands: the parser does
not come past the damaged record, and what it has written are the lines before its position.
`InTemp` says that a file which cannot expire is in `temp/` as long as its task needs it,
whatever `clearFiles` deletes meanwhile.

**`RegistryProofs`.**  What a handler in the middle of its request has found is still true
or outdated in a harmless way (`HandlerOK`): the token it will remove is expired, the pair
it will put is that of its application, a missing pair means a deleted application.  With
`DocumentsOK` (issued tokens are stored or expired, registered applications have their
pair) the first two properties follow.  For the configuration, `AloneInv` derives from the
recorded history that only one handler of a kind runs, and `OneConfig` that its copy is the
result of all updates before it.  `OnlyNamedAreTold` needs neither: `NamedInv` says that
every document, every copy a handler is changing and every request past its check grant
only who has been named, which overlapping updates keep as well.

**`RegistryRacesProofs`.**  A handler that has looked and found nothing will insert.
Documents and such handlers together stay within the bound (`RoomInv`): a handler joins
them only while there is no document, and an insert takes one from the handlers as it adds
one to the documents.  Tokens have a separate invariant (`OneToken`), for requests that do
not overlap.

**`DecodingProofs`.**  `TestedIsUsed` holds because a thread is between entry and exit of
`AESDecrypt` exactly if it owns the lock (`OwnerIsInside`), which in turn needs that
`AESDecrypt` is only called by a thread that is not in it already (`CalledByDecrypt`).

**`OutcomeProofs`.**  With the lock, all that a thread needs of the shared state stays as it
is during its call: the certificate is that of its application and the shared `Cipher` has
its key until `doFinal` (`CallOK`).  `TextsOK` says that the texts so far come from the
record's own chunks, `FormatOK` that the layout is that of its own template, and
`ResultOK` is the property itself.  The bound of the cache counts the threads that have
decided to put: entries and decided puts together stay within `MAX_CAPACITY` plus the
number of threads (`CacheInv`).

What the proofs changed in the model.  An earlier `InsertRacesBounded` bounded tokens by
the number of handlers.  That held on the instance TLC checks and is false with more
requests: after one race an application has two tokens, and when one of them expires, each
handler that comes upon it makes a new one.  The property now says what the code
guarantees, one token document unless requests overlap.  That a payload, a record of one
chunk, has no layout template was a comment of `Decoding`; `OwnOutcome` needs it, and the
set `Record` now says so.

Only model-checked: the liveness properties (`ParkedRecordsClose`, `CallersReturn`,
`MapEntriesCleared`, `EventLoopProgress`, `QueueDrains`, `RecordsResent`,
`AcceptedIsProcessed`, `LockReleased`), since fairness and ENABLED are beyond the prover.
The properties of the four runs that expect a violation are false and need no proof.

## 5. Plan

1. Abstract specifications of the Graylog client and of the log file intake, in the manner
   of `UploadLedger`, with the refinements proved from the invariants above.
2. A composition of `Intake` with the promises of the two clients, so that an
   accepted log file can be followed to its stored bytes.

## 6. Not modelled

Queries, statistics and push only read state or call a service; JVM and process
statistics, filters, configuration beans and entity accessors hold no logic of their
own; RSA and checksums are library calls whose outcome is a nondeterministic choice
where the control depends on it.  The files under `src/native/include` are the
declarations of OpenSSL, which is third-party code; the functions of it that
`interface.c` calls are modelled where they are called.  That the Java VM runs out of
memory inside the native function is left out.  A caller of `WeedFSClientService.write`
that is interrupted in `put` (lines 247-249) neither queues nor records its upload; the
code interrupts its callers only when the process ends, so the path is left out.  The documents of refresh
tokens are no state of `Registry`: the answer to a token request drops the refresh token,
so no request ever presents one.  The chunk encoder and the
UDP transport of the GELF client are never chosen by the server.  The front end is
outside the server.
