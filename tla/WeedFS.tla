------------------------------- MODULE WeedFS -------------------------------
(***************************************************************************)
(* The upload pipeline between logful's disk, its database and the weed    *)
(* master (com.getui.logful.server.weed, schedule.ScheduledTasks).         *)
(*                                                                         *)
(* Callers (HTTP threads and parse tasks, one per upload, and the retry    *)
(* task) run WeedFSClientService.write; one netty event loop handles the   *)
(* channel; every established connection owns one writer and one reader    *)
(* thread, while both queues, weedMetaMap, the disk and the database are   *)
(* shared by all of them.                                                  *)
(*                                                                         *)
(* An upload stands for its file contents and its metadata.  Its file name *)
(* is its key and the extension of the uploaded file.  The key of a log    *)
(* file or of a crash report is a random UUID, the key of an attachment is *)
(* derived from its id: two uploads of one attachment share the key, and,  *)
(* if their extensions agree, the file name.                               *)
(***************************************************************************)
EXTENDS Integers, Sequences, FiniteSets

CONSTANTS
    Uploads,      \* uploaded files, one call of write() each
    Batches,      \* the sets of uploads that may come in one behaviour
    KeyOf,        \* [Uploads -> keys]
    FileOf,       \* [Uploads -> file names in the weed directory]
    Crash,        \* the uploads that are crash reports
    Attachment,   \* the uploads that are attachments; all others are logs
    Retriers,     \* concurrent executions of ScheduledTasks.retryPutQueue
    MaxConn,      \* bound on the number of connections established
    MaxInFlight,  \* bound on the submissions no reader has taken the answer of
    Capacity,     \* weed.queueCapacity, the capacity of both queues
    PageLimit,    \* ScheduledTasks.PAGE_LIMIT
    Replies,      \* kinds of answer the weed master may give
    Faults,       \* TRUE: database, checksum and graylog calls may fail
    Expiring,     \* uploads that may outlive the configured ttl
    None

AllReplies == {"created", "malformed", "empty", "error", "other"}

Keys == {KeyOf[u] : u \in Uploads}
Names == {FileOf[u] : u \in Uploads}
Conns == 1 .. MaxConn
Procs == Uploads \cup Retriers

\* A WeedFSMeta object in memory: its upload, and whether it carries a database id.
Meta == [up : Uploads, id : BOOLEAN]

\* An answer of the weed master to the submission of the contents "up".
Reply == [code : AllReplies, up : Uploads]

ASSUME ConstantsAssumption ==
    /\ Crash \subseteq Uploads
    /\ Attachment \subseteq Uploads \ Crash
    /\ Expiring \subseteq Uploads
    /\ Batches \subseteq SUBSET Uploads
    /\ Uploads \cap Retriers = {}
    /\ MaxConn \in Nat \ {0}
    /\ MaxInFlight \in Nat \ {0}
    /\ Capacity \in Nat \ {0}
    /\ PageLimit \in Nat \ {0}
    /\ Replies \subseteq AllReplies
    /\ Faults \in BOOLEAN
    /\ None \notin Uploads \cup Keys \cup Meta \cup Reply

\* Only attachments can share a key with another upload; a file name has one key.
ASSUME KeysAssumption ==
    \A u, v \in Uploads :
        /\ KeyOf[u] = KeyOf[v] => u = v \/ {u, v} \subseteq Attachment
        /\ FileOf[u] = FileOf[v] => KeyOf[u] = KeyOf[v]

VARIABLES
    disk,         \* each file in the weed directory: the upload whose bytes it has
    status,       \* WeedFSMeta document of each upload in the database, or "none"
    connected,    \* WeedFSClientService.connected
    serverError,  \* WeedFSClientService.serverError
    writeQueue,   \* Queue.writeQueue
    readQueue,    \* Queue.readQueue
    weedMetaMap,  \* key -> meta waiting for its answer
    pc,           \* where each caller is in write() or retryPutQueue()
    cur,          \* the record each retry task is writing
    todo,         \* the records each retry task has still to write
    conn,         \* number of the latest established connection
    link,         \* phase of the channel
    ev,           \* answer the event loop is putting into readQueue
    wire,         \* submissions the master has not answered yet
    resp,         \* answers not yet read from the channel
    wpc, held,    \* writer thread of each connection: pc, weedFSMeta
    rpc, rheld,   \* reader thread of each connection: pc, weedFSMeta
    sweep,        \* key clearMemory found without a file, about to be removed
    aged,         \* uploads older than the ttl
    stored,       \* contents the weed master has stored
    docs,         \* saved file metas: <<upload of the meta, contents its fid names>>
    dropped       \* files deleted by write() because of serverError

diskVars   == <<disk, status>>
flagVars   == <<connected, serverError>>
queueVars  == <<writeQueue, readQueue, weedMetaMap>>
callerVars == <<pc, cur, todo>>
chanVars   == <<conn, link, ev, wire, resp>>
writerVars == <<wpc, held>>
readerVars == <<rpc, rheld>>
resultVars == <<stored, docs, dropped>>
vars == <<diskVars, flagVars, queueVars, callerVars, chanVars, writerVars,
          readerVars, sweep, aged, resultVars>>

TypeOK ==
    /\ disk \in [Names -> Uploads \cup {None}]
    /\ status \in [Uploads -> {"none", "normal", "deleted"}]
    /\ connected \in BOOLEAN
    /\ serverError \in BOOLEAN
    /\ writeQueue \in Seq(Meta)
    /\ readQueue \in Seq(Reply)
    /\ weedMetaMap \in [Keys -> Meta \cup {None}]
    /\ pc \in [Procs -> {"none", "sum", "write", "check", "drop", "put", "map",
                         "save", "done", "idle", "find", "next"}]
    /\ cur \in [Retriers -> Uploads \cup {None}]
    /\ todo \in [Retriers -> SUBSET Uploads]
    /\ conn \in 0 .. MaxConn
    /\ link \in {"connecting", "opening", "up", "closed", "waiting"}
    /\ ev \in Reply \cup {None}
    /\ wire \in Seq(Uploads)
    /\ resp \in Seq(Reply)
    /\ wpc \in [Conns -> {"new", "top", "await", "last", "send", "dead"}]
    /\ held \in [Conns -> Meta \cup {None}]
    /\ rpc \in [Conns -> {"new", "top", "handle", "graylog", "remove", "delete", "dead"}]
    /\ rheld \in [Conns -> Reply \cup {None}]
    /\ sweep \in Keys \cup {None}
    /\ aged \subseteq Uploads
    /\ stored \subseteq Uploads
    /\ docs \subseteq Uploads \X Uploads
    /\ dropped \subseteq Uploads

Init ==
    /\ disk = [n \in Names |-> None]
    /\ status = [u \in Uploads |-> "none"]
    /\ connected = FALSE
    /\ serverError = FALSE
    /\ writeQueue = <<>>
    /\ readQueue = <<>>
    /\ weedMetaMap = [k \in Keys |-> None]
    /\ pc = [p \in Procs |-> IF p \in Uploads THEN "none" ELSE "idle"]
    /\ cur = [r \in Retriers |-> None]
    /\ todo = [r \in Retriers |-> {}]
    /\ conn = 0
    /\ link = "connecting"
    /\ ev = None
    /\ wire = <<>>
    /\ resp = <<>>
    /\ wpc = [c \in Conns |-> "new"]
    /\ held = [c \in Conns |-> None]
    /\ rpc = [c \in Conns |-> "new"]
    /\ rheld = [c \in Conns |-> None]
    /\ sweep = None
    /\ aged = {}
    /\ stored = {}
    /\ docs = {}
    /\ dropped = {}

-----------------------------------------------------------------------------
(***************************************************************************)
(* An upload reaches the weed directory and write() is called for it.      *)
(***************************************************************************)

\* The HTTP thread of a crash report or an attachment turns it down while the
\* write queue is full; a parse task checks nothing and may block in put().
Admitted(u) ==
    u \in Crash \cup Attachment => Len(writeQueue) < Capacity

Accepted == {u \in Uploads : pc[u] # "none"}

\* The file is complete in the weed directory.  That of a log was written there by
\* its parse task; the others were transferred, and their sum is not checked yet.
Arrive(u) ==
    /\ pc[u] = "none"
    /\ \E B \in Batches : Accepted \cup {u} \subseteq B
    /\ Admitted(u)
    /\ disk' = [disk EXCEPT ![FileOf[u]] = u]
    /\ pc' = [pc EXCEPT ![u] = IF u \in Crash \cup Attachment THEN "sum" ELSE "write"]
    /\ UNCHANGED <<status, flagVars, queueVars, cur, todo, chanVars, writerVars,
                   readerVars, sweep, aged, resultVars>>

\* The sum of the file is computed, which by now may be gone or have the bytes of
\* another upload.  If it is not the announced one the request fails and the file
\* stays.  Different uploads may have equal bytes.
CheckSum(u) ==
    /\ pc[u] = "sum"
    /\ \/ disk[FileOf[u]] # None /\ pc' = [pc EXCEPT ![u] = "write"]
       \/ (disk[FileOf[u]] # u \/ Faults) /\ pc' = [pc EXCEPT ![u] = "done"]
    /\ UNCHANGED <<diskVars, flagVars, queueVars, cur, todo, chanVars, writerVars,
                   readerVars, sweep, aged, resultVars>>

-----------------------------------------------------------------------------
(***************************************************************************)
(* WeedFSClientService.write(meta), step by step.                          *)
(***************************************************************************)

\* The meta a caller passes to write(): fresh, or a record read from the database.
MetaOf(p) == IF p \in Uploads THEN [up |-> p, id |-> FALSE]
                              ELSE [up |-> cur[p], id |-> TRUE]

KeyFor(p) == KeyOf[MetaOf(p).up]
NameFor(p) == FileOf[MetaOf(p).up]

\* Where a caller continues when write() returns.
Returned(p) == IF p \in Uploads THEN "done" ELSE "next"

Return(p) == pc' = [pc EXCEPT ![p] = Returned(p)]

\* if (connected.get()) ... else save
WriteCheckConnected(p) ==
    /\ pc[p] = "write"
    /\ pc' = [pc EXCEPT ![p] = IF connected THEN "check" ELSE "save"]
    /\ UNCHANGED <<diskVars, flagVars, queueVars, cur, todo, chanVars,
                   writerVars, readerVars, sweep, aged, resultVars>>

\* if (!serverError.get()) put else drop.  The connection may be lost by now.
WriteCheckError(p) ==
    /\ pc[p] = "check"
    /\ pc' = [pc EXCEPT ![p] = IF serverError THEN "drop" ELSE "put"]
    /\ UNCHANGED <<diskVars, flagVars, queueVars, cur, todo, chanVars,
                   writerVars, readerVars, sweep, aged, resultVars>>

\* queue.writeQueue.put(meta), which blocks while the queue is full.
WritePut(p) ==
    /\ pc[p] = "put"
    /\ Len(writeQueue) < Capacity
    /\ writeQueue' = Append(writeQueue, MetaOf(p))
    /\ pc' = [pc EXCEPT ![p] = "map"]
    /\ UNCHANGED <<diskVars, flagVars, readQueue, weedMetaMap, cur, todo,
                   chanVars, writerVars, readerVars, sweep, aged, resultVars>>

\* weedMetaMap.put(meta.getKey(), meta)
WriteMap(p) ==
    /\ pc[p] = "map"
    /\ weedMetaMap' = [weedMetaMap EXCEPT ![KeyFor(p)] = MetaOf(p)]
    /\ Return(p)
    /\ UNCHANGED <<diskVars, flagVars, writeQueue, readQueue, cur, todo,
                   chanVars, writerVars, readerVars, sweep, aged, resultVars>>

\* The master reported an error: the file is deleted and the meta forgotten.
WriteDrop(p) ==
    /\ pc[p] = "drop"
    /\ disk' = [disk EXCEPT ![NameFor(p)] = None]
    /\ dropped' = dropped \cup ({disk[NameFor(p)]} \ {None})
    /\ Return(p)
    /\ UNCHANGED <<status, flagVars, queueVars, cur, todo, chanVars, writerVars,
                   readerVars, sweep, aged, stored, docs>>

\* weedQueueRepository.save(meta): the object's status is still STATE_NORMAL.
\* A failing save propagates to the caller: an upload is lost, a retry task ends.
WriteSave(p) ==
    /\ pc[p] = "save"
    /\ \/ /\ status' = [status EXCEPT ![MetaOf(p).up] = "normal"]
          /\ Return(p)
       \/ /\ Faults
          /\ pc' = [pc EXCEPT ![p] = IF p \in Uploads THEN "done" ELSE "idle"]
          /\ UNCHANGED status
    /\ UNCHANGED <<disk, flagVars, queueVars, cur, todo, chanVars, writerVars,
                   readerVars, sweep, aged, resultVars>>

Write(p) ==
    \/ WriteCheckConnected(p)
    \/ WriteCheckError(p)
    \/ WritePut(p)
    \/ WriteMap(p)
    \/ WriteDrop(p)
    \/ WriteSave(p)

-----------------------------------------------------------------------------
(***************************************************************************)
(* ScheduledTasks.retryPutQueue                                            *)
(***************************************************************************)

\* resetServerError(); the graylog half of the task follows.
RetryBegin(r) ==
    /\ pc[r] = "idle"
    /\ serverError' = FALSE
    /\ pc' = [pc EXCEPT ![r] = "find"]
    /\ UNCHANGED <<diskVars, connected, queueVars, cur, todo, chanVars,
                   writerVars, readerVars, sweep, aged, resultVars>>

\* findAllNotWriteLimit(PAGE_LIMIT): some records in state NORMAL, unordered.
NotWritten == {u \in Uploads : status[u] = "normal"}

Pages == {S \in SUBSET NotWritten :
            Cardinality(S) = IF Cardinality(NotWritten) < PageLimit
                             THEN Cardinality(NotWritten) ELSE PageLimit}

\* The weed half starts if the service is connected and no exception of the
\* graylog half has ended the task.
RetryFind(r) ==
    /\ pc[r] = "find"
    /\ \/ /\ connected
          /\ \E S \in Pages : todo' = [todo EXCEPT ![r] = S]
          /\ pc' = [pc EXCEPT ![r] = "next"]
       \/ /\ ~connected \/ Faults
          /\ pc' = [pc EXCEPT ![r] = "idle"]
          /\ UNCHANGED todo
    /\ UNCHANGED <<diskVars, flagVars, queueVars, cur, chanVars, writerVars,
                   readerVars, sweep, aged, resultVars>>

\* for (WeedFSMeta weedFSMeta : weedFSMetaList) write(weedFSMeta)
RetryNext(r) ==
    /\ pc[r] = "next"
    /\ \/ \E u \in todo[r] :
            /\ cur' = [cur EXCEPT ![r] = u]
            /\ todo' = [todo EXCEPT ![r] = @ \ {u}]
            /\ pc' = [pc EXCEPT ![r] = "write"]
       \/ /\ todo[r] = {}
          /\ cur' = [cur EXCEPT ![r] = None]
          /\ pc' = [pc EXCEPT ![r] = "idle"]
          /\ UNCHANGED todo
    /\ UNCHANGED <<diskVars, flagVars, queueVars, chanVars, writerVars,
                   readerVars, sweep, aged, resultVars>>

Retry(r) == RetryBegin(r) \/ RetryFind(r) \/ RetryNext(r)

-----------------------------------------------------------------------------
(***************************************************************************)
(* The channel: connection life cycle and inbound handler, all run by the  *)
(* one event loop the reconnections are scheduled on.                      *)
(***************************************************************************)

\* AtomicBoolean running of the threads of connection c: stop() has not been called.
Running(c) == c = conn /\ link \in {"up", "closed"}

\* channel.isActive() as seen by the writer of connection c.
Active(c) == c = conn /\ link = "up"

\* The connection is established; channelActive sets connected first.
Connected ==
    /\ link = "connecting"
    /\ conn < MaxConn
    /\ conn' = conn + 1
    /\ link' = "opening"
    /\ connected' = TRUE
    /\ UNCHANGED <<diskVars, serverError, queueVars, callerVars, ev, wire, resp,
                   writerVars, readerVars, sweep, aged, resultVars>>

\* operationComplete without success schedules a reconnection.
ConnectFailed ==
    /\ link = "connecting"
    /\ link' = "waiting"
    /\ UNCHANGED <<diskVars, flagVars, queueVars, callerVars, conn, ev, wire,
                   resp, writerVars, readerVars, sweep, aged, resultVars>>

\* Faulty variant: the writer thread is not started.
ChannelActiveNoWriter ==
    /\ link = "opening"
    /\ link' = "up"
    /\ serverError' = FALSE
    /\ rpc' = [rpc EXCEPT ![conn] = "top"]
    /\ UNCHANGED <<diskVars, connected, queueVars, callerVars, conn, ev, wire,
                   resp, wpc, held, rheld, sweep, aged, resultVars>>

\* channelActive continues: serverError is cleared and both threads start.
ChannelActive ==
    /\ link = "opening"
    /\ link' = "up"
    /\ serverError' = FALSE
    /\ wpc' = [wpc EXCEPT ![conn] = "top"]
    /\ rpc' = [rpc EXCEPT ![conn] = "top"]
    /\ UNCHANGED <<diskVars, connected, queueVars, callerVars, conn, ev, wire,
                   resp, held, rheld, sweep, aged, resultVars>>

\* The peer closes, or exceptionCaught closes: what is in flight is gone.
Close ==
    /\ link = "up"
    /\ link' = "closed"
    /\ wire' = <<>>
    /\ resp' = <<>>
    /\ UNCHANGED <<diskVars, flagVars, queueVars, callerVars, conn, ev,
                   writerVars, readerVars, sweep, aged, resultVars>>

\* Faulty variant: the handler does not wait for the event loop's blocking put.
ChannelInactiveOffLoop ==
    /\ link = "closed"
    /\ link' = "waiting"
    /\ connected' = FALSE
    /\ wpc' = [wpc EXCEPT ![conn] = IF @ = "top" THEN "dead"
                                    ELSE IF @ = "await" THEN "last" ELSE @]
    /\ held' = [held EXCEPT ![conn] = IF wpc[conn] = "top" THEN None ELSE @]
    /\ rpc' = [rpc EXCEPT ![conn] = IF @ = "top" THEN "dead" ELSE @]
    /\ UNCHANGED <<diskVars, serverError, queueVars, callerVars, conn, ev, wire,
                   resp, rheld, sweep, aged, resultVars>>

\* channelInactive: connected is cleared, both threads are stopped and a
\* reconnection is scheduled.  stop() clears running and interrupts: a poll throws
\* and the loop ends, await() is left, other work goes on to the end of the round.
ChannelInactive ==
    /\ link = "closed"
    /\ ev = None
    /\ link' = "waiting"
    /\ connected' = FALSE
    /\ wpc' = [wpc EXCEPT ![conn] = IF @ = "top" THEN "dead"
                                    ELSE IF @ = "await" THEN "last" ELSE @]
    /\ held' = [held EXCEPT ![conn] = IF wpc[conn] = "top" THEN None ELSE @]
    /\ rpc' = [rpc EXCEPT ![conn] = IF @ = "top" THEN "dead" ELSE @]
    /\ UNCHANGED <<diskVars, serverError, queueVars, callerVars, conn, ev, wire,
                   resp, rheld, sweep, aged, resultVars>>

\* The scheduled reconnection runs createBootstrap with new threads.
Reconnect ==
    /\ link = "waiting"
    /\ link' = "connecting"
    /\ UNCHANGED <<diskVars, flagVars, queueVars, callerVars, conn, ev, wire,
                   resp, writerVars, readerVars, sweep, aged, resultVars>>

\* channelRead0: a 201 clears serverError and its body goes to readQueue, a 500
\* sets serverError, any other code is ignored.
ChannelRead ==
    /\ link = "up"
    /\ ev = None
    /\ resp # <<>>
    /\ LET r == Head(resp) IN
        /\ serverError' = IF r.code \in {"created", "malformed", "empty"} THEN FALSE
                          ELSE IF r.code = "error" THEN TRUE ELSE serverError
        /\ ev' = IF r.code \in {"created", "malformed"} THEN r ELSE None
    /\ resp' = Tail(resp)
    /\ UNCHANGED <<diskVars, connected, queueVars, callerVars, conn, link, wire,
                   writerVars, readerVars, sweep, aged, resultVars>>

\* queue.readQueue.put(...) blocks the event loop while the queue is full.
ReadQueuePut ==
    /\ ev # None
    /\ Len(readQueue) < Capacity
    /\ readQueue' = Append(readQueue, ev)
    /\ ev' = None
    /\ UNCHANGED <<diskVars, flagVars, writeQueue, weedMetaMap, callerVars, conn,
                   link, wire, resp, writerVars, readerVars, sweep, aged,
                   resultVars>>

\* The weed master answers the oldest submission (HTTP/1.1 keep-alive: in order).
MasterReply ==
    /\ link = "up"
    /\ wire # <<>>
    /\ \E code \in Replies :
        /\ resp' = Append(resp, [code |-> code, up |-> Head(wire)])
        /\ stored' = IF code = "created" THEN stored \cup {Head(wire)} ELSE stored
    /\ wire' = Tail(wire)
    /\ UNCHANGED <<diskVars, flagVars, queueVars, callerVars, conn, link, ev,
                   writerVars, readerVars, sweep, aged, docs, dropped>>

EventLoop ==
    ConnectFailed \/ ChannelActive \/ ChannelInactive \/ Reconnect \/ ChannelRead
    \/ ReadQueuePut

-----------------------------------------------------------------------------
(***************************************************************************)
(* WeedFSWriteThread of connection c                                       *)
(***************************************************************************)

\* The loop goes on while running; a thread that leaves it takes what it holds
\* with it.
WriterLoops(c, holds) ==
    /\ wpc' = [wpc EXCEPT ![c] = IF Running(c) THEN "top" ELSE "dead"]
    /\ held' = [held EXCEPT ![c] = IF Running(c) THEN holds ELSE None]

\* while (channel == null || !channel.isActive()) connectedCond.await()
WriterAwait(c) ==
    /\ wpc[c] = "top"
    /\ ~Active(c)
    /\ wpc' = [wpc EXCEPT ![c] = "await"]
    /\ UNCHANGED <<diskVars, flagVars, queueVars, callerVars, chanVars, held,
                   readerVars, sweep, aged, resultVars>>

\* weedFSMeta = queue.poll(100, MILLISECONDS); the channel, active when the poll
\* began, may be closed by now.
WriterPoll(c) ==
    /\ wpc[c] = "top"
    /\ held[c] = None
    /\ writeQueue # <<>>
    /\ held' = [held EXCEPT ![c] = Head(writeQueue)]
    /\ writeQueue' = Tail(writeQueue)
    /\ wpc' = [wpc EXCEPT ![c] = "send"]
    /\ UNCHANGED <<diskVars, flagVars, readQueue, weedMetaMap, callerVars,
                   chanVars, readerVars, sweep, aged, resultVars>>

\* Interrupted in await() by stop(), the thread breaks out of the waiting loop,
\* and unless it holds a meta already it polls once more before it ends.
WriterLastPoll(c) ==
    /\ wpc[c] = "last"
    /\ writeQueue' = IF held[c] = None /\ writeQueue # <<>> THEN Tail(writeQueue)
                                                           ELSE writeQueue
    /\ WriterLoops(c, None)
    /\ UNCHANGED <<diskVars, flagVars, readQueue, weedMetaMap, callerVars,
                   chanVars, readerVars, sweep, aged, resultVars>>

\* Submissions whose answer no reader thread has taken yet.
InFlight == Len(wire) + Len(resp) + (IF ev = None THEN 0 ELSE 1) + Len(readQueue)

\* Faulty variant: the file is deleted as soon as it is submitted.
WriterSubmitAndDelete(c) ==
    /\ wpc[c] = "send"
    /\ Active(c)
    /\ disk[FileOf[held[c].up]] # None
    /\ InFlight < MaxInFlight
    /\ wire' = Append(wire, disk[FileOf[held[c].up]])
    /\ disk' = [disk EXCEPT ![FileOf[held[c].up]] = None]
    /\ WriterLoops(c, None)
    /\ UNCHANGED <<status, flagVars, queueVars, callerVars, conn, link, ev, resp,
                   readerVars, sweep, aged, resultVars>>

\* The held meta is submitted with the bytes its file has now.
WriterSubmit(c) ==
    /\ wpc[c] = "send"
    /\ Active(c)
    /\ disk[FileOf[held[c].up]] # None
    /\ InFlight < MaxInFlight
    /\ wire' = Append(wire, disk[FileOf[held[c].up]])
    /\ WriterLoops(c, None)
    /\ UNCHANGED <<diskVars, flagVars, queueVars, callerVars, conn, link, ev,
                   resp, readerVars, sweep, aged, resultVars>>

\* Faulty variants: the wrong state is saved, no state is saved, the record is
\* closed without a look at the file.
WriterMarkSuccessful(c) ==
    /\ wpc[c] = "send"
    /\ Active(c)
    /\ disk[FileOf[held[c].up]] = None
    /\ status' = IF held[c].id THEN [status EXCEPT ![held[c].up] = "successful"]
                               ELSE status
    /\ WriterLoops(c, None)
    /\ UNCHANGED <<disk, flagVars, queueVars, callerVars, chanVars, readerVars,
                   sweep, aged, resultVars>>

WriterMarkNothing(c) ==
    /\ wpc[c] = "send"
    /\ Active(c)
    /\ disk[FileOf[held[c].up]] = None
    /\ WriterLoops(c, None)
    /\ UNCHANGED <<diskVars, flagVars, queueVars, callerVars, chanVars,
                   readerVars, sweep, aged, resultVars>>

WriterMarkAnyway(c) ==
    /\ wpc[c] = "send"
    /\ Active(c)
    /\ status' = IF held[c].id THEN [status EXCEPT ![held[c].up] = "deleted"]
                               ELSE status
    /\ WriterLoops(c, None)
    /\ UNCHANGED <<disk, flagVars, queueVars, callerVars, chanVars, readerVars,
                   sweep, aged, resultVars>>

\* Without a file, a meta that came from the database becomes STATE_DELETED there.
WriterMarkDeleted(c) ==
    /\ wpc[c] = "send"
    /\ Active(c)
    /\ disk[FileOf[held[c].up]] = None
    /\ status' = IF held[c].id THEN [status EXCEPT ![held[c].up] = "deleted"]
                               ELSE status
    /\ WriterLoops(c, None)
    /\ UNCHANGED <<disk, flagVars, queueVars, callerVars, chanVars, readerVars,
                   sweep, aged, resultVars>>

\* Reading the file or saving the record throws, which is ignored.
WriterFails(c) ==
    /\ Faults
    /\ wpc[c] = "send"
    /\ Active(c)
    /\ WriterLoops(c, None)
    /\ UNCHANGED <<diskVars, flagVars, queueVars, callerVars, chanVars,
                   readerVars, sweep, aged, resultVars>>

\* The channel is not active: the meta stays with the thread.
WriterKeeps(c) ==
    /\ wpc[c] = "send"
    /\ ~Active(c)
    /\ WriterLoops(c, held[c])
    /\ UNCHANGED <<diskVars, flagVars, queueVars, callerVars, chanVars,
                   readerVars, sweep, aged, resultVars>>

Writer(c) ==
    \/ WriterAwait(c)
    \/ WriterPoll(c)
    \/ WriterLastPoll(c)
    \/ WriterSubmit(c)
    \/ WriterMarkDeleted(c)
    \/ WriterFails(c)
    \/ WriterKeeps(c)

-----------------------------------------------------------------------------
(***************************************************************************)
(* WeedFSReadThread of connection c                                        *)
(***************************************************************************)

\* while (running.get()) weedFSMeta = queue.poll(100, MILLISECONDS)
ReaderPoll(c) ==
    /\ rpc[c] = "top"
    /\ readQueue # <<>>
    /\ rheld' = [rheld EXCEPT ![c] = Head(readQueue)]
    /\ readQueue' = Tail(readQueue)
    /\ rpc' = [rpc EXCEPT ![c] = "handle"]
    /\ UNCHANGED <<diskVars, flagVars, writeQueue, weedMetaMap, callerVars,
                   chanVars, writerVars, sweep, aged, resultVars>>

\* weedFSMeta = null, and the loop ends if stop() has been called.
ReaderLoops(c) ==
    /\ rheld' = [rheld EXCEPT ![c] = None]
    /\ rpc' = [rpc EXCEPT ![c] = IF Running(c) THEN "top" ELSE "dead"]

\* The meta waiting for the answer the reader of c holds, if the map has one.
Waiting(c) == weedMetaMap[KeyOf[rheld[c].up]]

\* Faulty variant: the file is deleted for an incomplete answer, too.
ReaderIgnoreAndDelete(c) ==
    /\ rpc[c] = "handle"
    /\ rheld[c].code = "malformed"
    /\ disk' = [disk EXCEPT ![FileOf[rheld[c].up]] = None]
    /\ ReaderLoops(c)
    /\ UNCHANGED <<status, flagVars, queueVars, callerVars, chanVars,
                   writerVars, sweep, aged, resultVars>>

\* An answer without fid, fileName, size or fileUrl is ignored.
ReaderIgnore(c) ==
    /\ rpc[c] = "handle"
    /\ rheld[c].code = "malformed"
    /\ ReaderLoops(c)
    /\ UNCHANGED <<diskVars, flagVars, queueVars, callerVars, chanVars,
                   writerVars, sweep, aged, resultVars>>

\* Faulty variant: the fid is taken for one of the meta's own bytes.
ReaderSaveOwn(c) ==
    /\ rpc[c] = "handle"
    /\ rheld[c].code = "created"
    /\ IF Waiting(c) = None
       THEN /\ rpc' = [rpc EXCEPT ![c] = "delete"]
            /\ UNCHANGED docs
       ELSE /\ rpc' = [rpc EXCEPT ![c] = "remove"]
            /\ docs' = docs \cup {<<Waiting(c).up, Waiting(c).up>>}
    /\ UNCHANGED <<diskVars, flagVars, queueVars, callerVars, chanVars,
                   writerVars, rheld, sweep, aged, stored, dropped>>

\* The waiting meta gets the fid and is saved, and a crash report goes on to
\* graylog; without a waiting meta nothing is saved.
ReaderSave(c) ==
    /\ rpc[c] = "handle"
    /\ rheld[c].code = "created"
    /\ IF Waiting(c) = None
       THEN /\ rpc' = [rpc EXCEPT ![c] = "delete"]
            /\ UNCHANGED docs
       ELSE /\ rpc' = [rpc EXCEPT ![c] = IF Waiting(c).up \in Crash THEN "graylog"
                                                                    ELSE "remove"]
            /\ docs' = docs \cup {<<Waiting(c).up, rheld[c].up>>}
    /\ UNCHANGED <<diskVars, flagVars, queueVars, callerVars, chanVars,
                   writerVars, rheld, sweep, aged, stored, dropped>>

\* graylogService.send(...) returns.  Before that it may wait in put() while the
\* queue of graylog is full, or until stop() interrupts the thread.
ReaderSend(c) ==
    /\ rpc[c] = "graylog"
    /\ rpc' = [rpc EXCEPT ![c] = "remove"]
    /\ UNCHANGED <<diskVars, flagVars, queueVars, callerVars, chanVars,
                   writerVars, rheld, sweep, aged, resultVars>>

\* The save throws, or send() for a crash report: the answer is forgotten, map and
\* file stay as they are.
ReaderFails(c) ==
    /\ Faults
    /\ \/ rpc[c] = "handle" /\ rheld[c].code = "created" /\ Waiting(c) # None
       \/ rpc[c] = "graylog"
    /\ ReaderLoops(c)
    /\ UNCHANGED <<diskVars, flagVars, queueVars, callerVars, chanVars,
                   writerVars, sweep, aged, resultVars>>

\* Faulty variant: the file is not deleted.
ReaderFinishKeepsFile(c) ==
    /\ rpc[c] \in {"remove", "delete"}
    /\ weedMetaMap' = IF rpc[c] = "remove"
                      THEN [weedMetaMap EXCEPT ![KeyOf[rheld[c].up]] = None]
                      ELSE weedMetaMap
    /\ ReaderLoops(c)
    /\ UNCHANGED <<diskVars, flagVars, writeQueue, readQueue, callerVars,
                   chanVars, writerVars, sweep, aged, resultVars>>

\* The key leaves the map if a meta was found, whatever meta it has by now.  The
\* answer object has no id, so that no record becomes STATE_SUCCESSFUL.  The file
\* of that name is deleted, whatever bytes it has by now.
ReaderFinish(c) ==
    /\ rpc[c] \in {"remove", "delete"}
    /\ weedMetaMap' = IF rpc[c] = "remove"
                      THEN [weedMetaMap EXCEPT ![KeyOf[rheld[c].up]] = None]
                      ELSE weedMetaMap
    /\ disk' = [disk EXCEPT ![FileOf[rheld[c].up]] = None]
    /\ ReaderLoops(c)
    /\ UNCHANGED <<status, flagVars, writeQueue, readQueue, callerVars, chanVars,
                   writerVars, sweep, aged, resultVars>>

Reader(c) ==
    \/ ReaderPoll(c)
    \/ ReaderIgnore(c)
    \/ ReaderSave(c)
    \/ ReaderFails(c)
    \/ ReaderFinish(c)

-----------------------------------------------------------------------------
(***************************************************************************)
(* The other scheduled tasks and the passing of time                       *)
(***************************************************************************)

\* Faulty variant: the test of the file is inverted.
ClearMemoryCheckInverted(k) ==
    /\ sweep = None
    /\ weedMetaMap[k] # None
    /\ disk[FileOf[weedMetaMap[k].up]] # None
    /\ sweep' = k
    /\ UNCHANGED <<diskVars, flagVars, queueVars, callerVars, chanVars,
                   writerVars, readerVars, aged, resultVars>>

\* clearMemory meets an entry whose file does not exist ...
ClearMemoryCheck(k) ==
    /\ sweep = None
    /\ weedMetaMap[k] # None
    /\ disk[FileOf[weedMetaMap[k].up]] = None
    /\ sweep' = k
    /\ UNCHANGED <<diskVars, flagVars, queueVars, callerVars, chanVars,
                   writerVars, readerVars, aged, resultVars>>

\* ... and removes the key.
ClearMemoryRemove ==
    /\ sweep # None
    /\ weedMetaMap' = [weedMetaMap EXCEPT ![sweep] = None]
    /\ sweep' = None
    /\ UNCHANGED <<diskVars, flagVars, writeQueue, readQueue, callerVars,
                   chanVars, writerVars, readerVars, aged, resultVars>>

\* clearFiles deletes files older than the ttl; the walk may end early at any
\* point (its time limit, a file deleted under its feet).
ClearFiles ==
    /\ \E S \in SUBSET {n \in Names : disk[n] \in aged} :
        /\ S # {}
        /\ disk' = [n \in Names |-> IF n \in S THEN None ELSE disk[n]]
    /\ UNCHANGED <<status, flagVars, queueVars, callerVars, chanVars, writerVars,
                   readerVars, sweep, aged, resultVars>>

\* Time passes: an upload becomes older than the ttl.
Age(u) ==
    /\ u \in Expiring \ aged
    /\ pc[u] # "none"
    /\ aged' = aged \cup {u}
    /\ UNCHANGED <<diskVars, flagVars, queueVars, callerVars, chanVars,
                   writerVars, readerVars, sweep, resultVars>>

\* The database's ttl index on writeDate removes a record.
ExpireRecord(u) ==
    /\ u \in aged
    /\ status[u] # "none"
    /\ status' = [status EXCEPT ![u] = "none"]
    /\ UNCHANGED <<disk, flagVars, queueVars, callerVars, chanVars, writerVars,
                   readerVars, sweep, aged, resultVars>>

-----------------------------------------------------------------------------
Next ==
    \/ \E u \in Uploads : Arrive(u) \/ CheckSum(u) \/ Age(u) \/ ExpireRecord(u)
    \/ \E p \in Procs : Write(p)
    \/ \E r \in Retriers : Retry(r)
    \/ Connected \/ Close \/ MasterReply \/ EventLoop
    \/ \E c \in Conns : Writer(c) \/ Reader(c) \/ ReaderSend(c)
    \/ \E k \in Keys : ClearMemoryCheck(k)
    \/ ClearMemoryRemove
    \/ ClearFiles

SafeSpec == Init /\ [][Next]_vars

(***************************************************************************)
(* Every thread that can take a step eventually takes one: the callers,    *)
(* the event loop, the writers and readers are plain threads, the retry    *)
(* and the memory task are scheduled for ever, and the weed master is      *)
(* assumed to answer what it receives.  Nothing makes a connection succeed *)
(* or stay, a file arrive, time pass, clearFiles run, or the call of       *)
(* graylog's send() return.                                                *)
(***************************************************************************)
Fairness ==
    /\ \A u \in Uploads : WF_vars(CheckSum(u) \/ Write(u))
    /\ \A r \in Retriers : WF_vars(Retry(r) \/ Write(r))
    /\ \A c \in Conns : WF_vars(Writer(c)) /\ WF_vars(Reader(c))
    /\ WF_vars(EventLoop)
    /\ WF_vars(MasterReply)
    /\ \A k \in Keys : WF_vars(ClearMemoryCheck(k))
    /\ WF_vars(ClearMemoryRemove)

Spec == SafeSpec /\ Fairness

-----------------------------------------------------------------------------
(***************************************************************************)
(* Properties                                                              *)
(***************************************************************************)

\* Uploads no other upload shares its file name with.
OwnFile(u) == \A v \in Uploads : FileOf[v] = FileOf[u] => v = u

\* An upload with a file name of its own does not vanish: once it has reached
\* the weed directory its bytes are on disk or stored by the weed master, unless
\* write() gave it up because of serverError or it outlived the ttl.  No lost
\* connection, late or strange answer, retry or failing call changes that.
NothingVanishes ==
    \A u \in Accepted :
        OwnFile(u) => \/ disk[FileOf[u]] = u
                     \/ u \in stored
                     \/ u \in dropped
                     \/ u \in aged

\* A saved file meta refers, by its fid, to contents the weed master has stored
\* under the key of that meta, although the reader thread finds the meta by the
\* file name of an answer, and the waiting meta of that key may be another upload's:
\* of the same attachment, with the same extension or with another one.
RecordedIsStored ==
    \A d \in docs : d[2] \in stored /\ KeyOf[d[1]] = KeyOf[d[2]]

\* A record closed as STATE_DELETED is settled: the writer found no file for it,
\* and that means its bytes are stored, or it was dropped, or it is too old.
ClosedIsSettled ==
    \A u \in Uploads :
        status[u] = "deleted" /\ OwnFile(u) => u \in stored \cup dropped \cup aged

\* Where the pipeline still knows of an upload that is on disk.
Metas(q) == {q[i].up : i \in 1 .. Len(q)}

Tracked(u) ==
    \/ status[u] = "normal"
    \/ u \in Metas(writeQueue) \cup Metas(resp) \cup Metas(readQueue)
    \/ \E i \in 1 .. Len(wire) : wire[i] = u
    \/ ev # None /\ ev.up = u
    \/ \E c \in Conns : \/ held[c] # None /\ held[c].up = u
                        \/ rheld[c] # None /\ rheld[c].up = u

\* No connection has been lost yet.
NeverClosed == conn = 0 \/ (conn = 1 /\ link \in {"opening", "up"})

\* Every answer is a proper 201 and no call fails.
Calm == Replies = {"created"} /\ ~Faults

\* As long as nothing goes wrong, a file that write() has returned for and that
\* is still on disk is in a queue, in flight, in a thread's hands or parked in
\* the database: it is not merely left behind until clearFiles finds it.
NotLeftBehind ==
    Calm /\ NeverClosed =>
        \A u \in Uploads \ aged :
            pc[u] = "done" /\ OwnFile(u) /\ disk[FileOf[u]] = u => Tracked(u)

\* The pipeline implements the ledger of what happens to files.
Ledger == INSTANCE UploadLedger WITH accepted <- Accepted
LedgerSpec == Ledger!Spec

\* From some point on the connection stays.
StableLink == <>[](link = "up")

\* No reader stays for ever in graylog's send() (CallersReturn of Graylog).
SendsReturn == \A c \in Conns : []<>(rpc[c] # "graylog")

\* Once the connection is stable and nothing else fails, every parked record is
\* retried until its file is uploaded and the record closed, and stays closed.
ParkedRecordsClose == Calm /\ StableLink /\ SendsReturn => <>[](NotWritten = {})

\* Once the connection is stable and nothing else fails, every call of write()
\* returns: no caller stays blocked on a full write queue.
CallersReturn ==
    Calm /\ StableLink /\ SendsReturn =>
        \A u \in Uploads : []<>(pc[u] \in {"none", "done"})

\* Once the connection is stable and nothing else fails, weedMetaMap keeps no
\* entry whose file is gone: late map entries do not pile up.
MapEntriesCleared ==
    Calm /\ StableLink /\ SendsReturn =>
        <>[](\A k \in Keys : weedMetaMap[k] # None =>
                disk[FileOf[weedMetaMap[k].up]] # None)

\* The event loop, which puts answers into a bounded queue by a blocking call,
\* never blocks for ever: the reader that empties the queue is stopped only by
\* the event loop itself.  This needs no stable connection, but it does need that
\* the reader does not hang in graylog's send() with a crash report: if it does, the
\* event loop hangs too, and nobody calls stop() to interrupt the reader.
EventLoopProgress == SendsReturn => []<>(ev = None)

\* What WeedFSReadThread says of an answered log file, "Save log file meta to
\* db": the file of a log leaves the disk only after its meta was saved.
AnsweredLogIsSaved ==
    [][\A u \in Uploads \ (Crash \cup Attachment) :
          disk[FileOf[u]] = u /\ disk'[FileOf[u]] = None => <<u, u>> \in docs]_vars

=============================================================================
