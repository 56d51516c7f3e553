--------------------------- MODULE TrackingProofs ---------------------------
(***************************************************************************)
(* As long as every answer is a proper 201, no call fails and the first    *)
(* connection holds, the upload pipeline never loses sight of a file: for  *)
(* every set of uploads, every number of retry tasks and every capacity.   *)
(***************************************************************************)
EXTENDS WeedFSProofs

\* Before the first connection there is no channel that could be lost.
NoChannelYet == conn = 0 => link \in {"connecting", "waiting"}

\* Only the writer of the one connection runs, and its channel is active: it
\* neither waits for a connection nor leaves with a meta in its hands.
OneWriter ==
    \A c \in Conns : /\ wpc[c] \in {"new", "top", "send"}
                     /\ wpc[c] # "new" => conn = c /\ link = "up"

\* The same of its reader, which holds nothing while it waits for an answer.
OneReader ==
    \A c \in Conns : /\ rpc[c] # "new" => conn = c /\ link = "up"
                     /\ rpc[c] \in {"new", "top"} => rheld[c] = None

\* Every answer on its way to a reader, or in its hands, is a complete 201.
AllCreated ==
    /\ \A i \in 1 .. Len(resp) : resp[i].code = "created"
    /\ \A i \in 1 .. Len(readQueue) : readQueue[i].code = "created"
    /\ ev # None => ev.code = "created"
    /\ \A c \in Conns : rheld[c] # None => rheld[c].code = "created"

\* An upload that write() has put into the queue or is done with, and that still
\* has its file: from the put on, the pipeline itself must know of it.
Answerable(u) ==
    u \notin aged /\ pc[u] \in {"map", "done"} /\ OwnFile(u) /\ disk[FileOf[u]] = u

AllTracked == \A u \in Uploads : Answerable(u) => Tracked(u)

TrackInv ==
    /\ NoChannelYet
    /\ Calm /\ NeverClosed => OneWriter /\ OneReader /\ AllCreated /\ AllTracked

-----------------------------------------------------------------------------
\* What a put at the end and a poll at the head do to the uploads of a queue.
LEMMA MetasAppend ==
    ASSUME NEW S, NEW q \in Seq(S), NEW e \in S
    PROVE  Metas(Append(q, e)) = Metas(q) \cup {e.up}
<1>1. \A i \in 1 .. Len(q) : i \in 1 .. Len(Append(q, e)) /\ Append(q, e)[i] = q[i]
  OBVIOUS
<1>2. Len(q) + 1 \in 1 .. Len(Append(q, e)) /\ Append(q, e)[Len(q) + 1] = e
  OBVIOUS
<1>3. \A i \in 1 .. Len(Append(q, e)) : Append(q, e)[i] = e \/ i \in 1 .. Len(q)
  OBVIOUS
<1> QED
  BY <1>1, <1>2, <1>3 DEF Metas

LEMMA MetasTail ==
    ASSUME NEW S, NEW q \in Seq(S), q # <<>>
    PROVE  Metas(q) = Metas(Tail(q)) \cup {Head(q).up}
<1>1. \A i \in 1 .. Len(q) : i = 1 \/ (i - 1 \in 1 .. Len(Tail(q)) /\ Tail(q)[i - 1] = q[i])
  OBVIOUS
<1>2. \A i \in 1 .. Len(Tail(q)) : i + 1 \in 1 .. Len(q) /\ Tail(q)[i] = q[i + 1]
  BY QueueTail
<1>3. 1 \in 1 .. Len(q) /\ Head(q) = q[1]
  BY QueueTail
<1> QED
  BY <1>1, <1>2, <1>3 DEF Metas

LEMMA OnWireAppend ==
    ASSUME NEW S, NEW q \in Seq(S), NEW e \in S, NEW u,
           u = e \/ \E i \in 1 .. Len(q) : q[i] = u
    PROVE  \E i \in 1 .. Len(Append(q, e)) : Append(q, e)[i] = u
<1>1. CASE u = e
  <2>1. Len(q) + 1 \in 1 .. Len(Append(q, e)) /\ Append(q, e)[Len(q) + 1] = e
    OBVIOUS
  <2> QED
    BY <1>1, <2>1
<1>2. CASE \E i \in 1 .. Len(q) : q[i] = u
  <2>1. \A i \in 1 .. Len(q) : i \in 1 .. Len(Append(q, e)) /\ Append(q, e)[i] = q[i]
    OBVIOUS
  <2> QED
    BY <1>2, <2>1
<1> QED
  BY <1>1, <1>2

LEMMA OnWireTail ==
    ASSUME NEW S, NEW q \in Seq(S), q # <<>>, NEW u, \E i \in 1 .. Len(q) : q[i] = u
    PROVE  u = Head(q) \/ \E i \in 1 .. Len(Tail(q)) : Tail(q)[i] = u
<1>1. PICK i \in 1 .. Len(q) : q[i] = u
  OBVIOUS
<1>2. i = 1 \/ (i - 1 \in 1 .. Len(Tail(q)) /\ Tail(q)[i - 1] = q[i])
  OBVIOUS
<1>3. Head(q) = q[1]
  BY QueueTail
<1> QED
  BY <1>1, <1>2, <1>3

-----------------------------------------------------------------------------
\* A connection that is lost stays lost: a later one has another number.
LEMMA NeverClosedBefore ==
    ASSUME IInv, NoChannelYet, [Next]_vars
    PROVE  /\ NoChannelYet'
           /\ NeverClosed' => NeverClosed
<1>1. CASE UNCHANGED <<conn, link>>
  BY <1>1 DEF NoChannelYet, NeverClosed
<1>2. CASE Connected \/ ConnectFailed \/ ChannelActive \/ Close \/ ChannelInactive
           \/ Reconnect
  <2>1. conn \in Nat /\ link \in {"connecting", "opening", "up", "closed", "waiting"}
    BY ConstantsAssumption DEF IInv, TypeOK
  <2>2. CASE Connected
    BY <2>1, <2>2 DEF Connected, NoChannelYet, NeverClosed
  <2>3. CASE ConnectFailed
    BY <2>1, <2>3 DEF ConnectFailed, NoChannelYet, NeverClosed
  <2>4. CASE ChannelActive
    BY <2>1, <2>4 DEF ChannelActive, NoChannelYet, NeverClosed
  <2>5. CASE Close
    BY <2>1, <2>5 DEF Close, NoChannelYet, NeverClosed
  <2>6. CASE ChannelInactive
    BY <2>1, <2>6 DEF ChannelInactive, NoChannelYet, NeverClosed
  <2>7. CASE Reconnect
    BY <2>1, <2>7 DEF Reconnect, NoChannelYet, NeverClosed
  <2> QED
    BY <1>2, <2>2, <2>3, <2>4, <2>5, <2>6, <2>7
<1>3. CASE \E u \in Uploads : Arrive(u) \/ CheckSum(u) \/ Age(u) \/ ExpireRecord(u)
  BY <1>1, <1>3 DEF Arrive, CheckSum, Age, ExpireRecord, chanVars
<1>4. CASE \E p \in Procs : Write(p)
  BY <1>1, <1>4 DEF Write, WriteCheckConnected, WriteCheckError, WritePut, WriteMap,
                    WriteDrop, WriteSave, chanVars
<1>5. CASE \E r \in Retriers : Retry(r)
  BY <1>1, <1>5 DEF Retry, RetryBegin, RetryFind, RetryNext, chanVars
<1>6. CASE MasterReply \/ ChannelRead \/ ReadQueuePut
  BY <1>1, <1>6 DEF MasterReply, ChannelRead, ReadQueuePut
<1>7. CASE \E c \in Conns : Writer(c)
  BY <1>1, <1>7 DEF Writer, WriterAwait, WriterPoll, WriterLastPoll, WriterSubmit,
                    WriterMarkDeleted, WriterFails, WriterKeeps, chanVars
<1>8. CASE \E c \in Conns : Reader(c) \/ ReaderSend(c)
  BY <1>1, <1>8 DEF Reader, ReaderPoll, ReaderIgnore, ReaderSave, ReaderSend, ReaderFails,
                    ReaderFinish, chanVars
<1>9. CASE (\E k \in Keys : ClearMemoryCheck(k)) \/ ClearMemoryRemove \/ ClearFiles
  BY <1>1, <1>9 DEF ClearMemoryCheck, ClearMemoryRemove, ClearFiles, chanVars
<1>10. CASE UNCHANGED vars
  BY <1>1, <1>10 DEF vars, chanVars
<1> QED
  BY <1>2, <1>3, <1>4, <1>5, <1>6, <1>7, <1>8, <1>9, <1>10 DEF Next, EventLoop
-----------------------------------------------------------------------------
(***************************************************************************)
(* What the steps preserve while nothing goes wrong.                       *)
(***************************************************************************)

Tracking == OneWriter /\ OneReader /\ AllCreated /\ AllTracked

\* Steps of files, of callers and of time leave the threads' hands and the answers alone.
LEMMA SameThreads ==
    ASSUME OneWriter, OneReader, AllCreated,
           UNCHANGED <<wpc, rpc, conn, link, resp, readQueue, ev, rheld>>
    PROVE  OneWriter' /\ OneReader' /\ AllCreated'
  BY DEF OneWriter, OneReader, AllCreated

\* Nothing is forgotten in a step that only makes files disappear, time pass or
\* callers outside write() move.
LEMMA SamePlaces ==
    ASSUME AllTracked,
           UNCHANGED <<status, writeQueue, resp, readQueue, wire, ev, held, rheld>>,
           \A u \in Uploads : Answerable(u)' => Answerable(u)
    PROVE  AllTracked'
<1> SUFFICES ASSUME NEW u \in Uploads, Answerable(u)'
             PROVE  Tracked(u)'
  BY DEF AllTracked
<1>1. Tracked(u)
  BY DEF AllTracked
<1> QED
  BY <1>1 DEF Tracked, Metas

LEMMA ArriveTracks ==
    ASSUME IInv, Tracking, NEW v \in Uploads, Arrive(v)
    PROVE  Tracking'
<1>1. OneWriter' /\ OneReader' /\ AllCreated'
  BY SameThreads DEF Tracking, Arrive, queueVars, chanVars, writerVars, readerVars
<1>2. ASSUME NEW u \in Uploads, Answerable(u)' PROVE Answerable(u)
  <2>1. u # v
    BY <1>2 DEF Arrive, Answerable, IInv, TypeOK, Procs
  <2>2. FileOf[u] # FileOf[v]
    BY <1>2, <2>1 DEF Answerable, OwnFile
  <2> QED
    BY <1>2, <2>1, <2>2, KeyOfUpload DEF Arrive, Answerable, OwnFile, IInv, TypeOK, Procs
<1>3. AllTracked'
  BY <1>2, SamePlaces DEF Tracking, Arrive, queueVars, chanVars, writerVars, readerVars
<1> QED
  BY <1>1, <1>3 DEF Tracking

\* While no call fails only a file with other bytes than announced is turned down.
LEMMA CheckSumTracks ==
    ASSUME IInv, Tracking, Calm, NEW v \in Uploads, CheckSum(v)
    PROVE  Tracking'
<1>1. OneWriter' /\ OneReader' /\ AllCreated'
  BY SameThreads DEF Tracking, CheckSum, queueVars, chanVars, writerVars, readerVars
<1>2. ASSUME NEW u \in Uploads, Answerable(u)' PROVE Answerable(u)
  <2>1. UNCHANGED <<disk, aged>>
    BY DEF CheckSum, diskVars
  <2>2. CASE u = v
    <3>1. disk[FileOf[v]] # v
      BY <1>2, <2>1, <2>2 DEF CheckSum, Calm, Answerable, IInv, TypeOK, Procs
    <3> QED
      BY <1>2, <2>1, <2>2, <3>1 DEF Answerable
  <2>3. CASE u # v
    BY <1>2, <2>1, <2>3 DEF CheckSum, Answerable, OwnFile, IInv, TypeOK, Procs
  <2> QED
    BY <2>2, <2>3
<1>3. AllTracked'
  BY <1>2, SamePlaces DEF Tracking, CheckSum, diskVars, queueVars, chanVars, writerVars,
       readerVars
<1> QED
  BY <1>1, <1>3 DEF Tracking

LEMMA AgeTracks ==
    ASSUME IInv, Tracking, NEW v \in Uploads, Age(v) \/ ExpireRecord(v)
    PROVE  Tracking'
<1>1. OneWriter' /\ OneReader' /\ AllCreated'
  BY SameThreads DEF Tracking, Age, ExpireRecord, queueVars, chanVars, writerVars, readerVars
<1>2. CASE Age(v)
  <2>1. \A u \in Uploads : Answerable(u)' => Answerable(u)
    BY <1>2 DEF Age, Answerable, OwnFile, diskVars, callerVars
  <2> QED
    BY <1>1, <1>2, <2>1, SamePlaces
       DEF Tracking, Age, diskVars, queueVars, chanVars, writerVars, readerVars
<1>3. CASE ExpireRecord(v)
  <2> SUFFICES ASSUME NEW u \in Uploads, Answerable(u)' PROVE Tracked(u)'
    BY <1>1 DEF Tracking, AllTracked
  <2>1. Answerable(u) /\ u # v
    BY <1>3 DEF ExpireRecord, Answerable, OwnFile, callerVars
  <2>2. Tracked(u) /\ status'[u] = status[u]
    BY <1>3, <2>1 DEF Tracking, AllTracked, ExpireRecord, IInv, TypeOK
  <2> QED
    BY <1>3, <2>2 DEF ExpireRecord, Tracked, Metas, queueVars, chanVars, writerVars, readerVars
<1> QED
  BY <1>2, <1>3

LEMMA WriteTracks ==
    ASSUME IInv, Tracking, Calm, NEW p \in Procs, Write(p)
    PROVE  Tracking'
<1>1. OneWriter' /\ OneReader' /\ AllCreated'
  BY SameThreads DEF Tracking, Write, WriteCheckConnected, WriteCheckError, WritePut,
       WriteMap, WriteDrop, WriteSave, queueVars, chanVars, writerVars, readerVars
<1>2. /\ pc \in [Procs -> {"none", "sum", "write", "check", "drop", "put", "map", "save",
                           "done", "idle", "find", "next"}]
      /\ Uploads \subseteq Procs
  BY DEF IInv, TypeOK, Procs
<1>3. CASE WriteCheckConnected(p) \/ WriteCheckError(p)
  <2>1. \A u \in Uploads : Answerable(u)' => Answerable(u)
    BY <1>2, <1>3 DEF WriteCheckConnected, WriteCheckError, Answerable, OwnFile, diskVars
  <2> QED
    BY <1>1, <1>3, <2>1, SamePlaces DEF Tracking, WriteCheckConnected, WriteCheckError,
         diskVars, queueVars, chanVars, writerVars, readerVars
<1>4. CASE WriteMap(p)
  <2>1. \A u \in Uploads : Answerable(u)' => Answerable(u)
    BY <1>2, <1>4 DEF WriteMap, Return, Returned, Answerable, OwnFile, diskVars
  <2> QED
    BY <1>1, <1>4, <2>1, SamePlaces DEF Tracking, WriteMap,
         diskVars, queueVars, chanVars, writerVars, readerVars
<1>5. CASE WriteDrop(p)
  <2>1. NameFor(p) \in Names /\ (p \in Uploads => NameFor(p) = FileOf[p])
    BY <1>5, CallerMeta DEF WriteDrop, IInv, NameFor, MetaOf
  <2>2. \A u \in Uploads : Answerable(u)' => Answerable(u)
    BY <1>2, <1>5, <2>1, KeyOfUpload, Fields
       DEF WriteDrop, Return, Returned, Answerable, OwnFile, IInv, TypeOK
  <2> QED
    BY <1>1, <1>5, <2>2, SamePlaces DEF Tracking, WriteDrop,
         queueVars, chanVars, writerVars, readerVars
<1>6. CASE WritePut(p)
  <2>1. writeQueue \in Seq(Meta) /\ MetaOf(p) \in Meta
    BY <1>6, CallerMeta DEF WritePut, IInv, TypeOK
  <2>2. Metas(writeQueue') = Metas(writeQueue) \cup {MetaOf(p).up}
    BY <1>6, <2>1, MetasAppend DEF WritePut
  <2> SUFFICES ASSUME NEW u \in Uploads, Answerable(u)' PROVE Tracked(u)'
    BY <1>1 DEF Tracking, AllTracked
  <2>3. CASE u = p
    BY <2>2, <2>3 DEF Tracked, MetaOf
  <2>4. CASE u # p
    <3>1. Tracked(u)
      BY <1>2, <1>6, <2>4 DEF Tracking, AllTracked, WritePut, Answerable, OwnFile, diskVars
    <3> QED
      BY <1>6, <2>2, <3>1 DEF WritePut, Tracked, Metas, diskVars, chanVars, writerVars, readerVars
  <2> QED
    BY <2>3, <2>4
<1>7. CASE WriteSave(p)
  <2>1. MetaOf(p).up \in Uploads
    BY <1>7, CallerMeta DEF WriteSave, IInv, Accepted
  <2>2. status' = [status EXCEPT ![MetaOf(p).up] = "normal"] /\ Return(p)
    BY <1>7 DEF WriteSave, Calm
  <2> SUFFICES ASSUME NEW u \in Uploads, Answerable(u)' PROVE Tracked(u)'
    BY <1>1 DEF Tracking, AllTracked
  <2>3. CASE u = MetaOf(p).up
    BY <2>2, <2>3 DEF Tracked, IInv, TypeOK
  <2>4. CASE u # MetaOf(p).up
    <3>1. u # p
      BY <2>4 DEF MetaOf
    <3>2. Tracked(u) /\ status'[u] = status[u]
      BY <1>2, <1>7, <2>1, <2>2, <2>4, <3>1
         DEF Tracking, AllTracked, WriteSave, Return, Answerable, OwnFile, IInv, TypeOK
    <3> QED
      BY <1>7, <3>2 DEF WriteSave, Tracked, Metas, queueVars, chanVars, writerVars, readerVars
  <2> QED
    BY <2>3, <2>4
<1> QED
  BY <1>3, <1>4, <1>5, <1>6, <1>7 DEF Write

LEMMA RetryTracks ==
    ASSUME IInv, Tracking, NEW r \in Retriers, Retry(r)
    PROVE  Tracking'
<1>1. OneWriter' /\ OneReader' /\ AllCreated'
  BY SameThreads DEF Tracking, Retry, RetryBegin, RetryFind, RetryNext, queueVars, chanVars,
       writerVars, readerVars
<1>2. r \notin Uploads
  BY ConstantsAssumption
<1>3. \E x : pc' = [pc EXCEPT ![r] = x]
  BY DEF Retry, RetryBegin, RetryFind, RetryNext
<1>4. UNCHANGED <<disk, aged>>
  BY DEF Retry, RetryBegin, RetryFind, RetryNext, diskVars
<1>5. \A u \in Uploads : Answerable(u)' => Answerable(u)
  BY <1>2, <1>3, <1>4 DEF Answerable, OwnFile, IInv, TypeOK, Procs
<1> QED
  BY <1>1, <1>5, SamePlaces DEF Tracking, Retry, RetryBegin, RetryFind, RetryNext, diskVars,
       queueVars, chanVars, writerVars, readerVars
LEMMA ConnectTracks ==
    ASSUME IInv, Tracking, NoChannelYet, NeverClosed, Connected \/ ConnectFailed \/ ChannelActive
    PROVE  Tracking'
<1>1. \A u \in Uploads : Answerable(u)' => Answerable(u)
  BY DEF Connected, ConnectFailed, ChannelActive, Answerable, OwnFile, diskVars, callerVars
<1>2. AllTracked'
  BY <1>1, SamePlaces DEF Tracking, Connected, ConnectFailed, ChannelActive, diskVars,
       queueVars, writerVars, readerVars
<1>3. AllCreated'
  BY DEF Tracking, AllCreated, Connected, ConnectFailed, ChannelActive, queueVars, readerVars
<1>4. CASE Connected \/ ConnectFailed
  <2>1. \A c \in Conns : wpc[c] = "new" /\ rpc[c] = "new"
    BY <1>4 DEF Tracking, OneWriter, OneReader, Connected, ConnectFailed
  <2>2. OneWriter' /\ OneReader'
    BY <1>4, <2>1 DEF Tracking, OneWriter, OneReader, Connected, ConnectFailed, writerVars,
         readerVars
  <2> QED
    BY <1>2, <1>3, <2>2 DEF Tracking
<1>5. CASE ChannelActive
  <2>1. /\ wpc \in [Conns -> {"new", "top", "await", "last", "send", "dead"}]
        /\ rpc \in [Conns -> {"new", "top", "handle", "graylog", "remove", "delete", "dead"}]
    BY DEF IInv, TypeOK
  <2>2. \A c \in Conns : wpc[c] = "new" /\ rpc[c] = "new"
    BY <1>5 DEF Tracking, OneWriter, OneReader, ChannelActive
  <2>3. OneWriter' /\ OneReader'
    BY <1>5, <2>1, <2>2 DEF Tracking, OneWriter, OneReader, ChannelActive
  <2> QED
    BY <1>2, <1>3, <2>3 DEF Tracking
<1> QED
  BY <1>4, <1>5

LEMMA CloseTracks ==
    ASSUME IInv, NoChannelYet, Close \/ ChannelInactive \/ Reconnect, NeverClosed
    PROVE  NeverClosed' => conn = 0 /\ Reconnect
<1>1. conn \in Nat
  BY ConstantsAssumption DEF IInv, TypeOK
<1> QED
  BY <1>1 DEF Close, ChannelInactive, Reconnect, NoChannelYet, NeverClosed

LEMMA ReconnectTracks ==
    ASSUME IInv, Tracking, Reconnect, conn = 0
    PROVE  Tracking'
<1>1. \A u \in Uploads : Answerable(u)' => Answerable(u)
  BY DEF Reconnect, Answerable, OwnFile, diskVars, callerVars
<1>2. AllTracked'
  BY <1>1, SamePlaces DEF Tracking, Reconnect, diskVars, queueVars, writerVars, readerVars
<1>3. AllCreated'
  BY DEF Tracking, AllCreated, Reconnect, queueVars, readerVars
<1>4. \A c \in Conns : wpc[c] = "new" /\ rpc[c] = "new"
  BY DEF Tracking, OneWriter, OneReader, Reconnect
<1>5. OneWriter' /\ OneReader'
  BY <1>4 DEF Tracking, OneWriter, OneReader, Reconnect, writerVars, readerVars
<1> QED
  BY <1>2, <1>3, <1>5 DEF Tracking

\* An answer moves from the server to the channel, to the event loop, to the queue.
LEMMA AnswerTracks ==
    ASSUME IInv, Tracking, Calm, MasterReply \/ ChannelRead \/ ReadQueuePut
    PROVE  Tracking'
<1>1. OneWriter' /\ OneReader'
  BY DEF Tracking, OneWriter, OneReader, MasterReply, ChannelRead, ReadQueuePut, writerVars,
       readerVars
<1>2. ASSUME NEW u \in Uploads, Answerable(u)' PROVE Tracked(u)
  BY <1>2 DEF Tracking, AllTracked, MasterReply, ChannelRead, ReadQueuePut, Answerable, OwnFile,
       diskVars, callerVars
<1>3. wire \in Seq(Uploads) /\ resp \in Seq(Reply) /\ readQueue \in Seq(Reply)
        /\ ev \in Reply \cup {None}
  BY DEF IInv, TypeOK
<1>4. CASE MasterReply
  <2> DEFINE a == [code |-> "created", up |-> Head(wire)]
  <2>1. resp' = Append(resp, a) /\ wire' = Tail(wire) /\ wire # <<>>
    BY <1>4 DEF MasterReply, Calm
  <2>2. a \in Reply /\ a.up = Head(wire) /\ a.code = "created"
    BY <1>3, <2>1, QueueTail DEF Reply, AllReplies
  <2>3. Metas(resp') = Metas(resp) \cup {Head(wire)}
    BY <1>3, <2>1, <2>2, MetasAppend
  <2>4. \A i \in 1 .. Len(resp') :
            resp'[i] = a \/ (i \in 1 .. Len(resp) /\ resp'[i] = resp[i])
    BY <1>3, <2>1, <2>2, QueueAppend
  <2>5. AllCreated'
    BY <1>4, <2>2, <2>4 DEF Tracking, AllCreated, MasterReply, queueVars, readerVars
  <2>6. ASSUME NEW u \in Uploads, Tracked(u) PROVE Tracked(u)'
    <3>1. CASE \E i \in 1 .. Len(wire) : wire[i] = u
      <4>1. u = Head(wire) \/ \E i \in 1 .. Len(wire') : wire'[i] = u
        BY <1>3, <2>1, <3>1, OnWireTail
      <4> QED
        BY <2>3, <4>1 DEF Tracked
    <3>2. CASE ~ \E i \in 1 .. Len(wire) : wire[i] = u
      BY <1>4, <2>3, <2>6, <3>2 DEF Tracked, Metas, MasterReply, diskVars, queueVars, writerVars,
           readerVars
    <3> QED
      BY <3>1, <3>2
  <2> QED
    BY <1>1, <1>2, <2>5, <2>6 DEF Tracking, AllTracked
<1>5. CASE ChannelRead
  <2>1. resp # <<>> /\ ev = None /\ resp' = Tail(resp)
    BY <1>5 DEF ChannelRead
  <2>2. Head(resp).code = "created" /\ Head(resp) \in Reply /\ Head(resp) # None
    BY <1>3, <2>1, QueueTail, Fields DEF Tracking, AllCreated
  <2>3. ev' = Head(resp)
    BY <1>5, <2>2 DEF ChannelRead
  <2>4. Metas(resp) = Metas(resp') \cup {ev'.up}
    BY <1>3, <2>1, <2>3, MetasTail
  <2>5. \A i \in 1 .. Len(resp') : i + 1 \in 1 .. Len(resp) /\ resp'[i] = resp[i + 1]
    BY <1>3, <2>1, QueueTail
  <2>6. AllCreated'
    BY <1>5, <2>2, <2>3, <2>5 DEF Tracking, AllCreated, ChannelRead, queueVars, readerVars
  <2>7. ASSUME NEW u \in Uploads, Tracked(u) PROVE Tracked(u)'
    BY <1>5, <2>1, <2>2, <2>3, <2>4, <2>7
       DEF Tracked, Metas, ChannelRead, diskVars, queueVars, writerVars, readerVars
  <2> QED
    BY <1>1, <1>2, <2>6, <2>7 DEF Tracking, AllTracked
<1>6. CASE ReadQueuePut
  <2>1. ev \in Reply /\ readQueue' = Append(readQueue, ev) /\ ev' = None
    BY <1>3, <1>6 DEF ReadQueuePut
  <2>2. Metas(readQueue') = Metas(readQueue) \cup {ev.up}
    BY <1>3, <2>1, MetasAppend
  <2>3. \A i \in 1 .. Len(readQueue') :
            readQueue'[i] = ev \/ (i \in 1 .. Len(readQueue) /\ readQueue'[i] = readQueue[i])
    BY <1>3, <2>1, QueueAppend
  <2>4. AllCreated'
    BY <1>6, <2>1, <2>3 DEF Tracking, AllCreated, ReadQueuePut, readerVars
  <2>5. ASSUME NEW u \in Uploads, Tracked(u) PROVE Tracked(u)'
    BY <1>6, <2>1, <2>2, <2>5 DEF Tracked, Metas, ReadQueuePut, diskVars, writerVars, readerVars
  <2> QED
    BY <1>1, <1>2, <2>4, <2>5 DEF Tracking, AllTracked
<1> QED
  BY <1>4, <1>5, <1>6

LEMMA WriterTracks ==
    ASSUME IInv, Tracking, Calm, NEW c \in Conns, Writer(c)
    PROVE  Tracking'
<1>1. wpc[c] \in {"new", "top", "send"} /\ (wpc[c] # "new" => Active(c) /\ Running(c))
  BY DEF Tracking, OneWriter, Active, Running
<1>2. WriterPoll(c) \/ WriterSubmit(c) \/ WriterMarkDeleted(c)
  BY <1>1 DEF Writer, WriterAwait, WriterLastPoll, WriterFails, WriterKeeps, Calm
<1>3. UNCHANGED <<disk, pc, aged, conn, link, resp, readQueue, ev, rpc, rheld>>
  BY <1>2 DEF WriterPoll, WriterSubmit, WriterMarkDeleted, diskVars, queueVars, callerVars,
       chanVars, readerVars
<1>4. \A u \in Uploads : Answerable(u)' => Answerable(u)
  BY <1>3 DEF Answerable, OwnFile
<1>5. OneReader' /\ AllCreated'
  BY <1>3 DEF Tracking, OneReader, AllCreated
<1>6. \E x \in {"top", "send"} : wpc' = [wpc EXCEPT ![c] = x]
  BY <1>1, <1>2 DEF WriterPoll, WriterSubmit, WriterMarkDeleted, WriterLoops
<1>7. wpc[c] # "new"
  BY <1>2 DEF WriterPoll, WriterSubmit, WriterMarkDeleted
<1>8. OneWriter'
  BY <1>3, <1>6, <1>7 DEF Tracking, OneWriter, IInv, TypeOK
<1>9. /\ held \in [Conns -> Meta \cup {None}] /\ disk \in [Names -> Uploads \cup {None}]
      /\ writeQueue \in Seq(Meta) /\ wire \in Seq(Uploads)
  BY DEF IInv, TypeOK
<1> SUFFICES ASSUME NEW u \in Uploads, Answerable(u), Tracked(u) PROVE Tracked(u)'
  BY <1>4, <1>5, <1>8 DEF Tracking, AllTracked
<1>10. CASE WriterPoll(c)
  <2>1. writeQueue # <<>> /\ writeQueue' = Tail(writeQueue) /\ held[c] = None
          /\ held' = [held EXCEPT ![c] = Head(writeQueue)]
    BY <1>10 DEF WriterPoll
  <2>2. held'[c] = Head(writeQueue) /\ Head(writeQueue) \in Meta /\ held'[c] # None
    BY <1>9, <2>1, QueueTail, Fields
  <2>3. Metas(writeQueue) = Metas(writeQueue') \cup {held'[c].up}
    BY <1>9, <2>1, <2>2, MetasTail
  <2>4. \A d \in Conns : held[d] # None => held'[d] = held[d]
    BY <1>9, <2>1
  <2>5. UNCHANGED <<status, wire, Metas(resp), Metas(readQueue)>>
    BY <1>3, <1>10 DEF Metas, WriterPoll, diskVars, chanVars
  <2> QED
    BY <1>3, <2>2, <2>3, <2>4, <2>5 DEF Tracked
<1>11. CASE WriterSubmit(c)
  <2>1. held[c] \in Meta /\ held[c].up \in Uploads /\ FileOf[held[c].up] \in Names
    BY <1>9, <1>11, Fields, KeyOfUpload DEF WriterSubmit, IInv, HandsFull
  <2>2. disk[FileOf[held[c].up]] \in Uploads /\ wire' = Append(wire, disk[FileOf[held[c].up]])
    BY <1>9, <1>11, <2>1 DEF WriterSubmit
  <2>3. CASE held[c].up = u \/ \E i \in 1 .. Len(wire) : wire[i] = u
    <3>1. held[c].up = u => disk[FileOf[held[c].up]] = u
      BY DEF Answerable
    <3>2. \E i \in 1 .. Len(wire') : wire'[i] = u
      BY <1>9, <2>2, <2>3, <3>1, OnWireAppend
    <3> QED
      BY <3>2 DEF Tracked
  <2>4. CASE ~(held[c].up = u \/ \E i \in 1 .. Len(wire) : wire[i] = u)
    <3>1. \A d \in Conns : d # c => held'[d] = held[d]
      BY <1>9, <1>11 DEF WriterSubmit, WriterLoops
    <3> QED
      BY <1>3, <1>11, <2>4, <3>1 DEF Tracked, Metas, WriterSubmit, diskVars, queueVars
  <2> QED
    BY <2>3, <2>4
<1>12. CASE WriterMarkDeleted(c)
  <2>1. held[c] \in Meta /\ held[c].up # u
    BY <1>9, <1>12, Fields DEF WriterMarkDeleted, IInv, HandsFull, Answerable
  <2>2. status'[u] = status[u]
    BY <1>12, <2>1 DEF WriterMarkDeleted, IInv, TypeOK
  <2>3. \A d \in Conns : d # c => held'[d] = held[d]
    BY <1>9, <1>12 DEF WriterMarkDeleted, WriterLoops
  <2> QED
    BY <1>3, <1>12, <2>1, <2>2, <2>3 DEF Tracked, Metas, WriterMarkDeleted, queueVars, chanVars
<1> QED
  BY <1>2, <1>10, <1>11, <1>12

LEMMA ReaderTracks ==
    ASSUME IInv, Tracking, Calm, NEW c \in Conns, Reader(c) \/ ReaderSend(c)
    PROVE  Tracking'
<1>1. /\ rheld \in [Conns -> Reply \cup {None}] /\ disk \in [Names -> Uploads \cup {None}]
      /\ readQueue \in Seq(Reply)
      /\ rpc \in [Conns -> {"new", "top", "handle", "graylog", "remove", "delete", "dead"}]
  BY DEF IInv, TypeOK
<1>2. OneWriter'
  BY DEF Tracking, OneWriter, Reader, ReaderPoll, ReaderIgnore, ReaderSave, ReaderSend, ReaderFails,
       ReaderFinish, writerVars, chanVars
<1>3. ReaderPoll(c) \/ ReaderSave(c) \/ ReaderSend(c) \/ ReaderFinish(c)
  BY DEF Tracking, AllCreated, IInv, HandsFull, Reader, ReaderIgnore, ReaderFails, Calm
<1>4. rpc[c] # "new" /\ Running(c)
  BY <1>3 DEF Tracking, OneReader, Running, ReaderPoll, ReaderSave, ReaderSend, ReaderFinish
<1>5. UNCHANGED <<status, pc, aged, conn, link, writeQueue, resp, wire, ev, held>>
  BY <1>3 DEF ReaderPoll, ReaderSave, ReaderSend, ReaderFinish, diskVars, queueVars, callerVars, chanVars,
       writerVars
<1>6. CASE ReaderPoll(c)
  <2>1. readQueue # <<>> /\ readQueue' = Tail(readQueue)
          /\ rheld' = [rheld EXCEPT ![c] = Head(readQueue)]
    BY <1>6 DEF ReaderPoll
  <2>2. rheld'[c] = Head(readQueue) /\ Head(readQueue) \in Reply /\ rheld'[c] # None
    BY <1>1, <2>1, QueueTail, Fields
  <2>3. Head(readQueue).code = "created"
    BY <1>1, <2>1, QueueTail DEF Tracking, AllCreated
  <2>4. \A i \in 1 .. Len(readQueue') :
            i + 1 \in 1 .. Len(readQueue) /\ readQueue'[i] = readQueue[i + 1]
    BY <1>1, <2>1, QueueTail
  <2>5. AllCreated'
    BY <1>1, <1>5, <2>1, <2>3, <2>4 DEF Tracking, AllCreated
  <2>6. Metas(readQueue) = Metas(readQueue') \cup {rheld'[c].up}
    BY <1>1, <2>1, <2>2, MetasTail
  <2>7. rheld[c] = None /\ (\A d \in Conns : rheld[d] # None => rheld'[d] = rheld[d])
    BY <1>1, <1>6, <2>1 DEF Tracking, OneReader, ReaderPoll
  <2>8. OneReader'
    BY <1>1, <1>4, <1>5, <1>6, <2>1 DEF Tracking, OneReader, Running, ReaderPoll
  <2>9. \A u \in Uploads : Answerable(u)' => Answerable(u)
    BY <1>6 DEF ReaderPoll, Answerable, OwnFile, diskVars, callerVars
  <2>10. ASSUME NEW u \in Uploads, Tracked(u) PROVE Tracked(u)'
    BY <1>5, <2>2, <2>6, <2>7, <2>10 DEF Tracked, Metas
  <2> QED
    BY <1>2, <2>5, <2>8, <2>9, <2>10 DEF Tracking, AllTracked
<1>7. CASE ReaderSave(c) \/ ReaderSend(c)
  <2>1. UNCHANGED <<disk, readQueue, rheld>>
    BY <1>7 DEF ReaderSave, ReaderSend, diskVars, queueVars
  <2>2. AllCreated'
    BY <1>5, <2>1 DEF Tracking, AllCreated
  <2>3. \E x \in {"graylog", "remove", "delete"} : rpc' = [rpc EXCEPT ![c] = x]
    BY <1>7 DEF ReaderSave, ReaderSend
  <2>4. OneReader'
    BY <1>1, <1>4, <1>5, <2>1, <2>3 DEF Tracking, OneReader, Running
  <2>5. \A u \in Uploads : Answerable(u)' => Answerable(u)
    BY <1>5, <2>1 DEF Answerable, OwnFile
  <2>6. AllTracked'
    BY <1>5, <2>1, <2>5, SamePlaces DEF Tracking
  <2> QED
    BY <1>2, <2>2, <2>4, <2>6 DEF Tracking
<1>8. CASE ReaderFinish(c)
  <2>1. /\ readQueue' = readQueue
        /\ disk' = [disk EXCEPT ![FileOf[rheld[c].up]] = None]
        /\ rheld' = [rheld EXCEPT ![c] = None]
        /\ rpc' = [rpc EXCEPT ![c] = "top"]
    BY <1>4, <1>8 DEF ReaderFinish, ReaderLoops
  <2>2. rheld[c] \in Reply /\ rheld[c].up \in Uploads
    BY <1>1, <1>8, Fields DEF ReaderFinish, IInv, HandsFull
  <2>3. AllCreated'
    BY <1>1, <1>5, <2>1 DEF Tracking, AllCreated
  <2>4. OneReader'
    BY <1>1, <1>4, <1>5, <2>1 DEF Tracking, OneReader, Running
  <2>5. ASSUME NEW u \in Uploads, Answerable(u)' PROVE Answerable(u) /\ rheld[c].up # u
    BY <1>1, <1>5, <2>1, <2>2, <2>5, KeyOfUpload, Fields DEF Answerable, OwnFile
  <2>6. \A d \in Conns : d # c => rheld'[d] = rheld[d]
    BY <1>1, <2>1
  <2>7. ASSUME NEW u \in Uploads, rheld[c].up # u, Tracked(u) PROVE Tracked(u)'
    BY <1>5, <2>1, <2>6, <2>7 DEF Tracked, Metas
  <2> QED
    BY <1>2, <2>3, <2>4, <2>5, <2>7 DEF Tracking, AllTracked
<1> QED
  BY <1>3, <1>6, <1>7, <1>8

LEMMA ClearTracks ==
    ASSUME IInv, Tracking,
           (\E k \in Keys : ClearMemoryCheck(k)) \/ ClearMemoryRemove \/ ClearFiles
    PROVE  Tracking'
<1>1. OneWriter' /\ OneReader' /\ AllCreated'
  BY SameThreads DEF Tracking, ClearMemoryCheck, ClearMemoryRemove, ClearFiles, queueVars,
       chanVars, writerVars, readerVars
<1>2. \A n \in Names : disk'[n] = disk[n] \/ disk'[n] = None
  BY DEF ClearMemoryCheck, ClearMemoryRemove, ClearFiles, diskVars
<1>3. UNCHANGED <<pc, aged>>
  BY DEF ClearMemoryCheck, ClearMemoryRemove, ClearFiles, callerVars
<1>4. \A u \in Uploads : Answerable(u)' => Answerable(u)
  BY <1>2, <1>3, KeyOfUpload, Fields DEF Answerable, OwnFile
<1>5. AllTracked'
  BY <1>4, SamePlaces DEF Tracking, ClearMemoryCheck, ClearMemoryRemove, ClearFiles, diskVars,
       queueVars, chanVars, writerVars, readerVars
<1> QED
  BY <1>1, <1>5 DEF Tracking

-----------------------------------------------------------------------------
LEMMA InitTracks == Init => TrackInv
  BY DEF Init, TrackInv, NoChannelYet, OneWriter, OneReader, AllCreated, AllTracked, Answerable,
       Procs

LEMMA NextTracks == IInv /\ TrackInv /\ [Next]_vars => TrackInv'
<1> SUFFICES ASSUME IInv, TrackInv, [Next]_vars PROVE TrackInv'
  OBVIOUS
<1>1. NoChannelYet /\ NoChannelYet' /\ (NeverClosed' => NeverClosed)
  BY NeverClosedBefore DEF TrackInv
<1> SUFFICES ASSUME Calm, NeverClosed, NeverClosed' PROVE Tracking'
  BY <1>1 DEF TrackInv, Tracking, Calm
<1>2. Tracking
  BY DEF TrackInv, Tracking
<1>3. CASE \E u \in Uploads : Arrive(u) \/ CheckSum(u) \/ Age(u) \/ ExpireRecord(u)
  BY <1>2, <1>3, ArriveTracks, CheckSumTracks, AgeTracks
<1>4. CASE \E p \in Procs : Write(p)
  BY <1>2, <1>4, WriteTracks
<1>5. CASE \E r \in Retriers : Retry(r)
  BY <1>2, <1>5, RetryTracks
<1>6. CASE Connected \/ ConnectFailed \/ ChannelActive
  BY <1>1, <1>2, <1>6, ConnectTracks
<1>7. CASE Close \/ ChannelInactive \/ Reconnect
  BY <1>1, <1>2, <1>7, CloseTracks, ReconnectTracks
<1>8. CASE MasterReply \/ ChannelRead \/ ReadQueuePut
  BY <1>2, <1>8, AnswerTracks
<1>9. CASE \E c \in Conns : Writer(c) \/ Reader(c) \/ ReaderSend(c)
  BY <1>2, <1>9, WriterTracks, ReaderTracks
<1>10. CASE (\E k \in Keys : ClearMemoryCheck(k)) \/ ClearMemoryRemove \/ ClearFiles
  BY <1>2, <1>10, ClearTracks
<1>11. CASE UNCHANGED vars
  <2>1. OneWriter' /\ OneReader' /\ AllCreated'
    BY <1>2, <1>11, SameThreads DEF Tracking, vars, queueVars, chanVars, writerVars, readerVars
  <2>2. \A u \in Uploads : Answerable(u)' => Answerable(u)
    BY <1>11 DEF Answerable, OwnFile, vars, diskVars, callerVars
  <2> QED
    BY <1>2, <1>11, <2>1, <2>2, SamePlaces DEF Tracking, vars, diskVars, queueVars, chanVars,
         writerVars, readerVars
<1> QED
  BY <1>3, <1>4, <1>5, <1>6, <1>7, <1>8, <1>9, <1>10, <1>11 DEF Next, EventLoop

\* As long as every answer is complete, no call fails and the connection holds, a
\* file whose write() has returned and that is still on disk is in a queue, on the
\* wire, in the hands of a thread or parked in the database, whatever the order in
\* which callers, retry tasks, threads, event loop and scheduled tasks run.
THEOREM FilesAreTracked == SafeSpec => []NotLeftBehind
<1>1. IInv /\ TrackInv => NotLeftBehind
  BY DEF TrackInv, NotLeftBehind, AllTracked, Answerable
<1> QED
  BY <1>1, Invariant, InitTracks, NextTracks, PTL DEF SafeSpec

=============================================================================
