------------------------------ MODULE Graylog ------------------------------
(***************************************************************************)
(* The way of log messages to graylog (parse.GraylogClientService, the     *)
(* GELF client of org.graylog2.gelfclient, the graylog half of             *)
(* schedule.ScheduledTasks.retryPutQueue).                                 *)
(*                                                                         *)
(* Parse tasks, the reader thread of the weed pipeline and the retry task  *)
(* call GraylogClientService.write.  One netty event loop handles the      *)
(* channel; every established connection owns one GelfSenderThread, and    *)
(* all of them poll the one bounded queue of the transport.                *)
(*                                                                         *)
(* A message stands for a LogMessage.  writeAndFlush leaves it in the      *)
(* outbound buffer of the channel, from where the event loop delivers it   *)
(* to graylog.  GELF over TCP has no acknowledgements and the code looks   *)
(* at no future: what is still in the buffer when the channel closes is    *)
(* cut off, and nobody learns of it.                                       *)
(***************************************************************************)
EXTENDS Integers, Sequences, FiniteSets

CONSTANTS
    Messages,       \* log messages, one first call of write() each
    Interruptible,  \* messages of crash reports, whose caller weed's stop() interrupts
    Poison,         \* messages whose layout template makes createMessage throw
    Malformed,      \* messages with a number field that is none: no GELF message
    Retriers,       \* concurrent executions of ScheduledTasks.retryPutQueue
    MaxConn,        \* bound on the number of connections established
    MaxSent,        \* how far the writes of one message to a channel are counted
    Capacity,       \* graylog.queueCapacity
    PageLimit,      \* ScheduledTasks.PAGE_LIMIT
    Unsaved,        \* messages whose save to the database may fail
    Expiring,       \* messages whose record may outlive logful.ttl
    MaxBuffered,    \* bound on the outbound buffer of a channel
    None

Conns == 1 .. MaxConn
Procs == Messages \cup Retriers

\* A GelfMessage: the message it was made of, and whether setLogMessage has been
\* called to give the message back to the listeners.
Gelf == [msg : Messages, linked : BOOLEAN]

ASSUME ConstantsAssumption ==
    /\ Interruptible \subseteq Messages
    /\ Poison \subseteq Messages \ Interruptible
    /\ Malformed \subseteq Messages \ (Poison \cup Interruptible)
    /\ Messages \cap Retriers = {}
    /\ MaxConn \in Nat \ {0}
    /\ MaxSent \in Nat \ {0}
    /\ Capacity \in Nat \ {0}
    /\ PageLimit \in Nat \ {0}
    /\ Unsaved \subseteq Messages
    /\ Expiring \subseteq Messages
    /\ MaxBuffered \in Nat \ {0}
    /\ None \notin Messages \cup Gelf

VARIABLES
    record,     \* LogMessage document of each message in the database, or "none"
    connected,  \* GraylogClientService.connected
    listener,   \* setListener has been called on the transport
    queue,      \* AbstractGelfTransport.queue
    pc,         \* where each caller is in write() or retryPutQueue()
    cur,        \* the record each retry task is writing
    todo,       \* the records each retry task has still to write
    conn,       \* number of the latest established connection
    link,       \* phase of the channel
    spc, held,  \* sender thread of each connection: pc, gelfMessage
    sent,       \* how often each message was written to a channel
    buffer,     \* outbound buffer of the current channel
    delivered,  \* the messages that have left a buffer for graylog
    cut,        \* the messages in the buffer of a channel when it closed
    lost,       \* <<connection, message>>: what a sender thread took with it
    expired     \* the messages whose record mongod has removed

callerVars == <<pc, cur, todo>>
chanVars   == <<conn, link>>
senderVars == <<spc, held>>
fateVars   == <<sent, buffer, delivered, cut, lost, expired>>
vars == <<record, connected, listener, queue, callerVars, chanVars, senderVars,
          fateVars>>

TypeOK ==
    /\ record \in [Messages -> {"none", "normal", "successful"}]
    /\ connected \in BOOLEAN
    /\ listener \in BOOLEAN
    /\ queue \in Seq(Gelf) /\ Len(queue) <= Capacity
    /\ pc \in [Procs -> {"none", "write", "put", "save", "done", "idle",
                         "find", "next"}]
    /\ cur \in [Retriers -> Messages \cup {None}]
    /\ todo \in [Retriers -> SUBSET Messages]
    /\ conn \in 0 .. MaxConn
    /\ link \in {"connecting", "opening", "up", "closed", "stopping", "waiting"}
    /\ spc \in [Conns -> {"new", "top", "await", "last", "send", "dead"}]
    /\ held \in [Conns -> Gelf \cup {None}]
    /\ sent \in [Messages -> 0 .. MaxSent]
    /\ buffer \in Seq(Messages) /\ Len(buffer) <= MaxBuffered
    /\ delivered \subseteq Messages
    /\ cut \subseteq Messages
    /\ lost \subseteq Conns \X Messages
    /\ expired \subseteq Messages

\* create() has built the transport, whose constructor has begun to connect.
Init ==
    /\ record = [m \in Messages |-> "none"]
    /\ connected = FALSE
    /\ listener = FALSE
    /\ queue = <<>>
    /\ pc = [p \in Procs |-> IF p \in Messages THEN "none" ELSE "idle"]
    /\ cur = [r \in Retriers |-> None]
    /\ todo = [r \in Retriers |-> {}]
    /\ conn = 0
    /\ link = "connecting"
    /\ spc = [c \in Conns |-> "new"]
    /\ held = [c \in Conns |-> None]
    /\ sent = [m \in Messages |-> 0]
    /\ buffer = <<>>
    /\ delivered = {}
    /\ cut = {}
    /\ lost = {}
    /\ expired = {}

-----------------------------------------------------------------------------
(***************************************************************************)
(* GraylogClientService                                                    *)
(***************************************************************************)

\* create() goes on: graylogTransport.setListener(...).
SetListener ==
    /\ ~listener
    /\ listener' = TRUE
    /\ UNCHANGED <<record, connected, queue, callerVars, chanVars, senderVars,
                   fateVars>>

\* mongod removes a record by the TTL index that create() makes on writeDate.
ExpireRecord(m) ==
    /\ m \in Expiring
    /\ record[m] # "none"
    /\ record' = [record EXCEPT ![m] = "none"]
    /\ expired' = expired \cup {m}
    /\ UNCHANGED <<connected, listener, queue, callerVars, chanVars, senderVars,
                   sent, buffer, delivered, cut, lost>>

\* A caller gets hold of a message; it has been started after create().
Begin(m) ==
    /\ listener
    /\ pc[m] = "none"
    /\ pc' = [pc EXCEPT ![m] = "write"]
    /\ UNCHANGED <<record, connected, listener, queue, cur, todo, chanVars,
                   senderVars, fateVars>>

MessageOf(p) == IF p \in Messages THEN p ELSE cur[p]

\* Where a caller continues when write() returns, and when it throws: the retry
\* task has no handler and ends.
Returned(p) == IF p \in Messages THEN "done" ELSE "next"
Thrown(p)   == IF p \in Messages THEN "done" ELSE "idle"

\* Faulty variant: without a connection the message is forgotten.
WriteCheckNoSave(p) ==
    /\ pc[p] = "write"
    /\ pc' = [pc EXCEPT ![p] =
                IF MessageOf(p) \in Poison THEN Thrown(p)
                ELSE IF ~connected \/ MessageOf(p) \in Malformed THEN Returned(p)
                ELSE "put"]
    /\ UNCHANGED <<record, connected, listener, queue, cur, todo, chanVars,
                   senderVars, fateVars>>

\* if (connected.get()) createMessage, which throws, gives null or a message to
\* put; else save.
WriteCheck(p) ==
    /\ pc[p] = "write"
    /\ pc' = [pc EXCEPT ![p] =
                IF ~connected THEN "save"
                ELSE IF MessageOf(p) \in Poison THEN Thrown(p)
                ELSE IF MessageOf(p) \in Malformed THEN Returned(p)
                ELSE "put"]
    /\ UNCHANGED <<record, connected, listener, queue, cur, todo, chanVars,
                   senderVars, fateVars>>

\* createMessage calls setLogMessage nowhere.
CreateMessage(m) == [msg |-> m, linked |-> FALSE]

\* Faulty variant: the queue is not bounded.
WritePutUnbounded(p) ==
    /\ pc[p] = "put"
    /\ queue' = Append(queue, CreateMessage(MessageOf(p)))
    /\ pc' = [pc EXCEPT ![p] = Returned(p)]
    /\ UNCHANGED <<record, connected, listener, cur, todo, chanVars, senderVars,
                   fateVars>>

\* queue.put(message), which blocks while the queue is full.
WritePut(p) ==
    /\ pc[p] = "put"
    /\ Len(queue) < Capacity
    /\ queue' = Append(queue, CreateMessage(MessageOf(p)))
    /\ pc' = [pc EXCEPT ![p] = Returned(p)]
    /\ UNCHANGED <<record, connected, listener, cur, todo, chanVars, senderVars,
                   fateVars>>

\* The caller is the reader thread of a weed connection, interrupted by stop().
WriteInterrupted(p) ==
    /\ pc[p] = "put"
    /\ p \in Interruptible
    /\ pc' = [pc EXCEPT ![p] = "save"]
    /\ UNCHANGED <<record, connected, listener, queue, cur, todo, chanVars,
                   senderVars, fateVars>>

\* logMessageRepository.save(logMessage): the status of the object is NORMAL.
WriteSave(p) ==
    /\ pc[p] = "save"
    /\ \/ /\ record' = [record EXCEPT ![MessageOf(p)] = "normal"]
          /\ pc' = [pc EXCEPT ![p] = Returned(p)]
       \/ /\ MessageOf(p) \in Unsaved
          /\ pc' = [pc EXCEPT ![p] = Thrown(p)]
          /\ UNCHANGED record
    /\ UNCHANGED <<connected, listener, queue, cur, todo, chanVars, senderVars,
                   fateVars>>

Write(p) ==
    \/ WriteCheck(p)
    \/ WritePut(p)
    \/ WriteInterrupted(p)
    \/ WriteSave(p)

-----------------------------------------------------------------------------
(***************************************************************************)
(* ScheduledTasks.retryPutQueue, graylog half                              *)
(***************************************************************************)

\* Faulty variant: the wrong status is queried.
NotSentWrong == {m \in Messages : record[m] = "successful"}

NotSent == {m \in Messages : record[m] = "normal"}

\* findAllNotSendLimit(PAGE_LIMIT): some records in state NORMAL, unordered.
Pages == {S \in SUBSET NotSent :
            Cardinality(S) = IF Cardinality(NotSent) < PageLimit
                             THEN Cardinality(NotSent) ELSE PageLimit}

\* if (graylogClientService.isConnected())
RetryBegin(r) ==
    /\ pc[r] = "idle"
    /\ connected
    /\ pc' = [pc EXCEPT ![r] = "find"]
    /\ UNCHANGED <<record, connected, listener, queue, cur, todo, chanVars,
                   senderVars, fateVars>>

\* list = findAllNotSendLimit(PAGE_LIMIT)
RetryFind(r) ==
    /\ pc[r] = "find"
    /\ \E S \in Pages : todo' = [todo EXCEPT ![r] = S]
    /\ pc' = [pc EXCEPT ![r] = "next"]
    /\ UNCHANGED <<record, connected, listener, queue, cur, chanVars, senderVars,
                   fateVars>>

\* for (LogMessage logMessage : list) send(logMessage)
RetryNext(r) ==
    /\ pc[r] = "next"
    /\ \/ \E m \in todo[r] :
            /\ cur' = [cur EXCEPT ![r] = m]
            /\ todo' = [todo EXCEPT ![r] = @ \ {m}]
            /\ pc' = [pc EXCEPT ![r] = "write"]
       \/ /\ todo[r] = {}
          /\ cur' = [cur EXCEPT ![r] = None]
          /\ pc' = [pc EXCEPT ![r] = "idle"]
          /\ UNCHANGED todo
    /\ UNCHANGED <<record, connected, listener, queue, chanVars, senderVars,
                   fateVars>>

Retry(r) == RetryBegin(r) \/ RetryFind(r) \/ RetryNext(r)

-----------------------------------------------------------------------------
(***************************************************************************)
(* GelfTcpTransport: connection life cycle, run by the one event loop the  *)
(* reconnections are scheduled on.                                         *)
(***************************************************************************)

\* keepRunning of the sender thread of connection c: stop() has not been called.
Running(c) == c = conn /\ link \in {"opening", "up", "closed"}

\* channel.isActive() as seen by the sender thread of connection c.
Active(c) == c = conn /\ link \in {"opening", "up"}

\* Faulty variant: the sender thread of the first connection is reused.
ConnectedReusing ==
    /\ link = "connecting"
    /\ conn < MaxConn
    /\ conn' = conn + 1
    /\ link' = "opening"
    /\ spc' = IF conn = 0 THEN [spc EXCEPT ![1] = "top"] ELSE spc
    /\ UNCHANGED <<record, connected, listener, queue, callerVars, held, fateVars>>

\* The connection is established; channelActive starts the sender thread.
Connected ==
    /\ link = "connecting"
    /\ conn < MaxConn
    /\ conn' = conn + 1
    /\ link' = "opening"
    /\ spc' = [spc EXCEPT ![conn + 1] = "top"]
    /\ UNCHANGED <<record, connected, listener, queue, callerVars, held, fateVars>>

\* operationComplete without success schedules a reconnection.
ConnectFailed ==
    /\ link = "connecting"
    /\ link' = "waiting"
    /\ UNCHANGED <<record, connected, listener, queue, callerVars, conn,
                   senderVars, fateVars>>

\* channelActive goes on: if (listener != null) listener.connected()
ConnectEvent ==
    /\ link = "opening"
    /\ link' = "up"
    /\ connected' = (listener \/ connected)
    /\ UNCHANGED <<record, listener, queue, callerVars, conn, senderVars, fateVars>>

\* The event loop writes the first message of the outbound buffer to the socket,
\* and graylog takes it.
Flush ==
    /\ link \in {"opening", "up"}
    /\ buffer # <<>>
    /\ delivered' = delivered \cup {Head(buffer)}
    /\ buffer' = Tail(buffer)
    /\ UNCHANGED <<record, connected, listener, queue, callerVars, chanVars,
                   senderVars, sent, cut, lost, expired>>

\* The channel is closed; the futures of what it had not yet sent fail unheard.
Close ==
    /\ link = "up"
    /\ link' = "closed"
    /\ cut' = cut \cup {buffer[i] : i \in 1 .. Len(buffer)}
    /\ buffer' = <<>>
    /\ UNCHANGED <<record, connected, listener, queue, callerVars, conn,
                   senderVars, sent, delivered, lost, expired>>

\* channelInactive: senderThread.stop() clears keepRunning and interrupts.  A poll
\* throws and the loop ends, await() is left, other work goes on to its end.
SenderStop ==
    /\ link = "closed"
    /\ link' = "stopping"
    /\ spc' = [spc EXCEPT ![conn] = IF @ = "top" THEN "dead"
                                    ELSE IF @ = "await" THEN "last" ELSE @]
    /\ UNCHANGED <<record, connected, listener, queue, callerVars, conn, held,
                   fateVars>>

\* channelInactive goes on: the disconnect event, then a reconnection is scheduled.
DisconnectEvent ==
    /\ link = "stopping"
    /\ link' = "waiting"
    /\ connected' = (connected /\ ~listener)
    /\ UNCHANGED <<record, listener, queue, callerVars, conn, senderVars, fateVars>>

\* The scheduled reconnection runs createBootstrap with a new sender thread.
Reconnect ==
    /\ link = "waiting"
    /\ link' = "connecting"
    /\ UNCHANGED <<record, connected, listener, queue, callerVars, conn,
                   senderVars, fateVars>>

EventLoop ==
    ConnectFailed \/ ConnectEvent \/ SenderStop \/ DisconnectEvent \/ Reconnect

-----------------------------------------------------------------------------
(***************************************************************************)
(* GelfSenderThread of connection c                                        *)
(***************************************************************************)

\* while (channel == null || !channel.isActive()) connectedCond.await()
SenderAwait(c) ==
    /\ spc[c] = "top"
    /\ ~Active(c)
    /\ spc' = [spc EXCEPT ![c] = "await"]
    /\ UNCHANGED <<record, connected, listener, queue, callerVars, chanVars,
                   held, fateVars>>

\* gelfMessage = queue.poll(100, MILLISECONDS); the channel, active when the poll
\* began, may be closed by now.
SenderPoll(c) ==
    /\ spc[c] = "top"
    /\ held[c] = None
    /\ queue # <<>>
    /\ held' = [held EXCEPT ![c] = Head(queue)]
    /\ queue' = Tail(queue)
    /\ spc' = [spc EXCEPT ![c] = "send"]
    /\ UNCHANGED <<record, connected, listener, callerVars, chanVars, fateVars>>

\* Interrupted in await() by stop(), the thread leaves the waiting loop and polls
\* once more unless it has a message left; with one it goes on to send.
SenderLastPoll(c) ==
    /\ spc[c] = "last"
    /\ LET polls == held[c] = None /\ queue # <<>>
           g     == IF polls THEN Head(queue) ELSE held[c]
       IN  /\ held' = [held EXCEPT ![c] = g]
           /\ queue' = IF polls THEN Tail(queue) ELSE queue
           /\ spc' = [spc EXCEPT ![c] = IF g = None THEN "dead" ELSE "send"]
    /\ UNCHANGED <<record, connected, listener, callerVars, chanVars, fateVars>>

\* One more time, counted up to MaxSent.
CountSent(m) ==
    sent' = [sent EXCEPT ![m] = IF @ < MaxSent THEN @ + 1 ELSE @]

\* Faulty variant: gelfMessage is not reset after it was written.
SenderSendAgain(c) ==
    /\ spc[c] = "send"
    /\ Active(c)
    /\ Len(buffer) < MaxBuffered
    /\ CountSent(held[c].msg)
    /\ buffer' = Append(buffer, held[c].msg)
    /\ UNCHANGED <<record, connected, listener, queue, callerVars, chanVars,
                   senderVars, delivered, cut, lost, expired>>

\* The channel is active: writeAndFlush appends the message to the outbound buffer,
\* and a record that the message still knows of becomes SUCCESSFUL.  A channel that
\* closes between the test and the write fails the write like one that closes
\* right after it.
SenderSend(c) ==
    /\ spc[c] = "send"
    /\ Active(c)
    /\ Len(buffer) < MaxBuffered
    /\ CountSent(held[c].msg)
    /\ buffer' = Append(buffer, held[c].msg)
    /\ record' = IF held[c].linked /\ record[held[c].msg] # "none"
                 THEN [record EXCEPT ![held[c].msg] = "successful"] ELSE record
    /\ held' = [held EXCEPT ![c] = None]
    /\ spc' = [spc EXCEPT ![c] = "top"]
    /\ UNCHANGED <<connected, listener, queue, callerVars, chanVars, delivered,
                   cut, lost, expired>>

\* Faulty variant: the thread drops the message and goes on waiting.
SenderFailedGoesOn(c) ==
    /\ spc[c] = "send"
    /\ ~Active(c)
    /\ lost' = lost \cup {<<c, held[c].msg>>}
    /\ spc' = [spc EXCEPT ![c] = IF Running(c) THEN "top" ELSE "last"]
    /\ held' = [held EXCEPT ![c] = None]
    /\ UNCHANGED <<record, connected, listener, queue, callerVars, chanVars, sent,
                   buffer, delivered, cut, expired>>

\* The channel is not active: failed(getLogMessage()) saves the message in the
\* database, and the thread goes on with it while it runs.  Without a log message
\* save(null) throws: the thread dies, and the message with it.
SenderFailed(c) ==
    /\ spc[c] = "send"
    /\ ~Active(c)
    /\ IF held[c].linked
       THEN /\ record' = [record EXCEPT ![held[c].msg] = "normal"]
            /\ spc' = [spc EXCEPT ![c] = IF Running(c) THEN "top" ELSE "dead"]
            /\ UNCHANGED <<held, lost>>
       ELSE /\ lost' = lost \cup {<<c, held[c].msg>>}
            /\ spc' = [spc EXCEPT ![c] = "dead"]
            /\ held' = [held EXCEPT ![c] = None]
            /\ UNCHANGED record
    /\ UNCHANGED <<connected, listener, queue, callerVars, chanVars, sent, buffer,
                   delivered, cut, expired>>

Sender(c) ==
    \/ SenderAwait(c)
    \/ SenderPoll(c)
    \/ SenderLastPoll(c)
    \/ SenderSend(c)
    \/ SenderFailed(c)

-----------------------------------------------------------------------------
Next ==
    \/ SetListener
    \/ \E m \in Messages : Begin(m) \/ ExpireRecord(m)
    \/ \E p \in Procs : Write(p)
    \/ \E r \in Retriers : Retry(r)
    \/ Connected \/ Flush \/ Close \/ EventLoop
    \/ \E c \in Conns : Sender(c)

SafeSpec == Init /\ [][Next]_vars

(***************************************************************************)
(* Every thread that can take a step eventually takes one: the callers,    *)
(* the sender threads and the event loop are plain threads, the retry task *)
(* is scheduled for ever and create() runs to its end.  A caller blocked   *)
(* in put() gets a free place sooner or later: the waiting threads of a    *)
(* LinkedBlockingQueue are woken in turn, and the retry task, which could  *)
(* overtake them, comes once in five minutes.  Graylog reads what is sent  *)
(* to it while the connection lasts.  Nothing makes a connection succeed   *)
(* or stay, a message appear or a record expire.                           *)
(***************************************************************************)
Fairness ==
    /\ WF_vars(SetListener)
    /\ \A p \in Procs : WF_vars(Write(p)) /\ SF_vars(WritePut(p))
    /\ \A r \in Retriers : WF_vars(Retry(r))
    /\ \A c \in Conns : WF_vars(Sender(c))
    /\ WF_vars(EventLoop)
    /\ WF_vars(Flush)

Spec == SafeSpec /\ Fairness

-----------------------------------------------------------------------------
(***************************************************************************)
(* Properties                                                              *)
(***************************************************************************)

Queued(m) == \E i \in 1 .. Len(queue) : queue[i].msg = m
Held(m)   == \E c \in Conns : held[c] # None /\ held[c].msg = m
Buffered(m) == \E i \in 1 .. Len(buffer) : buffer[i] = m
Lost(m)   == \E c \in Conns : <<c, m>> \in lost


\* A well-formed message write() has returned for does not vanish in the program:
\* it is in the queue, in the hands of a sender thread or in the outbound buffer,
\* it is delivered or parked in the database, or it left by one of three ways out:
\* mongod removed its record by age, it was in the outbound buffer of a channel
\* that closed, or it is the one a sender thread took with it.  The queue survives
\* every reconnection.
MessageKept ==
    \A m \in Messages \ (Poison \cup Malformed \cup Unsaved) :
        pc[m] = "done" => \/ Queued(m) \/ Held(m) \/ Buffered(m)
                          \/ m \in delivered
                          \/ record[m] # "none"
                          \/ m \in expired \/ m \in cut \/ Lost(m)

\* Of the messages it polled and never wrote to its channel, the sender thread of a
\* connection takes at most one with it, although it may poll once more after
\* stop(), and none while its channel is active.  What it wrote and the channel had
\* not yet flushed is cut off besides, in whatever number.
SenderTakesOne ==
    \A c \in Conns :
        LET L == {m \in Messages : <<c, m>> \in lost}
        IN  Cardinality(L) <= 1 /\ (Active(c) => L = {})

Copies(m) ==
    Cardinality({i \in 1 .. Len(queue) : queue[i].msg = m})
    + Cardinality({c \in Conns : held[c] # None /\ held[c].msg = m})
    + sent[m]

\* A message that was never parked is written at most once, whatever number of
\* sender threads of old and new connections poll the queue.
NoDuplicates ==
    \A m \in Messages : record[m] = "none" /\ m \notin expired => Copies(m) <= 1

\* From some point on the connection stays, and its connect event was seen.
StableLink == <>[](link = "up" /\ connected)

\* Once the connection is stable, no message stays in the program for ever: what is
\* queued, polled or buffered is delivered, unless it was lost with an earlier
\* connection, by its sender thread or out of its buffer.
QueueDrains ==
    StableLink =>
        \A m \in Messages :
            []<>(Queued(m) \/ Held(m) \/ Buffered(m)
                    => m \in delivered \/ Lost(m) \/ m \in cut)

\* Once the connection is stable, no caller stays blocked on a full queue.
CallersReturn ==
    StableLink => \A m \in Messages : []<>(pc[m] \in {"none", "done"})

\* Once the connection is stable, no message stays parked for ever without being
\* delivered, even if an earlier resend was lost with its connection: it is resent
\* until it is delivered or mongod has removed its record by age.  Provided that
\* one page holds all records and no record makes the retry task throw.
RecordsResent ==
    StableLink /\ Poison = {} /\ Unsaved = {} /\ PageLimit >= Cardinality(Messages) =>
        \A m \in Messages \ Malformed :
            []<>(record[m] = "normal" => m \in delivered)

\* GelfSenderThread: "if we aren't connected anymore, we'll have already pulled an
\* event from the queue, which we keep hanging around in this thread and in the
\* next loop iteration will block until we are connected again": a message leaves
\* the hands of the thread only by being written.
PolledIsKept ==
    [][\A c \in Conns : held[c] # None /\ held'[c] = None
          => sent'[held[c].msg] > sent[held[c].msg]]_vars

\* GelfSenderThread: "Retry send the GELF message successful": the record of a
\* parked message that is written becomes SUCCESSFUL.
ResentIsMarked ==
    [][\A m \in Messages : sent'[m] > sent[m] /\ record[m] = "normal"
          => record'[m] = "successful"]_vars

=============================================================================
