---------------------------- MODULE GraylogProofs ----------------------------
(***************************************************************************)
(* Proofs about the way of log messages to graylog, for every set of       *)
(* messages, any number of connections and retry tasks, and any capacity   *)
(* of the queue.                                                           *)
(***************************************************************************)
EXTENDS Graylog, FiniteSetTheorems, TLAPS

USE DEF fateVars

\* A sender thread that sends has a message, a retry task in write() has a record.
HandsFull ==
    /\ \A c \in Conns : spc[c] = "send" => held[c] # None
    /\ \A r \in Retriers : pc[r] \in {"write", "put", "save"} => cur[r] # None

TypeInv == TypeOK /\ HandsFull

-----------------------------------------------------------------------------
(* Facts about the operators. *)

\* What Head and Tail give of a queue that is not empty.
LEMMA QueueTail ==
    ASSUME NEW S, NEW q \in Seq(S), q # <<>>
    PROVE  /\ Head(q) \in S
           /\ Len(q) \in Nat /\ Len(Tail(q)) = Len(q) - 1
           /\ 1 \in 1 .. Len(q) /\ Head(q) = q[1]
           /\ Tail(q) \in Seq(S)
           /\ \A i \in 1 .. Len(Tail(q)) : i + 1 \in 1 .. Len(q) /\ Tail(q)[i] = q[i + 1]
  OBVIOUS

\* What Append gives of a queue.
LEMMA QueueAppend ==
    ASSUME NEW S, NEW q \in Seq(S), NEW e \in S
    PROVE  /\ Append(q, e) \in Seq(S)
           /\ Len(q) \in Nat /\ Len(Append(q, e)) = Len(q) + 1
           /\ \A i \in 1 .. Len(q) : Append(q, e)[i] = q[i]
           /\ Append(q, e)[Len(q) + 1] = e
  OBVIOUS

\* The fields of GELF messages; neither they nor messages are None.
LEMMA Fields ==
    /\ \A g \in Gelf : g.msg \in Messages /\ g.linked \in BOOLEAN /\ g # None
    /\ \A m \in Messages : m # None /\ CreateMessage(m) \in Gelf
                           /\ CreateMessage(m).msg = m /\ ~CreateMessage(m).linked
  BY ConstantsAssumption DEF Gelf, CreateMessage

\* A set all of whose members are the same has at most one.
LEMMA AtMostOne ==
    ASSUME NEW S, \A x, y \in S : x = y
    PROVE  Cardinality(S) = IF S = {} THEN 0 ELSE 1
<1>1. CASE S = {}
    BY <1>1, FS_EmptySet
<1>2. ASSUME NEW x \in S PROVE Cardinality(S) = 1
    <2>1. S = {x}
        OBVIOUS
    <2>2. Cardinality({x}) = 1
        BY FS_Singleton
    <2> QED
        BY <2>1, <2>2
<1> QED
    BY <1>1, <1>2

\* A caller in write() works on a message, and none is at the same time a message
\* and a retry task.
LEMMA CallerMessage ==
    ASSUME TypeInv, NEW p \in Procs, pc[p] \in {"write", "put", "save"}
    PROVE  /\ MessageOf(p) \in Messages
           /\ p \in Messages => MessageOf(p) = p
           /\ p \notin Messages => p \in Retriers /\ MessageOf(p) = cur[p]
  BY DEF TypeInv, TypeOK, HandsFull, MessageOf, Procs

-----------------------------------------------------------------------------
(* Type correctness. *)

\* The steps of write() keep the types: put() is guarded by the capacity of the queue.
LEMMA TypeOfWrite ==
    ASSUME TypeInv, NEW p \in Procs, Write(p)
    PROVE  TypeInv'
<1> USE DEF TypeInv
<1>0. p \in Messages \/ p \in Retriers
    BY DEF Procs
<1>1. CASE WriteCheck(p)
    <2>1. TypeOK'
        BY <1>1 DEF WriteCheck, TypeOK, chanVars, senderVars, Returned, Thrown
    <2>2. HandsFull'
        BY <1>1, <1>0, ConstantsAssumption
           DEF WriteCheck, TypeOK, HandsFull, chanVars, senderVars, Returned, Thrown
    <2> QED
        BY <2>1, <2>2
<1>2. CASE WritePut(p)
    <2>1. MessageOf(p) \in Messages
        BY <1>2, CallerMessage DEF WritePut
    <2>2. /\ queue' \in Seq(Gelf)
          /\ Len(queue') <= Capacity
        BY <1>2, <2>1, Fields, QueueAppend, ConstantsAssumption DEF WritePut, TypeOK
    <2>3. TypeOK'
        BY <1>2, <2>2 DEF WritePut, TypeOK, chanVars, senderVars, Returned
    <2>4. HandsFull'
        BY <1>2 DEF WritePut, TypeOK, HandsFull, chanVars, senderVars, Returned
    <2> QED
        BY <2>3, <2>4
<1>3. CASE WriteInterrupted(p)
    BY <1>3 DEF WriteInterrupted, TypeOK, HandsFull, chanVars, senderVars
<1>4. CASE WriteSave(p)
    <2>1. MessageOf(p) \in Messages
        BY <1>4, CallerMessage DEF WriteSave
    <2>2. TypeOK'
        BY <1>4, <2>1 DEF WriteSave, TypeOK, chanVars, senderVars, Returned, Thrown
    <2>3. PICK s \in {"done", "next", "idle"} : pc' = [pc EXCEPT ![p] = s]
        BY <1>4 DEF WriteSave, Returned, Thrown
    <2>4. HandsFull'
        BY <1>4, <2>3 DEF WriteSave, TypeOK, HandsFull, chanVars, senderVars
    <2> QED
        BY <2>2, <2>4
<1> QED
    BY <1>1, <1>2, <1>3, <1>4 DEF Write

\* The steps of the retry task keep the types: what it writes is a record it found.
LEMMA TypeOfRetry ==
    ASSUME TypeInv, NEW r \in Retriers, Retry(r)
    PROVE  TypeInv'
<1> USE DEF TypeInv
<1>0. r \in Procs
    BY DEF Procs
<1>1. CASE RetryBegin(r)
    BY <1>0, <1>1 DEF RetryBegin, TypeOK, HandsFull, chanVars, senderVars
<1>2. CASE RetryFind(r)
    BY <1>0, <1>2 DEF RetryFind, Pages, NotSent, TypeOK, HandsFull, chanVars, senderVars
<1>3. CASE RetryNext(r)
    <2>1. CASE todo[r] = {}
        <3>1. cur' = [cur EXCEPT ![r] = None] /\ pc' = [pc EXCEPT ![r] = "idle"] /\ todo' = todo
            BY <1>3, <2>1 DEF RetryNext
        <3>2. TypeOK'
            BY <1>0, <1>3, <3>1 DEF RetryNext, TypeOK, chanVars, senderVars
        <3>3. HandsFull'
            BY <1>0, <1>3, <3>1 DEF RetryNext, TypeOK, HandsFull, chanVars, senderVars
        <3> QED
            BY <3>2, <3>3
    <2>2. ASSUME NEW m \in todo[r], cur' = [cur EXCEPT ![r] = m],
                 todo' = [todo EXCEPT ![r] = @ \ {m}],
                 pc' = [pc EXCEPT ![r] = "write"]
          PROVE  TypeInv'
        <3>1. m \in Messages /\ m # None
            BY Fields DEF TypeOK
        <3>2. TypeOK'
            BY <1>0, <1>3, <2>2, <3>1 DEF RetryNext, TypeOK, chanVars, senderVars
        <3>3. HandsFull'
            BY <1>0, <1>3, <2>2, <3>1 DEF RetryNext, TypeOK, HandsFull, chanVars, senderVars
        <3> QED
            BY <3>2, <3>3
    <2> QED
        BY <1>3, <2>1, <2>2 DEF RetryNext
<1> QED
    BY <1>1, <1>2, <1>3 DEF Retry

\* So do create(), the arrival of a message and the life cycle of the channel.
LEMMA TypeOfChannel ==
    ASSUME TypeInv,
           SetListener \/ (\E m \in Messages : Begin(m) \/ ExpireRecord(m))
           \/ Connected \/ Flush \/ Close \/ EventLoop
    PROVE  TypeInv'
<1> USE DEF TypeInv
<1>1. CASE SetListener
    BY <1>1 DEF SetListener, TypeOK, HandsFull, callerVars, chanVars, senderVars
<1>2. ASSUME NEW m \in Messages, Begin(m)
      PROVE  TypeInv'
    <2>1. m \in Procs /\ m \notin Retriers
        BY ConstantsAssumption DEF Procs
    <2> QED
        BY <1>2, <2>1 DEF Begin, TypeOK, HandsFull, chanVars, senderVars
<1>3. CASE Connected
    BY <1>3, ConstantsAssumption DEF Connected, TypeOK, HandsFull, callerVars, Conns
<1>4. CASE Close
    <2>1. {buffer[i] : i \in 1 .. Len(buffer)} \subseteq Messages
        BY DEF TypeOK
    <2>2. buffer' \in Seq(Messages) /\ Len(buffer') <= MaxBuffered
        BY <1>4, ConstantsAssumption DEF Close
    <2> QED
        BY <1>4, <2>1, <2>2 DEF Close, TypeOK, HandsFull, callerVars, senderVars
<1>8. CASE Flush
    <2>1. /\ Head(buffer) \in Messages
          /\ buffer' \in Seq(Messages)
          /\ Len(buffer) \in Nat /\ Len(buffer') = Len(buffer) - 1
        BY <1>8, QueueTail DEF Flush, TypeOK
    <2>2. Len(buffer') <= MaxBuffered
        BY <2>1, ConstantsAssumption DEF TypeOK
    <2> QED
        BY <1>8, <2>1, <2>2 DEF Flush, TypeOK, HandsFull, callerVars, chanVars, senderVars
<1>9. ASSUME NEW m \in Messages, ExpireRecord(m)
      PROVE  TypeInv'
    BY <1>9 DEF ExpireRecord, TypeOK, HandsFull, callerVars, chanVars, senderVars
<1>5. CASE ConnectFailed \/ Reconnect
    BY <1>5 DEF ConnectFailed, Reconnect, TypeOK, HandsFull, callerVars, senderVars
<1>6. CASE ConnectEvent \/ DisconnectEvent
    BY <1>6 DEF ConnectEvent, DisconnectEvent, TypeOK, HandsFull, callerVars, senderVars
<1>7. CASE SenderStop
    BY <1>7 DEF SenderStop, TypeOK, HandsFull, callerVars
<1> QED
    BY <1>1, <1>2, <1>3, <1>4, <1>5, <1>6, <1>7, <1>8, <1>9 DEF EventLoop

\* So do the sender threads: what they hold came from the queue.
LEMMA TypeOfSender ==
    ASSUME TypeInv, NEW c \in Conns, Sender(c)
    PROVE  TypeInv'
<1> USE DEF TypeInv
<1>1. CASE SenderAwait(c)
    BY <1>1 DEF SenderAwait, TypeOK, HandsFull, callerVars, chanVars
<1>2. CASE SenderPoll(c)
    BY <1>2, QueueTail, Fields, ConstantsAssumption
       DEF SenderPoll, TypeOK, HandsFull, callerVars, chanVars
<1>3. CASE SenderLastPoll(c)
    <2>1. CASE held[c] = None /\ queue # <<>>
        BY <1>3, <2>1, QueueTail, Fields, ConstantsAssumption
           DEF SenderLastPoll, TypeOK, HandsFull, callerVars, chanVars
    <2>2. CASE ~(held[c] = None /\ queue # <<>>)
        BY <1>3, <2>2 DEF SenderLastPoll, TypeOK, HandsFull, callerVars, chanVars
    <2> QED
        BY <2>1, <2>2
<1>4. CASE SenderSend(c)
    <2>1. held[c] \in Gelf /\ held[c].msg \in Messages
        BY <1>4, Fields DEF SenderSend, TypeOK, HandsFull
    <2>2. sent' \in [Messages -> 0 .. MaxSent]
        BY <1>4, <2>1, ConstantsAssumption DEF SenderSend, CountSent, TypeOK
    <2>3. record' \in [Messages -> {"none", "normal", "successful"}]
        BY <1>4, <2>1 DEF SenderSend, TypeOK
    <2>4. buffer' \in Seq(Messages) /\ Len(buffer') <= MaxBuffered
        BY <1>4, <2>1, QueueAppend, ConstantsAssumption DEF SenderSend, TypeOK
    <2> QED
        BY <1>4, <2>2, <2>3, <2>4 DEF SenderSend, TypeOK, HandsFull, callerVars, chanVars
<1>5. CASE SenderFailed(c)
    <2>1. held[c] \in Gelf /\ held[c].msg \in Messages
        BY <1>5, Fields DEF SenderFailed, TypeOK, HandsFull
    <2>2. CASE held[c].linked
        BY <1>5, <2>1, <2>2 DEF SenderFailed, TypeOK, HandsFull, callerVars, chanVars
    <2>3. CASE ~held[c].linked
        <3>1. lost' \subseteq Conns \X Messages
            BY <1>5, <2>1, <2>3 DEF SenderFailed, TypeOK
        <3>2. TypeOK'
            BY <1>5, <2>3, <3>1 DEF SenderFailed, TypeOK, callerVars, chanVars
        <3>3. HandsFull'
            BY <1>5, <2>3 DEF SenderFailed, TypeOK, HandsFull, callerVars, chanVars
        <3> QED
            BY <3>2, <3>3
    <2> QED
        BY <2>2, <2>3
<1> QED
    BY <1>1, <1>2, <1>3, <1>4, <1>5 DEF Sender

\* The type invariant is inductive.
LEMMA TypeStep == TypeInv /\ [Next]_vars => TypeInv'
<1> SUFFICES ASSUME TypeInv, [Next]_vars PROVE TypeInv'
    OBVIOUS
<1>1. CASE UNCHANGED vars
    BY <1>1 DEF TypeInv, TypeOK, HandsFull, vars, callerVars, chanVars, senderVars
<1>2. CASE Next
    BY <1>2, TypeOfWrite, TypeOfRetry, TypeOfChannel, TypeOfSender DEF Next
<1> QED
    BY <1>1, <1>2

\* The type invariant holds when the constructor has begun to connect.
LEMMA TypeInit == Init => TypeInv
<1> SUFFICES ASSUME Init PROVE TypeInv
    OBVIOUS
<1>1. queue \in Seq(Gelf) /\ Len(queue) <= Capacity
    BY ConstantsAssumption DEF Init
<1>2. /\ conn \in 0 .. MaxConn /\ sent \in [Messages -> 0 .. MaxSent]
      /\ buffer \in Seq(Messages) /\ Len(buffer) <= MaxBuffered
    BY ConstantsAssumption DEF Init
<1>3. TypeOK
    BY <1>1, <1>2 DEF Init, TypeOK, Procs
<1>4. HandsFull
    BY ConstantsAssumption DEF Init, HandsFull, Procs
<1> QED
    BY <1>3, <1>4 DEF TypeInv

\* Every reachable state of the client is well typed: the queue of the transport
\* never holds more than its capacity.
THEOREM TypeCorrect == SafeSpec => []TypeOK
<1>1. TypeInv => TypeOK
    BY DEF TypeInv
<1> QED
    BY <1>1, TypeInit, TypeStep, PTL DEF SafeSpec

-----------------------------------------------------------------------------
(* SenderTakesOne. *)

\* What a lost message leaves behind: the sender thread of its connection is dead
\* and its channel is gone; sender threads of later connections do not run yet.
LossIsFinal ==
    /\ \A c \in Conns : c > conn => spc[c] = "new"
    /\ \A c \in Conns, m \in Messages :
            <<c, m>> \in lost => spc[c] = "dead" /\ ~Active(c)
    /\ \A c \in Conns, m, n \in Messages :
            <<c, m>> \in lost /\ <<c, n>> \in lost => m = n

\* A sender thread loses a message only when it dies, and a dead one does nothing:
\* neither a reconnection nor stop() brings it back.
LEMMA LossStep == TypeInv /\ LossIsFinal /\ [Next]_vars => LossIsFinal'
<1> SUFFICES ASSUME TypeInv, LossIsFinal, [Next]_vars PROVE LossIsFinal'
    OBVIOUS
<1> USE DEF TypeInv
<1>1. CASE UNCHANGED <<conn, link, spc, lost>>
    BY <1>1 DEF LossIsFinal, Active
<1>2. CASE SetListener \/ (\E m \in Messages : Begin(m) \/ ExpireRecord(m)) \/ Flush
           \/ (\E p \in Procs : Write(p)) \/ (\E r \in Retriers : Retry(r))
    BY <1>1, <1>2 DEF SetListener, Begin, ExpireRecord, Flush, Write, WriteCheck, WritePut, WriteInterrupted,
                      WriteSave, Retry, RetryBegin, RetryFind, RetryNext, chanVars, senderVars
<1>3. CASE Connected
    <2>1. conn \in 0 .. MaxConn /\ spc \in [Conns -> {"new", "top", "await", "last", "send", "dead"}]
        BY DEF TypeOK
    <2> QED
        BY <1>3, <2>1, ConstantsAssumption DEF Connected, LossIsFinal, Active, Conns
<1>4. CASE Close \/ ConnectFailed \/ ConnectEvent \/ DisconnectEvent \/ Reconnect
    BY <1>4 DEF Close, ConnectFailed, ConnectEvent, DisconnectEvent, Reconnect,
                LossIsFinal, Active, senderVars
<1>5. CASE SenderStop
    BY <1>5 DEF SenderStop, TypeOK, LossIsFinal, Active, Conns
<1>6. ASSUME NEW c \in Conns, Sender(c)
      PROVE  LossIsFinal'
    <2>0. spc[c] # "new" /\ spc[c] # "dead" /\ ~(c > conn)
        BY <1>6 DEF Sender, SenderAwait, SenderPoll, SenderLastPoll, SenderSend,
                    SenderFailed, LossIsFinal
    <2>1. CASE lost' = lost
        <3>1. UNCHANGED <<conn, link>> /\ (\A d \in Conns : d # c => spc'[d] = spc[d])
            BY <1>6 DEF Sender, SenderAwait, SenderPoll, SenderLastPoll, SenderSend,
                        SenderFailed, chanVars, TypeOK
        <3> QED
            BY <2>0, <2>1, <3>1 DEF LossIsFinal, Active
    <2>2. CASE lost' # lost
        <3>1. /\ ~Active(c)
              /\ lost' = lost \cup {<<c, held[c].msg>>}
              /\ spc' = [spc EXCEPT ![c] = "dead"]
              /\ UNCHANGED <<conn, link>>
            BY <1>6, <2>2 DEF Sender, SenderAwait, SenderPoll, SenderLastPoll, SenderSend,
                        SenderFailed, chanVars
        <3>2. \A d \in Conns, m \in Messages :
                <<d, m>> \in lost' => <<d, m>> \in lost \/ (d = c /\ m = held[c].msg)
            BY <3>1
        <3>3. \A m \in Messages : <<c, m>> \notin lost
            BY <2>0 DEF LossIsFinal
        <3> QED
            BY <2>0, <3>1, <3>2, <3>3 DEF LossIsFinal, Active, TypeOK
    <2> QED
        BY <2>1, <2>2
<1> QED
    BY <1>1, <1>2, <1>3, <1>4, <1>5, <1>6
       DEF Next, EventLoop, vars, chanVars, senderVars

\* At most one message, as a cardinality.
LEMMA LossCounted == TypeInv /\ LossIsFinal => SenderTakesOne
<1> SUFFICES ASSUME TypeInv, LossIsFinal, NEW c \in Conns
             PROVE  LET L == {m \in Messages : <<c, m>> \in lost}
                    IN  Cardinality(L) <= 1 /\ (Active(c) => L = {})
    BY DEF SenderTakesOne
<1> DEFINE L == {m \in Messages : <<c, m>> \in lost}
<1>1. Active(c) => L = {}
    BY DEF LossIsFinal
<1>2. \A m, n \in L : m = n
    BY DEF LossIsFinal
<1>3. Cardinality(L) <= 1
    <2> HIDE DEF L
    <2> QED
        BY <1>2, AtMostOne
<1> QED
    BY <1>1, <1>3

\* The sender thread of a connection takes at most one message with it that it never
\* wrote to its channel, whatever number of connections there were and although it
\* may poll once more after stop(); what the channel had not flushed is not counted.
THEOREM OneLoss == SafeSpec => []SenderTakesOne
<1>1. Init => LossIsFinal
    BY DEF Init, LossIsFinal
<1> QED
    BY <1>1, TypeInit, TypeStep, LossStep, LossCounted, PTL DEF SafeSpec

-----------------------------------------------------------------------------
(* MessageKept. *)

\* Where a message may be once write() has returned for it.
Somewhere(m) ==
    \/ Queued(m) \/ Held(m) \/ Buffered(m)
    \/ m \in delivered
    \/ record[m] # "none"
    \/ m \in expired \/ m \in cut \/ Lost(m)

\* Something appended to the queue leaves every queued message queued, and is
\* queued itself.
LEMMA AppendKeeps ==
    ASSUME queue \in Seq(Gelf), NEW g \in Gelf, queue' = Append(queue, g)
    PROVE  /\ \A m \in Messages : Queued(m) => Queued(m)'
           /\ Queued(g.msg)'
<1>1. /\ Len(queue) \in Nat /\ Len(queue') = Len(queue) + 1
      /\ \A i \in 1 .. Len(queue) : queue'[i] = queue[i]
      /\ queue'[Len(queue) + 1] = g
    BY QueueAppend
<1>2. \A i \in 1 .. Len(queue) : i \in 1 .. Len(queue')
    BY <1>1
<1>3. Len(queue) + 1 \in 1 .. Len(queue')
    BY <1>1
<1> QED
    BY <1>1, <1>2, <1>3 DEF Queued

\* So does something appended to the outbound buffer.
LEMMA BufferKeeps ==
    ASSUME buffer \in Seq(Messages), NEW n \in Messages, buffer' = Append(buffer, n)
    PROVE  /\ \A m \in Messages : Buffered(m) => Buffered(m)'
           /\ Buffered(n)'
<1>1. /\ Len(buffer) \in Nat /\ Len(buffer') = Len(buffer) + 1
      /\ \A i \in 1 .. Len(buffer) : buffer'[i] = buffer[i]
      /\ buffer'[Len(buffer) + 1] = n
    BY QueueAppend
<1>2. /\ \A i \in 1 .. Len(buffer) : i \in 1 .. Len(buffer')
      /\ Len(buffer) + 1 \in 1 .. Len(buffer')
    BY <1>1
<1> QED
    BY <1>1, <1>2 DEF Buffered

\* A poll takes the first message into the hands of a thread whose hands are empty:
\* a queued message stays queued or is held, a held one stays held.
LEMMA PollKeeps ==
    ASSUME TypeInv, NEW c \in Conns, held[c] = None, queue # <<>>,
           held' = [held EXCEPT ![c] = Head(queue)], queue' = Tail(queue)
    PROVE  \A m \in Messages : Queued(m) \/ Held(m) => Queued(m)' \/ Held(m)'
<1>0. queue \in Seq(Gelf) /\ held \in [Conns -> Gelf \cup {None}]
    BY DEF TypeInv, TypeOK
<1>1. /\ Head(queue) \in Gelf /\ Head(queue) = queue[1]
      /\ Len(queue) \in Nat /\ Len(queue') = Len(queue) - 1
      /\ \A i \in 1 .. Len(queue') : queue'[i] = queue[i + 1]
    BY <1>0, QueueTail
<1> TAKE m \in Messages
<1>2. ASSUME NEW i \in 1 .. Len(queue), queue[i].msg = m
      PROVE  Queued(m)' \/ Held(m)'
    <2>1. CASE i = 1
        BY <1>0, <1>1, <1>2, <2>1, Fields DEF Held
    <2>2. CASE i # 1
        <3>1. i - 1 \in 1 .. Len(queue') /\ queue'[i - 1] = queue[i]
            BY <1>1, <2>2
        <3> QED
            BY <1>2, <3>1 DEF Queued
    <2> QED
        BY <2>1, <2>2
<1>3. Held(m) => Held(m)'
    BY <1>0 DEF Held
<1> QED
    BY <1>2, <1>3 DEF Queued

\* No step makes a message vanish that is somewhere.
LEMMA StaysSomewhere ==
    ASSUME TypeInv, Next, NEW m \in Messages, Somewhere(m)
    PROVE  Somewhere(m)'
<1> USE DEF TypeInv
<1>1. ASSUME UNCHANGED <<queue, held, buffer, delivered, cut, lost, expired>>,
             record[m] # "none" => record'[m] # "none"
      PROVE  Somewhere(m)'
    BY <1>1 DEF Somewhere, Queued, Held, Buffered, Lost
<1>2. CASE SetListener \/ (\E n \in Messages : Begin(n)) \/ (\E r \in Retriers : Retry(r))
           \/ Connected \/ EventLoop
    BY <1>1, <1>2 DEF SetListener, Begin, Retry, RetryBegin, RetryFind, RetryNext, Connected,
                      EventLoop, ConnectFailed, ConnectEvent, SenderStop,
                      DisconnectEvent, Reconnect, callerVars, chanVars, senderVars
<1>5. CASE Flush
    <2>1. Buffered(m) => Buffered(m)' \/ m \in delivered'
        <3>1. buffer \in Seq(Messages) /\ buffer # <<>>
            BY <1>5 DEF Flush, TypeOK
        <3>2. /\ Head(buffer) = buffer[1]
              /\ Len(buffer) \in Nat /\ Len(buffer') = Len(buffer) - 1
              /\ \A i \in 1 .. Len(buffer') : buffer'[i] = buffer[i + 1]
            BY <1>5, <3>1, QueueTail DEF Flush
        <3>3. ASSUME NEW i \in 1 .. Len(buffer), buffer[i] = m, i # 1
              PROVE  Buffered(m)'
            <4>1. i - 1 \in 1 .. Len(buffer') /\ buffer'[i - 1] = buffer[i]
                BY <3>2, <3>3
            <4> QED
                BY <3>3, <4>1 DEF Buffered
        <3> QED
            BY <1>5, <3>2, <3>3 DEF Flush, Buffered
    <2> QED
        BY <1>5, <2>1 DEF Flush, Somewhere, Queued, Held, Lost, callerVars, chanVars, senderVars
<1>6. CASE Close
    <2>1. Buffered(m) => m \in cut'
        BY <1>6 DEF Close, Buffered
    <2> QED
        BY <1>6, <2>1 DEF Close, Somewhere, Queued, Held, Lost, callerVars, senderVars
<1>7. ASSUME NEW n \in Messages, ExpireRecord(n) PROVE Somewhere(m)'
    <2>1. record[m] # "none" => record'[m] # "none" \/ m \in expired'
        BY <1>7 DEF ExpireRecord, TypeOK
    <2> QED
        BY <1>7, <2>1 DEF ExpireRecord, Somewhere, Queued, Held, Buffered, Lost, callerVars,
                          chanVars, senderVars
<1>3. ASSUME NEW p \in Procs, Write(p) PROVE Somewhere(m)'
    <2>1. CASE WriteCheck(p) \/ WriteInterrupted(p)
        BY <1>1, <2>1 DEF WriteCheck, WriteInterrupted, chanVars, senderVars
    <2>2. CASE WriteSave(p)
        BY <1>1, <2>2, CallerMessage DEF WriteSave, TypeOK, chanVars, senderVars
    <2>3. CASE WritePut(p)
        <3>1. MessageOf(p) \in Messages
            BY <2>3, CallerMessage DEF WritePut
        <3>2. Queued(m) => Queued(m)'
            BY <2>3, <3>1, Fields, AppendKeeps DEF WritePut, TypeOK
        <3> QED
            BY <2>3, <3>2 DEF WritePut, Somewhere, Held, Buffered, Lost, chanVars, senderVars
    <2> QED
        BY <1>3, <2>1, <2>2, <2>3 DEF Write
<1>4. ASSUME NEW c \in Conns, Sender(c) PROVE Somewhere(m)'
    <2>1. CASE SenderAwait(c)
        BY <1>1, <2>1 DEF SenderAwait
    <2>2. ASSUME held[c] = None, queue # <<>>, held' = [held EXCEPT ![c] = Head(queue)],
                 queue' = Tail(queue), UNCHANGED <<record, buffer, delivered, cut, lost, expired>>
          PROVE  Somewhere(m)'
        BY <2>2, PollKeeps DEF Somewhere, Buffered, Lost
    <2>3. CASE SenderPoll(c)
        BY <2>2, <2>3 DEF SenderPoll
    <2>4. CASE SenderLastPoll(c)
        <3>1. CASE held[c] = None /\ queue # <<>>
            BY <2>2, <2>4, <3>1 DEF SenderLastPoll
        <3>2. CASE ~(held[c] = None /\ queue # <<>>)
            <4>1. held' = held /\ queue' = queue
                BY <2>4, <3>2 DEF SenderLastPoll, TypeOK
            <4> QED
                BY <1>1, <2>4, <4>1 DEF SenderLastPoll
        <3> QED
            BY <3>1, <3>2
    <2>5. CASE SenderSend(c)
        <3>1. held[c] \in Gelf /\ held[c] # None /\ held[c].msg \in Messages
            BY <2>5, Fields DEF SenderSend, TypeOK, HandsFull
        <3>0. PICK n \in Messages : n = held[c].msg
            BY <3>1
        <3>2. /\ Buffered(n)'
              /\ Buffered(m) => Buffered(m)'
            BY <2>5, <3>0, BufferKeeps DEF SenderSend, TypeOK
        <3>3. record[m] # "none" => record'[m] # "none"
            BY <2>5, <3>1 DEF SenderSend, TypeOK
        <3>4. Held(m) => Held(m)' \/ m = n
            BY <2>5, <3>0 DEF SenderSend, TypeOK, Held
        <3> QED
            BY <2>5, <3>2, <3>3, <3>4 DEF SenderSend, Somewhere, Queued, Lost
    <2>6. CASE SenderFailed(c)
        <3>1. held[c] \in Gelf /\ held[c] # None /\ held[c].msg \in Messages
            BY <2>6, Fields DEF SenderFailed, TypeOK, HandsFull
        <3>2. CASE held[c].linked
            BY <1>1, <2>6, <3>1, <3>2 DEF SenderFailed, TypeOK
        <3>3. CASE ~held[c].linked
            <4>1. Lost(m) => Lost(m)'
                BY <2>6, <3>3 DEF SenderFailed, Lost
            <4>2. m = held[c].msg => Lost(m)'
                BY <2>6, <3>3 DEF SenderFailed, Lost
            <4>3. Held(m) => Held(m)' \/ m = held[c].msg
                BY <2>6, <3>3 DEF SenderFailed, TypeOK, Held
            <4> QED
                BY <2>6, <3>3, <4>1, <4>2, <4>3 DEF SenderFailed, Somewhere, Queued, Buffered
        <3> QED
            BY <3>2, <3>3
    <2> QED
        BY <1>4, <2>1, <2>3, <2>4, <2>5, <2>6 DEF Sender
<1> QED
    BY <1>2, <1>3, <1>4, <1>5, <1>6, <1>7 DEF Next

\* write() returns for a well-formed message whose save succeeds only after it put
\* the message into the queue or saved it.
LEMMA ReturnsSomewhere ==
    ASSUME TypeInv, Next, NEW m \in Messages \ (Poison \cup Malformed \cup Unsaved),
           pc[m] # "done", pc'[m] = "done"
    PROVE  Somewhere(m)'
<1> USE DEF TypeInv
<1>0. m \in Procs /\ m \notin Retriers
    BY ConstantsAssumption DEF Procs
<1>1. PICK p \in Procs : Write(p)
    <2>1. CASE SetListener \/ (\E n \in Messages : ExpireRecord(n)) \/ Connected \/ Flush
               \/ Close \/ EventLoop \/ (\E c \in Conns : Sender(c))
        BY <2>1 DEF SetListener, ExpireRecord, Connected, Flush, Close, EventLoop, ConnectFailed, ConnectEvent,
                    SenderStop, DisconnectEvent, Reconnect, Sender, SenderAwait, SenderPoll,
                    SenderLastPoll, SenderSend, SenderFailed, callerVars
    <2>2. CASE \E n \in Messages : Begin(n)
        BY <1>0, <2>2 DEF Begin, TypeOK
    <2>3. CASE \E r \in Retriers : Retry(r)
        BY <1>0, <2>3 DEF Retry, RetryBegin, RetryFind, RetryNext, TypeOK
    <2> QED
        BY <2>1, <2>2, <2>3 DEF Next
<1>2. p = m /\ MessageOf(p) = m
    BY <1>0, <1>1 DEF Write, WriteCheck, WritePut, WriteInterrupted, WriteSave, TypeOK, MessageOf
<1>3. ~WriteCheck(m) /\ ~WriteInterrupted(m)
    BY <1>0, <1>2 DEF WriteCheck, WriteInterrupted, TypeOK
<1>4. CASE WritePut(m)
    <2>1. Queued(CreateMessage(m).msg)'
        BY <1>2, <1>4, Fields, AppendKeeps DEF WritePut, TypeOK
    <2> QED
        BY <2>1, Fields DEF Somewhere
<1>5. CASE WriteSave(m)
    BY <1>2, <1>5 DEF WriteSave, TypeOK, Somewhere
<1> QED
    BY <1>1, <1>2, <1>3, <1>4, <1>5 DEF Write

\* The step of MessageKept, which the types make inductive.
LEMMA KeptStep == TypeInv /\ MessageKept /\ [Next]_vars => MessageKept'
<1> SUFFICES ASSUME TypeInv, MessageKept, [Next]_vars,
                    NEW m \in Messages \ (Poison \cup Malformed \cup Unsaved),
                    pc'[m] = "done"
             PROVE  Somewhere(m)'
    BY DEF MessageKept, Somewhere
<1>1. CASE pc[m] = "done" /\ Next
    BY <1>1, StaysSomewhere DEF MessageKept, Somewhere
<1>2. CASE pc[m] # "done" /\ Next
    BY <1>2, ReturnsSomewhere
<1>3. CASE UNCHANGED vars
    BY <1>3 DEF MessageKept, Somewhere, Queued, Held, Buffered, Lost, vars, callerVars,
                senderVars
<1> QED
    BY <1>1, <1>2, <1>3

\* A well-formed message write() has returned for never vanishes: it is queued, held
\* by a sender thread, buffered, delivered or parked, or it left by expiry of its
\* record, with the buffer of a closed channel, or with a dead sender thread.
THEOREM Kept == SafeSpec => []MessageKept
<1>1. Init => MessageKept
    BY DEF Init, MessageKept, Procs
<1> QED
    BY <1>1, TypeInit, TypeStep, KeptStep, PTL DEF SafeSpec

-----------------------------------------------------------------------------
(* NoDuplicates. *)

InHand(c, m) == held[c] # None /\ held[c].msg = m

\* A message is in at most one place; in none before its caller has put it.
OnePlace(m) ==
    /\ \A i, j \in 1 .. Len(queue) : queue[i].msg = m /\ queue[j].msg = m => i = j
    /\ \A c, d \in Conns : InHand(c, m) /\ InHand(d, m) => c = d
    /\ Queued(m) => ~Held(m) /\ sent[m] = 0
    /\ Held(m) => sent[m] = 0
    /\ sent[m] <= 1
    /\ pc[m] # "done" => ~Queued(m) /\ ~Held(m) /\ sent[m] = 0

\* The message has a record, or had one until it expired.
Parked(m) == record[m] # "none" \/ m \in expired

\* A message a retry task is about to write has been parked.
RetriedIsParked ==
    \A r \in Retriers :
        /\ \A m \in todo[r] : Parked(m)
        /\ pc[r] \in {"write", "put", "save"} => Parked(cur[r])

DuplicateInv ==
    RetriedIsParked /\ \A m \in Messages : ~Parked(m) => OnePlace(m)

\* A message stays parked: mongod alone takes a record back to none.
LEMMA ParkedStays ==
    ASSUME TypeInv, Next, NEW m \in Messages, Parked(m)
    PROVE  Parked(m)'
<1> USE DEF TypeInv
<1>1. CASE SetListener \/ (\E n \in Messages : Begin(n)) \/ (\E r \in Retriers : Retry(r))
           \/ Connected \/ Flush \/ Close \/ EventLoop
    BY <1>1 DEF SetListener, Begin, Retry, RetryBegin, RetryFind, RetryNext, Connected,
                Flush, Close, EventLoop, ConnectFailed, ConnectEvent, SenderStop, DisconnectEvent,
                Reconnect, Parked
<1>4. ASSUME NEW n \in Messages, ExpireRecord(n) PROVE Parked(m)'
    BY <1>4 DEF ExpireRecord, TypeOK, Parked
<1>2. ASSUME NEW p \in Procs, Write(p) PROVE Parked(m)'
    BY <1>2, CallerMessage DEF Write, WriteCheck, WritePut, WriteInterrupted, WriteSave, TypeOK,
                               Parked
<1>3. ASSUME NEW c \in Conns, Sender(c) PROVE Parked(m)'
    BY <1>3, Fields DEF Sender, SenderAwait, SenderPoll, SenderLastPoll, SenderSend,
                        SenderFailed, TypeOK, HandsFull, Parked
<1> QED
    BY <1>1, <1>2, <1>3, <1>4 DEF Next

\* The retry task writes what it found with a record.
LEMMA ParkedStep ==
    ASSUME TypeInv, Next, RetriedIsParked
    PROVE  RetriedIsParked'
<1> USE DEF TypeInv
<1>1. \A r \in Retriers : todo[r] \subseteq Messages
    BY DEF TypeOK
<1>2. ASSUME NEW r \in Retriers,
             todo'[r] = todo[r],
             pc'[r] \in {"write", "put", "save"} =>
                /\ pc[r] \in {"write", "put", "save"}
                /\ cur'[r] = cur[r]
      PROVE  /\ \A m \in todo'[r] : Parked(m)'
             /\ pc'[r] \in {"write", "put", "save"} => Parked(cur[r])'
    <2>1. pc[r] \in {"write", "put", "save"} => cur[r] \in Messages
        BY DEF TypeOK, HandsFull
    <2> QED
        BY <1>1, <1>2, <2>1, ParkedStays DEF RetriedIsParked
<1>3. CASE UNCHANGED callerVars
    BY <1>2, <1>3 DEF callerVars, RetriedIsParked
<1>4. CASE SetListener \/ (\E m \in Messages : ExpireRecord(m)) \/ Connected \/ Flush \/ Close
           \/ EventLoop \/ (\E c \in Conns : Sender(c))
    BY <1>3, <1>4 DEF SetListener, ExpireRecord, Connected, Flush, Close, EventLoop, ConnectFailed, ConnectEvent,
                SenderStop, DisconnectEvent, Reconnect, Sender, SenderAwait, SenderPoll,
                SenderLastPoll, SenderSend, SenderFailed
<1>5. CASE \E m \in Messages : Begin(m)
    <2>1. \A r \in Retriers : todo'[r] = todo[r] /\ cur'[r] = cur[r] /\ pc'[r] = pc[r]
        BY <1>5, ConstantsAssumption DEF Begin, TypeOK, Procs
    <2> QED
        BY <1>2, <2>1 DEF RetriedIsParked
<1>6. CASE \E p \in Procs : Write(p)
    <2>1. \A r \in Retriers :
            /\ todo'[r] = todo[r] /\ cur'[r] = cur[r]
            /\ pc'[r] # pc[r] => pc[r] \in {"write", "put", "save"}
        BY <1>6 DEF Write, WriteCheck, WritePut, WriteInterrupted, WriteSave, TypeOK, Procs
    <2> QED
        BY <1>2, <2>1 DEF RetriedIsParked
<1>7. ASSUME NEW q \in Retriers, Retry(q)
      PROVE  RetriedIsParked'
    <2>0. q \in Procs /\ record' = record /\ expired' = expired
        BY <1>7 DEF Procs, Retry, RetryBegin, RetryFind, RetryNext
    <2>1. \A r \in Retriers \ {q} : todo'[r] = todo[r] /\ cur'[r] = cur[r] /\ pc'[r] = pc[r]
        BY <1>7, <2>0 DEF Retry, RetryBegin, RetryFind, RetryNext, TypeOK, Procs
    <2>2. /\ \A m \in todo'[q] : Parked(m)
          /\ pc'[q] \in {"write", "put", "save"} => Parked(cur'[q])
        <3>1. CASE RetryBegin(q)
            BY <2>0, <3>1 DEF RetryBegin, TypeOK, RetriedIsParked
        <3>2. CASE RetryFind(q)
            BY <2>0, <3>2 DEF RetryFind, TypeOK, Pages, NotSent, Parked
        <3>3. CASE RetryNext(q)
            BY <2>0, <3>3 DEF RetryNext, TypeOK, RetriedIsParked
        <3> QED
            BY <1>7, <3>1, <3>2, <3>3 DEF Retry
    <2> QED
        BY <2>0, <2>1, <2>2 DEF RetriedIsParked, Parked
<1> QED
    BY <1>4, <1>5, <1>6, <1>7 DEF Next

\* A step that moves no message leaves it in its place.
LEMMA PlaceUnmoved ==
    ASSUME NEW m \in Messages, OnePlace(m), UNCHANGED <<queue, held, sent>>,
           pc[m] = "done" => pc'[m] = "done"
    PROVE  OnePlace(m)'
  BY DEF OnePlace, Queued, Held, InHand

\* put() moves a message from its caller into the queue; a retry task puts only
\* messages that have a record.
LEMMA PlaceOfPut ==
    ASSUME TypeInv, NEW p \in Procs, WritePut(p), RetriedIsParked,
           NEW m \in Messages, ~Parked(m), OnePlace(m)
    PROVE  OnePlace(m)'
<1> USE DEF TypeInv
<1> DEFINE n == MessageOf(p)
<1>0. m \in Procs
    BY DEF Procs
<1>1. /\ n \in Messages
      /\ p \in Messages => n = p
      /\ p \notin Messages => p \in Retriers /\ n = cur[p]
    BY CallerMessage DEF WritePut
<1>2. /\ Len(queue) \in Nat /\ Len(queue') = Len(queue) + 1
      /\ \A i \in 1 .. Len(queue) : queue'[i] = queue[i]
      /\ queue'[Len(queue) + 1].msg = n
    BY <1>1, Fields, QueueAppend DEF WritePut, TypeOK
<1>3. UNCHANGED <<held, sent>>
    BY DEF WritePut, senderVars
<1>4. n = m => p = m
    BY <1>1 DEF WritePut, RetriedIsParked
<1>5. n = m => ~Queued(m) /\ ~Held(m) /\ sent[m] = 0 /\ pc'[m] = "done"
    BY <1>0, <1>4 DEF WritePut, OnePlace, Returned, TypeOK
<1>6. pc[m] = "done" => pc'[m] = "done"
    BY <1>0 DEF WritePut, TypeOK
<1>7. \A i \in 1 .. Len(queue') :
        \/ i \in 1 .. Len(queue) /\ queue'[i] = queue[i]
        \/ i = Len(queue) + 1 /\ queue'[i].msg = n
    BY <1>2
<1>8. Queued(m)' => Queued(m) \/ n = m
    BY <1>7 DEF Queued
<1>9. \A i, j \in 1 .. Len(queue') : queue'[i].msg = m /\ queue'[j].msg = m => i = j
    <2> HIDE DEF n
    <2>1. CASE n = m
        BY <1>5, <1>7, <2>1 DEF Queued
    <2>2. CASE n # m
        BY <1>7, <2>2 DEF OnePlace
    <2> QED
        BY <2>1, <2>2
<1> HIDE DEF n
<1>10. (Held(m)' <=> Held(m)) /\ (\A c \in Conns : InHand(c, m)' <=> InHand(c, m))
    BY <1>3 DEF Held, InHand
<1> QED
    BY <1>3, <1>5, <1>6, <1>8, <1>9, <1>10 DEF OnePlace

\* A poll moves the first message of the queue into empty hands.
LEMMA PlaceOfPoll ==
    ASSUME TypeInv, NEW c \in Conns, held[c] = None, queue # <<>>,
           held' = [held EXCEPT ![c] = Head(queue)], queue' = Tail(queue),
           UNCHANGED <<sent, pc>>,
           NEW m \in Messages, OnePlace(m)
    PROVE  OnePlace(m)'
<1>0. queue \in Seq(Gelf) /\ held \in [Conns -> Gelf \cup {None}]
    BY DEF TypeInv, TypeOK
<1>1. /\ Head(queue) \in Gelf /\ Head(queue) = queue[1] /\ 1 \in 1 .. Len(queue)
      /\ Len(queue) \in Nat /\ Len(queue') = Len(queue) - 1
      /\ \A i \in 1 .. Len(queue') : i + 1 \in 1 .. Len(queue) /\ queue'[i] = queue[i + 1]
    BY <1>0, QueueTail
<1>2. Head(queue) # None
    BY <1>1, Fields
<1>3. \A d \in Conns : InHand(d, m)' <=> InHand(d, m) \/ (d = c /\ queue[1].msg = m)
    BY <1>0, <1>1, <1>2 DEF InHand
<1>4. Held(m)' => Held(m) \/ queue[1].msg = m
    BY <1>3 DEF Held, InHand
<1>5. Queued(m)' => Queued(m) /\ queue[1].msg # m
    <2>1. ASSUME NEW i \in 1 .. Len(queue'), queue'[i].msg = m
          PROVE  Queued(m) /\ queue[1].msg # m
        <3>1. i + 1 # 1
            BY <1>1
        <3> QED
            BY <1>1, <2>1, <3>1 DEF Queued, OnePlace
    <2> QED
        BY <2>1 DEF Queued
<1>6. queue[1].msg = m => Queued(m)
    BY <1>1 DEF Queued
<1>7. \A i, j \in 1 .. Len(queue') : queue'[i].msg = m /\ queue'[j].msg = m => i = j
    <2> TAKE i, j \in 1 .. Len(queue')
    <2> HAVE queue'[i].msg = m /\ queue'[j].msg = m
    <2>1. i + 1 = j + 1
        BY <1>1 DEF OnePlace
    <2> QED
        BY <1>1, <2>1
<1>8. \A d, e \in Conns : InHand(d, m)' /\ InHand(e, m)' => d = e
    BY <1>3, <1>6 DEF OnePlace, Held, InHand
<1> QED
    BY <1>4, <1>5, <1>6, <1>7, <1>8 DEF OnePlace

\* A write to the channel moves a message out of the hands of the thread; what
\* failed leaves them, or stays with a record.
LEMMA PlaceOfSend ==
    ASSUME TypeInv, NEW c \in Conns, SenderSend(c) \/ SenderFailed(c),
           NEW m \in Messages, OnePlace(m), ~Parked(m)'
    PROVE  OnePlace(m)'
<1> USE DEF TypeInv
<1>1. held[c] \in Gelf /\ held[c] # None /\ held[c].msg \in Messages
    BY Fields DEF SenderSend, SenderFailed, TypeOK, HandsFull
<1>2. queue' = queue /\ pc' = pc
    BY DEF SenderSend, SenderFailed, callerVars
<1>3. CASE held' = held
    <2>1. sent' = sent
        BY <1>1, <1>3 DEF SenderSend, SenderFailed, TypeOK
    <2> QED
        BY <1>2, <1>3, <2>1, PlaceUnmoved
<1>4. CASE held' = [held EXCEPT ![c] = None]
    <2>1. \A d \in Conns : InHand(d, m)' <=> InHand(d, m) /\ d # c
        BY <1>4 DEF InHand, TypeOK
    <2>2. InHand(c, m) => ~Held(m)'
        BY <2>1 DEF OnePlace, Held, InHand
    <2>3. (Queued(m)' <=> Queued(m)) /\ (Held(m)' => Held(m)) /\ (InHand(c, m) => Held(m))
        BY <1>2, <2>1 DEF Queued, Held, InHand
    <2>4. sent'[m] = sent[m] \/ (InHand(c, m) /\ sent'[m] = sent[m] + 1)
        BY <1>1 DEF SenderSend, SenderFailed, CountSent, TypeOK, InHand
    <2>5. sent[m] \in Nat
        BY DEF TypeOK
    <2>6. \A d, e \in Conns : InHand(d, m)' /\ InHand(e, m)' => d = e
        BY <2>1 DEF OnePlace
    <2> QED
        BY <1>2, <2>2, <2>3, <2>4, <2>5, <2>6 DEF OnePlace
<1> QED
    BY <1>3, <1>4 DEF SenderSend, SenderFailed

\* Every step keeps the places of the messages that have no record.
LEMMA PlaceStep == TypeInv /\ DuplicateInv /\ [Next]_vars => DuplicateInv'
<1> SUFFICES ASSUME TypeInv, DuplicateInv, [Next]_vars PROVE DuplicateInv'
    OBVIOUS
<1>1. CASE UNCHANGED vars
    BY <1>1 DEF DuplicateInv, RetriedIsParked, Parked, OnePlace, Queued, Held, InHand,
                vars, callerVars, senderVars
<1>2. ASSUME Next, NEW m \in Messages, ~Parked(m)'
      PROVE  OnePlace(m)'
    <2>0. ~Parked(m) /\ OnePlace(m) /\ m \in Procs /\ m \notin Retriers
        BY <1>2, ParkedStays, ConstantsAssumption DEF DuplicateInv, Procs
    <2> USE DEF TypeInv
    <2>1. CASE SetListener \/ (\E n \in Messages : ExpireRecord(n)) \/ Connected \/ Flush
               \/ Close \/ EventLoop
        BY <2>0, <2>1, PlaceUnmoved
           DEF SetListener, ExpireRecord, Connected, Flush, Close, EventLoop, ConnectFailed, ConnectEvent,
               SenderStop, DisconnectEvent, Reconnect, callerVars, senderVars
    <2>2. CASE (\E n \in Messages : Begin(n)) \/ (\E r \in Retriers : Retry(r))
        <3>1. pc[m] = "done" => pc'[m] = "done"
            BY <2>0, <2>2 DEF Begin, Retry, RetryBegin, RetryFind, RetryNext, TypeOK
        <3> QED
            BY <2>0, <2>2, <3>1, PlaceUnmoved
               DEF Begin, Retry, RetryBegin, RetryFind, RetryNext, senderVars
    <2>3. ASSUME NEW p \in Procs, WriteCheck(p) \/ WriteInterrupted(p) \/ WriteSave(p)
          PROVE  OnePlace(m)'
        <3>1. pc[m] = "done" => pc'[m] = "done"
            BY <2>0, <2>3 DEF WriteCheck, WriteInterrupted, WriteSave, TypeOK
        <3> QED
            BY <2>0, <2>3, <3>1, PlaceUnmoved
               DEF WriteCheck, WriteInterrupted, WriteSave, senderVars
    <2>4. ASSUME NEW p \in Procs, WritePut(p)
          PROVE  OnePlace(m)'
        BY <2>0, <2>4, PlaceOfPut DEF DuplicateInv
    <2>5. ASSUME NEW c \in Conns, Sender(c)
          PROVE  OnePlace(m)'
        <3>1. CASE SenderAwait(c)
            BY <2>0, <3>1, PlaceUnmoved DEF SenderAwait, callerVars
        <3>2. CASE SenderPoll(c)
            BY <2>0, <3>2, PlaceOfPoll DEF SenderPoll, callerVars
        <3>3. CASE SenderLastPoll(c) /\ held[c] = None /\ queue # <<>>
            BY <2>0, <3>3, PlaceOfPoll DEF SenderLastPoll, callerVars
        <3>4. CASE SenderLastPoll(c) /\ ~(held[c] = None /\ queue # <<>>)
            <4>1. held' = held /\ queue' = queue
                BY <3>4 DEF SenderLastPoll, TypeOK
            <4> QED
                BY <2>0, <3>4, <4>1, PlaceUnmoved DEF SenderLastPoll, callerVars
        <3>5. CASE SenderSend(c) \/ SenderFailed(c)
            BY <1>2, <2>0, <3>5, PlaceOfSend
        <3> QED
            BY <2>5, <3>1, <3>2, <3>3, <3>4, <3>5 DEF Sender
    <2> QED
        BY <1>2, <2>1, <2>2, <2>3, <2>4, <2>5 DEF Next, Write
<1> QED
    BY <1>1, <1>2, ParkedStep DEF DuplicateInv

\* At most one place, as a number of copies.
LEMMA PlacesCounted == TypeInv /\ DuplicateInv => NoDuplicates
<1> SUFFICES ASSUME TypeInv, NEW m \in Messages, OnePlace(m)
             PROVE  Copies(m) <= 1
    BY DEF DuplicateInv, NoDuplicates, Parked
<1> DEFINE Q == {i \in 1 .. Len(queue) : queue[i].msg = m}
           H == {c \in Conns : held[c] # None /\ held[c].msg = m}
<1>1. /\ \A i, j \in Q : i = j
      /\ \A c, d \in H : c = d
    BY DEF OnePlace, InHand
<1>2. (Q # {} <=> Queued(m)) /\ (H # {} <=> Held(m))
    BY DEF Queued, Held
<1>3. Copies(m) = Cardinality(Q) + Cardinality(H) + sent[m]
    BY DEF Copies
<1>4. sent[m] \in Nat
    BY DEF TypeInv, TypeOK
<1> HIDE DEF Q, H
<1>5. /\ Cardinality(Q) = IF Q = {} THEN 0 ELSE 1
      /\ Cardinality(H) = IF H = {} THEN 0 ELSE 1
    BY <1>1, AtMostOne
<1> QED
    BY <1>2, <1>3, <1>4, <1>5 DEF OnePlace

\* A message that was never parked is written at most once, whatever number of
\* sender threads of old and new connections poll the queue.
THEOREM Once == SafeSpec => []NoDuplicates
<1>1. Init => DuplicateInv
    BY DEF Init, DuplicateInv, RetriedIsParked, OnePlace, Queued, Held, InHand, Procs
<1> QED
    BY <1>1, TypeInit, TypeStep, PlaceStep, PlacesCounted, PTL DEF SafeSpec
=============================================================================
