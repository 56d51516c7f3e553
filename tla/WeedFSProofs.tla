---------------------------- MODULE WeedFSProofs ----------------------------
(***************************************************************************)
(* Proofs about the upload pipeline, for every set of uploads, every       *)
(* number of connections and retry tasks, every capacity, and with every   *)
(* kind of answer, failing call and expiry allowed.                        *)
(***************************************************************************)
EXTENDS WeedFS, TLAPS

\* A thread that works on something holds it, a retry task in write() has a record.
HandsFull ==
    /\ \A c \in Conns : wpc[c] = "send" => held[c] # None
    /\ \A c \in Conns : rpc[c] \in {"handle", "graylog", "remove", "delete"} => rheld[c] # None
    /\ \A c \in Conns : rpc[c] \in {"graylog", "remove", "delete"} => rheld[c].code = "created"
    /\ \A r \in Retriers : pc[r] \in {"write", "check", "drop", "put", "map", "save"}
                              => cur[r] # None

\* A complete answer, wherever it is on its way, is about stored contents.
Truthful(r) == r.code = "created" => r.up \in stored

AnswersTruthful ==
    /\ \A i \in 1 .. Len(resp) : Truthful(resp[i])
    /\ \A i \in 1 .. Len(readQueue) : Truthful(readQueue[i])
    /\ ev # None => Truthful(ev)
    /\ \A c \in Conns : rheld[c] # None => Truthful(rheld[c])

\* Whatever the pipeline knows of has reached the disk before, and files are found
\* under their own name, map entries under their own key.
AllKnown ==
    /\ \A n \in Names : disk[n] # None => disk[n] \in Accepted /\ FileOf[disk[n]] = n
    /\ \A k \in Keys : weedMetaMap[k] # None =>
            weedMetaMap[k].up \in Accepted /\ KeyOf[weedMetaMap[k].up] = k
    /\ \A i \in 1 .. Len(writeQueue) : writeQueue[i].up \in Accepted
    /\ \A i \in 1 .. Len(wire) : wire[i] \in Accepted
    /\ \A c \in Conns : held[c] # None => held[c].up \in Accepted
    /\ \A u \in Uploads : status[u] # "none" => u \in Accepted
    /\ \A r \in Retriers : todo[r] \subseteq Accepted
    /\ \A r \in Retriers : cur[r] # None => cur[r] \in Accepted

IInv ==
    /\ TypeOK
    /\ HandsFull
    /\ AnswersTruthful
    /\ AllKnown
    /\ NothingVanishes
    /\ RecordedIsStored
    /\ ClosedIsSettled

-----------------------------------------------------------------------------
\* What Head and Tail give of a queue that is not empty.
LEMMA QueueTail ==
    ASSUME NEW S, NEW q \in Seq(S), q # <<>>
    PROVE  /\ Head(q) \in S
           /\ 1 \in 1 .. Len(q) /\ Head(q) = q[1]
           /\ Tail(q) \in Seq(S)
           /\ \A i \in 1 .. Len(Tail(q)) : i + 1 \in 1 .. Len(q) /\ Tail(q)[i] = q[i + 1]
  OBVIOUS

\* What Append gives of a queue.
LEMMA QueueAppend ==
    ASSUME NEW S, NEW q \in Seq(S), NEW e \in S
    PROVE  /\ Append(q, e) \in Seq(S)
           /\ \A i \in 1 .. Len(Append(q, e)) :
                 \/ Append(q, e)[i] = e
                 \/ i \in 1 .. Len(q) /\ Append(q, e)[i] = q[i]
  OBVIOUS

\* Every upload has its key among the keys and its file name among the names.
LEMMA KeyOfUpload == \A u \in Uploads : KeyOf[u] \in Keys /\ FileOf[u] \in Names
  BY DEF Keys, Names

\* The fields of metas and answers, none of which is None.
LEMMA Fields ==
    /\ \A x \in Meta : x.up \in Uploads /\ x.id \in BOOLEAN /\ x # None
    /\ \A x \in Reply : x.up \in Uploads /\ x.code \in AllReplies /\ x # None
    /\ \A u \in Uploads : u # None
  BY ConstantsAssumption DEF Meta, Reply

\* The meta a caller in write() works on is that of an accepted upload.
LEMMA CallerMeta ==
    ASSUME TypeOK, HandsFull, AllKnown,
           NEW p \in Procs, pc[p] \in {"write", "check", "drop", "put", "map", "save"}
    PROVE  /\ MetaOf(p) \in Meta
           /\ MetaOf(p).up \in Accepted
           /\ KeyFor(p) = KeyOf[MetaOf(p).up]
           /\ KeyFor(p) \in Keys
           /\ NameFor(p) = FileOf[MetaOf(p).up]
           /\ NameFor(p) \in Names
<1>1. CASE p \in Uploads
  BY <1>1, KeyOfUpload DEF MetaOf, KeyFor, NameFor, Meta, Accepted
<1>2. CASE p \notin Uploads
  <2>1. p \in Retriers /\ cur[p] \in Accepted /\ cur[p] \in Uploads
    BY <1>2 DEF Procs, HandsFull, AllKnown, TypeOK
  <2> QED
    BY <1>2, <2>1, KeyOfUpload DEF MetaOf, KeyFor, NameFor, Meta
<1> QED
  BY <1>1, <1>2

\* A step of a caller inside write() or of a retry task accepts no upload.
LEMMA SameAccepted ==
    ASSUME TypeOK, NEW p \in Procs, NEW x, pc[p] # "none", x # "none",
           pc' = [pc EXCEPT ![p] = x]
    PROVE  Accepted' = Accepted
  BY DEF TypeOK, Accepted, Procs

LEMMA ArriveInv ==
    ASSUME IInv, NEW u \in Uploads, Arrive(u)
    PROVE  IInv'
<1> USE DEF IInv, Arrive, flagVars, queueVars, chanVars, writerVars, readerVars, resultVars
<1>1. Accepted' = Accepted \cup {u} /\ FileOf[u] \in Names
  BY KeyOfUpload DEF TypeOK, Accepted, Procs
<1>2. TypeOK'
  BY <1>1, ConstantsAssumption DEF TypeOK
<1>3. HandsFull'
  BY <1>1, ConstantsAssumption DEF TypeOK, HandsFull
<1>4. AllKnown'
  BY <1>1, ConstantsAssumption DEF TypeOK, AllKnown
<1>5. NothingVanishes'
  BY <1>1, ConstantsAssumption DEF TypeOK, NothingVanishes, AllKnown, OwnFile
<1>6. AnswersTruthful' /\ RecordedIsStored' /\ ClosedIsSettled'
  BY DEF AnswersTruthful, Truthful, RecordedIsStored, ClosedIsSettled
<1> QED
  BY <1>2, <1>3, <1>4, <1>5, <1>6

LEMMA CheckSumInv ==
    ASSUME IInv, NEW u \in Uploads, CheckSum(u)
    PROVE  IInv'
<1> USE DEF IInv, CheckSum, diskVars, flagVars, queueVars, chanVars, writerVars, readerVars, resultVars
<1>1. PICK x \in {"write", "done"} : pc' = [pc EXCEPT ![u] = x]
  OBVIOUS
<1>2. u \in Procs /\ u \notin Retriers
  BY ConstantsAssumption DEF Procs
<1>3. Accepted' = Accepted
  BY <1>1, <1>2, SameAccepted
<1>4. TypeOK'
  BY <1>1, <1>2 DEF TypeOK
<1>5. HandsFull'
  BY <1>1, <1>2 DEF TypeOK, HandsFull
<1>6. AllKnown'
  BY <1>3 DEF AllKnown
<1>7. NothingVanishes'
  BY <1>3 DEF NothingVanishes
<1>8. AnswersTruthful' /\ RecordedIsStored' /\ ClosedIsSettled'
  BY DEF AnswersTruthful, Truthful, RecordedIsStored, ClosedIsSettled
<1> QED
  BY <1>4, <1>5, <1>6, <1>7, <1>8

LEMMA AgeInv ==
    ASSUME IInv, NEW u \in Uploads, Age(u)
    PROVE  IInv'
<1> USE DEF IInv, Age, diskVars, flagVars, queueVars, callerVars, chanVars, writerVars, readerVars, resultVars
<1>1. TypeOK'
  BY ConstantsAssumption DEF TypeOK
<1>2. NothingVanishes'
  BY DEF TypeOK, NothingVanishes, AllKnown, Accepted, OwnFile
<1>3. ClosedIsSettled'
  BY DEF TypeOK, ClosedIsSettled
<1>4. HandsFull' /\ AnswersTruthful' /\ AllKnown' /\ RecordedIsStored'
  BY DEF HandsFull, AnswersTruthful, Truthful, AllKnown, Accepted, RecordedIsStored
<1> QED
  BY <1>1, <1>2, <1>3, <1>4

LEMMA ExpireRecordInv ==
    ASSUME IInv, NEW u \in Uploads, ExpireRecord(u)
    PROVE  IInv'
<1> USE DEF IInv, ExpireRecord, flagVars, queueVars, callerVars, chanVars, writerVars, readerVars, resultVars
<1>1. TypeOK'
  BY ConstantsAssumption DEF TypeOK
<1>2. AllKnown'
  BY DEF TypeOK, AllKnown, Accepted
<1>3. ClosedIsSettled'
  BY DEF TypeOK, ClosedIsSettled
<1>4. HandsFull' /\ AnswersTruthful' /\ NothingVanishes' /\ RecordedIsStored'
  BY DEF HandsFull, AnswersTruthful, Truthful, NothingVanishes, Accepted, RecordedIsStored
<1> QED
  BY <1>1, <1>2, <1>3, <1>4

LEMMA WriteCheckConnectedInv ==
    ASSUME IInv, NEW p \in Procs, WriteCheckConnected(p)
    PROVE  IInv'
<1> USE DEF IInv, WriteCheckConnected, diskVars, flagVars, queueVars, chanVars, writerVars, readerVars, resultVars
<1>1. Accepted' = Accepted
  BY SameAccepted
<1>2. MetaOf(p) \in Meta /\ MetaOf(p).up \in Accepted /\ KeyFor(p) \in Keys
            /\ KeyFor(p) = KeyOf[MetaOf(p).up]
            /\ NameFor(p) = FileOf[MetaOf(p).up] /\ NameFor(p) \in Names
  BY CallerMeta
<1>3. TypeOK'
  BY <1>1, <1>2, Fields DEF TypeOK
<1>4. HandsFull'
  BY DEF TypeOK, HandsFull
<1>5. AllKnown'
  BY <1>1, <1>2, Fields DEF TypeOK, AllKnown
<1>6. NothingVanishes'
  BY <1>1, <1>2, Fields DEF TypeOK, NothingVanishes, AllKnown, OwnFile
<1>7. AnswersTruthful' /\ RecordedIsStored' /\ ClosedIsSettled'
  BY DEF AnswersTruthful, Truthful, RecordedIsStored, ClosedIsSettled
<1> QED
  BY <1>3, <1>4, <1>5, <1>6, <1>7

LEMMA WriteCheckErrorInv ==
    ASSUME IInv, NEW p \in Procs, WriteCheckError(p)
    PROVE  IInv'
<1> USE DEF IInv, WriteCheckError, diskVars, flagVars, queueVars, chanVars, writerVars, readerVars, resultVars
<1>1. Accepted' = Accepted
  BY SameAccepted
<1>2. MetaOf(p) \in Meta /\ MetaOf(p).up \in Accepted /\ KeyFor(p) \in Keys
            /\ KeyFor(p) = KeyOf[MetaOf(p).up]
            /\ NameFor(p) = FileOf[MetaOf(p).up] /\ NameFor(p) \in Names
  BY CallerMeta
<1>3. TypeOK'
  BY <1>1, <1>2, Fields DEF TypeOK
<1>4. HandsFull'
  BY DEF TypeOK, HandsFull
<1>5. AllKnown'
  BY <1>1, <1>2, Fields DEF TypeOK, AllKnown
<1>6. NothingVanishes'
  BY <1>1, <1>2, Fields DEF TypeOK, NothingVanishes, AllKnown, OwnFile
<1>7. AnswersTruthful' /\ RecordedIsStored' /\ ClosedIsSettled'
  BY DEF AnswersTruthful, Truthful, RecordedIsStored, ClosedIsSettled
<1> QED
  BY <1>3, <1>4, <1>5, <1>6, <1>7

LEMMA WritePutInv ==
    ASSUME IInv, NEW p \in Procs, WritePut(p)
    PROVE  IInv'
<1> USE DEF IInv, WritePut, diskVars, flagVars, chanVars, writerVars, readerVars, resultVars
<1>1. Accepted' = Accepted
  BY SameAccepted
<1>2. MetaOf(p) \in Meta /\ MetaOf(p).up \in Accepted /\ KeyFor(p) \in Keys
            /\ KeyFor(p) = KeyOf[MetaOf(p).up]
            /\ NameFor(p) = FileOf[MetaOf(p).up] /\ NameFor(p) \in Names
  BY CallerMeta
<1>3. writeQueue' \in Seq(Meta) /\ \A i \in 1 .. Len(writeQueue') :
          \/ writeQueue'[i] = MetaOf(p)
          \/ i \in 1 .. Len(writeQueue) /\ writeQueue'[i] = writeQueue[i]
  BY <1>2, QueueAppend DEF TypeOK
<1>4. TypeOK'
  BY <1>3 DEF TypeOK
<1>5. HandsFull'
  BY DEF TypeOK, HandsFull
<1>6. AllKnown'
  BY <1>1, <1>2, <1>3 DEF TypeOK, AllKnown
<1>7. NothingVanishes'
  BY <1>1, <1>2, Fields DEF TypeOK, NothingVanishes, AllKnown, OwnFile
<1>8. AnswersTruthful' /\ RecordedIsStored' /\ ClosedIsSettled'
  BY DEF AnswersTruthful, Truthful, RecordedIsStored, ClosedIsSettled
<1> QED
  BY <1>4, <1>5, <1>6, <1>7, <1>8

LEMMA WriteMapInv ==
    ASSUME IInv, NEW p \in Procs, WriteMap(p)
    PROVE  IInv'
<1> USE DEF IInv, WriteMap, Return, Returned, diskVars, flagVars, chanVars, writerVars, readerVars, resultVars
<1>1. Accepted' = Accepted
  BY SameAccepted DEF Return, Returned
<1>2. MetaOf(p) \in Meta /\ MetaOf(p).up \in Accepted /\ KeyFor(p) \in Keys
            /\ KeyFor(p) = KeyOf[MetaOf(p).up]
            /\ NameFor(p) = FileOf[MetaOf(p).up] /\ NameFor(p) \in Names
  BY CallerMeta
<1>3. TypeOK'
  BY <1>1, <1>2, Fields DEF TypeOK
<1>4. HandsFull'
  BY DEF TypeOK, HandsFull
<1>5. AllKnown'
  BY <1>1, <1>2, Fields DEF TypeOK, AllKnown
<1>6. NothingVanishes'
  BY <1>1, <1>2, Fields DEF TypeOK, NothingVanishes, AllKnown, OwnFile
<1>7. AnswersTruthful' /\ RecordedIsStored' /\ ClosedIsSettled'
  BY DEF AnswersTruthful, Truthful, RecordedIsStored, ClosedIsSettled
<1> QED
  BY <1>3, <1>4, <1>5, <1>6, <1>7

LEMMA WriteDropInv ==
    ASSUME IInv, NEW p \in Procs, WriteDrop(p)
    PROVE  IInv'
<1> USE DEF IInv, WriteDrop, Return, Returned, flagVars, queueVars, chanVars, writerVars, readerVars
<1>1. Accepted' = Accepted
  BY SameAccepted DEF Return, Returned
<1>2. MetaOf(p) \in Meta /\ MetaOf(p).up \in Accepted /\ KeyFor(p) \in Keys
            /\ KeyFor(p) = KeyOf[MetaOf(p).up]
            /\ NameFor(p) = FileOf[MetaOf(p).up] /\ NameFor(p) \in Names
  BY CallerMeta
<1>3. TypeOK'
  BY <1>1, <1>2, Fields DEF TypeOK
<1>4. HandsFull'
  BY DEF TypeOK, HandsFull
<1>5. AllKnown'
  BY <1>1, <1>2, Fields DEF TypeOK, AllKnown
<1>6. NothingVanishes'
  BY <1>1, <1>2, Fields DEF TypeOK, NothingVanishes, AllKnown, OwnFile
<1>7. ClosedIsSettled'
  BY DEF TypeOK, ClosedIsSettled
<1>8. AnswersTruthful' /\ RecordedIsStored'
  BY DEF AnswersTruthful, Truthful, RecordedIsStored
<1> QED
  BY <1>3, <1>4, <1>5, <1>6, <1>7, <1>8

LEMMA WriteSaveInv ==
    ASSUME IInv, NEW p \in Procs, WriteSave(p)
    PROVE  IInv'
<1> USE DEF IInv, WriteSave, Return, Returned, flagVars, queueVars, chanVars, writerVars, readerVars, resultVars
<1>1. Accepted' = Accepted
  BY SameAccepted DEF Return, Returned
<1>2. MetaOf(p) \in Meta /\ MetaOf(p).up \in Accepted /\ KeyFor(p) \in Keys
            /\ KeyFor(p) = KeyOf[MetaOf(p).up]
            /\ NameFor(p) = FileOf[MetaOf(p).up] /\ NameFor(p) \in Names
  BY CallerMeta
<1>3. PICK x \in {"done", "next", "idle"} : pc' = [pc EXCEPT ![p] = x]
  OBVIOUS
<1>4. TypeOK'
  BY <1>1, <1>2, Fields DEF TypeOK
<1>5. HandsFull'
  BY <1>3 DEF TypeOK, HandsFull
<1>6. AllKnown'
  BY <1>1, <1>2, Fields DEF TypeOK, AllKnown
<1>7. NothingVanishes'
  BY <1>1, <1>2, Fields DEF TypeOK, NothingVanishes, AllKnown, OwnFile
<1>8. ClosedIsSettled'
  BY <1>1, <1>2, <1>3 DEF TypeOK, ClosedIsSettled
<1>9. AnswersTruthful' /\ RecordedIsStored'
  BY DEF AnswersTruthful, Truthful, RecordedIsStored
<1> QED
  BY <1>4, <1>5, <1>6, <1>7, <1>8, <1>9

LEMMA RetryBeginInv ==
    ASSUME IInv, NEW r \in Retriers, RetryBegin(r)
    PROVE  IInv'
<1> USE DEF IInv, RetryBegin, diskVars, queueVars, chanVars, writerVars, readerVars, resultVars
<1>1. r \in Procs /\ r \notin Uploads
  BY ConstantsAssumption DEF Procs
<1>2. Accepted' = Accepted
  BY <1>1, SameAccepted
<1>3. TypeOK'
  BY <1>1 DEF TypeOK
<1>4. HandsFull'
  BY <1>1, Fields DEF TypeOK, HandsFull
<1>5. AllKnown'
  BY <1>1, <1>2, Fields DEF TypeOK, AllKnown
<1>6. NothingVanishes'
  BY <1>2 DEF NothingVanishes
<1>7. AnswersTruthful' /\ RecordedIsStored' /\ ClosedIsSettled'
  BY DEF AnswersTruthful, Truthful, RecordedIsStored, ClosedIsSettled
<1> QED
  BY <1>3, <1>4, <1>5, <1>6, <1>7

LEMMA RetryFindInv ==
    ASSUME IInv, NEW r \in Retriers, RetryFind(r)
    PROVE  IInv'
<1> USE DEF IInv, RetryFind, diskVars, flagVars, queueVars, chanVars, writerVars, readerVars, resultVars
<1>1. r \in Procs /\ r \notin Uploads
  BY ConstantsAssumption DEF Procs
<1>2. Accepted' = Accepted
  BY <1>1, SameAccepted
<1>3. PICK x \in {"next", "idle"} : pc' = [pc EXCEPT ![r] = x]
  OBVIOUS
<1>4. todo' \in [Retriers -> SUBSET Uploads]
            /\ \A q \in Retriers : todo'[q] \subseteq todo[q] \cup NotWritten
  BY DEF TypeOK, Pages, NotWritten
<1>5. TypeOK'
  BY <1>1, <1>3, <1>4 DEF TypeOK
<1>6. HandsFull'
  BY <1>1, <1>3 DEF TypeOK, HandsFull
<1>7. AllKnown'
  BY <1>2, <1>4 DEF TypeOK, AllKnown, NotWritten
<1>8. NothingVanishes'
  BY <1>2 DEF NothingVanishes
<1>9. AnswersTruthful' /\ RecordedIsStored' /\ ClosedIsSettled'
  BY DEF AnswersTruthful, Truthful, RecordedIsStored, ClosedIsSettled
<1> QED
  BY <1>5, <1>6, <1>7, <1>8, <1>9

LEMMA RetryNextInv ==
    ASSUME IInv, NEW r \in Retriers, RetryNext(r)
    PROVE  IInv'
<1> USE DEF IInv, RetryNext, diskVars, flagVars, queueVars, chanVars, writerVars, readerVars, resultVars
<1>1. r \in Procs /\ r \notin Uploads
  BY ConstantsAssumption DEF Procs
<1>2. Accepted' = Accepted
  BY <1>1, SameAccepted
<1>3. /\ cur' \in [Retriers -> Uploads \cup {None}]
      /\ \A q \in Retriers : cur'[q] = cur[q] \/ cur'[q] \in todo[q] \/ cur'[q] = None
  <2>1. PICK x \in todo[r] \cup {None} : cur' = [cur EXCEPT ![r] = x]
    OBVIOUS
  <2>2. x \in Uploads \cup {None}
    BY <2>1 DEF TypeOK
  <2> QED
    BY <2>1, <2>2 DEF TypeOK
<1>4. pc' \in [Procs -> {"none", "sum", "write", "check", "drop", "put", "map", "save",
                         "done", "idle", "find", "next"}]
  BY <1>1 DEF TypeOK
<1>5. /\ todo' \in [Retriers -> SUBSET Uploads]
      /\ \A q \in Retriers : todo'[q] \subseteq todo[q]
  <2>1. PICK X \in SUBSET todo[r] : todo' = [todo EXCEPT ![r] = X]
    <3>1. CASE \E u \in todo[r] : todo' = [todo EXCEPT ![r] = @ \ {u}]
      BY <3>1
    <3>2. CASE UNCHANGED todo
      <4>1. todo = [todo EXCEPT ![r] = todo[r]]
        BY DEF TypeOK
      <4> QED
        BY <3>2, <4>1
    <3> QED
      BY <3>1, <3>2
  <2>2. X \in SUBSET Uploads
    BY <2>1 DEF TypeOK
  <2> QED
    BY <2>1, <2>2 DEF TypeOK
<1>6. TypeOK'
  BY <1>3, <1>4, <1>5 DEF TypeOK
<1>7. HandsFull'
  <2>1. CASE \E u \in todo[r] : /\ cur' = [cur EXCEPT ![r] = u]
                                /\ pc' = [pc EXCEPT ![r] = "write"]
    BY <1>1, <2>1, Fields DEF TypeOK, HandsFull
  <2>2. CASE /\ cur' = [cur EXCEPT ![r] = None]
             /\ pc' = [pc EXCEPT ![r] = "idle"]
    BY <1>1, <2>2 DEF TypeOK, HandsFull
  <2> QED
    BY <2>1, <2>2
<1>8. AllKnown'
  BY <1>2, <1>3, <1>5, Fields DEF TypeOK, AllKnown
<1>9. NothingVanishes'
  BY <1>2 DEF NothingVanishes
<1>10. AnswersTruthful' /\ RecordedIsStored' /\ ClosedIsSettled'
  BY DEF AnswersTruthful, Truthful, RecordedIsStored, ClosedIsSettled
<1> QED
  BY <1>6, <1>7, <1>8, <1>9, <1>10

LEMMA ConnectedInv ==
    ASSUME IInv, Connected
    PROVE  IInv'
<1> USE DEF IInv, Connected, diskVars, queueVars, callerVars, writerVars, readerVars, resultVars
<1>1. TypeOK'
  BY ConstantsAssumption DEF TypeOK
<1>2. HandsFull' /\ AnswersTruthful' /\ AllKnown' /\ NothingVanishes' /\ RecordedIsStored' /\ ClosedIsSettled'
  BY DEF HandsFull, AnswersTruthful, Truthful, AllKnown, Accepted, NothingVanishes, Accepted, RecordedIsStored, ClosedIsSettled
<1> QED
  BY <1>1, <1>2

LEMMA ConnectFailedInv ==
    ASSUME IInv, ConnectFailed
    PROVE  IInv'
<1> USE DEF IInv, ConnectFailed, diskVars, flagVars, queueVars, callerVars, writerVars, readerVars, resultVars
<1>1. TypeOK'
  BY ConstantsAssumption DEF TypeOK
<1>2. HandsFull' /\ AnswersTruthful' /\ AllKnown' /\ NothingVanishes' /\ RecordedIsStored' /\ ClosedIsSettled'
  BY DEF HandsFull, AnswersTruthful, Truthful, AllKnown, Accepted, NothingVanishes, Accepted, RecordedIsStored, ClosedIsSettled
<1> QED
  BY <1>1, <1>2

LEMMA ChannelActiveInv ==
    ASSUME IInv, ChannelActive
    PROVE  IInv'
<1> USE DEF IInv, ChannelActive, diskVars, queueVars, callerVars, resultVars
<1>1. TypeOK'
  BY ConstantsAssumption DEF TypeOK
<1>2. HandsFull'
  BY DEF TypeOK, HandsFull
<1>3. AnswersTruthful' /\ AllKnown' /\ NothingVanishes' /\ RecordedIsStored' /\ ClosedIsSettled'
  BY DEF AnswersTruthful, Truthful, AllKnown, Accepted, NothingVanishes, Accepted, RecordedIsStored, ClosedIsSettled
<1> QED
  BY <1>1, <1>2, <1>3

LEMMA CloseInv ==
    ASSUME IInv, Close
    PROVE  IInv'
<1> USE DEF IInv, Close, diskVars, flagVars, queueVars, callerVars, writerVars, readerVars, resultVars
<1>1. TypeOK'
  BY ConstantsAssumption DEF TypeOK
<1>2. AnswersTruthful'
  BY DEF TypeOK, AnswersTruthful, Truthful
<1>3. AllKnown'
  BY DEF TypeOK, AllKnown, Accepted
<1>4. HandsFull' /\ NothingVanishes' /\ RecordedIsStored' /\ ClosedIsSettled'
  BY DEF HandsFull, NothingVanishes, Accepted, RecordedIsStored, ClosedIsSettled
<1> QED
  BY <1>1, <1>2, <1>3, <1>4

LEMMA ChannelInactiveInv ==
    ASSUME IInv, ChannelInactive
    PROVE  IInv'
<1> USE DEF IInv, ChannelInactive, diskVars, queueVars, callerVars, resultVars
<1>1. TypeOK'
  BY ConstantsAssumption DEF TypeOK
<1>2. HandsFull'
  BY DEF TypeOK, HandsFull
<1>3. AllKnown'
  BY DEF TypeOK, AllKnown, Accepted
<1>4. AnswersTruthful' /\ NothingVanishes' /\ RecordedIsStored' /\ ClosedIsSettled'
  BY DEF AnswersTruthful, Truthful, NothingVanishes, Accepted, RecordedIsStored, ClosedIsSettled
<1> QED
  BY <1>1, <1>2, <1>3, <1>4

LEMMA ReconnectInv ==
    ASSUME IInv, Reconnect
    PROVE  IInv'
<1> USE DEF IInv, Reconnect, diskVars, flagVars, queueVars, callerVars, writerVars, readerVars, resultVars
<1>1. TypeOK'
  BY ConstantsAssumption DEF TypeOK
<1>2. HandsFull' /\ AnswersTruthful' /\ AllKnown' /\ NothingVanishes' /\ RecordedIsStored' /\ ClosedIsSettled'
  BY DEF HandsFull, AnswersTruthful, Truthful, AllKnown, Accepted, NothingVanishes, Accepted, RecordedIsStored, ClosedIsSettled
<1> QED
  BY <1>1, <1>2

LEMMA ChannelReadInv ==
    ASSUME IInv, ChannelRead
    PROVE  IInv'
<1> USE DEF IInv, ChannelRead, diskVars, queueVars, callerVars, writerVars, readerVars, resultVars
<1>1. Head(resp) \in Reply /\ 1 \in 1 .. Len(resp) /\ Head(resp) = resp[1]
            /\ Tail(resp) \in Seq(Reply)
            /\ \A i \in 1 .. Len(Tail(resp)) :
                  i + 1 \in 1 .. Len(resp) /\ Tail(resp)[i] = resp[i + 1]
  BY QueueTail DEF TypeOK
<1>2. TypeOK'
  BY <1>1 DEF TypeOK
<1>3. AnswersTruthful'
  BY <1>1, Fields DEF TypeOK, AnswersTruthful, Truthful
<1>4. HandsFull' /\ AllKnown' /\ NothingVanishes' /\ RecordedIsStored' /\ ClosedIsSettled'
  BY DEF HandsFull, AllKnown, Accepted, NothingVanishes, Accepted, RecordedIsStored, ClosedIsSettled
<1> QED
  BY <1>2, <1>3, <1>4

LEMMA ReadQueuePutInv ==
    ASSUME IInv, ReadQueuePut
    PROVE  IInv'
<1> USE DEF IInv, ReadQueuePut, diskVars, flagVars, callerVars, writerVars, readerVars, resultVars
<1>1. TypeOK'
  BY ConstantsAssumption DEF TypeOK
<1>2. AnswersTruthful'
  BY DEF TypeOK, AnswersTruthful, Truthful
<1>3. HandsFull' /\ AllKnown' /\ NothingVanishes' /\ RecordedIsStored' /\ ClosedIsSettled'
  BY DEF HandsFull, AllKnown, Accepted, NothingVanishes, Accepted, RecordedIsStored, ClosedIsSettled
<1> QED
  BY <1>1, <1>2, <1>3

LEMMA MasterReplyInv ==
    ASSUME IInv, MasterReply
    PROVE  IInv'
<1> USE DEF IInv, MasterReply, diskVars, flagVars, queueVars, callerVars, writerVars, readerVars
<1>1. Head(wire) \in Uploads /\ 1 \in 1 .. Len(wire) /\ Head(wire) = wire[1]
            /\ Tail(wire) \in Seq(Uploads)
            /\ \A i \in 1 .. Len(Tail(wire)) :
                  i + 1 \in 1 .. Len(wire) /\ Tail(wire)[i] = wire[i + 1]
  BY QueueTail DEF TypeOK
<1>2. PICK a \in Replies :
          /\ resp' = Append(resp, [code |-> a, up |-> Head(wire)])
          /\ stored' = IF a = "created" THEN stored \cup {Head(wire)} ELSE stored
  OBVIOUS
<1>3. [code |-> a, up |-> Head(wire)] \in Reply
  BY <1>1, ConstantsAssumption DEF Reply
<1>4. resp' \in Seq(Reply) /\ \A i \in 1 .. Len(resp') :
          \/ resp'[i] = [code |-> a, up |-> Head(wire)]
          \/ i \in 1 .. Len(resp) /\ resp'[i] = resp[i]
  BY <1>2, <1>3, QueueAppend DEF TypeOK
<1>5. TypeOK'
  BY <1>1, <1>2, <1>4 DEF TypeOK
<1>6. AnswersTruthful'
  BY <1>1, <1>2, <1>4 DEF TypeOK, AnswersTruthful, Truthful
<1>7. AllKnown'
  BY <1>1 DEF TypeOK, AllKnown, Accepted
<1>8. NothingVanishes'
  BY <1>2 DEF NothingVanishes, Accepted
<1>9. RecordedIsStored'
  BY <1>2 DEF RecordedIsStored
<1>10. ClosedIsSettled'
  BY <1>2 DEF ClosedIsSettled
<1>11. HandsFull'
  BY DEF HandsFull
<1> QED
  BY <1>5, <1>6, <1>7, <1>8, <1>9, <1>10, <1>11

LEMMA WriterAwaitInv ==
    ASSUME IInv, NEW c \in Conns, WriterAwait(c)
    PROVE  IInv'
<1> USE DEF IInv, WriterAwait, diskVars, flagVars, queueVars, callerVars, chanVars, readerVars, resultVars
<1>1. TypeOK'
  BY ConstantsAssumption DEF TypeOK
<1>2. HandsFull'
  BY DEF TypeOK, HandsFull
<1>3. AnswersTruthful' /\ AllKnown' /\ NothingVanishes' /\ RecordedIsStored' /\ ClosedIsSettled'
  BY DEF AnswersTruthful, Truthful, AllKnown, Accepted, NothingVanishes, Accepted, RecordedIsStored, ClosedIsSettled
<1> QED
  BY <1>1, <1>2, <1>3

LEMMA WriterPollInv ==
    ASSUME IInv, NEW c \in Conns, WriterPoll(c)
    PROVE  IInv'
<1> USE DEF IInv, WriterPoll, diskVars, flagVars, callerVars, chanVars, readerVars, resultVars
<1>1. Head(writeQueue) \in Meta /\ 1 \in 1 .. Len(writeQueue) /\ Head(writeQueue) = writeQueue[1]
            /\ Tail(writeQueue) \in Seq(Meta)
            /\ \A i \in 1 .. Len(Tail(writeQueue)) :
                  i + 1 \in 1 .. Len(writeQueue) /\ Tail(writeQueue)[i] = writeQueue[i + 1]
  BY QueueTail DEF TypeOK
<1>2. TypeOK'
  BY <1>1 DEF TypeOK
<1>3. HandsFull'
  BY <1>1, Fields DEF TypeOK, HandsFull
<1>4. AllKnown'
  <2>1. Head(writeQueue) # None /\ Head(writeQueue).up \in Accepted
    BY <1>1, Fields DEF AllKnown
  <2>2. \A d \in Conns : held'[d] = held[d] \/ held'[d] = Head(writeQueue)
    BY DEF TypeOK
  <2>3. \A d \in Conns : held'[d] # None => held'[d].up \in Accepted
    BY <2>1, <2>2 DEF AllKnown
  <2>4. \A i \in 1 .. Len(writeQueue') : writeQueue'[i].up \in Accepted
    BY <1>1 DEF AllKnown
  <2> QED
    BY <2>3, <2>4 DEF AllKnown, Accepted
<1>5. AnswersTruthful' /\ NothingVanishes' /\ RecordedIsStored' /\ ClosedIsSettled'
  BY DEF AnswersTruthful, Truthful, NothingVanishes, Accepted, RecordedIsStored, ClosedIsSettled
<1> QED
  BY <1>2, <1>3, <1>4, <1>5

LEMMA WriterLastPollInv ==
    ASSUME IInv, NEW c \in Conns, WriterLastPoll(c)
    PROVE  IInv'
<1> USE DEF IInv, WriterLastPoll, WriterLoops, diskVars, flagVars, callerVars, chanVars, readerVars, resultVars
<1>1. /\ writeQueue' \in Seq(Meta)
      /\ \A i \in 1 .. Len(writeQueue') : \E j \in 1 .. Len(writeQueue) :
            writeQueue'[i] = writeQueue[j]
  BY QueueTail DEF TypeOK
<1>2. TypeOK'
  BY <1>1 DEF TypeOK
<1>3. HandsFull'
  BY DEF TypeOK, HandsFull
<1>4. AllKnown'
  BY <1>1, Fields DEF TypeOK, AllKnown, Accepted
<1>5. AnswersTruthful' /\ NothingVanishes' /\ RecordedIsStored' /\ ClosedIsSettled'
  BY DEF AnswersTruthful, Truthful, NothingVanishes, Accepted, RecordedIsStored, ClosedIsSettled
<1> QED
  BY <1>2, <1>3, <1>4, <1>5

LEMMA WriterSubmitInv ==
    ASSUME IInv, NEW c \in Conns, WriterSubmit(c)
    PROVE  IInv'
<1> USE DEF IInv, WriterSubmit, WriterLoops, diskVars, flagVars, queueVars, callerVars, readerVars, resultVars
<1>1. held[c] \in Meta /\ held[c].up \in Uploads /\ held[c].up \in Accepted
  BY Fields DEF TypeOK, HandsFull, AllKnown
<1>2. disk[FileOf[held[c].up]] \in Uploads /\ disk[FileOf[held[c].up]] \in Accepted
  BY <1>1, KeyOfUpload DEF TypeOK, AllKnown
<1>3. wire' \in Seq(Uploads) /\ \A i \in 1 .. Len(wire') :
          \/ wire'[i] = disk[FileOf[held[c].up]]
          \/ i \in 1 .. Len(wire) /\ wire'[i] = wire[i]
  BY <1>2, QueueAppend DEF TypeOK
<1>4. TypeOK'
  BY <1>3 DEF TypeOK
<1>5. HandsFull'
  BY DEF TypeOK, HandsFull
<1>6. AllKnown'
  BY <1>1, <1>2, <1>3, Fields DEF TypeOK, AllKnown, Accepted
<1>7. AnswersTruthful' /\ NothingVanishes' /\ RecordedIsStored' /\ ClosedIsSettled'
  BY DEF AnswersTruthful, Truthful, NothingVanishes, Accepted, RecordedIsStored, ClosedIsSettled
<1> QED
  BY <1>4, <1>5, <1>6, <1>7

LEMMA WriterMarkDeletedInv ==
    ASSUME IInv, NEW c \in Conns, WriterMarkDeleted(c)
    PROVE  IInv'
<1> USE DEF IInv, WriterMarkDeleted, WriterLoops, flagVars, queueVars, callerVars, chanVars, readerVars, resultVars
<1>1. held[c] \in Meta /\ held[c].up \in Uploads /\ held[c].up \in Accepted
  BY Fields DEF TypeOK, HandsFull, AllKnown
<1>2. TypeOK'
  BY <1>1, Fields DEF TypeOK
<1>3. HandsFull'
  BY DEF TypeOK, HandsFull
<1>4. AllKnown'
  BY <1>1, Fields DEF TypeOK, AllKnown, Accepted
<1>5. ClosedIsSettled'
  BY <1>1, KeyOfUpload, Fields DEF TypeOK, ClosedIsSettled, NothingVanishes, AllKnown
<1>6. AnswersTruthful' /\ NothingVanishes' /\ RecordedIsStored'
  BY DEF AnswersTruthful, Truthful, NothingVanishes, Accepted, RecordedIsStored
<1> QED
  BY <1>2, <1>3, <1>4, <1>5, <1>6

LEMMA WriterFailsInv ==
    ASSUME IInv, NEW c \in Conns, WriterFails(c)
    PROVE  IInv'
<1> USE DEF IInv, WriterFails, WriterLoops, diskVars, flagVars, queueVars, callerVars, chanVars, readerVars, resultVars
<1>1. held[c] \in Meta /\ held[c].up \in Uploads /\ held[c].up \in Accepted
  BY Fields DEF TypeOK, HandsFull, AllKnown
<1>2. TypeOK'
  BY <1>1, Fields DEF TypeOK
<1>3. HandsFull'
  BY DEF TypeOK, HandsFull
<1>4. AllKnown'
  BY <1>1, Fields DEF TypeOK, AllKnown, Accepted
<1>5. AnswersTruthful' /\ NothingVanishes' /\ RecordedIsStored' /\ ClosedIsSettled'
  BY DEF AnswersTruthful, Truthful, NothingVanishes, Accepted, RecordedIsStored, ClosedIsSettled
<1> QED
  BY <1>2, <1>3, <1>4, <1>5

LEMMA WriterKeepsInv ==
    ASSUME IInv, NEW c \in Conns, WriterKeeps(c)
    PROVE  IInv'
<1> USE DEF IInv, WriterKeeps, WriterLoops, diskVars, flagVars, queueVars, callerVars, chanVars, readerVars, resultVars
<1>1. held[c] \in Meta /\ held[c].up \in Uploads /\ held[c].up \in Accepted
  BY Fields DEF TypeOK, HandsFull, AllKnown
<1>2. TypeOK'
  BY <1>1, Fields DEF TypeOK
<1>3. HandsFull'
  BY DEF TypeOK, HandsFull
<1>4. AllKnown'
  BY <1>1, Fields DEF TypeOK, AllKnown, Accepted
<1>5. AnswersTruthful' /\ NothingVanishes' /\ RecordedIsStored' /\ ClosedIsSettled'
  BY DEF AnswersTruthful, Truthful, NothingVanishes, Accepted, RecordedIsStored, ClosedIsSettled
<1> QED
  BY <1>2, <1>3, <1>4, <1>5

LEMMA ReaderPollInv ==
    ASSUME IInv, NEW c \in Conns, ReaderPoll(c)
    PROVE  IInv'
<1> USE DEF IInv, ReaderPoll, diskVars, flagVars, callerVars, chanVars, writerVars, resultVars
<1>1. Head(readQueue) \in Reply /\ 1 \in 1 .. Len(readQueue) /\ Head(readQueue) = readQueue[1]
            /\ Tail(readQueue) \in Seq(Reply)
            /\ \A i \in 1 .. Len(Tail(readQueue)) :
                  i + 1 \in 1 .. Len(readQueue) /\ Tail(readQueue)[i] = readQueue[i + 1]
  BY QueueTail DEF TypeOK
<1>2. TypeOK'
  BY <1>1 DEF TypeOK
<1>3. HandsFull'
  BY <1>1, Fields DEF TypeOK, HandsFull
<1>4. AnswersTruthful'
  <2>1. Truthful(Head(readQueue))
    BY <1>1 DEF AnswersTruthful
  <2>2. \A d \in Conns : rheld'[d] = rheld[d] \/ rheld'[d] = Head(readQueue)
    BY DEF TypeOK
  <2>3. \A d \in Conns : rheld'[d] # None => Truthful(rheld'[d])
    BY <2>1, <2>2 DEF AnswersTruthful
  <2>4. \A i \in 1 .. Len(readQueue') : Truthful(readQueue'[i])
    BY <1>1 DEF AnswersTruthful
  <2> QED
    BY <2>3, <2>4 DEF AnswersTruthful, Truthful
<1>5. AllKnown' /\ NothingVanishes' /\ RecordedIsStored' /\ ClosedIsSettled'
  BY DEF AllKnown, Accepted, NothingVanishes, Accepted, RecordedIsStored, ClosedIsSettled
<1> QED
  BY <1>2, <1>3, <1>4, <1>5

LEMMA ReaderIgnoreInv ==
    ASSUME IInv, NEW c \in Conns, ReaderIgnore(c)
    PROVE  IInv'
<1> USE DEF IInv, ReaderIgnore, ReaderLoops, diskVars, flagVars, queueVars, callerVars, chanVars, writerVars, resultVars
<1>1. rheld[c] \in Reply /\ rheld[c].up \in Uploads /\ KeyOf[rheld[c].up] \in Keys
  BY Fields, KeyOfUpload DEF TypeOK, HandsFull
<1>2. TypeOK'
  BY <1>1 DEF TypeOK
<1>3. HandsFull'
  BY DEF TypeOK, HandsFull
<1>4. AnswersTruthful'
  BY DEF TypeOK, AnswersTruthful, Truthful
<1>5. AllKnown' /\ NothingVanishes' /\ RecordedIsStored' /\ ClosedIsSettled'
  BY DEF AllKnown, Accepted, NothingVanishes, Accepted, RecordedIsStored, ClosedIsSettled
<1> QED
  BY <1>2, <1>3, <1>4, <1>5

LEMMA ReaderSaveInv ==
    ASSUME IInv, NEW c \in Conns, ReaderSave(c)
    PROVE  IInv'
<1> USE DEF IInv, ReaderSave, diskVars, flagVars, queueVars, callerVars, chanVars, writerVars
<1>1. rheld[c] \in Reply /\ rheld[c].up \in Uploads /\ KeyOf[rheld[c].up] \in Keys
  BY Fields, KeyOfUpload DEF TypeOK, HandsFull
<1>2. Waiting(c) # None => /\ Waiting(c).up \in Uploads
                             /\ KeyOf[Waiting(c).up] = KeyOf[rheld[c].up]
  BY <1>1, Fields DEF TypeOK, AllKnown, Waiting
<1>3. TypeOK'
  <2>1. docs' \subseteq Uploads \X Uploads
    BY <1>1, <1>2 DEF TypeOK
  <2>2. rpc' \in [Conns -> {"new", "top", "handle", "graylog", "remove", "delete", "dead"}]
    BY DEF TypeOK
  <2> QED
    BY <2>1, <2>2 DEF TypeOK
<1>4. HandsFull'
  BY DEF TypeOK, HandsFull
<1>5. RecordedIsStored'
  BY <1>1, <1>2 DEF RecordedIsStored, AnswersTruthful, Truthful, HandsFull
<1>6. AnswersTruthful' /\ AllKnown' /\ NothingVanishes' /\ ClosedIsSettled'
  BY DEF AnswersTruthful, Truthful, AllKnown, Accepted, NothingVanishes, Accepted, ClosedIsSettled
<1> QED
  BY <1>3, <1>4, <1>5, <1>6

LEMMA ReaderSendInv ==
    ASSUME IInv, NEW c \in Conns, ReaderSend(c)
    PROVE  IInv'
<1> USE DEF IInv, ReaderSend, diskVars, flagVars, queueVars, callerVars, chanVars, writerVars, resultVars
<1>1. TypeOK'
  BY DEF TypeOK
<1>2. HandsFull'
  BY DEF TypeOK, HandsFull
<1>3. AnswersTruthful' /\ AllKnown' /\ NothingVanishes' /\ RecordedIsStored' /\ ClosedIsSettled'
  BY DEF AnswersTruthful, Truthful, AllKnown, Accepted, NothingVanishes, RecordedIsStored, ClosedIsSettled
<1> QED
  BY <1>1, <1>2, <1>3

LEMMA ReaderFailsInv ==
    ASSUME IInv, NEW c \in Conns, ReaderFails(c)
    PROVE  IInv'
<1> USE DEF IInv, ReaderFails, ReaderLoops, diskVars, flagVars, queueVars, callerVars, chanVars, writerVars, resultVars
<1>1. TypeOK'
  BY DEF TypeOK
<1>2. HandsFull'
  BY DEF TypeOK, HandsFull
<1>3. AnswersTruthful'
  BY DEF TypeOK, AnswersTruthful, Truthful
<1>4. AllKnown' /\ NothingVanishes' /\ RecordedIsStored' /\ ClosedIsSettled'
  BY DEF AllKnown, Accepted, NothingVanishes, RecordedIsStored, ClosedIsSettled
<1> QED
  BY <1>1, <1>2, <1>3, <1>4

LEMMA ReaderFinishInv ==
    ASSUME IInv, NEW c \in Conns, ReaderFinish(c)
    PROVE  IInv'
<1> USE DEF IInv, ReaderFinish, ReaderLoops, flagVars, callerVars, chanVars, writerVars, resultVars
<1>1. rheld[c] \in Reply /\ rheld[c].up \in Uploads /\ KeyOf[rheld[c].up] \in Keys
        /\ FileOf[rheld[c].up] \in Names
  BY Fields, KeyOfUpload DEF TypeOK, HandsFull
<1>2. rheld[c].up \in stored
  BY <1>1 DEF HandsFull, AnswersTruthful, Truthful
<1>3. TypeOK'
  BY <1>1 DEF TypeOK
<1>4. HandsFull'
  BY DEF TypeOK, HandsFull
<1>5. AnswersTruthful'
  BY DEF TypeOK, AnswersTruthful, Truthful
<1>6. AllKnown'
  BY <1>1 DEF TypeOK, AllKnown, Accepted
<1>7. NothingVanishes'
  BY <1>1, <1>2, ConstantsAssumption DEF TypeOK, NothingVanishes, OwnFile, Accepted
<1>8. RecordedIsStored' /\ ClosedIsSettled'
  BY DEF RecordedIsStored, ClosedIsSettled
<1> QED
  BY <1>3, <1>4, <1>5, <1>6, <1>7, <1>8

LEMMA ClearMemoryCheckInv ==
    ASSUME IInv, NEW k \in Keys, ClearMemoryCheck(k)
    PROVE  IInv'
<1> USE DEF IInv, ClearMemoryCheck, diskVars, flagVars, queueVars, callerVars, chanVars, writerVars, readerVars, resultVars
<1>1. TypeOK'
  BY ConstantsAssumption DEF TypeOK
<1>2. HandsFull' /\ AnswersTruthful' /\ AllKnown' /\ NothingVanishes' /\ RecordedIsStored' /\ ClosedIsSettled'
  BY DEF HandsFull, AnswersTruthful, Truthful, AllKnown, Accepted, NothingVanishes, Accepted, RecordedIsStored, ClosedIsSettled
<1> QED
  BY <1>1, <1>2

LEMMA ClearMemoryRemoveInv ==
    ASSUME IInv, ClearMemoryRemove
    PROVE  IInv'
<1> USE DEF IInv, ClearMemoryRemove, diskVars, flagVars, callerVars, chanVars, writerVars, readerVars, resultVars
<1>1. TypeOK'
  BY ConstantsAssumption DEF TypeOK
<1>2. AllKnown'
  BY DEF TypeOK, AllKnown, Accepted
<1>3. HandsFull' /\ AnswersTruthful' /\ NothingVanishes' /\ RecordedIsStored' /\ ClosedIsSettled'
  BY DEF HandsFull, AnswersTruthful, Truthful, NothingVanishes, Accepted, RecordedIsStored, ClosedIsSettled
<1> QED
  BY <1>1, <1>2, <1>3

LEMMA ClearFilesInv ==
    ASSUME IInv, ClearFiles
    PROVE  IInv'
<1> USE DEF IInv, ClearFiles, flagVars, queueVars, callerVars, chanVars, writerVars, readerVars, resultVars
<1>1. TypeOK'
  BY ConstantsAssumption DEF TypeOK
<1>2. AllKnown'
  BY DEF TypeOK, AllKnown, Accepted
<1>3. NothingVanishes'
  BY KeyOfUpload DEF TypeOK, NothingVanishes, Accepted
<1>4. HandsFull' /\ AnswersTruthful' /\ RecordedIsStored' /\ ClosedIsSettled'
  BY DEF HandsFull, AnswersTruthful, Truthful, RecordedIsStored, ClosedIsSettled
<1> QED
  BY <1>1, <1>2, <1>3, <1>4

-----------------------------------------------------------------------------
\* The invariant holds initially.
LEMMA InitInv == Init => IInv
<1> SUFFICES ASSUME Init PROVE IInv
  OBVIOUS
<1> USE DEF Init
<1>1. Accepted = {}
  BY DEF Accepted, Procs
<1>2. TypeOK
  <2>1. /\ disk \in [Names -> Uploads \cup {None}]
        /\ weedMetaMap \in [Keys -> Meta \cup {None}]
        /\ cur \in [Retriers -> Uploads \cup {None}]
        /\ held \in [Conns -> Meta \cup {None}]
        /\ rheld \in [Conns -> Reply \cup {None}]
    OBVIOUS
  <2>2. pc \in [Procs -> {"none", "sum", "write", "check", "drop", "put", "map",
                          "save", "done", "idle", "find", "next"}]
    OBVIOUS
  <2>3. /\ writeQueue \in Seq(Meta) /\ readQueue \in Seq(Reply)
        /\ wire \in Seq(Uploads) /\ resp \in Seq(Reply)
    OBVIOUS
  <2>4. conn \in 0 .. MaxConn
    BY ConstantsAssumption
  <2>5. /\ status \in [Uploads -> {"none", "normal", "deleted"}]
        /\ todo \in [Retriers -> SUBSET Uploads]
        /\ wpc \in [Conns -> {"new", "top", "await", "last", "send", "dead"}]
        /\ rpc \in [Conns -> {"new", "top", "handle", "graylog", "remove", "delete", "dead"}]
    OBVIOUS
  <2> QED
    BY <2>1, <2>2, <2>3, <2>4, <2>5 DEF TypeOK
<1>3. HandsFull /\ AnswersTruthful
  BY ConstantsAssumption DEF HandsFull, AnswersTruthful, Procs
<1>4. AllKnown
  BY DEF AllKnown
<1>5. NothingVanishes /\ RecordedIsStored /\ ClosedIsSettled
  BY <1>1 DEF NothingVanishes, RecordedIsStored, ClosedIsSettled
<1> QED
  BY <1>2, <1>3, <1>4, <1>5 DEF IInv

\* The invariant is inductive.
LEMMA NextInv == IInv /\ [Next]_vars => IInv'
<1> SUFFICES ASSUME IInv, [Next]_vars PROVE IInv'
  OBVIOUS
<1>1. CASE UNCHANGED vars
  BY <1>1 DEF vars, diskVars, flagVars, queueVars, callerVars, chanVars,
       writerVars, readerVars, resultVars, IInv, TypeOK, HandsFull,
       AnswersTruthful, Truthful, AllKnown, NothingVanishes, RecordedIsStored,
       ClosedIsSettled, Accepted
<1>2. CASE \E u \in Uploads : Arrive(u) \/ CheckSum(u) \/ Age(u) \/ ExpireRecord(u)
  BY <1>2, ArriveInv, CheckSumInv, AgeInv, ExpireRecordInv
<1>3. CASE \E p \in Procs : Write(p)
  BY <1>3, WriteCheckConnectedInv, WriteCheckErrorInv, WritePutInv, WriteMapInv, WriteDropInv, WriteSaveInv DEF Write
<1>4. CASE \E r \in Retriers : Retry(r)
  BY <1>4, RetryBeginInv, RetryFindInv, RetryNextInv DEF Retry
<1>5. CASE Connected \/ Close \/ MasterReply
  BY <1>5, ConnectedInv, CloseInv, MasterReplyInv
<1>6. CASE EventLoop
  BY <1>6, ConnectFailedInv, ChannelActiveInv, ChannelInactiveInv, ReconnectInv,
       ChannelReadInv, ReadQueuePutInv DEF EventLoop
<1>7. CASE \E c \in Conns : Writer(c)
  BY <1>7, WriterAwaitInv, WriterPollInv, WriterLastPollInv, WriterSubmitInv,
       WriterMarkDeletedInv, WriterFailsInv, WriterKeepsInv DEF Writer
<1>8. CASE \E c \in Conns : Reader(c) \/ ReaderSend(c)
  BY <1>8, ReaderPollInv, ReaderIgnoreInv, ReaderSaveInv, ReaderSendInv, ReaderFailsInv,
       ReaderFinishInv DEF Reader
<1>9. CASE (\E k \in Keys : ClearMemoryCheck(k)) \/ ClearMemoryRemove \/ ClearFiles
  BY <1>9, ClearMemoryCheckInv, ClearMemoryRemoveInv, ClearFilesInv
<1> QED
  BY <1>1, <1>2, <1>3, <1>4, <1>5, <1>6, <1>7, <1>8, <1>9 DEF Next

\* Every behaviour of the pipeline keeps the inductive invariant.
THEOREM Invariant == SafeSpec => []IInv
  BY InitInv, NextInv, PTL DEF SafeSpec

\* Type correctness of the pipeline: queues, maps, threads and records hold what
\* the code can put there, in particular no record is ever STATE_SUCCESSFUL.
THEOREM TypeCorrect == SafeSpec => []TypeOK
  BY Invariant, PTL DEF IInv

\* No upload with a file name of its own vanishes: it is on disk, stored by the
\* weed master, dropped because of serverError, or older than the ttl.
THEOREM UploadsNeverVanish == SafeSpec => []NothingVanishes
  BY Invariant, PTL DEF IInv

\* Saved file metas refer to stored contents of their own key.
THEOREM MetasReferToStored == SafeSpec => []RecordedIsStored
  BY Invariant, PTL DEF IInv

\* A record in STATE_DELETED belongs to an upload that is settled.
THEOREM ClosedRecordsAreSettled == SafeSpec => []ClosedIsSettled
  BY Invariant, PTL DEF IInv

-----------------------------------------------------------------------------
(***************************************************************************)
(* The pipeline implements UploadLedger: Arrive is Accept, a 201 of the    *)
(* master is Store, the reader's save is Record, its deletion of the file  *)
(* is Release; the drop, the ageing and the cleaning of files have their   *)
(* counterparts, and everything else is a stuttering step.                 *)
(***************************************************************************)

\* The variables of the ledger do not change in a step that leaves them alone.
LEMMA LedgerStutters ==
    ASSUME Accepted' = Accepted, UNCHANGED <<disk, stored, docs, dropped, aged>>
    PROVE  [Ledger!Next]_Ledger!vars
  BY DEF Ledger!vars

\* Steps of callers in write().
LEMMA LedgerWrite ==
    ASSUME IInv, NEW p \in Procs, Write(p)
    PROVE  [Ledger!Next]_Ledger!vars
<1>1. PICK x : x # "none" /\ pc[p] # "none" /\ pc' = [pc EXCEPT ![p] = x]
  BY DEF Write, WriteCheckConnected, WriteCheckError, WritePut, WriteMap, WriteDrop, WriteSave, Return,
         Returned
<1>2. Accepted' = Accepted
  BY <1>1, SameAccepted DEF IInv
<1>3. CASE WriteDrop(p)
  <2>1. NameFor(p) \in Ledger!Names
    BY <1>3, CallerMeta DEF IInv, WriteDrop, Names, Ledger!Names
  <2>2. Ledger!Drop(NameFor(p))
    BY <1>2, <1>3 DEF WriteDrop, Ledger!Drop
  <2> QED
    BY <2>1, <2>2 DEF Ledger!Next
<1>4. CASE ~WriteDrop(p)
  <2>1. UNCHANGED <<disk, stored, docs, dropped, aged>>
BY <1>4 DEF Write, WriteCheckConnected, WriteCheckError, WritePut, WriteMap, WriteSave, diskVars,
         resultVars
  <2> QED
    BY <1>2, <2>1, LedgerStutters
<1> QED
  BY <1>3, <1>4

\* Steps of retry tasks.
LEMMA LedgerRetry ==
    ASSUME IInv, NEW r \in Retriers, Retry(r)
    PROVE  [Ledger!Next]_Ledger!vars
<1>1. PICK x : x # "none" /\ pc[r] # "none" /\ pc' = [pc EXCEPT ![r] = x]
  BY DEF Retry, RetryBegin, RetryFind, RetryNext
<1>2. Accepted' = Accepted
  BY <1>1, SameAccepted DEF IInv, Procs
<1>3. UNCHANGED <<disk, stored, docs, dropped, aged>>
  BY DEF Retry, RetryBegin, RetryFind, RetryNext, diskVars, resultVars
<1> QED
  BY <1>2, <1>3, LedgerStutters

\* Steps of the channel and of the master.
LEMMA LedgerChannel ==
    ASSUME IInv, Connected \/ Close \/ MasterReply \/ EventLoop
    PROVE  [Ledger!Next]_Ledger!vars
<1>1. CASE MasterReply
  <2>1. Head(wire) \in Uploads /\ Head(wire) \in Accepted
    <3>1. wire \in Seq(Uploads) /\ wire # <<>>
      BY <1>1 DEF MasterReply, IInv, TypeOK
    <3>2. Head(wire) \in Uploads /\ 1 \in 1 .. Len(wire) /\ Head(wire) = wire[1]
      BY <3>1, QueueTail
    <3> QED
      BY <3>2 DEF IInv, AllKnown
  <2>2. Accepted' = Accepted
    BY <1>1 DEF MasterReply, callerVars, Accepted
  <2>3. CASE stored' = stored \cup {Head(wire)}
    <3>1. Ledger!Store(Head(wire))
      BY <1>1, <2>1, <2>2, <2>3 DEF MasterReply, diskVars, Ledger!Store
    <3> QED
      BY <2>1, <3>1 DEF Ledger!Next
  <2>4. CASE stored' = stored
    BY <1>1, <2>2, <2>4, LedgerStutters DEF MasterReply, diskVars
  <2> QED
    BY <1>1, <2>3, <2>4 DEF MasterReply
<1>2. CASE Connected \/ Close \/ EventLoop
  BY <1>2, LedgerStutters DEF EventLoop, Connected, Close, ConnectFailed,
     ChannelActive, ChannelInactive, Reconnect, ChannelRead, ReadQueuePut,
     diskVars, callerVars, resultVars, Accepted
<1> QED
  BY <1>1, <1>2

\* Steps of a writer thread: the ledger does not see them.
LEMMA LedgerWriter ==
    ASSUME NEW c \in Conns, Writer(c)
    PROVE  [Ledger!Next]_Ledger!vars
BY LedgerStutters DEF Writer, WriterAwait, WriterPoll, WriterLastPoll,
     WriterSubmit, WriterMarkDeleted, WriterFails, WriterKeeps, diskVars,
     callerVars, resultVars, Accepted

\* Saving a meta in the reader thread.
LEMMA LedgerRecord ==
    ASSUME IInv, NEW c \in Conns, rpc[c] = "handle", rheld[c].code = "created",
           Waiting(c) # None, docs' = docs \cup {<<Waiting(c).up, rheld[c].up>>},
           Accepted' = Accepted, UNCHANGED <<disk, stored, dropped, aged>>
    PROVE  [Ledger!Next]_Ledger!vars
<1>1. rheld[c].up \in Uploads /\ rheld[c].up \in stored
  BY Fields DEF IInv, TypeOK, HandsFull, AnswersTruthful, Truthful
<1>2. /\ Waiting(c).up \in Uploads /\ Waiting(c).up \in Accepted
      /\ KeyOf[Waiting(c).up] = KeyOf[rheld[c].up]
  BY <1>1, Fields, KeyOfUpload DEF IInv, TypeOK, AllKnown, Waiting
<1>3. Ledger!Record(Waiting(c).up, rheld[c].up)
  BY <1>1, <1>2 DEF Ledger!Record
<1> QED
  BY <1>1, <1>2, <1>3 DEF Ledger!Next

\* Steps of a reader thread.
LEMMA LedgerReader ==
    ASSUME IInv, NEW c \in Conns, Reader(c) \/ ReaderSend(c)
    PROVE  [Ledger!Next]_Ledger!vars
<1>1. Accepted' = Accepted
  BY DEF Reader, ReaderPoll, ReaderIgnore, ReaderSave, ReaderSend, ReaderFails,
         ReaderFinish, callerVars, Accepted
<1>2. CASE ReaderPoll(c) \/ ReaderIgnore(c) \/ ReaderSend(c) \/ ReaderFails(c)
  BY <1>1, <1>2, LedgerStutters
     DEF ReaderPoll, ReaderIgnore, ReaderSend, ReaderFails, diskVars, resultVars
<1>3. CASE ReaderSave(c)
  <2>1. CASE Waiting(c) = None
    BY <1>1, <1>3, <2>1, LedgerStutters DEF ReaderSave, diskVars
  <2>2. CASE Waiting(c) # None
    BY <1>1, <1>3, <2>2, LedgerRecord DEF ReaderSave, diskVars
  <2> QED
    BY <2>1, <2>2
<1>4. CASE ReaderFinish(c)
  <2>1. rheld[c].up \in stored /\ rheld[c].up \in Uploads
    BY <1>4, Fields DEF ReaderFinish, IInv, TypeOK, HandsFull, AnswersTruthful, Truthful
  <2>2. FileOf[rheld[c].up] \in Ledger!Names
    BY <2>1 DEF Ledger!Names
  <2>3. Ledger!Release(FileOf[rheld[c].up])
    BY <1>1, <1>4, <2>1 DEF ReaderFinish, resultVars, Ledger!Release
  <2> QED
    BY <2>2, <2>3 DEF Ledger!Next
<1> QED
  BY <1>2, <1>3, <1>4 DEF Reader

\* Arrivals, ageing, expiry, and the cleaning tasks.
LEMMA LedgerOther ==
    ASSUME IInv,
           \/ \E u \in Uploads : Arrive(u) \/ CheckSum(u) \/ Age(u) \/ ExpireRecord(u)
           \/ (\E k \in Keys : ClearMemoryCheck(k)) \/ ClearMemoryRemove \/ ClearFiles
    PROVE  [Ledger!Next]_Ledger!vars
<1>1. ASSUME NEW u \in Uploads, Arrive(u)
      PROVE  [Ledger!Next]_Ledger!vars
  <2>1. Accepted' = Accepted \cup {u} /\ u \notin Accepted
    BY <1>1 DEF Arrive, IInv, TypeOK, Accepted, Procs
  <2>2. Ledger!Accept(u)
    BY <1>1, <2>1 DEF Arrive, resultVars, Ledger!Accept
  <2> QED
    BY <2>2 DEF Ledger!Next
<1>2. ASSUME NEW u \in Uploads, Age(u)
      PROVE  [Ledger!Next]_Ledger!vars
  <2>1. Ledger!Grow(u)
BY <1>2 DEF Age, diskVars, callerVars, resultVars, Accepted, Ledger!Grow
  <2> QED
    BY <2>1 DEF Ledger!Next
<1>3. CASE ClearFiles
  <2>1. PICK S \in SUBSET Names :
            /\ \A n \in S : disk[n] \in aged
            /\ disk' = [n \in Names |-> IF n \in S THEN None ELSE disk[n]]
    BY <1>3 DEF ClearFiles
  <2>2. Ledger!Expire(S)
BY <1>3, <2>1 DEF ClearFiles, callerVars, resultVars, Accepted, Names,
         Ledger!Expire, Ledger!Names
  <2>3. S \in SUBSET Ledger!Names
    BY DEF Names, Ledger!Names
  <2> QED
    BY <2>2, <2>3 DEF Ledger!Next
<1>4. CASE \/ \E u \in Uploads : ExpireRecord(u)
           \/ \E u \in Uploads : CheckSum(u) /\ Accepted' = Accepted
           \/ (\E k \in Keys : ClearMemoryCheck(k)) \/ ClearMemoryRemove
  BY <1>4, LedgerStutters DEF ExpireRecord, CheckSum, ClearMemoryCheck, ClearMemoryRemove,
     diskVars, callerVars, resultVars, Accepted
<1>5. ASSUME NEW u \in Uploads, CheckSum(u)
      PROVE  Accepted' = Accepted
  BY <1>5, SameAccepted DEF CheckSum, IInv, Procs
<1> QED
  BY <1>1, <1>2, <1>3, <1>4, <1>5

\* The pipeline implements the ledger: whatever threads, queues, retries and
\* reconnections do, files move only as UploadLedger allows.
THEOREM ImplementsLedger == SafeSpec => LedgerSpec
<1>1. Init => Ledger!Init
  BY DEF Init, Ledger!Init, Accepted, Procs, Names, Ledger!Names
<1>2. IInv /\ [Next]_vars => [Ledger!Next]_Ledger!vars
  <2> SUFFICES ASSUME IInv, [Next]_vars PROVE [Ledger!Next]_Ledger!vars
    OBVIOUS
  <2>1. CASE UNCHANGED vars
    BY <2>1, LedgerStutters DEF vars, diskVars, callerVars, resultVars, Accepted
  <2>2. CASE Next
BY <2>2, LedgerWrite, LedgerRetry, LedgerChannel, LedgerWriter, LedgerReader,
       LedgerOther DEF Next
  <2> QED
    BY <2>1, <2>2
<1> QED
  BY <1>1, <1>2, Invariant, PTL DEF SafeSpec, LedgerSpec, Ledger!Spec

=============================================================================
