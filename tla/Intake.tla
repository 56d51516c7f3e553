------------------------------- MODULE Intake -------------------------------
(***************************************************************************)
(* The intake of log files: admission by the HTTP thread                   *)
(* (controller.ClientRestController.v1UploadLogFile), the thread pool of   *)
(* ServerApplication, and LogFileParseTask with LogFileParser.             *)
(*                                                                         *)
(* A log file is the sequence of the kinds of its records:                 *)
(*   "line"     decodes and carries a proper end mark;                     *)
(*   "skipped"  decodes, but its mark is unknown or the end mark missing;  *)
(*   "damaged"  ends early, or cannot be decrypted, by its own fault or    *)
(*              because OpenSSL or a Cipher fails in its call;             *)
(*   "broken"   makes the parser throw (a negative length, a short number, *)
(*              a truncated or damaged gzip stream);                       *)
(*   "poison"   has a layout template GraylogClientService throws on.      *)
(* Its cache file is in temp/, the decoded text in weed/ under a random    *)
(* name.  The scheduled tasks run in the same thread pool.  What other     *)
(* parts of the server do to a task is a choice here: the native library   *)
(* may not load, a race in the layout cache may hit a line, clearFiles may *)
(* delete an old file, and write() of graylog or weed blocks on a full     *)
(* queue.                                                                  *)
(***************************************************************************)
EXTENDS Integers, Sequences, FiniteSets

CONSTANTS
    Files,          \* log files
    Batches,        \* sets of files that clients may send in one behaviour
    Content,        \* the records of each file, a sequence of Kinds
    Verbose,        \* files of level VERBOSE, which do not go to graylog
    NotGzip,        \* files that are no gzip stream
    BadName,        \* files whose original name gives no meta
    NoDot,          \* files whose original name has no dot
    Corrupt,        \* files whose sum is not the announced one
    Jobs,           \* executions of scheduled tasks
    MaxThreads,     \* parser.maxThreads
    QueueCapacity,  \* parser.queueCapacity
    MaxRequests,    \* bound on the requests handled at the same time
    Failing,        \* files for which file system and database calls may fail
    Raced,          \* files a race in GlobalReference.getLayout may hit
    Expiring,       \* files that may outlive logful.ttl in temp/ or error/
    Libraries,      \* whether the class CryptoTool, with its library, can be loaded
    None

Kinds == {"line", "skipped", "damaged", "broken", "poison"}
Tasks == Files \cup Jobs
Workers == 1 .. MaxThreads

ASSUME ConstantsAssumption ==
    /\ \A f \in Files : Content[f] \in Seq(Kinds)
    /\ Batches \subseteq SUBSET Files
    /\ Verbose \subseteq Files
    /\ NotGzip \subseteq Files
    /\ BadName \subseteq Files
    /\ NoDot \subseteq Files \ BadName
    /\ Corrupt \subseteq Files
    /\ IsFiniteSet(Files)
    /\ Files \cap Jobs = {}
    /\ MaxThreads \in Nat \ {0}
    /\ QueueCapacity \in Nat \ {0}
    /\ MaxRequests \in Nat \ {0}
    /\ Failing \subseteq Files
    /\ Raced \subseteq Files
    /\ Expiring \subseteq Files
    /\ Libraries \subseteq BOOLEAN
    /\ None \notin Tasks

VARIABLES
    http,      \* the request of each file
    temp,      \* files in temp/
    error,     \* files in error/
    out,       \* files whose decoded text has a file in weed/
    lines,     \* lines written to that file
    glog,      \* messages of each file handed to GraylogClientService.send
    queue,     \* work queue of the executor
    pool,      \* threads of the executor started so far
    run,       \* what each of them runs
    state,     \* where each task is
    pos,       \* the record the parser reads next
    ok,        \* LogFileParser's successful
    handed,    \* files handed to WeedFSClientService.write
    rejected,  \* tasks the executor has rejected
    library,   \* the class CryptoTool has been initialised
    blocked    \* the queue of graylog or of weed is full: write() waits

fileVars == <<temp, error, out>>
execVars == <<queue, pool, run>>
parseVars == <<lines, glog, pos, ok>>
envVars == <<library, blocked>>
vars == <<http, fileVars, execVars, state, parseVars, handed, rejected, envVars>>

TypeOK ==
    /\ http \in [Files -> {"absent", "none", "admitted", "stored", "accepted", "refused"}]
    /\ temp \subseteq Files
    /\ error \subseteq Files
    /\ out \subseteq Files
    /\ lines \in [Files -> Nat]
    /\ glog \in [Files -> Nat]
    /\ queue \in Seq(Tasks) /\ Len(queue) <= QueueCapacity
    /\ pool \in 0 .. MaxThreads
    /\ run \in [Workers -> Tasks \cup {None}]
    /\ state \in [Tasks -> {"none", "queued", "open", "parse", "spinning", "result",
                            "ended"}]
    /\ pos \in [Files -> Nat]
    /\ ok \in [Files -> BOOLEAN]
    /\ handed \subseteq Files
    /\ rejected \subseteq Tasks
    /\ library \in Libraries
    /\ blocked \in BOOLEAN

Init ==
    /\ \E B \in Batches : http = [f \in Files |-> IF f \in B THEN "none" ELSE "absent"]
    /\ temp = {}
    /\ error = {}
    /\ out = {}
    /\ lines = [f \in Files |-> 0]
    /\ glog = [f \in Files |-> 0]
    /\ queue = <<>>
    /\ pool = 0
    /\ run = [w \in Workers |-> None]
    /\ state = [t \in Tasks |-> "none"]
    /\ pos = [f \in Files |-> 1]
    /\ ok = [f \in Files |-> TRUE]
    /\ handed = {}
    /\ rejected = {}
    /\ library \in Libraries
    /\ blocked = FALSE

-----------------------------------------------------------------------------
(***************************************************************************)
(* The HTTP thread                                                         *)
(***************************************************************************)

\* The requests between the look at the queue and the submission of the task.
Requests == {f \in Files : http[f] \in {"admitted", "stored"}}

\* BaseRestController.queueCapacity keeps a buffer of at least one place.
Buffer == IF QueueCapacity = 1 THEN 0
          ELSE IF QueueCapacity \div 32 = 0 THEN 1 ELSE QueueCapacity \div 32

\* Faulty variant: there is no buffer.
AdmissionLimitNoBuffer == QueueCapacity

AdmissionLimit == QueueCapacity - Buffer

\* queueSize < capacity: the upload is let in ...
Admit(f) ==
    /\ http[f] = "none"
    /\ Cardinality(Requests) < MaxRequests
    /\ Len(queue) < AdmissionLimit
    /\ http' = [http EXCEPT ![f] = "admitted"]
    /\ UNCHANGED <<fileVars, execVars, state, parseVars, handed, rejected,
                   envVars>>

\* ... or turned down.
Refuse(f) ==
    /\ http[f] = "none"
    /\ Len(queue) >= AdmissionLimit
    /\ http' = [http EXCEPT ![f] = "refused"]
    /\ UNCHANGED <<fileVars, execVars, state, parseVars, handed, rejected,
                   envVars>>

\* transferTo and the check of the sum.  A file with a wrong sum stays.
Transfer(f) ==
    /\ http[f] = "admitted"
    /\ temp' = temp \cup {f}
    /\ http' = [http EXCEPT ![f] = IF f \in Corrupt THEN "refused" ELSE "stored"]
    /\ UNCHANGED <<error, out, execVars, state, parseVars, handed, rejected,
                   envVars>>

\* transferTo throws, and leaves a part of the file or nothing.
TransferFails(f) ==
    /\ f \in Failing
    /\ http[f] = "admitted"
    /\ temp' \in {temp, temp \cup {f}}
    /\ http' = [http EXCEPT ![f] = "refused"]
    /\ UNCHANGED <<error, out, execVars, state, parseVars, handed, rejected,
                   envVars>>

-----------------------------------------------------------------------------
(***************************************************************************)
(* The executor: a pool of MaxThreads threads with a bounded queue.        *)
(***************************************************************************)

CanSubmit == pool < MaxThreads \/ Len(queue) < QueueCapacity

\* Faulty variants: no thread is started; the queue takes any number of tasks.
ExecuteQueued(t) ==
    /\ Len(queue) < QueueCapacity
    /\ queue' = Append(queue, t)
    /\ state' = [state EXCEPT ![t] = "queued"]
    /\ UNCHANGED <<pool, run>>

ExecuteUnbounded(t) ==
    IF pool < MaxThreads
    THEN /\ pool' = pool + 1
         /\ run' = [run EXCEPT ![pool + 1] = t]
         /\ state' = [state EXCEPT ![t] = "open"]
         /\ UNCHANGED queue
    ELSE /\ queue' = Append(queue, t)
         /\ state' = [state EXCEPT ![t] = "queued"]
         /\ UNCHANGED <<pool, run>>

\* execute(): a new thread while there are less than MaxThreads, else the queue.
Execute(t) ==
    IF pool < MaxThreads
    THEN /\ pool' = pool + 1
         /\ run' = [run EXCEPT ![pool + 1] = t]
         /\ state' = [state EXCEPT ![t] = "open"]
         /\ UNCHANGED queue
    ELSE /\ Len(queue) < QueueCapacity
         /\ queue' = Append(queue, t)
         /\ state' = [state EXCEPT ![t] = "queued"]
         /\ UNCHANGED <<pool, run>>

\* The task is made, and with it the file for the decoded text, or none: then
\* localFileSender is null.
NewTask(f) == out' = out \cup {f} \/ (f \in Failing /\ UNCHANGED out)

\* submit(task)
Submit(f) ==
    /\ http[f] = "stored"
    /\ NewTask(f)
    /\ Execute(f)
    /\ http' = [http EXCEPT ![f] = "accepted"]
    /\ UNCHANGED <<temp, error, parseVars, handed, rejected, envVars>>

\* submit(task) throws TaskRejectedException; both files stay.
SubmitRejected(f) ==
    /\ http[f] = "stored"
    /\ ~CanSubmit
    /\ NewTask(f)
    /\ http' = [http EXCEPT ![f] = "refused"]
    /\ rejected' = rejected \cup {f}
    /\ UNCHANGED <<temp, error, execVars, state, parseVars, handed, envVars>>

\* A scheduled @Async task comes due, without a look at the queue.
SubmitJob(j) ==
    /\ state[j] = "none" /\ j \notin rejected
    /\ \/ Execute(j) /\ UNCHANGED rejected
       \/ /\ ~CanSubmit
          /\ rejected' = rejected \cup {j}
          /\ UNCHANGED <<execVars, state>>
    /\ UNCHANGED <<http, fileVars, parseVars, handed, envVars>>

\* A thread that is done takes the next task.
Take(w) ==
    /\ w <= pool
    /\ run[w] = None
    /\ queue # <<>>
    /\ run' = [run EXCEPT ![w] = Head(queue)]
    /\ queue' = Tail(queue)
    /\ state' = [state EXCEPT ![Head(queue)] = "open"]
    /\ UNCHANGED <<http, fileVars, pool, parseVars, handed, rejected, envVars>>

\* The task of thread w is over.
Ends(w) ==
    /\ run' = [run EXCEPT ![w] = None]
    /\ state' = [state EXCEPT ![run[w]] = "ended"]
    /\ UNCHANGED <<queue, pool>>

\* A scheduled task ends; retryPutQueue calls write() and may have to wait.
JobEnds(w) ==
    /\ run[w] \in Jobs
    /\ ~blocked
    /\ Ends(w)
    /\ UNCHANGED <<http, fileVars, parseVars, handed, rejected, envVars>>

\* clearFiles walks all directories and deletes what is older than the ttl.  The
\* decoded texts in weed/ are files of WeedFS.
JobClears(w, f) ==
    /\ run[w] \in Jobs
    /\ f \in Expiring
    /\ \/ f \in temp /\ temp' = temp \ {f} /\ UNCHANGED error
       \/ f \in error /\ error' = error \ {f} /\ UNCHANGED temp
    /\ UNCHANGED <<http, out, execVars, state, parseVars, handed, rejected,
                   envVars>>

-----------------------------------------------------------------------------
(***************************************************************************)
(* LogFileParseTask.run in thread w                                        *)
(***************************************************************************)

\* Thread w runs the task of file f, which has come to s.
At(w, f, s) == run[w] = f /\ state[f] = s

\* moveFileToDirectory, whose IOException is only logged: the file may be gone.
MoveToErrorDir(f) ==
    \/ /\ f \in temp
       /\ error' = error \cup {f}
       /\ temp' = temp \ {f}
    \/ f \in Failing \cup (Files \ temp) /\ UNCHANGED <<error, temp>>

\* new GZIPInputStream(new FileInputStream(...))
Open(w, f) ==
    /\ At(w, f, "open")
    /\ f \in temp \ NotGzip
    /\ state' = [state EXCEPT ![f] = "parse"]
    /\ UNCHANGED <<http, fileVars, execVars, parseVars, handed, rejected,
                   envVars>>

\* run() catches the exception.
OpenFails(w, f) ==
    /\ At(w, f, "open")
    /\ f \notin temp \/ f \in NotGzip \/ f \in Failing
    /\ MoveToErrorDir(f)
    /\ Ends(w)
    /\ UNCHANGED <<http, out, parseVars, handed, rejected, envVars>>

\* Faulty variant: the last record is taken for the end of the stream.
AtEndEarly(f) == pos[f] >= Len(Content[f])

AtEnd(f) == pos[f] > Len(Content[f])

\* What the parser meets next.
Meets(f) == IF AtEnd(f) THEN "end" ELSE Content[f][pos[f]]

\* The parser leaves its loop: at the end of the stream, at a damaged record, or
\* by an exception, which it catches; successful is FALSE only for the second.
ParseStops(w, f) ==
    /\ At(w, f, "parse")
    /\ Meets(f) \in {"end", "damaged", "broken"}
    /\ ok' = [ok EXCEPT ![f] = Meets(f) # "damaged"]
    /\ state' = [state EXCEPT ![f] = "result"]
    /\ UNCHANGED <<http, fileVars, execVars, lines, glog, pos, handed, rejected,
                   envVars>>

\* Decryption ends with an Error, which passes the catch clauses of the parser and
\* of run(): result() is not called, and the cache file stays in temp/.  A damaged
\* or broken record may stop the parser before it decrypts.
ParseDies(w, f) ==
    /\ At(w, f, "parse")
    /\ ~library
    /\ Meets(f) # "end"
    /\ Ends(w)
    /\ UNCHANGED <<http, fileVars, parseVars, handed, rejected, envVars>>

ParseSkips(w, f) ==
    /\ At(w, f, "parse")
    /\ library
    /\ Meets(f) = "skipped"
    /\ pos' = [pos EXCEPT ![f] = @ + 1]
    /\ UNCHANGED <<http, fileVars, execVars, state, lines, glog, ok, handed,
                   rejected, envVars>>

\* output(): the message goes to graylog, unless the level is VERBOSE, then to the
\* local file.  The missing local sender throws into the parser, which stops.
ParseOutput(w, f) ==
    /\ At(w, f, "parse")
    /\ library
    /\ Meets(f) \in {"line", "poison"}
    /\ f \in Verbose \/ ~blocked
    /\ glog' = [glog EXCEPT ![f] = IF f \in Verbose THEN @ ELSE @ + 1]
    /\ IF f \in out
       THEN /\ lines' = [lines EXCEPT ![f] = @ + 1]
            /\ pos' = [pos EXCEPT ![f] = @ + 1]
            /\ UNCHANGED state
       ELSE /\ state' = [state EXCEPT ![f] = "result"]
            /\ UNCHANGED <<lines, pos>>
    /\ UNCHANGED <<http, fileVars, execVars, ok, handed, rejected, envVars>>

\* GraylogClientService.send throws, which it does while it is connected: for a bad
\* template, or for a sound one when another thread changes the layout cache.  The
\* parser stops as if at the end.
ParseOutputThrows(w, f) ==
    /\ At(w, f, "parse")
    /\ library
    /\ f \notin Verbose
    /\ Meets(f) = "poison" \/ (Meets(f) = "line" /\ f \in Raced)
    /\ state' = [state EXCEPT ![f] = "result"]
    /\ UNCHANGED <<http, fileVars, execVars, parseVars, handed, rejected,
                   envVars>>

\* getLayout meets a cycle in a bucket of the layout cache and does not return.
ParseSpins(w, f) ==
    /\ At(w, f, "parse")
    /\ library
    /\ f \in Raced \ Verbose
    /\ Meets(f) \in {"line", "poison"}
    /\ state' = [state EXCEPT ![f] = "spinning"]
    /\ UNCHANGED <<http, fileVars, execVars, parseVars, handed, rejected,
                   envVars>>

\* result(true): the meta is made and handed to the weed pipeline, the cache file
\* deleted.  Without a meta the cache file is deleted as well.
ResultSuccessful(w, f) ==
    /\ At(w, f, "result")
    /\ ok[f] /\ f \notin NoDot
    /\ f \in BadName \/ ~blocked
    /\ handed' = IF f \in BadName THEN handed ELSE handed \cup {f}
    /\ temp' = temp \ {f}
    /\ Ends(w)
    /\ UNCHANGED <<http, error, out, parseVars, rejected, envVars>>

\* Making the meta or write() throws, out of the parser into run().
ResultThrows(w, f) ==
    /\ At(w, f, "result")
    /\ ok[f]
    /\ f \in NoDot \/ (f \in Failing /\ f \notin BadName)
    /\ MoveToErrorDir(f)
    /\ Ends(w)
    /\ UNCHANGED <<http, out, parseVars, handed, rejected, envVars>>

\* Faulty variant: the cache file is deleted before it is moved.
ResultFailedDeletes(w, f) ==
    /\ At(w, f, "result")
    /\ ~ok[f]
    /\ temp' = temp \ {f}
    /\ Ends(w)
    /\ UNCHANGED <<http, error, out, parseVars, handed, rejected, envVars>>

\* result(false): the cache file is moved; what is left of it is deleted.
ResultFailed(w, f) ==
    /\ At(w, f, "result")
    /\ ~ok[f]
    /\ \/ f \in temp /\ error' = error \cup {f}
       \/ f \in Failing \cup (Files \ temp) /\ UNCHANGED error
    /\ temp' = temp \ {f}
    /\ Ends(w)
    /\ UNCHANGED <<http, out, parseVars, handed, rejected, envVars>>

ParseTask(w, f) ==
    \/ Open(w, f)
    \/ OpenFails(w, f)
    \/ ParseStops(w, f)
    \/ ParseDies(w, f)
    \/ ParseSkips(w, f)
    \/ ParseOutput(w, f)
    \/ ParseOutputThrows(w, f)
    \/ ParseSpins(w, f)
    \/ ResultSuccessful(w, f)
    \/ ResultThrows(w, f)
    \/ ResultFailed(w, f)

-----------------------------------------------------------------------------
Request(f) ==
    \/ Admit(f)
    \/ Refuse(f)
    \/ Transfer(f)
    \/ TransferFails(f)
    \/ Submit(f)
    \/ SubmitRejected(f)

Worker(w) ==
    \/ Take(w)
    \/ JobEnds(w)
    \/ \E f \in Files : JobClears(w, f) \/ ParseTask(w, f)

\* The queue of graylog or of weed becomes full, or one has room again.
Environment ==
    /\ blocked' = ~blocked
    /\ UNCHANGED <<http, fileVars, execVars, state, parseVars, handed, rejected,
                   library>>

Next ==
    \/ \E f \in Files : Request(f)
    \/ \E j \in Jobs : SubmitJob(j)
    \/ \E w \in Workers : Worker(w)
    \/ Environment

SafeSpec == Init /\ [][Next]_vars

(***************************************************************************)
(* The threads of the pool keep running, and one that waits in write()     *)
(* goes on if there is room again and again.  That there is room is no     *)
(* assumption: AcceptedIsProcessed has it as a premise.                    *)
(***************************************************************************)
Waiting(w) ==
    JobEnds(w) \/ \E f \in Files : ParseOutput(w, f) \/ ResultSuccessful(w, f)

Fairness ==
    /\ \A w \in Workers : WF_vars(Worker(w)) /\ SF_vars(Waiting(w))
    /\ \A f \in Files : WF_vars(Transfer(f) \/ TransferFails(f)
                                  \/ Submit(f) \/ SubmitRejected(f))

Spec == SafeSpec /\ Fairness

-----------------------------------------------------------------------------
(***************************************************************************)
(* Properties                                                              *)
(***************************************************************************)

Count(f, K) == Cardinality({i \in 1 .. Len(Content[f]) : Content[f][i] \in K})

\* The first record of f that is neither written nor skipped is of kind k.
FirstTrouble(f, k) ==
    \E i \in 1 .. Len(Content[f]) :
        /\ Content[f][i] = k
        /\ \A j \in 1 .. i - 1 : Content[f][j] \in {"line", "skipped"}

\* A file without a faulty record is parsed to its end: every line is in its text
\* file and, unless VERBOSE, was handed to graylog once, and the file was handed on
\* to the weed pipeline.  That is so whatever becomes of the other files, provided
\* that CryptoTool could be loaded, that no race in the layout cache hits a line of
\* this file (OwnOutcome of Decoding says when) and that it is younger than the ttl.
CompleteIsHandedOn ==
    \A f \in Files \ (NotGzip \cup BadName \cup NoDot \cup Failing \cup Raced
                        \cup Expiring) :
        library /\ state[f] = "ended"
            /\ Count(f, {"line", "skipped"}) = Len(Content[f]) =>
            /\ f \in handed /\ f \in out /\ f \notin error
            /\ lines[f] = Count(f, {"line"})
            /\ glog[f] = IF f \in Verbose THEN 0 ELSE lines[f]

\* A file that stops at a damaged record, and one that is no gzip stream, is not
\* handed on and leaves temp/; it is kept in error/ unless clearFiles found it older
\* than the ttl.  Not so for a file whose own move fails, for one whose parsing an
\* Error of CryptoTool ended, and for one that a race in the layout cache stopped
\* before its damaged record.
DamagedIsQuarantined ==
    \A f \in Files \ Failing :
        /\ state[f] = "ended"
        /\ \/ f \in NotGzip
           \/ library /\ FirstTrouble(f, "damaged") /\ f \notin Raced
        => /\ f \notin handed /\ f \notin temp
           /\ f \in error \/ f \in Expiring

\* The buffer of queueCapacity makes up for the time between the look at the
\* queue and the submission: as long as no more requests than that run at the
\* same time, there is a place for each of them, so that none is rejected unless
\* scheduled tasks, which come without a look at the queue, have taken it.
NoRejection ==
    MaxRequests <= Buffer + 1 =>
        Len(queue) + Cardinality(Requests)
            <= QueueCapacity + Cardinality({j \in Jobs : state[j] = "queued"})

\* Every accepted upload's task comes to its end, provided that the queues of
\* graylog and weed have room again and again (CallersReturn of Graylog and WeedFS)
\* and that no thread is caught in a cycle of the layout cache.
AcceptedIsProcessed ==
    []<>~blocked /\ [](\A f \in Files : state[f] # "spinning") =>
        \A f \in Files : []<>(http[f] = "accepted" => state[f] = "ended")

\* Constants.ERROR_DIR is the directory of log files whose parsing failed: a file
\* whose parsing ended by an exception is kept there.
ParseErrorsAreKept ==
    \A f \in Files :
        state[f] = "ended" /\ FirstTrouble(f, "broken") => f \in error

=============================================================================
