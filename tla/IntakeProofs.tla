---------------------------- MODULE IntakeProofs ----------------------------
(***************************************************************************)
(* Proofs about the intake of log files, for any finite set of files with  *)
(* any contents, any number of scheduled tasks, and any size of the thread *)
(* pool and its queue.                                                     *)
(***************************************************************************)
EXTENDS Intake, FiniteSetTheorems, TLAPS

USE DEF envVars

-----------------------------------------------------------------------------
(* Type correctness. *)

States == {"none", "queued", "open", "parse", "spinning", "result", "ended"}
USE DEF States

\* What Head and Tail give of a queue that is not empty.
LEMMA QueueTail ==
    ASSUME NEW S, NEW q \in Seq(S), q # <<>>
    PROVE  /\ Head(q) \in S /\ Head(q) = q[1] /\ 1 \in 1 .. Len(q)
           /\ Len(q) \in Nat /\ Len(Tail(q)) = Len(q) - 1
           /\ Tail(q) \in Seq(S)
           /\ \A i \in 1 .. Len(Tail(q)) : i + 1 \in 1 .. Len(q) /\ Tail(q)[i] = q[i + 1]
  OBVIOUS

\* What Append gives of a queue.
LEMMA QueueAppend ==
    ASSUME NEW S, NEW q \in Seq(S), NEW e \in S
    PROVE  /\ Append(q, e) \in Seq(S)
           /\ Len(q) \in Nat /\ Len(Append(q, e)) = Len(q) + 1
           /\ \A i \in 1 .. Len(q) + 1 :
                \/ i \in 1 .. Len(q) /\ Append(q, e)[i] = q[i]
                \/ i = Len(q) + 1 /\ Append(q, e)[i] = e
  OBVIOUS

\* execute() keeps the types of the executor: the queue stays within its capacity.
LEMMA TypeOfExecute ==
    ASSUME TypeOK, NEW t \in Tasks, Execute(t)
    PROVE  /\ queue' \in Seq(Tasks) /\ Len(queue') <= QueueCapacity
           /\ pool' \in 0 .. MaxThreads
           /\ run' \in [Workers -> Tasks \cup {None}]
           /\ state' \in [Tasks -> States]
<1>0. MaxThreads \in Nat /\ QueueCapacity \in Nat
    BY ConstantsAssumption
<1>1. state' \in [Tasks -> States]
    BY DEF Execute, TypeOK
<1>2. CASE pool < MaxThreads
    <2>1. pool' = pool + 1 /\ run' = [run EXCEPT ![pool + 1] = t] /\ queue' = queue
        BY <1>2 DEF Execute
    <2> QED
        BY <1>0, <1>1, <1>2, <2>1 DEF TypeOK, Workers
<1>3. CASE ~(pool < MaxThreads)
    <2>1. /\ Len(queue) < QueueCapacity /\ queue' = Append(queue, t)
          /\ pool' = pool /\ run' = run
        BY <1>3 DEF Execute
    <2>2. queue' \in Seq(Tasks) /\ Len(queue') <= QueueCapacity
        BY <1>0, <2>1, QueueAppend DEF TypeOK
    <2> QED
        BY <1>1, <2>1, <2>2 DEF TypeOK
<1> QED
    BY <1>2, <1>3

\* The end of a task keeps the types of the executor.
LEMMA TypeOfEnds ==
    ASSUME TypeOK, NEW w \in Workers, Ends(w)
    PROVE  /\ queue' \in Seq(Tasks) /\ Len(queue') <= QueueCapacity
           /\ pool' \in 0 .. MaxThreads
           /\ run' \in [Workers -> Tasks \cup {None}]
           /\ state' \in [Tasks -> States]
  BY DEF Ends, TypeOK

\* The steps of a request keep the types.
LEMMA TypeOfRequest ==
    ASSUME TypeOK, NEW f \in Files, Request(f)
    PROVE  TypeOK'
<1>0. f \in Tasks
    BY DEF Tasks
<1>1. CASE Admit(f) \/ Refuse(f)
    BY <1>1 DEF Admit, Refuse, TypeOK, fileVars, execVars, parseVars
<1>2. CASE Transfer(f) \/ TransferFails(f)
    BY <1>2 DEF Transfer, TransferFails, TypeOK, execVars, parseVars
<1>3. CASE Submit(f)
    BY <1>0, <1>3, TypeOfExecute DEF Submit, NewTask, TypeOK, parseVars
<1>4. CASE SubmitRejected(f)
    BY <1>0, <1>4 DEF SubmitRejected, NewTask, TypeOK, execVars, parseVars
<1> QED
    BY <1>1, <1>2, <1>3, <1>4 DEF Request

\* So do those of a parse task.
LEMMA TypeOfParseTask ==
    ASSUME TypeOK, NEW w \in Workers, NEW f \in Files, ParseTask(w, f)
    PROVE  TypeOK'
<1>0. f \in Tasks
    BY DEF Tasks
<1>1. CASE Open(w, f) \/ ParseOutputThrows(w, f) \/ ParseSpins(w, f)
    BY <1>0, <1>1 DEF Open, ParseOutputThrows, ParseSpins, TypeOK, fileVars, execVars, parseVars
<1>9. CASE ParseDies(w, f)
    BY <1>9, TypeOfEnds DEF ParseDies, TypeOK, fileVars, parseVars
<1>2. CASE OpenFails(w, f)
    BY <1>2, TypeOfEnds DEF OpenFails, MoveToErrorDir, TypeOK, parseVars
<1>3. CASE ParseStops(w, f)
    BY <1>0, <1>3 DEF ParseStops, TypeOK, fileVars, execVars
<1>4. CASE ParseSkips(w, f)
    <2>1. pos' = [pos EXCEPT ![f] = @ + 1] /\ pos \in [Files -> Nat]
        BY <1>4 DEF ParseSkips, TypeOK
    <2>2. pos' \in [Files -> Nat]
        BY <2>1
    <2> QED
        BY <1>4, <2>2 DEF ParseSkips, TypeOK, fileVars, execVars
<1>5. CASE ParseOutput(w, f)
    <2>1. glog' \in [Files -> Nat]
        BY <1>5 DEF ParseOutput, TypeOK
    <2>2. lines' \in [Files -> Nat] /\ pos' \in [Files -> Nat]
        <3>1. CASE f \in out
            <4>1. lines' = [lines EXCEPT ![f] = @ + 1] /\ pos' = [pos EXCEPT ![f] = @ + 1]
                BY <1>5, <3>1 DEF ParseOutput
            <4>2. lines \in [Files -> Nat] /\ pos \in [Files -> Nat]
                BY DEF TypeOK
            <4> QED
                BY <4>1, <4>2
        <3>2. CASE f \notin out
            BY <1>5, <3>2 DEF ParseOutput, TypeOK
        <3> QED
            BY <3>1, <3>2
    <2>3. state' \in [Tasks -> States]
        BY <1>5 DEF ParseOutput, TypeOK
    <2> QED
        BY <1>5, <2>1, <2>2, <2>3 DEF ParseOutput, TypeOK, fileVars, execVars
<1>6. CASE ResultSuccessful(w, f)
    BY <1>6, TypeOfEnds DEF ResultSuccessful, TypeOK, parseVars
<1>7. CASE ResultThrows(w, f)
    BY <1>7, TypeOfEnds DEF ResultThrows, MoveToErrorDir, TypeOK, parseVars
<1>8. CASE ResultFailed(w, f)
    BY <1>8, TypeOfEnds DEF ResultFailed, TypeOK, parseVars
<1> QED
    BY <1>1, <1>2, <1>3, <1>4, <1>5, <1>6, <1>7, <1>8, <1>9 DEF ParseTask

\* The type invariant is inductive.
LEMMA TypeStep == TypeOK /\ [Next]_vars => TypeOK'
<1> SUFFICES ASSUME TypeOK, [Next]_vars PROVE TypeOK'
    OBVIOUS
<1>1. CASE UNCHANGED vars
    BY <1>1 DEF TypeOK, vars, fileVars, execVars, parseVars
<1>2. ASSUME NEW j \in Jobs, SubmitJob(j) PROVE TypeOK'
    <2>0. j \in Tasks
        BY DEF Tasks
    <2>1. CASE Execute(j) /\ UNCHANGED rejected
        BY <1>2, <2>0, <2>1, TypeOfExecute DEF SubmitJob, TypeOK, fileVars, parseVars
    <2>2. CASE ~(Execute(j) /\ UNCHANGED rejected)
        BY <1>2, <2>0, <2>2 DEF SubmitJob, TypeOK, fileVars, execVars, parseVars
    <2> QED
        BY <2>1, <2>2
<1>3. ASSUME NEW w \in Workers, Take(w) PROVE TypeOK'
    <2>1. /\ Head(queue) \in Tasks
          /\ queue' \in Seq(Tasks) /\ Len(queue') <= QueueCapacity
        BY <1>3, QueueTail, ConstantsAssumption DEF Take, TypeOK
    <2> QED
        BY <1>3, <2>1 DEF Take, TypeOK, fileVars, parseVars
<1>4. ASSUME NEW w \in Workers, JobEnds(w) PROVE TypeOK'
    BY <1>4, TypeOfEnds DEF JobEnds, TypeOK, fileVars, parseVars
<1>5. ASSUME NEW w \in Workers, NEW f \in Files, JobClears(w, f) PROVE TypeOK'
    BY <1>5 DEF JobClears, TypeOK, execVars, parseVars
<1>6. CASE Environment
    BY <1>6 DEF Environment, TypeOK, fileVars, execVars, parseVars
<1> QED
    BY <1>1, <1>2, <1>3, <1>4, <1>5, <1>6, TypeOfRequest, TypeOfParseTask DEF Next, Worker

\* The type invariant holds before the first request.
LEMMA TypeInit == Init => TypeOK
<1> SUFFICES ASSUME Init PROVE TypeOK
    OBVIOUS
<1>1. http \in [Files -> {"absent", "none", "admitted", "stored", "accepted", "refused"}]
    BY DEF Init
<1>2. queue \in Seq(Tasks) /\ Len(queue) <= QueueCapacity /\ pool \in 0 .. MaxThreads
    BY ConstantsAssumption DEF Init
<1> QED
    BY <1>1, <1>2 DEF Init, TypeOK

\* Every reachable state is well typed: the work queue stays within its capacity and
\* the pool within its threads, whatever requests and scheduled tasks come.
THEOREM TypeCorrect == SafeSpec => []TypeOK
  BY TypeInit, TypeStep, PTL DEF SafeSpec

-----------------------------------------------------------------------------
(* The executor. *)

Running == {"open", "parse", "spinning", "result"}

\* Every task is in one place: one place of the queue before it runs, one thread
\* while it runs; the task of an upload is made by its submission.
TaskPlaces ==
    /\ \A w \in Workers : run[w] # None => state[run[w]] \in Running
    /\ \A v, w \in Workers : run[v] = run[w] /\ run[w] # None => v = w
    /\ \A i \in 1 .. Len(queue) : state[queue[i]] = "queued"
    /\ \A i, j \in 1 .. Len(queue) : queue[i] = queue[j] => i = j
    /\ \A f \in Files : http[f] # "accepted" => state[f] = "none"

\* execute() gives a new task its place.
LEMMA PlacesOfExecute ==
    ASSUME TypeOK, TaskPlaces, NEW t \in Tasks, state[t] = "none", Execute(t),
           \A f \in Files : http'[f] # "accepted" => f # t /\ http[f] # "accepted"
    PROVE  TaskPlaces'
<1>0. /\ queue \in Seq(Tasks) /\ run \in [Workers -> Tasks \cup {None}] /\ None \notin Tasks
      /\ state \in [Tasks -> States]
      /\ \A i \in 1 .. Len(queue) : queue[i] \in Tasks
      /\ Files \subseteq Tasks
    BY ConstantsAssumption DEF TypeOK, Tasks
<1>1. /\ \A w \in Workers : run[w] # t
      /\ \A i \in 1 .. Len(queue) : queue[i] # t
    BY <1>0 DEF TaskPlaces, Running
<1>2. \A u \in Tasks : u # t => state'[u] = state[u]
    BY <1>0 DEF Execute
<1>3. \A f \in Files : http'[f] # "accepted" => state'[f] = "none"
    BY <1>0, <1>2 DEF TaskPlaces
<1>4. CASE pool < MaxThreads
    <2>1. /\ run' = [run EXCEPT ![pool + 1] = t] /\ queue' = queue
          /\ state' = [state EXCEPT ![t] = "open"]
        BY <1>4 DEF Execute
    <2>2. \A i \in 1 .. Len(queue) : state'[queue[i]] = "queued"
        BY <1>0, <1>1, <1>2 DEF TaskPlaces
    <2>3. \A w \in Workers : run'[w] = t \/ run'[w] = run[w]
        BY <1>0, <2>1
    <2>4. \A w \in Workers : run'[w] # None => state'[run'[w]] \in Running
        BY <1>0, <1>1, <1>2, <2>1, <2>3 DEF TaskPlaces, Running
    <2>5. \A v, w \in Workers : run'[v] = run'[w] /\ run'[w] # None => v = w
        BY <1>0, <1>1, <2>1 DEF TaskPlaces
    <2> QED
        BY <1>3, <2>1, <2>2, <2>4, <2>5 DEF TaskPlaces
<1>5. CASE ~(pool < MaxThreads)
    <2>1. /\ queue' = Append(queue, t) /\ run' = run
          /\ state' = [state EXCEPT ![t] = "queued"]
        BY <1>5 DEF Execute
    <2>2. /\ Len(queue) \in Nat /\ Len(queue') = Len(queue) + 1
          /\ \A i \in 1 .. Len(queue') :
                \/ i \in 1 .. Len(queue) /\ queue'[i] = queue[i]
                \/ i = Len(queue) + 1 /\ queue'[i] = t
        BY <1>0, <2>1, QueueAppend
    <2>3. \A w \in Workers : run[w] # None => state'[run[w]] \in Running
        BY <1>0, <1>1, <1>2 DEF TaskPlaces
    <2>4. \A i \in 1 .. Len(queue') : state'[queue'[i]] = "queued"
        BY <1>0, <1>1, <1>2, <2>1, <2>2 DEF TaskPlaces
    <2>5. \A i, j \in 1 .. Len(queue') : queue'[i] = queue'[j] => i = j
        BY <1>1, <2>2 DEF TaskPlaces
    <2> QED
        BY <1>3, <2>1, <2>3, <2>4, <2>5 DEF TaskPlaces
<1> QED
    BY <1>4, <1>5

\* A free thread moves the first task of the queue from one place to the other.
LEMMA PlacesOfTake ==
    ASSUME TypeOK, TaskPlaces, NEW w \in Workers, Take(w)
    PROVE  TaskPlaces'
<1>0. /\ queue \in Seq(Tasks) /\ run \in [Workers -> Tasks \cup {None}] /\ None \notin Tasks
      /\ state \in [Tasks -> States]
      /\ Files \subseteq Tasks
    BY ConstantsAssumption DEF TypeOK, Tasks
<1>1. /\ run[w] = None /\ run' = [run EXCEPT ![w] = queue[1]] /\ http' = http
      /\ state' = [state EXCEPT ![queue[1]] = "open"]
      /\ queue[1] \in Tasks /\ 1 \in 1 .. Len(queue)
      /\ \A i \in 1 .. Len(queue') : i + 1 \in 1 .. Len(queue) /\ queue'[i] = queue[i + 1]
    BY <1>0, QueueTail DEF Take
<1>2. state[queue[1]] = "queued"
    BY <1>1 DEF TaskPlaces
<1>3. \A v \in Workers : run[v] # queue[1]
    BY <1>0, <1>1, <1>2 DEF TaskPlaces, Running
<1>4. \A v \in Workers : run'[v] # None => state'[run'[v]] \in Running
    BY <1>0, <1>1, <1>3 DEF TaskPlaces, Running
<1>5. \A u, v \in Workers : run'[u] = run'[v] /\ run'[v] # None => u = v
    BY <1>0, <1>1, <1>3 DEF TaskPlaces
<1>6. \A i \in 1 .. Len(queue') : state'[queue'[i]] = "queued"
    <2> TAKE i \in 1 .. Len(queue')
    <2>1. i + 1 \in 1 .. Len(queue) /\ i + 1 # 1 /\ queue'[i] = queue[i + 1]
        BY <1>1
    <2>2. queue[i + 1] # queue[1] /\ queue[i + 1] \in Tasks
        BY <1>0, <1>1, <2>1 DEF TaskPlaces
    <2>3. state[queue[i + 1]] = "queued"
        BY <2>1 DEF TaskPlaces
    <2> QED
        BY <1>0, <1>1, <2>1, <2>2, <2>3
<1>7. \A i, j \in 1 .. Len(queue') : queue'[i] = queue'[j] => i = j
    <2> TAKE i, j \in 1 .. Len(queue')
    <2> HAVE queue'[i] = queue'[j]
    <2>1. i + 1 = j + 1
        BY <1>1 DEF TaskPlaces
    <2> QED
        BY <2>1
<1>8. \A f \in Files : http[f] # "accepted" => state'[f] = "none"
    BY <1>0, <1>1, <1>2 DEF TaskPlaces
<1> QED
    BY <1>1, <1>4, <1>5, <1>6, <1>7, <1>8 DEF TaskPlaces

\* The end of a task clears its place.
LEMMA PlacesOfEnds ==
    ASSUME TypeOK, TaskPlaces, NEW w \in Workers, run[w] \in Tasks, Ends(w), http' = http
    PROVE  TaskPlaces'
<1>0. /\ queue \in Seq(Tasks) /\ run \in [Workers -> Tasks \cup {None}] /\ None \notin Tasks
      /\ state \in [Tasks -> States]
      /\ \A i \in 1 .. Len(queue) : queue[i] \in Tasks
      /\ Files \subseteq Tasks
    BY ConstantsAssumption DEF TypeOK, Tasks
<1>1. run[w] # None /\ state[run[w]] \in Running
    BY <1>0 DEF TaskPlaces
<1>2. /\ run' = [run EXCEPT ![w] = None] /\ queue' = queue
      /\ state' = [state EXCEPT ![run[w]] = "ended"]
    BY DEF Ends
<1>3. \A u \in Tasks : u # run[w] => state'[u] = state[u]
    BY <1>0, <1>2
<1>4. \A v \in Workers : run'[v] # None => v # w /\ run'[v] = run[v] /\ run[v] # run[w]
    BY <1>0, <1>1, <1>2 DEF TaskPlaces
<1>5. \A v \in Workers : run'[v] # None => state'[run'[v]] \in Running
    BY <1>0, <1>3, <1>4 DEF TaskPlaces
<1>6. \A u, v \in Workers : run'[u] = run'[v] /\ run'[v] # None => u = v
    BY <1>4 DEF TaskPlaces
<1>7. \A i \in 1 .. Len(queue) : state'[queue[i]] = "queued"
    BY <1>0, <1>1, <1>3 DEF TaskPlaces, Running
<1>8. \A f \in Files : http[f] # "accepted" => state'[f] = "none"
    BY <1>0, <1>1, <1>3 DEF TaskPlaces, Running
<1> QED
    BY <1>2, <1>5, <1>6, <1>7, <1>8 DEF TaskPlaces

\* A task that goes on in its thread stays in its place.
LEMMA PlacesOfStep ==
    ASSUME TypeOK, TaskPlaces, NEW t \in Tasks, state[t] \in Running,
           NEW s \in Running, state' \in {state, [state EXCEPT ![t] = s]},
           UNCHANGED <<http, queue, run>>
    PROVE  TaskPlaces'
<1>0. /\ queue \in Seq(Tasks) /\ run \in [Workers -> Tasks \cup {None}]
      /\ state \in [Tasks -> States]
      /\ \A i \in 1 .. Len(queue) : queue[i] \in Tasks
      /\ Files \subseteq Tasks
    BY DEF TypeOK, Tasks
<1>1. \A u \in Tasks : \/ state'[u] = state[u]
                       \/ state[u] \in Running /\ state'[u] \in Running
    BY <1>0
<1>2. \A w \in Workers : run[w] # None => state'[run[w]] \in Running
    BY <1>0, <1>1 DEF TaskPlaces
<1>3. \A i \in 1 .. Len(queue) : state'[queue[i]] = "queued"
    BY <1>0, <1>1 DEF TaskPlaces, Running
<1>4. \A f \in Files : http[f] # "accepted" => state'[f] = "none"
    BY <1>0, <1>1 DEF TaskPlaces, Running
<1> QED
    BY <1>2, <1>3, <1>4 DEF TaskPlaces

\* Every step keeps the tasks in one place each.
LEMMA PlacesStep == TypeOK /\ TaskPlaces /\ [Next]_vars => TaskPlaces'
<1> SUFFICES ASSUME TypeOK, TaskPlaces, [Next]_vars PROVE TaskPlaces'
    OBVIOUS
<1>0. Files \subseteq Tasks /\ Jobs \subseteq Tasks /\ Files \cap Jobs = {}
    BY ConstantsAssumption DEF Tasks
<1>1. CASE UNCHANGED vars
    BY <1>1 DEF TaskPlaces, vars, execVars
<1>2. ASSUME NEW f \in Files, Request(f) PROVE TaskPlaces'
    <2>1. CASE Submit(f)
        <3>1. state[f] = "none"
            BY <2>1 DEF Submit, TaskPlaces
        <3>2. \A g \in Files : http'[g] # "accepted" => g # f /\ http[g] # "accepted"
            BY <2>1 DEF Submit, TypeOK
        <3> QED
            BY <1>0, <2>1, <3>1, <3>2, PlacesOfExecute DEF Submit
    <2>2. CASE ~Submit(f)
        <3>1. UNCHANGED <<queue, run, state>>
            BY <1>2, <2>2 DEF Request, Admit, Refuse, Transfer, TransferFails, SubmitRejected,
                              execVars
        <3>2. \A g \in Files : http'[g] # "accepted" => http[g] # "accepted"
            BY <1>2, <2>2 DEF Request, Admit, Refuse, Transfer, TransferFails, SubmitRejected,
                              TypeOK
        <3> QED
            BY <3>1, <3>2 DEF TaskPlaces
    <2> QED
        BY <2>1, <2>2
<1>3. ASSUME NEW j \in Jobs, SubmitJob(j) PROVE TaskPlaces'
    <2>1. CASE Execute(j)
        <3>1. http' = http /\ state[j] = "none" /\ j \notin Files
            BY <1>0, <1>3 DEF SubmitJob
        <3> QED
            BY <1>0, <2>1, <3>1, PlacesOfExecute
    <2>2. CASE ~Execute(j)
        BY <1>3, <2>2 DEF SubmitJob, TaskPlaces, execVars
    <2> QED
        BY <2>1, <2>2
<1>4. ASSUME NEW w \in Workers, JobEnds(w) PROVE TaskPlaces'
    BY <1>0, <1>4, PlacesOfEnds DEF JobEnds
<1>5. ASSUME NEW w \in Workers, NEW f \in Files, ParseTask(w, f) PROVE TaskPlaces'
    <2>1. run[w] = f /\ state[f] \in Running /\ http' = http
        BY <1>5 DEF ParseTask, Open, OpenFails, ParseStops, ParseSkips, ParseOutput,
                    ParseOutputThrows, ParseDies, ParseSpins, ResultSuccessful, ResultThrows, ResultFailed, At, Running
    <2>2. CASE Ends(w)
        BY <1>0, <2>1, <2>2, PlacesOfEnds
    <2>3. CASE ~Ends(w)
        <3>1. PICK s \in Running : state' \in {state, [state EXCEPT ![f] = s]}
            BY <1>5, <2>3
               DEF ParseTask, Open, OpenFails, ParseStops, ParseSkips, ParseOutput,
                   ParseOutputThrows, ParseDies, ParseSpins, ResultSuccessful, ResultThrows, ResultFailed, Running
        <3>2. UNCHANGED <<queue, run>>
            BY <1>5, <2>3
               DEF ParseTask, Open, OpenFails, ParseStops, ParseSkips, ParseOutput,
                   ParseOutputThrows, ParseDies, ParseSpins, ResultSuccessful, ResultThrows, ResultFailed, execVars
        <3> QED
            BY <1>0, <2>1, <3>1, <3>2, PlacesOfStep
    <2> QED
        BY <2>2, <2>3
<1>6. CASE Environment \/ \E w \in Workers, f \in Files : JobClears(w, f)
    BY <1>6 DEF Environment, JobClears, TaskPlaces, execVars
<1> QED
    BY <1>1, <1>2, <1>3, <1>4, <1>5, <1>6, PlacesOfTake DEF Next, Worker

-----------------------------------------------------------------------------
(* NoRejection. *)

QueuedJobs == {j \in Jobs : state[j] = "queued"}

\* What NoRejection says, with the fact that only finitely many scheduled tasks wait.
RoomInv == IsFiniteSet(QueuedJobs) /\ NoRejection

\* The numbers NoRejection speaks of.
LEMMA RoomTypes ==
    ASSUME TypeOK, RoomInv
    PROVE  /\ IsFiniteSet(Requests) /\ Cardinality(Requests) \in Nat
           /\ Cardinality(QueuedJobs) \in Nat
           /\ Len(queue) \in Nat /\ QueueCapacity \in Nat /\ Buffer \in Nat
           /\ MaxRequests \in Nat
<1>1. Requests \in SUBSET Files
    BY DEF Requests
<1>2. IsFiniteSet(Requests)
    BY <1>1, FS_Subset, ConstantsAssumption
<1>3. Buffer \in Nat
    BY ConstantsAssumption DEF Buffer
<1> QED
    BY <1>2, <1>3, FS_CardinalityType, ConstantsAssumption DEF RoomInv, TypeOK

\* RoomInv, spelled out before and after a step.
LEMMA RoomMeans ==
    /\ RoomInv <=> /\ IsFiniteSet(QueuedJobs)
                   /\ MaxRequests <= Buffer + 1 =>
                        Len(queue) + Cardinality(Requests)
                            <= QueueCapacity + Cardinality(QueuedJobs)
    /\ RoomInv' <=> /\ IsFiniteSet(QueuedJobs')
                    /\ MaxRequests <= Buffer + 1 =>
                        Len(queue') + Cardinality(Requests')
                            <= QueueCapacity + Cardinality(QueuedJobs')
  BY DEF RoomInv, NoRejection, QueuedJobs, Buffer

\* A request that takes no place of the queue, or gives up its claim for one.
LEMMA RoomOfRequest ==
    ASSUME TypeOK, RoomInv, NEW f \in Files,
           Requests' = Requests \/ Requests' = Requests \ {f},
           Len(queue') = Len(queue) \/ (f \in Requests /\ Requests' = Requests \ {f}
                                        /\ Len(queue') = Len(queue) + 1),
           QueuedJobs' = QueuedJobs
    PROVE  RoomInv'
<1>1. Cardinality(Requests') = Cardinality(Requests) - (IF f \in Requests /\ f \notin Requests' THEN 1 ELSE 0)
    BY RoomTypes, FS_RemoveElement
<1>2. Cardinality(Requests') + Len(queue') <= Cardinality(Requests) + Len(queue)
    BY <1>1, RoomTypes
<1>3. IsFiniteSet(Requests')
    BY RoomTypes, FS_RemoveElement
<1>4. Cardinality(Requests') \in Nat /\ Len(queue') \in Nat
    BY <1>3, RoomTypes, FS_CardinalityType
<1> QED
    BY <1>2, <1>4, RoomTypes, RoomMeans

\* The look at the queue leaves room for all the requests that may run.
LEMMA RoomOfAdmit ==
    ASSUME TypeOK, RoomInv, NEW f \in Files, Admit(f)
    PROVE  RoomInv'
<1>1. Requests' = Requests \cup {f}
    BY DEF Admit, Requests, TypeOK
<1>2. Cardinality(Requests') \in {Cardinality(Requests), Cardinality(Requests) + 1}
    BY <1>1, RoomTypes, FS_AddElement
<1>3. /\ Cardinality(Requests) < MaxRequests
      /\ Len(queue) < QueueCapacity - Buffer
      /\ queue' = queue /\ QueuedJobs' = QueuedJobs
    BY DEF Admit, AdmissionLimit, QueuedJobs, execVars
<1> QED
    BY <1>2, <1>3, RoomTypes, RoomMeans

\* The steps of a request.
LEMMA RoomOfRequests ==
    ASSUME TypeOK, RoomInv, NEW f \in Files, Request(f)
    PROVE  RoomInv'
<1>0. f \in Tasks /\ f \notin Jobs
    BY ConstantsAssumption DEF Tasks
<1>1. CASE Refuse(f) \/ Transfer(f) \/ TransferFails(f) \/ SubmitRejected(f)
    <2>1. Requests' = Requests \/ Requests' = Requests \ {f}
        <3>1. CASE http'[f] \in {"admitted", "stored"}
            <4>1. Requests' = Requests
                BY <1>1, <3>1 DEF Refuse, Transfer, TransferFails, SubmitRejected, Requests, TypeOK
            <4> QED
                BY <4>1
        <3>2. CASE http'[f] \notin {"admitted", "stored"}
            <4>1. Requests' = Requests \ {f}
                BY <1>1, <3>2 DEF Refuse, Transfer, TransferFails, SubmitRejected, Requests, TypeOK
            <4> QED
                BY <4>1
        <3> QED
            BY <3>1, <3>2
    <2>2. queue' = queue /\ QueuedJobs' = QueuedJobs
        BY <1>1 DEF Refuse, Transfer, TransferFails, SubmitRejected, QueuedJobs, execVars
    <2> QED
        BY <2>1, <2>2, RoomOfRequest
<1>2. CASE Submit(f)
    <2>1. f \in Requests /\ Requests' = Requests \ {f}
        BY <1>2 DEF Submit, Requests, TypeOK
    <2>2. Len(queue') = Len(queue) \/ Len(queue') = Len(queue) + 1
        BY <1>0, <1>2, QueueAppend DEF Submit, Execute, TypeOK
    <2>3. QueuedJobs' = QueuedJobs
        BY <1>0, <1>2 DEF Submit, Execute, QueuedJobs, TypeOK, Tasks
    <2> QED
        BY <2>1, <2>2, <2>3, RoomOfRequest
<1> QED
    BY <1>1, <1>2, RoomOfAdmit DEF Request

\* A scheduled task that is queued makes up for the place it takes.
LEMMA RoomOfJob ==
    ASSUME TypeOK, RoomInv, NEW j \in Jobs, SubmitJob(j)
    PROVE  RoomInv'
<1>0. j \in Tasks /\ Jobs \subseteq Tasks
    BY DEF Tasks
<1>1. Requests' = Requests /\ state[j] = "none" /\ j \notin QueuedJobs
    BY DEF SubmitJob, Requests, QueuedJobs
<1>2. CASE UNCHANGED <<queue, state>>
    <2>1. QueuedJobs' = QueuedJobs
        BY <1>2 DEF QueuedJobs
    <2> QED
        BY <1>1, <1>2, <2>1, RoomTypes, RoomMeans
<1>3. CASE UNCHANGED queue /\ state' = [state EXCEPT ![j] = "open"]
    <2>1. QueuedJobs' = QueuedJobs
        BY <1>0, <1>1, <1>3 DEF QueuedJobs, TypeOK
    <2> QED
        BY <1>1, <1>3, <2>1, RoomTypes, RoomMeans
<1>4. CASE queue' = Append(queue, j) /\ state' = [state EXCEPT ![j] = "queued"]
    <2>1. QueuedJobs' = QueuedJobs \cup {j}
        BY <1>0, <1>4 DEF QueuedJobs, TypeOK
    <2>2. IsFiniteSet(QueuedJobs') /\ Cardinality(QueuedJobs') = Cardinality(QueuedJobs) + 1
        BY <1>1, <2>1, FS_AddElement DEF RoomInv
    <2>3. Len(queue') = Len(queue) + 1
        BY <1>0, <1>4, QueueAppend DEF TypeOK
    <2> QED
        BY <1>1, <2>2, <2>3, RoomTypes, RoomMeans
<1> QED
    BY <1>2, <1>3, <1>4 DEF SubmitJob, Execute, execVars

\* A scheduled task leaves the queue together with the place it took.
LEMMA RoomOfWorker ==
    ASSUME TypeOK, TaskPlaces, RoomInv, NEW w \in Workers, Worker(w)
    PROVE  RoomInv'
<1>0. /\ Files \subseteq Tasks /\ Jobs \subseteq Tasks /\ Files \cap Jobs = {} /\ None \notin Tasks
      /\ state \in [Tasks -> States]
    BY ConstantsAssumption DEF TypeOK, Tasks
<1>1. Requests' = Requests
    BY DEF Worker, Take, JobEnds, JobClears, ParseTask, Open, OpenFails, ParseStops, ParseSkips,
           ParseOutput, ParseOutputThrows, ParseDies, ParseSpins, ResultSuccessful, ResultThrows, ResultFailed, Requests
<1>2. CASE Take(w)
    <2>1. Head(queue) \in Tasks /\ Len(queue') = Len(queue) - 1
        BY <1>2, QueueTail DEF Take, TypeOK
    <2>2. QueuedJobs' = QueuedJobs \ {Head(queue)}
        BY <1>0, <1>2, <2>1 DEF Take, QueuedJobs
    <2>3. /\ IsFiniteSet(QueuedJobs')
          /\ Cardinality(QueuedJobs') \in {Cardinality(QueuedJobs), Cardinality(QueuedJobs) - 1}
        BY <2>2, FS_RemoveElement, RoomTypes DEF RoomInv
    <2> QED
        BY <1>1, <2>1, <2>3, RoomTypes, RoomMeans
<1>3. ASSUME queue' = queue, \A j \in Jobs : state'[j] = "queued" <=> state[j] = "queued"
      PROVE  RoomInv'
    <2>1. QueuedJobs' = QueuedJobs
        BY <1>3 DEF QueuedJobs
    <2> QED
        BY <1>1, <1>3, <2>1, RoomTypes, RoomMeans
<1>4. CASE JobEnds(w)
    <2>1. run[w] \in Tasks /\ state[run[w]] # "queued"
        BY <1>0, <1>4 DEF JobEnds, TaskPlaces, Running
    <2> QED
        BY <1>0, <1>3, <1>4, <2>1 DEF JobEnds, Ends
<1>5. ASSUME NEW f \in Files, ParseTask(w, f) PROVE RoomInv'
    <2>1. queue' = queue /\ run[w] = f
        BY <1>5 DEF ParseTask, Open, OpenFails, ParseStops, ParseSkips, ParseOutput, At,
                    ParseOutputThrows, ParseDies, ParseSpins, ResultSuccessful, ResultThrows, ResultFailed, Ends, execVars
    <2>2. \A t \in Tasks : t # f => state'[t] = state[t]
        BY <1>0, <1>5, <2>1
           DEF ParseTask, Open, OpenFails, ParseStops, ParseSkips, ParseOutput,
               ParseOutputThrows, ParseDies, ParseSpins, ResultSuccessful, ResultThrows, ResultFailed, Ends
    <2> QED
        BY <1>0, <1>3, <2>1, <2>2
<1>6. ASSUME NEW f \in Files, JobClears(w, f) PROVE RoomInv'
    BY <1>3, <1>6 DEF JobClears, execVars
<1> QED
    BY <1>2, <1>4, <1>5, <1>6 DEF Worker

\* As long as no more requests than the buffer makes up for run at the same time,
\* there is a place for each of them, but for those scheduled tasks have taken.
THEOREM RoomForRequests == SafeSpec => []NoRejection
<1>1. Init => TaskPlaces
    BY DEF Init, TaskPlaces, Tasks
<1>2. ASSUME Init PROVE RoomInv
    <2>1. Requests = {} /\ QueuedJobs = {} /\ Len(queue) = 0
        BY <1>2 DEF Init, Requests, QueuedJobs, Tasks
    <2> QED
        BY <2>1, FS_EmptySet, ConstantsAssumption, RoomMeans
<1>3. TypeOK /\ TaskPlaces /\ RoomInv /\ [Next]_vars => RoomInv'
    <2>1. ASSUME RoomInv, UNCHANGED vars \/ Environment PROVE RoomInv'
        BY <2>1 DEF RoomInv, NoRejection, QueuedJobs, Requests, Buffer, vars, execVars, Environment
    <2> QED
        BY <2>1, RoomOfRequests, RoomOfJob, RoomOfWorker DEF Next
<1>4. RoomInv => NoRejection
    BY DEF RoomInv
<1> QED
    BY <1>1, <1>2, <1>3, <1>4, TypeInit, TypeStep, PlacesStep, PTL DEF SafeSpec

-----------------------------------------------------------------------------
(* What the steps do to one file. *)

\* The parser of f and the files made of it stay as they are.
ParserUnmoved(f) ==
    /\ pos'[f] = pos[f] /\ ok'[f] = ok[f] /\ lines'[f] = lines[f] /\ glog'[f] = glog[f]
    /\ f \in handed' <=> f \in handed
    /\ f \in error' <=> f \in error

\* A step that is none of f's.
Elsewhere(f) ==
    /\ ParserUnmoved(f)
    /\ state'[f] = state[f]
    /\ f \in temp' <=> f \in temp
    /\ f \in out' <=> f \in out

\* A step of the request of f before a task is submitted for it.
Arrives(f) == ParserUnmoved(f) /\ state[f] = "none" /\ state'[f] = "none"

\* The task of f is submitted, or taken by a thread.
Starts(f) ==
    /\ ParserUnmoved(f)
    /\ \/ state[f] = "none" /\ (f \notin Failing => f \in out')
       \/ state[f] = "queued" /\ out' = out
    /\ state'[f] \in {"queued", "open"}
    /\ f \in temp' <=> f \in temp

\* clearFiles deletes f in temp/ or in error/.
Cleared(f) ==
    /\ f \in Expiring
    /\ pos'[f] = pos[f] /\ ok'[f] = ok[f] /\ lines'[f] = lines[f] /\ glog'[f] = glog[f]
    /\ state'[f] = state[f] /\ handed' = handed /\ out' = out
    /\ f \in temp' => f \in temp

\* Nothing but its own request and its own task touches a file, and clearFiles when
\* it is old: not the tasks of other files, whatever thread they run in.
LEMMA OwnSteps ==
    ASSUME TypeOK, TaskPlaces, [Next]_vars, NEW f \in Files
    PROVE  \/ Elsewhere(f) \/ Arrives(f) \/ Starts(f) \/ Cleared(f)
           \/ \E w \in Workers : ParseTask(w, f)
<1>0. /\ Files \subseteq Tasks /\ Jobs \subseteq Tasks /\ Files \cap Jobs = {}
      /\ state \in [Tasks -> States]
    BY ConstantsAssumption DEF TypeOK, Tasks
<1>1. CASE UNCHANGED vars
    BY <1>1 DEF Elsewhere, ParserUnmoved, vars, fileVars, parseVars
<1>2. ASSUME NEW g \in Files, Request(g)
      PROVE  Elsewhere(f) \/ Arrives(f) \/ Starts(f)
    <2>1. ParserUnmoved(f)
        BY <1>2 DEF Request, Admit, Refuse, Transfer, TransferFails, Submit, SubmitRejected,
                    ParserUnmoved, fileVars, parseVars
    <2>2. CASE g # f
        <3>1. state'[f] = state[f]
            BY <1>0, <1>2, <2>2 DEF Request, Admit, Refuse, Transfer, TransferFails, Submit,
                               SubmitRejected, Execute, execVars
        <3>2. (f \in temp' <=> f \in temp) /\ (f \in out' <=> f \in out)
            BY <1>2, <2>2 DEF Request, Admit, Refuse, Transfer, TransferFails, Submit,
                              SubmitRejected, NewTask, fileVars
        <3> QED
            BY <2>1, <3>1, <3>2 DEF Elsewhere
    <2>3. CASE Submit(f)
        <3>1. state[f] = "none"
            BY <2>3 DEF Submit, TaskPlaces
        <3>2. state'[f] \in {"queued", "open"}
            BY <1>0, <2>3 DEF Submit, Execute
        <3>3. temp' = temp /\ (f \notin Failing => f \in out')
            BY <2>3 DEF Submit, NewTask
        <3> QED
            BY <2>1, <3>1, <3>2, <3>3 DEF Starts
    <2>4. CASE g = f /\ ~Submit(f)
        <3>1. state[f] = "none" /\ state' = state
            BY <1>2, <2>4 DEF Request, Admit, Refuse, Transfer, TransferFails, SubmitRejected,
                              TaskPlaces
        <3> QED
            BY <2>1, <3>1 DEF Arrives
    <2> QED
        BY <2>2, <2>3, <2>4
<1>3. ASSUME NEW j \in Jobs, SubmitJob(j) PROVE Elsewhere(f)
    <2>1. state'[f] = state[f]
        BY <1>0, <1>3 DEF SubmitJob, Execute
    <2> QED
        BY <1>3, <2>1 DEF SubmitJob, Elsewhere, ParserUnmoved, fileVars, parseVars
<1>4. ASSUME NEW w \in Workers, Take(w) PROVE Elsewhere(f) \/ Starts(f)
    <2>1. Head(queue) \in Tasks /\ state[Head(queue)] = "queued"
        BY <1>4, QueueTail DEF Take, TypeOK, TaskPlaces
    <2>2. CASE Head(queue) = f
        BY <1>0, <1>4, <2>1, <2>2 DEF Take, Starts, ParserUnmoved, fileVars, parseVars
    <2>3. CASE Head(queue) # f
        BY <1>0, <1>4, <2>1, <2>3 DEF Take, Elsewhere, ParserUnmoved, fileVars, parseVars
    <2> QED
        BY <2>2, <2>3
<1>5. ASSUME NEW w \in Workers, JobEnds(w) PROVE Elsewhere(f)
    <2>1. state'[f] = state[f]
        BY <1>0, <1>5 DEF JobEnds, Ends
    <2> QED
        BY <1>5, <2>1 DEF JobEnds, Elsewhere, ParserUnmoved, fileVars, parseVars
<1>6. ASSUME NEW w \in Workers, NEW g \in Files, ParseTask(w, g), g # f PROVE Elsewhere(f)
    <2>1. state'[f] = state[f]
        BY <1>0, <1>6
           DEF ParseTask, Open, OpenFails, ParseStops, ParseSkips, ParseOutput, At,
               ParseOutputThrows, ParseDies, ParseSpins, ResultSuccessful, ResultThrows, ResultFailed, Ends
    <2>2. pos'[f] = pos[f] /\ ok'[f] = ok[f] /\ lines'[f] = lines[f] /\ glog'[f] = glog[f]
        BY <1>6
           DEF ParseTask, Open, OpenFails, ParseStops, ParseSkips, ParseOutput, parseVars,
               ParseOutputThrows, ParseDies, ParseSpins, ResultSuccessful, ResultThrows, ResultFailed, TypeOK
    <2>3. /\ f \in handed' <=> f \in handed
          /\ f \in error' <=> f \in error
          /\ f \in temp' <=> f \in temp
          /\ f \in out' <=> f \in out
        BY <1>6
           DEF ParseTask, Open, OpenFails, ParseStops, ParseSkips, ParseOutput, fileVars,
               ParseOutputThrows, ParseDies, ParseSpins, ResultSuccessful, ResultThrows, ResultFailed, MoveToErrorDir
    <2> QED
        BY <2>1, <2>2, <2>3 DEF Elsewhere, ParserUnmoved
<1>7. ASSUME NEW w \in Workers, NEW g \in Files, JobClears(w, g) PROVE Elsewhere(f) \/ Cleared(f)
    <2>1. CASE g = f
        BY <1>7, <2>1 DEF JobClears, Cleared, parseVars
    <2>2. CASE g # f
        BY <1>7, <2>2 DEF JobClears, Elsewhere, ParserUnmoved, parseVars
    <2> QED
        BY <2>1, <2>2
<1>8. CASE Environment
    BY <1>8 DEF Environment, Elsewhere, ParserUnmoved, fileVars, parseVars
<1> QED
    BY <1>1, <1>2, <1>3, <1>4, <1>5, <1>6, <1>7, <1>8 DEF Next, Worker

\* Whether CryptoTool could be loaded does not change.
LEMMA LibraryStays ==
    ASSUME [Next]_vars
    PROVE  library' = library
  BY DEF Next, vars, Request, Admit, Refuse, Transfer, TransferFails, Submit, SubmitRejected,
         SubmitJob, Worker, Take, JobEnds, JobClears, Environment, ParseTask, Open, OpenFails,
         ParseStops, ParseSkips, ParseOutput, ParseOutputThrows, ParseDies, ParseSpins,
         ResultSuccessful, ResultThrows, ResultFailed

\* An upload that does not expire is in temp/ from its transfer to the end of its task.
InTemp ==
    \A f \in Files \ Expiring :
        http[f] = "stored" \/ state[f] \in Running \cup {"queued"} => f \in temp

\* Only the end of its own task takes an upload out of temp/ before its time.
LEMMA InTempStep == TypeOK /\ TaskPlaces /\ InTemp /\ [Next]_vars => InTemp'
<1> SUFFICES ASSUME TypeOK, TaskPlaces, InTemp, [Next]_vars, NEW f \in Files \ Expiring,
                    http'[f] = "stored" \/ state'[f] \in Running \cup {"queued"}
             PROVE  f \in temp'
    BY DEF InTemp
<1>0. /\ Files \subseteq Tasks /\ Jobs \subseteq Tasks /\ Files \cap Jobs = {}
      /\ state \in [Tasks -> States]
    BY ConstantsAssumption DEF TypeOK, Tasks
<1>1. ASSUME http'[f] = http[f], state'[f] = state[f], f \in temp => f \in temp'
      PROVE  f \in temp'
    BY <1>1 DEF InTemp
<1>2. CASE UNCHANGED vars
    BY <1>1, <1>2 DEF vars, fileVars
<1>3. ASSUME NEW g \in Files, Request(g) PROVE f \in temp'
    <2>1. CASE g # f
        <3>1. http'[f] = http[f]
            BY <1>3, <2>1 DEF Request, Admit, Refuse, Transfer, TransferFails, Submit,
                              SubmitRejected, TypeOK
        <3>2. state'[f] = state[f]
            BY <1>0, <1>3, <2>1 DEF Request, Admit, Refuse, Transfer, TransferFails, Submit,
                                    SubmitRejected, Execute, execVars
        <3>3. f \in temp => f \in temp'
            BY <1>3 DEF Request, Admit, Refuse, Transfer, TransferFails, Submit,
                        SubmitRejected, fileVars
        <3> QED
            BY <1>1, <3>1, <3>2, <3>3
    <2>2. CASE g = f /\ ~Submit(f)
        <3>1. state'[f] = "none"
            BY <1>3, <2>2 DEF Request, Admit, Refuse, Transfer, TransferFails, SubmitRejected,
                              TaskPlaces
        <3>2. http'[f] = "stored"
            BY <3>1 DEF Running
        <3> QED
            BY <1>3, <2>2, <3>2 DEF Request, Admit, Refuse, Transfer, TransferFails,
                                    SubmitRejected, TypeOK
    <2>3. CASE Submit(f)
        BY <2>3 DEF Submit, InTemp
    <2> QED
        BY <2>1, <2>2, <2>3
<1>4. ASSUME NEW j \in Jobs, SubmitJob(j) PROVE f \in temp'
    <2>1. state'[f] = state[f]
        BY <1>0, <1>4 DEF SubmitJob, Execute
    <2> QED
        BY <1>1, <1>4, <2>1 DEF SubmitJob, fileVars
<1>5. ASSUME NEW w \in Workers, Take(w) PROVE f \in temp'
    <2>1. Head(queue) \in Tasks /\ state[Head(queue)] = "queued"
        BY <1>5, QueueTail DEF Take, TypeOK, TaskPlaces
    <2>2. CASE Head(queue) = f
        BY <1>5, <2>1, <2>2 DEF Take, InTemp, fileVars
    <2>3. CASE Head(queue) # f
        BY <1>0, <1>1, <1>5, <2>1, <2>3 DEF Take, fileVars
    <2> QED
        BY <2>2, <2>3
<1>6. ASSUME NEW w \in Workers, JobEnds(w) PROVE f \in temp'
    <2>1. state'[f] = state[f]
        BY <1>0, <1>6 DEF JobEnds, Ends
    <2> QED
        BY <1>1, <1>6, <2>1 DEF JobEnds, fileVars
<1>7. CASE Environment \/ \E w \in Workers, g \in Files : JobClears(w, g)
    BY <1>1, <1>7 DEF Environment, JobClears, fileVars
<1>8. ASSUME NEW w \in Workers, NEW g \in Files, ParseTask(w, g) PROVE f \in temp'
    <2>0. run[w] = g /\ state[g] \in Running /\ http' = http
        BY <1>8 DEF ParseTask, Open, OpenFails, ParseStops, ParseSkips, ParseOutput, At, Running,
               ParseOutputThrows, ParseDies, ParseSpins, ResultSuccessful, ResultThrows, ResultFailed
    <2>1. CASE g # f
        <3>1. state'[f] = state[f]
            BY <1>0, <1>8, <2>0, <2>1
               DEF ParseTask, Open, OpenFails, ParseStops, ParseSkips, ParseOutput,
                   ParseOutputThrows, ParseDies, ParseSpins, ResultSuccessful, ResultThrows,
                   ResultFailed, Ends
        <3>2. f \in temp => f \in temp'
            BY <1>8, <2>1
               DEF ParseTask, Open, OpenFails, ParseStops, ParseSkips, ParseOutput, fileVars,
                   ParseOutputThrows, ParseDies, ParseSpins, ResultSuccessful, ResultThrows,
                   ResultFailed, MoveToErrorDir
        <3> QED
            BY <1>1, <2>0, <3>1, <3>2
    <2>2. CASE g = f /\ Ends(w)
        <3>1. state'[f] = "ended"
            BY <1>0, <2>0, <2>2 DEF Ends
        <3>2. http[f] = "accepted"
            BY <2>0, <2>2 DEF TaskPlaces, Running
        <3> QED
            BY <2>0, <3>1, <3>2 DEF Running
    <2>3. CASE g = f /\ ~Ends(w)
        <3>1. temp' = temp
            BY <1>8, <2>3
               DEF ParseTask, Open, OpenFails, ParseStops, ParseSkips, ParseOutput, fileVars,
                   ParseOutputThrows, ParseDies, ParseSpins, ResultSuccessful, ResultThrows,
                   ResultFailed
        <3> QED
            BY <2>0, <2>3, <3>1 DEF InTemp
    <2> QED
        BY <2>1, <2>2, <2>3
<1> QED
    BY <1>2, <1>3, <1>4, <1>5, <1>6, <1>7, <1>8 DEF Next, Worker

\* It holds before the first request.
LEMMA InTempInit == Init => InTemp
  BY DEF Init, InTemp, Running, Tasks

-----------------------------------------------------------------------------
(* DamagedIsQuarantined. *)

\* Record k of f is damaged and none before it stops the parser.
StopsAt(f, k) ==
    /\ k \in 1 .. Len(Content[f])
    /\ Content[f][k] = "damaged"
    /\ \A j \in 1 .. k - 1 : Content[f][j] \in {"line", "skipped"}

\* Where the task of a file stands that must end in error/.  A file that is no gzip
\* stream is never parsed; the parser does not come past the damaged record.
Quarantine(f) ==
    /\ f \notin handed
    /\ state[f] # "none" => f \in out
    /\ state[f] = "ended" => f \notin temp /\ (f \in error \/ f \in Expiring)
    /\ state[f] # "spinning"
    /\ f \in NotGzip => state[f] \notin {"parse", "result"}
    /\ \A k \in Nat : StopsAt(f, k) =>
            /\ state[f] \notin {"result", "ended"} => pos[f] \in 1 .. k
            /\ state[f] = "result" => ~ok[f]

Damaged(f) ==
    \/ f \in NotGzip
    \/ library /\ f \notin Raced /\ \E k \in Nat : StopsAt(f, k)

\* What the parser meets before and at the damaged record.
LEMMA MeetsDamaged ==
    ASSUME NEW f \in Files, NEW k \in Nat, StopsAt(f, k), pos[f] \in 1 .. k
    PROVE  /\ Meets(f) \in {"line", "skipped", "damaged"}
           /\ Meets(f) \in {"line", "skipped"} => pos[f] + 1 \in 1 .. k
<1>1. ~AtEnd(f)
    BY ConstantsAssumption DEF AtEnd, StopsAt
<1>2. pos[f] = k \/ pos[f] \in 1 .. k - 1
    OBVIOUS
<1>3. CASE pos[f] = k
    BY <1>1, <1>3 DEF Meets, StopsAt
<1>4. CASE pos[f] \in 1 .. k - 1
    BY <1>1, <1>4 DEF Meets, StopsAt
<1> QED
    BY <1>2, <1>3, <1>4

\* The task of a damaged file takes it to error/.
LEMMA QuarantineStep ==
    ASSUME TypeOK, TaskPlaces, InTemp, [Next]_vars,
           NEW f \in Files \ Failing, Damaged(f), Quarantine(f)
    PROVE  Quarantine(f)'
<1>0. /\ f \in Tasks /\ f \in Files
      /\ state \in [Tasks -> States]
    BY DEF TypeOK, Tasks
<1>1. CASE Elsewhere(f)
    BY <1>1 DEF Elsewhere, ParserUnmoved, Quarantine, StopsAt
<1>2. CASE Arrives(f)
    BY <1>2 DEF Arrives, ParserUnmoved, Quarantine, StopsAt
<1>3. CASE Starts(f)
    BY <1>3 DEF Starts, ParserUnmoved, Quarantine, StopsAt
<1>5. CASE Cleared(f)
    BY <1>5 DEF Cleared, Quarantine, StopsAt
<1>4. ASSUME NEW w \in Workers, ParseTask(w, f)
      PROVE  Quarantine(f)'
    <2>9. f \in Expiring \/ f \in temp
        BY <1>4 DEF ParseTask, Open, OpenFails, ParseStops, ParseSkips, ParseOutput, At,
                    ParseOutputThrows, ParseDies, ParseSpins, ResultSuccessful, ResultThrows,
                    ResultFailed, InTemp, Running
    <2>0. /\ run[w] = f /\ state[f] \in {"open", "parse", "result"} /\ f \in out
          /\ f \notin handed
        BY <1>4 DEF ParseTask, Open, OpenFails, ParseStops, ParseSkips, ParseOutput, At,
                    ParseOutputThrows, ParseDies, ParseSpins, ResultSuccessful, ResultThrows, ResultFailed, Quarantine
    <2>1. CASE Open(w, f)
        BY <1>0, <2>0, <2>1 DEF Open, At, Quarantine, StopsAt, fileVars, parseVars
    <2>2. CASE OpenFails(w, f)
        <3>1. f \notin temp' /\ (f \in error' \/ f \in Expiring)
            BY <2>2, <2>9 DEF OpenFails, MoveToErrorDir
        <3> QED
            BY <1>0, <2>0, <2>2, <3>1 DEF OpenFails, At, Ends, Quarantine, StopsAt, parseVars
    <2>3. CASE state[f] = "parse"
        <3>1. PICK k \in Nat : StopsAt(f, k)
            BY <2>3 DEF Damaged, Quarantine
        <3>0. library /\ f \notin Raced
            BY <2>3 DEF Damaged, Quarantine
        <3>2. pos[f] \in 1 .. k /\ f \notin NotGzip
            BY <2>3, <3>1 DEF Quarantine
        <3>3. \A n \in Nat : StopsAt(f, n) => n = k
            <4>1. ASSUME NEW n \in Nat, StopsAt(f, n), n < k PROVE FALSE
                BY <3>1, <4>1 DEF StopsAt
            <4>2. ASSUME NEW n \in Nat, StopsAt(f, n), k < n PROVE FALSE
                BY <3>1, <4>2 DEF StopsAt
            <4> QED
                BY <4>1, <4>2
        <3>4. CASE ParseStops(w, f)
            <4>1. Meets(f) = "damaged"
                BY <3>1, <3>2, <3>4, MeetsDamaged DEF ParseStops
            <4> QED
                BY <1>0, <2>0, <3>2, <3>4, <4>1 DEF ParseStops, Quarantine, StopsAt, TypeOK, fileVars
        <3>5. CASE ParseSkips(w, f) \/ ParseOutput(w, f)
            <4>1. pos[f] + 1 \in 1 .. k
                BY <3>1, <3>2, <3>5, MeetsDamaged DEF ParseSkips, ParseOutput
            <4>2. pos' = [pos EXCEPT ![f] = @ + 1] /\ UNCHANGED <<state, fileVars, handed, ok>>
                BY <2>0, <3>5 DEF ParseSkips, ParseOutput
            <4>3. pos'[f] = pos[f] + 1
                BY <1>0, <4>2 DEF TypeOK
            <4>4. \A n \in Nat : StopsAt(f, n)' <=> StopsAt(f, n)
                BY DEF StopsAt
            <4> QED
                BY <1>0, <2>0, <2>3, <3>2, <3>3, <4>1, <4>2, <4>3, <4>4 DEF Quarantine, fileVars
        <3>6. ~ParseOutputThrows(w, f) /\ ~ParseDies(w, f) /\ ~ParseSpins(w, f)
            BY <3>0, <3>1, <3>2, MeetsDamaged DEF ParseOutputThrows, ParseDies, ParseSpins
        <3> QED
            BY <1>4, <2>3, <3>4, <3>5, <3>6
               DEF ParseTask, Open, OpenFails, ResultSuccessful, ResultThrows, ResultFailed, At
    <2>4. CASE state[f] = "result"
        <3>1. ~ok[f]
            BY <2>4 DEF Damaged, Quarantine
        <3>2. ResultFailed(w, f)
            BY <1>4, <2>4, <3>1
               DEF ParseTask, Open, OpenFails, ParseStops, ParseSkips, ParseOutput, At,
                   ParseOutputThrows, ParseDies, ParseSpins, ResultSuccessful, ResultThrows
        <3>3. f \notin temp' /\ (f \in error' \/ f \in Expiring)
            BY <2>9, <3>2 DEF ResultFailed
        <3> QED
            BY <1>0, <2>0, <2>4, <3>2, <3>3 DEF ResultFailed, Ends, Quarantine, StopsAt, parseVars
    <2> QED
        BY <1>4, <2>0, <2>1, <2>2, <2>3, <2>4
           DEF ParseTask, ParseStops, ParseSkips, ParseOutput, ParseOutputThrows, ParseDies, ParseSpins,
               ResultSuccessful, ResultThrows, ResultFailed, At
<1> QED
    BY <1>0, <1>1, <1>2, <1>3, <1>4, <1>5, OwnSteps

\* A file that is no gzip stream, and one that stops at a damaged record, leaves
\* temp/ for error/ and is not handed on, whatever the tasks of other files do and
\* however full the queues are; clearFiles alone may delete it, once it is older than
\* the ttl.  The second case has the premises that CryptoTool could be loaded and
\* that no race in the layout cache stops the parser before that record.
THEOREM Quarantined == SafeSpec => []DamagedIsQuarantined
<1> DEFINE Inv == \A f \in Files \ Failing : Damaged(f) => Quarantine(f)
<1>1. Init => TaskPlaces
    BY DEF Init, TaskPlaces, Tasks
<1>2. Init => Inv
    BY DEF Init, Quarantine, StopsAt, Tasks
<1>3. TypeOK /\ TaskPlaces /\ InTemp /\ Inv /\ [Next]_vars => Inv'
    <2> SUFFICES ASSUME TypeOK, TaskPlaces, InTemp, Inv, [Next]_vars PROVE Inv'
        OBVIOUS
    <2>1. \A f \in Files : Damaged(f)' <=> Damaged(f)
        BY LibraryStays DEF Damaged, StopsAt
    <2> QED
        BY <2>1, QuarantineStep
<1>4. Inv => DamagedIsQuarantined
    <2>1. \A f \in Files : FirstTrouble(f, "damaged") => \E k \in Nat : StopsAt(f, k)
        BY ConstantsAssumption DEF FirstTrouble, StopsAt
    <2> QED
        BY <2>1 DEF DamagedIsQuarantined, Damaged, Quarantine
<1> HIDE DEF Inv
<1> QED
    BY <1>1, <1>2, <1>3, <1>4, TypeInit, TypeStep, PlacesStep, InTempInit, InTempStep, PTL
       DEF SafeSpec

-----------------------------------------------------------------------------
(* CompleteIsHandedOn. *)

\* The lines among the first n records of f.
LinesOf(f, n) == {i \in 1 .. n : Content[f][i] = "line"}

\* No record of f stops the parser.
AllGood(f) == \A i \in 1 .. Len(Content[f]) : Content[f][i] \in {"line", "skipped"}

Sound == Files \ (NotGzip \cup BadName \cup NoDot \cup Failing \cup Raced \cup Expiring)

\* Where the task of a file without a faulty record stands: what was written are the
\* lines before the parser's position, and only the end of the stream stops it.
Complete(f) ==
    /\ state[f] # "none" => f \in out
    /\ state[f] # "spinning"
    /\ ok[f] /\ f \notin error
    /\ pos[f] \in 1 .. Len(Content[f]) + 1
    /\ lines[f] = Cardinality(LinesOf(f, pos[f] - 1))
    /\ glog[f] = IF f \in Verbose THEN 0 ELSE lines[f]
    /\ state[f] \in {"result", "ended"} => pos[f] = Len(Content[f]) + 1
    /\ state[f] = "ended" => f \in handed

\* One more record, one more line or none.
LEMMA LinesGrow ==
    ASSUME NEW f \in Files, NEW n \in Nat \ {0}
    PROVE  Cardinality(LinesOf(f, n)) =
             Cardinality(LinesOf(f, n - 1)) + (IF Content[f][n] = "line" THEN 1 ELSE 0)
<1>1. LinesOf(f, n - 1) \in SUBSET (1 .. n - 1)
    BY DEF LinesOf
<1>2. IsFiniteSet(1 .. n - 1)
    BY FS_Interval
<1>3. IsFiniteSet(LinesOf(f, n - 1)) /\ Cardinality(LinesOf(f, n - 1)) \in Nat
    BY <1>1, <1>2, FS_Subset, FS_CardinalityType
<1>4. CASE Content[f][n] = "line"
    <2>1. LinesOf(f, n) = LinesOf(f, n - 1) \cup {n} /\ n \notin LinesOf(f, n - 1)
        BY <1>4 DEF LinesOf
    <2> QED
        BY <1>3, <1>4, <2>1, FS_AddElement
<1>5. CASE Content[f][n] # "line"
    <2>1. LinesOf(f, n) = LinesOf(f, n - 1)
        BY <1>5 DEF LinesOf
    <2> QED
        BY <1>3, <1>5, <2>1
<1> QED
    BY <1>4, <1>5

\* A count of all records says that each is one.
LEMMA CountAll ==
    ASSUME NEW f \in Files, Count(f, {"line", "skipped"}) = Len(Content[f])
    PROVE  AllGood(f)
<1> DEFINE I == 1 .. Len(Content[f])
           G == {i \in I : Content[f][i] \in {"line", "skipped"}}
<1>1. Len(Content[f]) \in Nat
    BY ConstantsAssumption
<1>2. IsFiniteSet(I) /\ Cardinality(I) = Len(Content[f])
    <2> DEFINE n == Len(Content[f])
    <2> HIDE DEF n
    <2>1. n \in Nat /\ I = 1 .. n
        BY <1>1 DEF n
    <2>2. IsFiniteSet(1 .. n) /\ Cardinality(1 .. n) = IF 1 > n THEN 0 ELSE n - 1 + 1
        BY <2>1, FS_Interval
    <2>3. Cardinality(1 .. n) = n
        BY <2>1, <2>2
    <2> QED
        BY <2>1, <2>2, <2>3 DEF n
<1>3. Cardinality(G) = Len(Content[f])
    BY DEF Count
<1>4. G \in SUBSET I
    OBVIOUS
<1>5. I = G
    <2> HIDE DEF I, G
    <2> QED
        BY <1>2, <1>3, <1>4, FS_Subset
<1> QED
    BY <1>5 DEF AllGood

\* The task of such a file writes its lines and hands it on.
LEMMA CompleteStep ==
    ASSUME TypeOK, TaskPlaces, InTemp, [Next]_vars, library,
           NEW f \in Sound, AllGood(f), Complete(f)
    PROVE  Complete(f)'
<1>0. /\ f \in Tasks /\ f \in Files /\ f \notin Failing /\ f \notin Expiring
      /\ Len(Content[f]) \in Nat
      /\ state \in [Tasks -> States]
    BY ConstantsAssumption DEF TypeOK, Tasks, Sound
<1>1. CASE Elsewhere(f)
    BY <1>1 DEF Elsewhere, ParserUnmoved, Complete, LinesOf
<1>2. CASE Arrives(f)
    BY <1>2 DEF Arrives, ParserUnmoved, Complete, LinesOf
<1>3. CASE Starts(f)
    BY <1>0, <1>3 DEF Starts, ParserUnmoved, Complete, LinesOf
<1>4. ASSUME NEW w \in Workers, ParseTask(w, f)
      PROVE  Complete(f)'
    <2>0. run[w] = f /\ state[f] \in {"open", "parse", "result"} /\ f \in out
        BY <1>4 DEF ParseTask, Open, OpenFails, ParseStops, ParseSkips, ParseOutput, At,
                    ParseOutputThrows, ParseDies, ParseSpins, ResultSuccessful, ResultThrows, ResultFailed, Complete
    <2>1. /\ Meets(f) \in {"end", "line", "skipped"}
          /\ Meets(f) = "end" <=> pos[f] = Len(Content[f]) + 1
          /\ Meets(f) # "end" => Meets(f) = Content[f][pos[f]]
        <3>1. pos[f] \in 1 .. Len(Content[f]) + 1
            BY DEF Complete
        <3>2. CASE pos[f] = Len(Content[f]) + 1
            BY <1>0, <3>2 DEF Meets, AtEnd
        <3>3. CASE pos[f] \in 1 .. Len(Content[f])
            <4>1. Meets(f) = Content[f][pos[f]] /\ pos[f] # Len(Content[f]) + 1
                BY <1>0, <3>3 DEF Meets, AtEnd
            <4>2. Content[f][pos[f]] \in {"line", "skipped"}
                BY <3>3 DEF AllGood
            <4> QED
                BY <4>1, <4>2
        <3> QED
            BY <1>0, <3>1, <3>2, <3>3
    <2>2. CASE Open(w, f)
        BY <1>0, <2>0, <2>2 DEF Open, At, Complete, LinesOf, fileVars, parseVars
    <2>7. f \in temp
        BY <1>0, <2>0 DEF InTemp, Running
    <2>3. /\ ~OpenFails(w, f) /\ ~ResultThrows(w, f) /\ ~ResultFailed(w, f)
          /\ ~ParseOutputThrows(w, f) /\ ~ParseDies(w, f) /\ ~ParseSpins(w, f)
        BY <2>1, <2>7 DEF OpenFails, ResultThrows, ResultFailed, ParseOutputThrows, ParseDies,
                          ParseSpins, Complete, Sound
    <2>4. CASE ParseStops(w, f)
        <3>1. pos[f] = Len(Content[f]) + 1 /\ ok'[f]
            BY <1>0, <2>1, <2>4 DEF ParseStops, TypeOK
        <3> QED
            BY <1>0, <2>0, <2>4, <3>1 DEF ParseStops, Complete, LinesOf, fileVars
    <2>5. CASE ParseSkips(w, f) \/ ParseOutput(w, f)
        <3>1. /\ pos[f] \in 1 .. Len(Content[f]) /\ pos' = [pos EXCEPT ![f] = @ + 1]
              /\ UNCHANGED <<state, fileVars, ok, handed>> /\ state[f] = "parse"
            <4>0. Meets(f) # "end"
                BY <2>5 DEF ParseSkips, ParseOutput
            <4>1. pos[f] \in 1 .. Len(Content[f])
                <5>1. pos[f] \in 1 .. Len(Content[f]) + 1
                    BY DEF Complete
                <5>2. pos[f] # Len(Content[f]) + 1
                    BY <2>1, <4>0
                <5> QED
                    BY <1>0, <5>1, <5>2
            <4>2. CASE ParseSkips(w, f)
                BY <4>1, <4>2 DEF ParseSkips, At
            <4>3. CASE ParseOutput(w, f)
                BY <2>0, <4>1, <4>3 DEF ParseOutput, At
            <4> QED
                BY <2>5, <4>2, <4>3
        <3>2. pos'[f] = pos[f] + 1 /\ pos'[f] - 1 = pos[f]
            BY <1>0, <3>1 DEF TypeOK
        <3>3. lines'[f] = lines[f] + (IF Content[f][pos[f]] = "line" THEN 1 ELSE 0)
            <4>0. lines \in [Files -> Nat]
                BY DEF TypeOK
            <4>1. CASE ParseSkips(w, f)
                BY <1>0, <2>1, <4>0, <4>1 DEF ParseSkips
            <4>2. CASE ParseOutput(w, f)
                <5>1. lines' = [lines EXCEPT ![f] = @ + 1]
                    BY <2>0, <4>2 DEF ParseOutput
                <5>2. Content[f][pos[f]] = "line"
                    BY <2>1, <4>2 DEF ParseOutput
                <5> QED
                    BY <1>0, <4>0, <5>1, <5>2
            <4> QED
                BY <2>5, <4>1, <4>2
        <3>4. lines'[f] = Cardinality(LinesOf(f, pos[f]))
            BY <1>0, <3>1, <3>3, LinesGrow DEF Complete
        <3>5. lines'[f] = Cardinality(LinesOf(f, pos'[f] - 1))
            BY <3>2, <3>4
        <3>6. glog'[f] = IF f \in Verbose THEN 0 ELSE lines'[f]
            <4>0. /\ lines \in [Files -> Nat] /\ glog \in [Files -> Nat]
                  /\ glog[f] = IF f \in Verbose THEN 0 ELSE lines[f]
                BY DEF TypeOK, Complete
            <4>1. CASE ParseSkips(w, f)
                BY <4>0, <4>1 DEF ParseSkips
            <4>2. CASE ParseOutput(w, f)
                <5>1. /\ lines' = [lines EXCEPT ![f] = @ + 1]
                      /\ glog' = [glog EXCEPT ![f] = IF f \in Verbose THEN @ ELSE @ + 1]
                    BY <2>0, <4>2 DEF ParseOutput
                <5> QED
                    BY <1>0, <4>0, <5>1
            <4> QED
                BY <2>5, <4>1, <4>2
        <3>7. pos'[f] \in 1 .. Len(Content[f]) + 1
            BY <1>0, <3>1, <3>2
        <3>8. Cardinality(LinesOf(f, pos[f] - 1))' = Cardinality(LinesOf(f, pos'[f] - 1))
            BY DEF LinesOf
        <3> QED
            BY <2>0, <3>1, <3>5, <3>6, <3>7, <3>8 DEF Complete, fileVars
    <2>6. CASE ResultSuccessful(w, f)
        BY <1>0, <2>0, <2>6 DEF ResultSuccessful, Ends, At, Complete, LinesOf, Sound, parseVars
    <2> QED
        BY <1>4, <2>2, <2>3, <2>4, <2>5, <2>6 DEF ParseTask
<1>5. ~Cleared(f)
    BY <1>0 DEF Cleared
<1> QED
    BY <1>0, <1>1, <1>2, <1>3, <1>4, <1>5, OwnSteps

\* A file without a faulty record whose task has ended was parsed to its end: all of
\* its lines are written, handed to graylog once, and it is handed on, whatever the
\* tasks of other files do and whether the queues were full meanwhile.  The premises
\* are that CryptoTool could be loaded, that no race in the layout cache hits one of
\* its lines, and that it is younger than the ttl.
THEOREM HandedOn == SafeSpec => []CompleteIsHandedOn
<1> DEFINE Inv == library => \A f \in Sound : AllGood(f) => Complete(f)
<1>1. Init => TaskPlaces
    BY DEF Init, TaskPlaces, Tasks
<1>2. ASSUME Init, NEW f \in Sound PROVE Complete(f)
    <2>1. /\ f \in Files /\ f \in Tasks /\ Len(Content[f]) \in Nat
        BY ConstantsAssumption DEF Sound, Tasks
    <2>2. LinesOf(f, 0) = {}
        BY DEF LinesOf
    <2>3. pos[f] - 1 = 0 /\ lines[f] = 0
        BY <1>2, <2>1 DEF Init
    <2>4. lines[f] = Cardinality(LinesOf(f, pos[f] - 1))
        BY <2>2, <2>3, FS_EmptySet
    <2> QED
        BY <1>2, <2>1, <2>3, <2>4 DEF Init, Complete
<1>3. TypeOK /\ TaskPlaces /\ InTemp /\ Inv /\ [Next]_vars => Inv'
    <2> SUFFICES ASSUME TypeOK, TaskPlaces, InTemp, Inv, [Next]_vars, library',
                        NEW f \in Sound, AllGood(f)
                 PROVE  Complete(f)'
        BY DEF AllGood, Sound
    <2> QED
        BY LibraryStays, CompleteStep
<1>4. Inv => CompleteIsHandedOn
    <2> SUFFICES ASSUME Inv, library, NEW f \in Sound, state[f] = "ended",
                        Count(f, {"line", "skipped"}) = Len(Content[f])
                 PROVE  /\ f \in handed /\ f \in out /\ f \notin error
                        /\ lines[f] = Count(f, {"line"})
                        /\ glog[f] = IF f \in Verbose THEN 0 ELSE lines[f]
        BY DEF CompleteIsHandedOn, Sound
    <2>1. f \in Files /\ Len(Content[f]) \in Nat
        BY ConstantsAssumption DEF Sound
    <2>2. Complete(f)
        BY <2>1, CountAll
    <2>3. pos[f] - 1 = Len(Content[f])
        BY <2>1, <2>2 DEF Complete
    <2>4. LinesOf(f, Len(Content[f])) = {i \in 1 .. Len(Content[f]) : Content[f][i] \in {"line"}}
        BY DEF LinesOf
    <2>5. lines[f] = Count(f, {"line"})
        BY <2>2, <2>3, <2>4 DEF Complete, Count
    <2> QED
        BY <2>2, <2>5 DEF Complete
<1>5. Init => Inv
    BY <1>2
<1> HIDE DEF Inv
<1> QED
    BY <1>1, <1>3, <1>4, <1>5, TypeInit, TypeStep, PlacesStep, InTempInit, InTempStep, PTL
       DEF SafeSpec
=============================================================================
