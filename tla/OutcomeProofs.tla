--------------------------- MODULE OutcomeProofs ---------------------------
(***************************************************************************)
(* What a record becomes, for any number of threads, keys, templates and   *)
(* workloads: it does not depend on what other threads decode.             *)
(***************************************************************************)
EXTENDS DecodingProofs, FiniteSetTheorems, SequenceTheorems

-----------------------------------------------------------------------------
(* The inductive invariant: what each thread knows about its record. *)

\* The chunk of its record that thread t decrypts.
Chunk(t) == job[t].data[Len(texts[t]) + 1]

\* AESDecrypt may answer chunk d of thread t with v.
Gives(t, d, v) ==
    /\ d \in {"torn", "mark"} => v = "null"
    /\ d = "text" => v = "text" \/ (v = "null" /\ t \in missed)

\* The steps for which AESDecrypt needs the application's certificate.
Deriving == {"keyMap", "load", "find", "derive", "put"}

\* In AESDecrypt: the arguments are the record's; a mark was answered at once; the
\* certificate is that of the application, and the shared Cipher has its key.
CallOK(t) ==
    /\ step[t] \in Locked \cup {"call"} =>
            /\ arg[t] = [key |-> job[t].key, data |-> Chunk(t)]
            /\ arg[t] \in [key : Apps \cup Sessions, data : Chunks]
    /\ step[t] \in Locked \ {"leave"} => arg[t].data # "mark"
    /\ step[t] \in Deriving => arg[t].key \in Apps
    /\ step[t] \notin {"put", "init", "final", "leave"} => cert[t] = None
    /\ step[t] \in {"put", "init", "final"} /\ arg[t].key \in Apps =>
            cert[t] \in Certificates(arg[t].key)
    /\ step[t] = "find" => algs = Algorithms \/ t \in missed
    /\ step[t] = "final" => ciphers[Mode(t)] = <<arg[t].key>>
    /\ step[t] \in {"leave", "returned"} => Gives(t, Chunk(t), text[t])
    /\ step[t] = "thrown" => class = "failed"

\* The record, and the texts that have come out of it so far.
TextsOK(t) ==
    /\ phase[t] = "idle" => texts[t] = <<>>
    /\ phase[t] # "idle" =>
            /\ job[t] \in work
            /\ Len(texts[t]) <= Len(job[t].data)
            /\ \A i \in 1 .. Len(texts[t]) : Gives(t, job[t].data[i], texts[t][i])
    /\ phase[t] = "decrypt" => Len(texts[t]) < Len(job[t].data) /\ step[t] # "out"
    /\ phase[t] = "format" =>
            /\ Len(texts[t]) = Len(job[t].data)
            /\ \A i \in 1 .. Len(texts[t]) : texts[t][i] # "null"

\* In getLayout: the template is the record's; what is removed from is too large.
FormatOK(t) ==
    /\ phase[t] # "format" => where[t] = "out"
    /\ phase[t] \in {"idle", "decrypt"} => layout[t] = None
    /\ phase[t] = "format" => where[t] # "out" /\ template[t] = job[t].template
    /\ where[t] = "get" => template[t] \in Templates
    /\ where[t] \in {"size", "evict", "put"} => template[t] \in Templates \ Improper
    /\ where[t] = "evict" => excess[t] > 0 /\ crowded
    /\ where[t] = "returned" => layout[t] = template[t]
    /\ where[t] = "thrown" => template[t] \in Improper \/ crowded

\* What the property says of thread t.
ResultOK(t) ==
    LET r == job[t] IN
        phase[t] = "done" =>
            \/ out[t] = "error" /\ class = "failed"
            \/ Range(r.data) \cap {"torn", "mark"} /= {} /\ out[t] = "damaged"
            \/ Range(r.data) \subseteq {"text"} /\
                  \/ out[t] = "message" /\ texts[t] = r.data /\ layout[t] = r.template
                  \/ out[t] = "exception" /\ (r.template \in Improper \/ crowded)
                  \/ out[t] = "damaged" /\ t \in missed
            \/ "foreign" \in Range(r.data)

ThreadOK(t) == CallOK(t) /\ TextsOK(t) /\ FormatOK(t) /\ ResultOK(t)

\* The cache holds what it says; it is marked when it is too large.
CacheOK ==
    /\ \A p \in DOMAIN layoutMap : layoutMap[p] = p
    /\ size > MaxCapacity => crowded

OutcomeInv == TypeOK /\ CacheOK /\ \A t \in Threads : ThreadOK(t)

-----------------------------------------------------------------------------
(* Threads that wait. *)

\* What the steps of thread t leave to the others: their own variables, and, to the
\* one in the lock, what the lock protects.
OthersStay(t) ==
    /\ work' = work
    /\ class = "failed" => class' = "failed"
    /\ crowded => crowded'
    /\ \A u \in Threads \ {t} :
          /\ step'[u] = step[u] /\ arg'[u] = arg[u] /\ cert'[u] = cert[u] /\ text'[u] = text[u]
          /\ job'[u] = job[u] /\ phase'[u] = phase[u] /\ texts'[u] = texts[u] /\ out'[u] = out[u]
          /\ where'[u] = where[u] /\ template'[u] = template[u]
          /\ excess'[u] = excess[u] /\ layout'[u] = layout[u]
          /\ u \in missed => u \in missed'
          /\ step[u] \in Locked => algs' = algs /\ ciphers' = ciphers

\* A thread that waits keeps what it knows.
LEMMA Waits ==
    ASSUME NEW t \in Threads, OthersStay(t), NEW u \in Threads \ {t}, ThreadOK(u)
    PROVE  ThreadOK(u)'
<1>0. /\ work' = work
      /\ class = "failed" => class' = "failed"
      /\ crowded => crowded'
      /\ step'[u] = step[u] /\ arg'[u] = arg[u] /\ cert'[u] = cert[u] /\ text'[u] = text[u]
      /\ job'[u] = job[u] /\ phase'[u] = phase[u] /\ texts'[u] = texts[u] /\ out'[u] = out[u]
      /\ where'[u] = where[u] /\ template'[u] = template[u]
      /\ excess'[u] = excess[u] /\ layout'[u] = layout[u]
      /\ u \in missed => u \in missed'
      /\ step[u] \in Locked => algs' = algs /\ ciphers' = ciphers
    BY DEF OthersStay
<1>1. Chunk(u)' = Chunk(u) /\ Mode(u)' = Mode(u)
    BY <1>0 DEF Chunk, Mode
<1>2. \A d, v : Gives(u, d, v) => Gives(u, d, v)'
    BY <1>0 DEF Gives
<1>3. CallOK(u)'
    BY <1>0, <1>1, <1>2 DEF ThreadOK, CallOK, Locked, Deriving, Certificates
<1>4. TextsOK(u)'
    BY <1>0, <1>2 DEF ThreadOK, TextsOK
<1>5. FormatOK(u)'
    BY <1>0 DEF ThreadOK, FormatOK
<1>6. ResultOK(u)'
    BY <1>0 DEF ThreadOK, ResultOK
<1> QED
    BY <1>3, <1>4, <1>5, <1>6 DEF ThreadOK

StepOK(t) == TypeOK' /\ CacheOK' /\ ThreadOK(t)' /\ OthersStay(t)

-----------------------------------------------------------------------------
(* The steps within AESDecrypt. *)

\* What is left to show of them.
LEMMA CryptoRest ==
    ASSUME OutcomeInv, LockInv, NEW t \in Threads, UNCHANGED <<layoutVars, callerVars>>,
           step[t] # "out", step'[t] # "out", CryptoTypeOK', CallOK(t)',
           class = "failed" => class' = "failed", missed \subseteq missed',
           step[t] \in Locked \/ UNCHANGED <<algs, ciphers>>,
           \A u \in Threads \ {t} :
              /\ step'[u] = step[u] /\ arg'[u] = arg[u]
              /\ cert'[u] = cert[u] /\ text'[u] = text[u]
    PROVE  StepOK(t)
<1>1. TypeOK' /\ CacheOK'
    BY DEF OutcomeInv, TypeOK, CacheOK, layoutVars, callerVars, LayoutTypeOK
<1>2. OthersStay(t)
    <2>1. step[t] \in Locked => \A u \in Threads \ {t} : step[u] \notin Locked
        BY DEF LockInv, OwnerIsInside
    <2> QED
        BY <2>1 DEF OthersStay, layoutVars, callerVars
<1>3. phase[t] = "decrypt" /\ ThreadOK(t)
    BY DEF LockInv, CalledByDecrypt, OutcomeInv
<1>4. TextsOK(t)'
    <2>1. \A d, v : Gives(t, d, v) => Gives(t, d, v)'
        BY DEF Gives
    <2> QED
        BY <1>3, <2>1 DEF ThreadOK, TextsOK, callerVars
<1>5. FormatOK(t)' /\ ResultOK(t)'
    BY <1>3 DEF ThreadOK, FormatOK, ResultOK, callerVars, layoutVars
<1> QED
    BY <1>1, <1>2, <1>4, <1>5 DEF StepOK, ThreadOK

\* The first half of a certificate is the key derived from the application's id.
LEMMA FirstHalf ==
    ASSUME NEW a, NEW c \in Certificates(a)
    PROVE  SubSeq(c, 1, 1) = <<a>>
<1>1. PICK g \in Garbage : c = <<a, g>>
    BY DEF Certificates
<1>2. c[1] = a
    BY <1>1
<1>3. /\ SubSeq(c, 1, 1) \in Seq({a}) /\ Len(SubSeq(c, 1, 1)) = 1
      /\ SubSeq(c, 1, 1)[1] = a
    BY <1>2, SubSeqProperties
<1>4. <<a>> \in Seq({a}) /\ Len(<<a>>) = 1 /\ <<a>>[1] = a
    OBVIOUS
<1> DEFINE s == SubSeq(c, 1, 1)
           k == <<a>>
<1>5. s \in Seq({a}) /\ k \in Seq({a}) /\ Len(s) = Len(k) /\ \A i \in 1 .. Len(s) : s[i] = k[i]
    BY <1>3, <1>4
<1> HIDE DEF s, k
<1>6. s = k
    BY <1>5, SeqEqual
<1> QED
    BY <1>6 DEF s, k

\* A step within AESDecrypt.
LEMMA CryptoStepOK ==
    ASSUME OutcomeInv, LockInv, NEW t \in Threads, CryptoStep(t),
           UNCHANGED <<layoutVars, callerVars>>
    PROVE  StepOK(t)
<1>0. CryptoTypeOK /\ CallOK(t)
    BY DEF OutcomeInv, TypeOK, ThreadOK
<1>1. Chunk(t)' = Chunk(t) /\ job' = job
    BY DEF Chunk, callerVars
<1> USE DEF At, Goto, Locked, Deriving, CryptoSteps
<1>2. CASE ClassInit(t)
    <2>1. CryptoTypeOK'
        BY <1>0, <1>2 DEF ClassInit, CryptoTypeOK, Certificates
    <2>2. CallOK(t)'
        <3>1. step[t] = "call" /\ step'[t] = "call" /\ arg' = arg /\ cert' = cert
            BY <1>2 DEF ClassInit
        <3> QED
            BY <1>0, <1>1, <3>1 DEF CallOK
    <2> QED
        BY <1>2, <2>1, <2>2, CryptoRest DEF ClassInit
<1>3. CASE ClassUnusable(t)
    <2>1. CryptoTypeOK'
        BY <1>0, <1>3 DEF ClassUnusable, CryptoTypeOK, CallOK, Certificates
    <2>2. CallOK(t)'
        BY <1>0, <1>1, <1>3 DEF ClassUnusable, CallOK, CryptoTypeOK
    <2>3. step'[t] = "thrown"
        BY <1>0, <1>3 DEF ClassUnusable, CryptoTypeOK
    <2> QED
        BY <1>0, <1>3, <2>1, <2>2, <2>3, CryptoRest DEF ClassUnusable, CryptoTypeOK
<1>4. CASE Enter(t)
    <2>0. /\ step[t] = "call" /\ lock' = t /\ arg[t] \in [key : Apps \cup Sessions, data : Chunks]
          /\ UNCHANGED <<class, keyMap, algs, native, ciphers, arg, cert, missed>>
          /\ cert[t] = None
        BY <1>0, <1>4 DEF Enter, Entered, CallOK
    <2>1. CASE arg[t].data = "mark"
        <3>1. step' = [step EXCEPT ![t] = "leave"] /\ text' = [text EXCEPT ![t] = "null"]
            BY <1>4, <2>1 DEF Enter, Entered, Return
        <3>2. CryptoTypeOK'
            BY <1>0, <2>0, <3>1 DEF CryptoTypeOK, Certificates
        <3>3. step'[t] = "leave" /\ text'[t] = "null"
            BY <1>0, <3>1 DEF CryptoTypeOK
        <3>4. Chunk(t) = "mark"
            BY <1>0, <2>0, <2>1 DEF CallOK
        <3>5. CallOK(t)'
            BY <1>0, <1>1, <2>0, <3>3, <3>4 DEF CallOK, Gives
        <3> QED
            BY <1>0, <2>0, <3>1, <3>2, <3>3, <3>5, CryptoRest DEF CryptoTypeOK
    <2>2. CASE arg[t].data # "mark"
        <3>1. PICK s \in {"keyMap", "init"} :
                /\ step' = [step EXCEPT ![t] = s] /\ text' = text
                /\ s = "keyMap" <=> arg[t].key \in Apps
            BY <1>4, <2>2 DEF Enter, Entered
        <3>2. CryptoTypeOK'
            BY <1>0, <2>0, <3>1 DEF CryptoTypeOK, Certificates
        <3>3. step'[t] = s
            BY <1>0, <3>1 DEF CryptoTypeOK
        <3>5. CallOK(t)'
            BY <1>0, <1>1, <2>0, <2>2, <3>1, <3>3 DEF CallOK
        <3> QED
            BY <1>0, <2>0, <3>1, <3>2, <3>3, <3>5, CryptoRest DEF CryptoTypeOK
    <2> QED
        BY <2>1, <2>2
<1>5. CASE Leave(t)
    <2>1. /\ step[t] = "leave" /\ step'[t] = "returned" /\ cert'[t] = None
          /\ UNCHANGED <<class, keyMap, algs, native, ciphers, text, missed>>
        BY <1>0, <1>5 DEF Leave, CryptoTypeOK
    <2>2. CryptoTypeOK'
        BY <1>0, <1>5 DEF Leave, CryptoTypeOK, Certificates
    <2>3. CallOK(t)'
        BY <1>0, <1>1, <2>1 DEF CallOK, Gives
    <2> QED
        BY <1>0, <1>5, <2>1, <2>2, <2>3, CryptoRest DEF Leave, CryptoTypeOK
<1>6. CASE KeyMapGet(t)
    <2>1. /\ step[t] = "keyMap" /\ arg[t].key \in Apps /\ arg[t].data # "mark"
          /\ UNCHANGED <<class, lock, keyMap, algs, native, ciphers, arg, text, missed>>
          /\ cert' = [cert EXCEPT ![t] = keyMap[arg[t].key]]
        BY <1>0, <1>6 DEF KeyMapGet, CallOK
    <2>2. PICK s \in {"load", "init"} : /\ step' = [step EXCEPT ![t] = s]
                                        /\ s = "load" <=> keyMap[arg[t].key] = None
        BY <1>6 DEF KeyMapGet
    <2>3. /\ step'[t] = s /\ cert'[t] = keyMap[arg[t].key]
          /\ cert'[t] = None \/ cert'[t] \in Certificates(arg[t].key)
          /\ \A u \in Threads \ {t} : step'[u] = step[u] /\ cert'[u] = cert[u]
        BY <1>0, <2>1, <2>2 DEF CryptoTypeOK
    <2>4. CryptoTypeOK'
        BY <1>0, <2>1, <2>2, <2>3 DEF CryptoTypeOK, Certificates
    <2>5. CallOK(t)'
        BY <1>0, <1>1, <2>1, <2>2, <2>3 DEF CallOK, Certificates
    <2> QED
        BY <2>1, <2>3, <2>4, <2>5, CryptoRest
<1>7. CASE AddAllAlgorithms(t)
    <2>1. /\ step[t] = "load" /\ step' = [step EXCEPT ![t] = "find"]
          /\ algs' \subseteq Algorithms
          /\ missed \subseteq missed' /\ missed' \subseteq Threads
          /\ algs' = Algorithms \/ t \in missed'
          /\ UNCHANGED <<class, lock, keyMap, native, ciphers, arg, cert, text>>
        BY <1>0, <1>7 DEF AddAllAlgorithms, CryptoTypeOK
    <2>2. step'[t] = "find"
        BY <1>0, <2>1 DEF CryptoTypeOK
    <2>3. CryptoTypeOK'
        BY <1>0, <2>1 DEF CryptoTypeOK, Certificates
    <2>4. CallOK(t)'
        BY <1>0, <1>1, <2>1, <2>2 DEF CallOK
    <2> QED
        BY <1>0, <2>1, <2>2, <2>3, <2>4, CryptoRest DEF CryptoTypeOK
<1>8. CASE GetByName(t)
    <2>1. /\ step[t] = "find" /\ UNCHANGED <<class, lock, keyMap, algs, ciphers, arg, cert, missed>>
          /\ native' = [cipher |-> "aes-256-cbc" \in algs, dgst |-> "md5" \in algs]
        BY <1>8 DEF GetByName
    <2>2. native' \in [cipher : BOOLEAN, dgst : BOOLEAN]
        BY <2>1
    <2>3. CASE native'.cipher /\ native'.dgst
        <3>1. step' = [step EXCEPT ![t] = "derive"] /\ text' = text
            BY <1>8, <2>3 DEF GetByName
        <3>2. step'[t] = "derive"
            BY <1>0, <3>1 DEF CryptoTypeOK
        <3>3. CryptoTypeOK'
            BY <1>0, <2>1, <2>2, <3>1 DEF CryptoTypeOK, Certificates
        <3>4. CallOK(t)'
            BY <1>0, <1>1, <2>1, <3>2 DEF CallOK
        <3> QED
            BY <1>0, <2>1, <3>1, <3>2, <3>3, <3>4, CryptoRest DEF CryptoTypeOK
    <2>4. CASE ~(native'.cipher /\ native'.dgst)
        <3>1. step' = [step EXCEPT ![t] = "leave"] /\ text' = [text EXCEPT ![t] = "null"]
            BY <1>8, <2>4 DEF GetByName, Return
        <3>2. step'[t] = "leave" /\ text'[t] = "null"
            BY <1>0, <3>1 DEF CryptoTypeOK
        <3>3. CryptoTypeOK'
            BY <1>0, <2>1, <2>2, <3>1 DEF CryptoTypeOK, Certificates
        <3>4. t \in missed
            BY <1>0, <2>1, <2>4 DEF CallOK, Algorithms
        <3>5. CallOK(t)'
            BY <1>0, <1>1, <2>1, <3>2, <3>4 DEF CallOK, Gives
        <3> QED
            BY <1>0, <2>1, <3>1, <3>2, <3>3, <3>5, CryptoRest DEF CryptoTypeOK
    <2> QED
        BY <2>3, <2>4
<1>9. CASE Security(t)
    <2>1. /\ step[t] = "derive" /\ algs' = {} /\ arg[t].key \in Apps
          /\ UNCHANGED <<class, lock, keyMap, native, ciphers, arg>>
        BY <1>0, <1>9 DEF Security, CallOK
    <2>2. CASE step' = [step EXCEPT ![t] = "put"] /\ UNCHANGED <<text, missed>>
               /\ \E c \in Certificates(arg[t].key) : cert' = [cert EXCEPT ![t] = c]
        <3>1. step'[t] = "put" /\ cert'[t] \in Certificates(arg[t].key)
              /\ DOMAIN cert' = Threads /\ \A u \in Threads \ {t} : cert'[u] = cert[u]
            BY <1>0, <2>2 DEF CryptoTypeOK
        <3>2. CryptoTypeOK'
            BY <1>0, <2>1, <2>2, <3>1 DEF CryptoTypeOK, Certificates
        <3>3. CallOK(t)'
            BY <1>0, <1>1, <2>1, <3>1 DEF CallOK, Certificates
        <3> QED
            BY <1>0, <2>1, <2>2, <3>1, <3>2, <3>3, CryptoRest DEF CryptoTypeOK
    <2>3. CASE step' = [step EXCEPT ![t] = "leave"] /\ text' = [text EXCEPT ![t] = "null"]
               /\ missed' = missed \cup {t} /\ cert' = cert
        <3>1. step'[t] = "leave" /\ text'[t] = "null"
            BY <1>0, <2>3 DEF CryptoTypeOK
        <3>2. CryptoTypeOK'
            BY <1>0, <2>1, <2>3 DEF CryptoTypeOK, Certificates
        <3>3. CallOK(t)'
            BY <1>0, <1>1, <2>1, <2>3, <3>1 DEF CallOK, Gives
        <3> QED
            BY <1>0, <2>1, <2>3, <3>1, <3>2, <3>3, CryptoRest DEF CryptoTypeOK
    <2> QED
        BY <1>9, <2>2, <2>3 DEF Security, Return
<1>10. CASE KeyMapPut(t)
    <2>1. /\ step[t] = "put" /\ arg[t].key \in Apps /\ cert[t] \in Certificates(arg[t].key)
          /\ step' = [step EXCEPT ![t] = "init"] /\ keyMap' = [keyMap EXCEPT ![arg[t].key] = cert[t]]
          /\ UNCHANGED <<class, lock, algs, native, ciphers, arg, cert, text, missed>>
        BY <1>0, <1>10 DEF KeyMapPut, CallOK
    <2>2. step'[t] = "init"
        BY <1>0, <2>1 DEF CryptoTypeOK
    <2>3. CryptoTypeOK'
        BY <1>0, <2>1 DEF CryptoTypeOK, Certificates
    <2>4. CallOK(t)'
        BY <1>0, <1>1, <2>1, <2>2 DEF CallOK, Certificates
    <2> QED
        BY <1>0, <2>1, <2>2, <2>3, <2>4, CryptoRest DEF CryptoTypeOK
<1>11. CASE CipherInit(t)
    <2>1. step[t] = "init" /\ UNCHANGED <<class, lock, keyMap, algs, native, arg, cert, missed>>
        BY <1>11 DEF CipherInit
    <2>2. CASE arg[t].data = "torn" /\ arg[t].key \in Apps
        <3>1. /\ step' = [step EXCEPT ![t] = "leave"] /\ text' = [text EXCEPT ![t] = "null"]
              /\ ciphers' = ciphers
            BY <1>11, <2>2 DEF CipherInit, Splits, Return
        <3>2. step'[t] = "leave" /\ text'[t] = "null"
            BY <1>0, <3>1 DEF CryptoTypeOK
        <3>3. CryptoTypeOK'
            BY <1>0, <2>1, <3>1 DEF CryptoTypeOK, Certificates
        <3>4. Chunk(t) = "torn"
            BY <1>0, <2>1, <2>2 DEF CallOK
        <3>5. CallOK(t)'
            BY <1>0, <1>1, <2>1, <3>2, <3>4 DEF CallOK, Gives
        <3> QED
            BY <1>0, <2>1, <3>1, <3>2, <3>3, <3>5, CryptoRest DEF CryptoTypeOK
    <2>3. CASE ~(arg[t].data = "torn" /\ arg[t].key \in Apps)
        <3>1. /\ step' = [step EXCEPT ![t] = "final"] /\ text' = text
              /\ ciphers' = [ciphers EXCEPT ![Mode(t)] = AesKey(t)]
            BY <1>11, <2>3 DEF CipherInit, Splits
        <3>2. step'[t] = "final" /\ Mode(t)' = Mode(t) /\ Mode(t) \in {"cbc", "ecb"}
            BY <1>0, <2>1, <3>1 DEF CryptoTypeOK, Mode
        <3>3. AesKey(t) = <<arg[t].key>>
            <4>1. CASE arg[t].key \in Apps
                <5>1. cert[t] \in Certificates(arg[t].key)
                    BY <1>0, <2>1, <4>1 DEF CallOK
                <5> QED
                    BY <4>1, <5>1, FirstHalf DEF AesKey
            <4>2. CASE arg[t].key \notin Apps
                BY <4>2 DEF AesKey
            <4> QED
                BY <4>1, <4>2
        <3>4. ciphers'[Mode(t)] = <<arg[t].key>> /\ DOMAIN ciphers' = {"cbc", "ecb"}
            BY <1>0, <3>1, <3>2, <3>3 DEF CryptoTypeOK
        <3>5. CryptoTypeOK'
            BY <1>0, <2>1, <3>1, <3>4 DEF CryptoTypeOK, Certificates
        <3>6. CallOK(t)'
            BY <1>0, <1>1, <2>1, <3>2, <3>4 DEF CallOK, Certificates
        <3> QED
            BY <1>0, <2>1, <3>1, <3>2, <3>5, <3>6, CryptoRest DEF CryptoTypeOK
    <2> QED
        BY <2>2, <2>3
<1>12. CASE DoFinal(t)
    <2>1. step[t] = "final" /\ UNCHANGED <<class, lock, keyMap, algs, native, ciphers, arg, cert, missed>>
        BY <1>12 DEF DoFinal
    <2>2. /\ arg[t].data = Chunk(t) /\ ciphers[Mode(t)] = <<arg[t].key>>
          /\ arg[t].data # "mark" /\ arg[t].data \in Chunks
        BY <1>0, <2>1 DEF CallOK
    <2>3. PICK v \in {"text", "null", "garbled"} :
            /\ step' = [step EXCEPT ![t] = "leave"] /\ text' = [text EXCEPT ![t] = v]
            /\ arg[t].data = "torn" => v = "null"
            /\ arg[t].data = "text" => v = "text"
        BY <1>12, <2>2 DEF DoFinal, Return
    <2>4. step'[t] = "leave" /\ text'[t] = v
        BY <1>0, <2>3 DEF CryptoTypeOK
    <2>5. CryptoTypeOK'
        BY <1>0, <2>1, <2>3 DEF CryptoTypeOK, Certificates
    <2>6. CallOK(t)'
        BY <1>0, <1>1, <2>1, <2>2, <2>3, <2>4 DEF CallOK, Gives
    <2> QED
        BY <1>0, <2>1, <2>3, <2>4, <2>5, <2>6, CryptoRest DEF CryptoTypeOK
<1>13. CASE CipherFails(t)
    <2>1. /\ step[t] = "init" /\ missed' = missed \cup {t}
          /\ step' = [step EXCEPT ![t] = "leave"] /\ text' = [text EXCEPT ![t] = "null"]
          /\ UNCHANGED <<class, lock, keyMap, algs, native, ciphers, arg, cert>>
        BY <1>13 DEF CipherFails, Return
    <2>2. step'[t] = "leave" /\ text'[t] = "null"
        BY <1>0, <2>1 DEF CryptoTypeOK
    <2>3. CryptoTypeOK'
        BY <1>0, <2>1 DEF CryptoTypeOK, Certificates
    <2>4. CallOK(t)'
        BY <1>0, <1>1, <2>1, <2>2 DEF CallOK, Gives
    <2> QED
        BY <1>0, <2>1, <2>2, <2>3, <2>4, CryptoRest DEF CryptoTypeOK
<1> QED
    BY <1>2, <1>3, <1>4, <1>5, <1>6, <1>7, <1>8, <1>9, <1>10, <1>11, <1>12, <1>13 DEF CryptoStep

-----------------------------------------------------------------------------
(* The steps within getLayout. *)

\* What is left to show of them.
LEMMA LayoutRest ==
    ASSUME OutcomeInv, LockInv, NEW t \in Threads, UNCHANGED <<cryptoVars, callerVars, template>>,
           where[t] # "out", where'[t] # "out", LayoutTypeOK', CacheOK', FormatOK(t)',
           crowded => crowded',
           \A u \in Threads \ {t} :
              where'[u] = where[u] /\ excess'[u] = excess[u] /\ layout'[u] = layout[u]
    PROVE  StepOK(t)
<1>1. TypeOK'
    BY DEF OutcomeInv, TypeOK, CryptoTypeOK, cryptoVars, callerVars, Certificates
<1>2. OthersStay(t)
    BY DEF OthersStay, cryptoVars, callerVars
<1>3. phase[t] = "format" /\ step[t] = "out" /\ ThreadOK(t)
    BY DEF LockInv, CalledByDecrypt, OutcomeInv, ThreadOK, FormatOK
<1>4. CallOK(t)'
    BY <1>3 DEF ThreadOK, CallOK, Locked, Deriving, cryptoVars
<1>5. TextsOK(t)'
    <2>1. \A d, v : Gives(t, d, v) => Gives(t, d, v)'
        BY DEF Gives, cryptoVars
    <2> QED
        BY <1>3, <2>1 DEF ThreadOK, TextsOK, callerVars, cryptoVars
<1>6. ResultOK(t)'
    BY <1>3 DEF ResultOK, callerVars
<1> QED
    BY <1>1, <1>2, <1>4, <1>5, <1>6 DEF StepOK, ThreadOK

\* A map of templates to themselves.
Proper(m) == DOMAIN m \subseteq Templates \ Improper /\ \A p \in DOMAIN m : m[p] = p

\* A change leaves a map of that kind, whatever a race loses.
LEMMA ChangedOK ==
    ASSUME LayoutTypeOK, CacheOK, NEW t \in Threads, NEW m, NEW n \in Int, Proper(m),
           Changed(t, m, n)
    PROVE  /\ Proper(layoutMap') /\ Range(layoutMap') \subseteq Templates
           /\ size' \in Nat /\ crowded' \in BOOLEAN /\ damaged' \in BOOLEAN
           /\ crowded => crowded'
           /\ CacheOK'
<1>1. PICK l \in {m, layoutMap}, k \in {n, size} : Becomes(l, k)
    BY DEF Changed
<1>2. Proper(l) /\ k \in Int
    BY DEF Proper, CacheOK, LayoutTypeOK
<1>3. layoutMap' = l /\ size' = k /\ k >= 0 /\ crowded' = (crowded \/ k > MaxCapacity)
    BY <1>1 DEF Becomes
<1>4. Proper(layoutMap') /\ Range(layoutMap') \subseteq Templates
    BY <1>2, <1>3 DEF Proper, Range
<1>5. damaged' \in BOOLEAN
    BY DEF Changed, LayoutTypeOK
<1>6. CacheOK'
    BY <1>2, <1>3, <1>4 DEF CacheOK, Proper
<1>7. crowded' \in BOOLEAN /\ (crowded => crowded')
    <2>1. (crowded \/ k > MaxCapacity) \in BOOLEAN
        OBVIOUS
    <2> QED
        BY <1>3, <2>1
<1>8. size' \in Nat
    BY <1>2, <1>3
<1> QED
    BY <1>4, <1>5, <1>6, <1>7, <1>8

\* A step within getLayout.
LEMMA LayoutStepOK ==
    ASSUME OutcomeInv, LockInv, NEW t \in Threads, LayoutStep(t),
           UNCHANGED <<cryptoVars, callerVars>>
    PROVE  StepOK(t)
<1>0. LayoutTypeOK /\ CacheOK /\ FormatOK(t) /\ MaxCapacity \in Nat
    BY LayoutAssumption DEF OutcomeInv, TypeOK, ThreadOK
<1>1. job' = job /\ phase' = phase
    BY DEF callerVars
<1> USE DEF In, GoTo, LayoutSteps
<1>2. CASE Hit(t)
    <2>1. /\ where[t] = "get" /\ where' = [where EXCEPT ![t] = "returned"]
          /\ layout' = [layout EXCEPT ![t] = template[t]] /\ template[t] \in Templates
          /\ UNCHANGED <<layoutMap, size, cyclic, template, excess, crowded, damaged>>
        BY <1>0, <1>2 DEF Hit, CacheOK, FormatOK
    <2>2. where'[t] = "returned" /\ layout'[t] = template[t]
        BY <1>0, <2>1 DEF LayoutTypeOK
    <2>3. LayoutTypeOK' /\ CacheOK'
        BY <1>0, <2>1 DEF LayoutTypeOK, CacheOK
    <2>4. FormatOK(t)'
        BY <1>0, <1>1, <2>1, <2>2 DEF FormatOK
    <2> QED
        BY <1>0, <2>1, <2>2, <2>3, <2>4, LayoutRest DEF LayoutTypeOK
<1>3. CASE Miss(t)
    <2>1. /\ where[t] = "get"
          /\ UNCHANGED <<layoutMap, size, cyclic, template, excess, layout, crowded, damaged>>
        BY <1>3 DEF Miss
    <2>2. PICK s \in {"thrown", "size"} : /\ where' = [where EXCEPT ![t] = s]
                                          /\ s = "thrown" <=> template[t] \in Improper
        BY <1>3 DEF Miss
    <2>3. where'[t] = s
        BY <1>0, <2>2 DEF LayoutTypeOK
    <2>4. LayoutTypeOK' /\ CacheOK'
        BY <1>0, <2>1, <2>2 DEF LayoutTypeOK, CacheOK
    <2>5. FormatOK(t)'
        BY <1>0, <1>1, <2>1, <2>2, <2>3 DEF FormatOK
    <2> QED
        BY <1>0, <2>1, <2>2, <2>3, <2>4, <2>5, LayoutRest DEF LayoutTypeOK
<1>4. CASE Size(t)
    <2>1. /\ where[t] = "size"
          /\ UNCHANGED <<layoutMap, size, cyclic, template, layout, crowded, damaged>>
        BY <1>4 DEF Size
    <2>2. PICK e \in Nat : /\ excess' = [excess EXCEPT ![t] = e]
                           /\ e > 0 => size > MaxCapacity
        <3> DEFINE d == IF size >= MaxCapacity THEN size - MaxCapacity ELSE 0
        <3>1. d \in Nat /\ (d > 0 => size > MaxCapacity)
            BY <1>0 DEF LayoutTypeOK
        <3>2. excess' = [excess EXCEPT ![t] = d]
            BY <1>4 DEF Size
        <3> HIDE DEF d
        <3> QED
            BY <3>1, <3>2
    <2>3. excess'[t] = e
        BY <1>0, <2>2 DEF LayoutTypeOK
    <2>4. PICK s \in {"evict", "put"} : /\ where' = [where EXCEPT ![t] = s]
                                        /\ s = "evict" <=> e > 0
        BY <1>4, <2>3 DEF Size
    <2>5. where'[t] = s
        BY <1>0, <2>4 DEF LayoutTypeOK
    <2>6. LayoutTypeOK' /\ CacheOK'
        BY <1>0, <2>1, <2>2, <2>4 DEF LayoutTypeOK, CacheOK
    <2>7. FormatOK(t)'
        BY <1>0, <1>1, <2>1, <2>2, <2>3, <2>4, <2>5 DEF FormatOK, CacheOK
    <2> QED
        BY <1>0, <2>1, <2>2, <2>4, <2>5, <2>6, <2>7, LayoutRest DEF LayoutTypeOK
<1>5. CASE EvictThrows(t)
    <2>1. /\ where[t] = "evict" /\ crowded /\ where' = [where EXCEPT ![t] = "thrown"]
          /\ excess' = [excess EXCEPT ![t] = 0]
          /\ UNCHANGED <<layoutMap, size, cyclic, template, layout, crowded, damaged>>
        BY <1>0, <1>5 DEF EvictThrows, FormatOK
    <2>2. where'[t] = "thrown"
        BY <1>0, <2>1 DEF LayoutTypeOK
    <2>3. LayoutTypeOK' /\ CacheOK'
        BY <1>0, <2>1 DEF LayoutTypeOK, CacheOK
    <2>4. FormatOK(t)'
        BY <1>0, <1>1, <2>1, <2>2 DEF FormatOK
    <2> QED
        BY <1>0, <2>1, <2>2, <2>3, <2>4, LayoutRest DEF LayoutTypeOK
<1>6. CASE Evict(t)
    <2>1. /\ where[t] = "evict" /\ crowded /\ excess[t] > 0
          /\ excess' = [excess EXCEPT ![t] = excess[t] - 1]
          /\ UNCHANGED <<cyclic, template, layout>>
        BY <1>0, <1>6 DEF Evict, FormatOK
    <2>2. PICK m : Proper(m) /\ Changed(t, m, size - 1)
        <3>1. PICK p \in DOMAIN layoutMap :
                    Changed(t, Restrict(layoutMap, DOMAIN layoutMap \ {p}), size - 1)
            BY <1>6 DEF Evict
        <3>2. Proper(Restrict(layoutMap, DOMAIN layoutMap \ {p}))
            BY <1>0 DEF Proper, Restrict, CacheOK, LayoutTypeOK
        <3> QED
            BY <3>1, <3>2
    <2>3. size - 1 \in Int
        BY <1>0 DEF LayoutTypeOK
    <2>4. /\ Proper(layoutMap') /\ Range(layoutMap') \subseteq Templates
          /\ size' \in Nat /\ crowded' \in BOOLEAN /\ damaged' \in BOOLEAN
          /\ crowded => crowded'
          /\ CacheOK'
        BY <1>0, <2>2, <2>3, ChangedOK
    <2>5. excess'[t] = excess[t] - 1 /\ excess' \in [Threads -> Nat]
        BY <1>0, <2>1 DEF LayoutTypeOK
    <2>6. PICK s \in {"evict", "put"} : /\ where' = [where EXCEPT ![t] = s]
                                        /\ s = "evict" <=> excess'[t] > 0
        BY <1>6 DEF Evict
    <2>7. where'[t] = s
        BY <1>0, <2>6 DEF LayoutTypeOK
    <2>8. LayoutTypeOK'
        BY <1>0, <2>1, <2>4, <2>5, <2>6 DEF LayoutTypeOK, Proper
    <2>9. FormatOK(t)'
        BY <1>0, <1>1, <2>1, <2>4, <2>5, <2>6, <2>7 DEF FormatOK
    <2> QED
        BY <1>0, <2>1, <2>4, <2>6, <2>7, <2>8, <2>9, LayoutRest DEF LayoutTypeOK
<1>7. CASE Put(t)
    <2>1. /\ where[t] = "put" /\ template[t] \in Templates \ Improper
          /\ where' = [where EXCEPT ![t] = "returned"]
          /\ layout' = [layout EXCEPT ![t] = template[t]]
          /\ UNCHANGED <<template, excess>>
        BY <1>0, <1>7 DEF Put, FormatOK
    <2>2. PICK n \in {size, size + 1} : Changed(t, With(template[t]), n)
        BY <1>7 DEF Put
    <2>3. Proper(With(template[t])) /\ n \in Int
        BY <1>0, <2>1 DEF Proper, With, CacheOK, LayoutTypeOK
    <2>4. /\ Proper(layoutMap') /\ Range(layoutMap') \subseteq Templates
          /\ size' \in Nat /\ crowded' \in BOOLEAN /\ damaged' \in BOOLEAN
          /\ crowded => crowded'
          /\ CacheOK'
        BY <1>0, <2>2, <2>3, ChangedOK
    <2>5. cyclic' \in BOOLEAN
        BY <1>0, <1>7 DEF Put, LayoutTypeOK
    <2>6. where'[t] = "returned" /\ layout'[t] = template[t]
        BY <1>0, <2>1 DEF LayoutTypeOK
    <2>7. LayoutTypeOK'
        BY <1>0, <2>1, <2>4, <2>5 DEF LayoutTypeOK, Proper
    <2>8. FormatOK(t)'
        BY <1>0, <1>1, <2>1, <2>4, <2>6 DEF FormatOK
    <2> QED
        BY <1>0, <2>1, <2>4, <2>6, <2>7, <2>8, LayoutRest DEF LayoutTypeOK
<1>8. CASE Loops(t)
    <2>1. /\ where[t] # "out" /\ where' = [where EXCEPT ![t] = "hang"]
          /\ UNCHANGED <<layoutMap, size, cyclic, template, excess, layout, crowded, damaged>>
        BY <1>8 DEF Loops
    <2>2. where'[t] = "hang"
        BY <1>0, <2>1 DEF LayoutTypeOK
    <2>3. LayoutTypeOK' /\ CacheOK'
        BY <1>0, <2>1 DEF LayoutTypeOK, CacheOK
    <2>4. FormatOK(t)'
        BY <1>0, <1>1, <2>1, <2>2 DEF FormatOK
    <2> QED
        BY <1>0, <2>1, <2>2, <2>3, <2>4, LayoutRest DEF LayoutTypeOK
<1> QED
    BY <1>2, <1>3, <1>4, <1>5, <1>6, <1>7, <1>8 DEF LayoutStep

-----------------------------------------------------------------------------
(* The steps of the callers. *)

\* A record has up to two chunks; a payload, which has one, has no template.
LEMMA RecordShape ==
    ASSUME TypeOK, NEW r \in work
    PROVE  /\ r.key \in Apps \cup Sessions /\ r.template \in Templates \cup {None}
           /\ r.data \in Seq(Chunks) /\ Len(r.data) \in 0 .. 2
           /\ \A i \in 1 .. Len(r.data) : r.data[i] \in Chunks
           /\ Len(r.data) = 0 <=> r.data = <<>>
           /\ Len(r.data) = 1 => r.template = None
           /\ Range(r.data) = {r.data[i] : i \in 1 .. Len(r.data)}
<1>1. r \in Record
    BY WorkloadsAssumption DEF TypeOK
<1>2. /\ r.key \in Apps \cup Sessions /\ r.template \in Templates \cup {None}
      /\ \/ r.data = <<>> \/ (\E c, d \in Chunks : r.data = <<c, d>>)
         \/ (\E c \in Chunks : r.data = <<c>>) /\ r.template = None
    BY <1>1 DEF Record
<1>3. r.data \in Seq(Chunks) /\ Len(r.data) \in 0 .. 2 /\ (Len(r.data) = 0 <=> r.data = <<>>)
      /\ (Len(r.data) = 1 => r.template = None)
    <2>1. CASE r.data = <<>>
        BY <2>1
    <2>2. ASSUME NEW c \in Chunks, NEW d \in Chunks, r.data = <<c, d>>
          PROVE  r.data \in Seq(Chunks) /\ Len(r.data) = 2 /\ r.data # <<>>
        BY <2>2
    <2>3. ASSUME NEW c \in Chunks, r.data = <<c>>
          PROVE  r.data \in Seq(Chunks) /\ Len(r.data) = 1 /\ r.data # <<>>
        BY <2>3
    <2> QED
        BY <1>2, <2>1, <2>2, <2>3
<1>4. DOMAIN r.data = 1 .. Len(r.data) /\ \A i \in 1 .. Len(r.data) : r.data[i] \in Chunks
    BY <1>3
<1> QED
    BY <1>2, <1>3, <1>4 DEF Range

\* A call within the steps of a caller: the thread goes to its next chunk.
LEMMA CallsOK ==
    ASSUME CryptoTypeOK, NEW t \in Threads, NEW k \in Apps \cup Sessions, NEW c \in Chunks,
           cert[t] = None, Call(t, k, c), missed' = missed
    PROVE  /\ CryptoTypeOK'
           /\ step'[t] = "call" /\ arg'[t] = [key |-> k, data |-> c] /\ cert' = cert
           /\ \A u \in Threads \ {t} :
                step'[u] = step[u] /\ arg'[u] = arg[u] /\ text'[u] = text[u]
           /\ UNCHANGED <<class, lock, keyMap, algs, native, ciphers>>
<1>1. /\ step' = [step EXCEPT ![t] = "call"] /\ text' = [text EXCEPT ![t] = "null"]
      /\ arg' = [arg EXCEPT ![t] = [key |-> k, data |-> c]]
      /\ UNCHANGED <<class, lock, keyMap, algs, native, ciphers, cert>>
    BY DEF Call, Goto
<1>2. step' \in [Threads -> CryptoSteps]
    BY <1>1 DEF CryptoTypeOK, CryptoSteps
<1>3. arg' \in [Threads -> [key : Apps \cup Sessions, data : Chunks] \cup {None}]
    BY <1>1 DEF CryptoTypeOK
<1>4. \A u \in Threads : cert'[u] = None \/ cert'[u] \in Certificates(arg'[u].key)
    BY <1>1 DEF CryptoTypeOK
<1>5. CryptoTypeOK'
    BY <1>1, <1>2, <1>3, <1>4 DEF CryptoTypeOK, Certificates
<1> QED
    BY <1>1, <1>5 DEF CryptoTypeOK

\* Begin.
LEMMA BeginOK ==
    ASSUME OutcomeInv, LockInv, NEW t \in Threads, NEW r \in work, Begin(t, r)
    PROVE  StepOK(t)
<1>0. TypeOK /\ CryptoTypeOK /\ CallOK(t) /\ TextsOK(t) /\ FormatOK(t) /\ CacheOK
    BY DEF OutcomeInv, ThreadOK, TypeOK
<1>1. /\ phase[t] = "idle" /\ r.data # <<>> /\ Call(t, r.key, r.data[1])
      /\ job' = [job EXCEPT ![t] = r] /\ phase' = [phase EXCEPT ![t] = "decrypt"]
      /\ UNCHANGED <<missed, layoutVars, work, texts, out>>
    BY DEF Begin
<1>2. /\ r.key \in Apps \cup Sessions /\ Len(r.data) \in 1 .. 2 /\ r.data[1] \in Chunks
    BY <1>0, <1>1, RecordShape
<1>3. step[t] = "out" /\ cert[t] = None /\ texts[t] = <<>>
    BY <1>0, <1>1 DEF LockInv, CalledByDecrypt, CallOK, TextsOK
<1>4. /\ CryptoTypeOK'
      /\ step'[t] = "call" /\ arg'[t] = [key |-> r.key, data |-> r.data[1]] /\ cert' = cert
      /\ \A u \in Threads \ {t} : step'[u] = step[u] /\ arg'[u] = arg[u] /\ text'[u] = text[u]
      /\ UNCHANGED <<class, lock, keyMap, algs, native, ciphers>>
    BY <1>0, <1>1, <1>2, <1>3, CallsOK
<1>5. job'[t] = r /\ phase'[t] = "decrypt" /\ texts'[t] = <<>>
      /\ \A u \in Threads \ {t} : job'[u] = job[u] /\ phase'[u] = phase[u]
    BY <1>0, <1>1, <1>3 DEF TypeOK
<1>6. TypeOK' /\ CacheOK'
    BY <1>0, <1>1, <1>4 DEF TypeOK, layoutVars, LayoutTypeOK, CacheOK
<1>7. OthersStay(t)
    BY <1>1, <1>4, <1>5 DEF OthersStay, layoutVars
<1>8. CallOK(t)'
    <2>1. Chunk(t)' = r.data[1]
        BY <1>5 DEF Chunk
    <2> QED
        BY <1>2, <1>3, <1>4, <1>5, <2>1 DEF CallOK, Locked, Deriving
<1>9. TextsOK(t)'
    BY <1>1, <1>2, <1>4, <1>5 DEF TextsOK
<1>10. FormatOK(t)' /\ ResultOK(t)'
    BY <1>0, <1>1, <1>5 DEF FormatOK, ResultOK, layoutVars
<1> QED
    BY <1>6, <1>7, <1>8, <1>9, <1>10 DEF StepOK, ThreadOK

\* A call has returned, and its answer is added to the texts.
LEMMA TextsGrow ==
    ASSUME OutcomeInv, NEW t \in Threads, phase[t] = "decrypt", step[t] = "returned",
           texts' = [texts EXCEPT ![t] = Append(texts[t], text[t])]
    PROVE  /\ texts' \in [Threads -> Seq({"text", "garbled", "null"})]
           /\ Len(texts[t]) \in Nat /\ Len(texts'[t]) = Len(texts[t]) + 1
           /\ \A i \in 1 .. Len(texts'[t]) : /\ texts'[t][i] \in {"text", "garbled", "null"}
                                             /\ Gives(t, job[t].data[i], texts'[t][i])
           /\ \A u \in Threads \ {t} : texts'[u] = texts[u]
<1> DEFINE V == {"text", "garbled", "null"}
           q == texts[t]
           v == text[t]
<1>1. texts \in [Threads -> Seq(V)] /\ v \in V
    BY DEF OutcomeInv, TypeOK, CryptoTypeOK
<1>2. /\ Gives(t, job[t].data[Len(q) + 1], v)
      /\ \A i \in 1 .. Len(q) : Gives(t, job[t].data[i], q[i])
    BY DEF OutcomeInv, ThreadOK, CallOK, TextsOK, Chunk
<1>3. texts'[t] = Append(q, v) /\ q \in Seq(V)
    BY <1>1
<1>4. /\ Append(q, v) \in Seq(V) /\ Len(Append(q, v)) = Len(q) + 1 /\ Len(q) \in Nat
      /\ \A i \in 1 .. Len(q) : Append(q, v)[i] = q[i]
      /\ Append(q, v)[Len(q) + 1] = v
    <2> HIDE DEF q, v, V
    <2> QED
        BY <1>1, <1>3, AppendProperties, LenProperties
<1>5. \A i \in 1 .. Len(texts'[t]) : Gives(t, job[t].data[i], texts'[t][i])
    <2> HIDE DEF q, v, V
    <2> TAKE i \in 1 .. Len(texts'[t])
    <2>1. CASE i \in 1 .. Len(q)
        BY <1>2, <1>3, <1>4, <2>1
    <2>2. CASE i = Len(q) + 1
        BY <1>2, <1>3, <1>4, <2>2
    <2> QED
        BY <1>3, <1>4, <2>1, <2>2
<1>6. texts' \in [Threads -> Seq(V)]
    <2> HIDE DEF V
    <2> QED
        BY <1>1, <1>3, <1>4
<1>7. \A i \in 1 .. Len(texts'[t]) : texts'[t][i] \in V
    <2> HIDE DEF V
    <2> QED
        BY <1>6, ElementOfSeq
<1> QED
    BY <1>1, <1>3, <1>4, <1>5, <1>6, <1>7

\* DecryptNext.
LEMMA DecryptNextOK ==
    ASSUME OutcomeInv, LockInv, NEW t \in Threads, DecryptNext(t)
    PROVE  StepOK(t)
<1>0. TypeOK /\ CryptoTypeOK /\ CallOK(t) /\ TextsOK(t) /\ FormatOK(t) /\ CacheOK
    BY DEF OutcomeInv, ThreadOK, TypeOK
<1> DEFINE n == Len(texts[t])
           r == job[t]
<1>1. /\ phase[t] = "decrypt" /\ step[t] = "returned" /\ n + 1 < Len(r.data)
      /\ Call(t, r.key, r.data[n + 2])
      /\ texts' = [texts EXCEPT ![t] = Append(texts[t], text[t])]
      /\ UNCHANGED <<missed, layoutVars, work, job, phase, out>>
    BY DEF DecryptNext, At
<1>2. /\ texts' \in [Threads -> Seq({"text", "garbled", "null"})]
      /\ n \in Nat /\ Len(texts'[t]) = n + 1
      /\ \A i \in 1 .. Len(texts'[t]) : Gives(t, r.data[i], texts'[t][i])
      /\ \A u \in Threads \ {t} : texts'[u] = texts[u]
    BY <1>1, TextsGrow
<1>3. r \in work
    BY <1>0, <1>1 DEF TextsOK
<1>4. Len(r.data) \in Nat /\ r.key \in Apps \cup Sessions /\ r.data[n + 2] \in Chunks
    BY <1>0, <1>1, <1>2, <1>3, RecordShape
<1>5. cert[t] = None
    BY <1>0, <1>1 DEF CallOK
<1>6. /\ CryptoTypeOK'
      /\ step'[t] = "call" /\ arg'[t] = [key |-> r.key, data |-> r.data[n + 2]] /\ cert' = cert
      /\ \A u \in Threads \ {t} : step'[u] = step[u] /\ arg'[u] = arg[u] /\ text'[u] = text[u]
      /\ UNCHANGED <<class, lock, keyMap, algs, native, ciphers>>
    BY <1>0, <1>1, <1>4, <1>5, CallsOK
<1>7. TypeOK' /\ CacheOK'
    BY <1>0, <1>1, <1>2, <1>6 DEF TypeOK, layoutVars, LayoutTypeOK, CacheOK
<1>8. OthersStay(t)
    BY <1>1, <1>2, <1>6 DEF OthersStay, layoutVars
<1>9. CallOK(t)'
    <2>1. Chunk(t)' = r.data[n + 2] /\ job' = job
        <3>1. Len(texts'[t]) + 1 = n + 2
            BY <1>2
        <3> QED
            BY <1>1, <3>1 DEF Chunk
    <2> QED
        BY <1>4, <1>5, <1>6, <2>1 DEF CallOK, Locked, Deriving
<1>10. TextsOK(t)'
    <2>1. \A d, v : Gives(t, d, v)' <=> Gives(t, d, v)
        BY <1>1 DEF Gives
    <2> QED
        BY <1>0, <1>1, <1>2, <1>3, <1>4, <1>6, <2>1 DEF TextsOK
<1>11. FormatOK(t)' /\ ResultOK(t)'
    BY <1>0, <1>1 DEF FormatOK, ResultOK, layoutVars
<1> QED
    BY <1>7, <1>8, <1>9, <1>10, <1>11 DEF StepOK, ThreadOK

\* What the texts of a whole record say about it: without null they are the record's
\* own, unless a chunk is of another key; a null has a reason.
LEMMA TextsDecide ==
    ASSUME TypeOK, NEW t \in Threads, NEW r \in work,
           NEW q \in Seq({"text", "garbled", "null"}), Len(q) = Len(r.data),
           \A i \in 1 .. Len(q) : Gives(t, r.data[i], q[i])
    PROVE  /\ Range(q) = {q[i] : i \in 1 .. Len(q)}
           /\ "null" \in Range(q) =>
                \/ Range(r.data) \cap {"torn", "mark"} # {}
                \/ Range(r.data) \subseteq {"text"} /\ t \in missed
                \/ "foreign" \in Range(r.data)
           /\ "null" \notin Range(q) =>
                \/ Range(r.data) \subseteq {"text"} /\ q = r.data
                \/ "foreign" \in Range(r.data)
<1>0. /\ r.data \in Seq(Chunks)
      /\ \A i \in 1 .. Len(r.data) : r.data[i] \in Chunks
      /\ Range(r.data) = {r.data[i] : i \in 1 .. Len(r.data)}
      /\ Len(r.data) \in Nat
    <2>1. /\ r.data \in Seq(Chunks) /\ Len(r.data) \in 0 .. 2
          /\ \A i \in 1 .. Len(r.data) : r.data[i] \in Chunks
          /\ Range(r.data) = {r.data[i] : i \in 1 .. Len(r.data)}
        BY RecordShape, Zenon
    <2>2. Len(r.data) \in Nat
        BY <2>1
    <2> QED
        BY <2>1, <2>2, Zenon
<1>1. Range(q) = {q[i] : i \in 1 .. Len(q)}
    <2>1. DOMAIN q = 1 .. Len(q)
        OBVIOUS
    <2> QED
        BY <2>1 DEF Range
<1>2. ASSUME "null" \in Range(q)
      PROVE  \/ Range(r.data) \cap {"torn", "mark"} # {}
             \/ Range(r.data) \subseteq {"text"} /\ t \in missed
             \/ "foreign" \in Range(r.data)
    <2>1. PICK i \in 1 .. Len(q) : q[i] = "null"
        BY <1>1, <1>2
    <2>2. r.data[i] = "text" => t \in missed
        BY <2>1 DEF Gives
    <2> QED
        BY <1>0, <2>1, <2>2 DEF Chunks
<1>3. ASSUME "null" \notin Range(q), "foreign" \notin Range(r.data)
      PROVE  Range(r.data) \subseteq {"text"} /\ q = r.data
    <2>1. \A i \in 1 .. Len(q) : r.data[i] = "text" /\ q[i] = "text"
        BY <1>0, <1>1, <1>3 DEF Gives, Chunks
    <2>2. Range(r.data) \subseteq {"text"}
        BY <1>0, <2>1
    <2>3. q = r.data
        <3> DEFINE S == Chunks \cup {"text", "garbled", "null"}
                   d == r.data
        <3>1. q \in Seq(S) /\ d \in Seq(S) /\ Len(q) = Len(d) /\ \A i \in 1 .. Len(q) : q[i] = d[i]
            BY <1>0, <2>1
        <3> HIDE DEF S, d
        <3>2. q = d
            BY <3>1, SeqEqual
        <3> QED
            BY <3>2 DEF d
    <2> QED
        BY <2>2, <2>3
<1> QED
    BY <1>1, <1>2, <1>3

\* getLayout is called.
LEMMA GetLayoutOK ==
    ASSUME LayoutTypeOK, NEW t \in Threads, NEW p \in Templates \cup {None}, GetLayout(t, p)
    PROVE  /\ LayoutTypeOK' /\ template'[t] = p /\ layout'[t] = None
           /\ where'[t] = IF p = None THEN "returned" ELSE "get"
           /\ \A u \in Threads \ {t} :
                /\ where'[u] = where[u] /\ template'[u] = template[u] /\ layout'[u] = layout[u]
           /\ UNCHANGED <<layoutMap, size, cyclic, excess, crowded, damaged>>
<1>1. PICK s \in {"returned", "get"} :
            where' = [where EXCEPT ![t] = s] /\ (s = "returned" <=> p = None)
    BY DEF GetLayout, GoTo
<1>2. /\ template' = [template EXCEPT ![t] = p] /\ layout' = [layout EXCEPT ![t] = None]
      /\ UNCHANGED <<layoutMap, size, cyclic, excess, crowded, damaged>>
    BY DEF GetLayout
<1>3. LayoutTypeOK'
    BY <1>1, <1>2 DEF LayoutTypeOK, LayoutSteps
<1> QED
    BY <1>1, <1>2, <1>3 DEF LayoutTypeOK

\* Resend.
LEMMA ResendOK ==
    ASSUME OutcomeInv, LockInv, NEW t \in Threads, NEW r \in work, Resend(t, r)
    PROVE  StepOK(t)
<1>0. TypeOK /\ CryptoTypeOK /\ LayoutTypeOK /\ CallOK(t) /\ TextsOK(t) /\ FormatOK(t) /\ CacheOK
    BY DEF OutcomeInv, ThreadOK, TypeOK
<1>1. /\ phase[t] = "idle" /\ r.data = <<>> /\ GetLayout(t, r.template)
      /\ job' = [job EXCEPT ![t] = r] /\ phase' = [phase EXCEPT ![t] = "format"]
      /\ UNCHANGED <<cryptoVars, work, texts, out>>
    BY DEF Resend
<1>2. r.template \in Templates \cup {None} /\ Len(r.data) = 0
    BY <1>0, <1>1, RecordShape
<1>3. /\ LayoutTypeOK' /\ template'[t] = r.template /\ layout'[t] = None
      /\ where'[t] = IF r.template = None THEN "returned" ELSE "get"
      /\ \A u \in Threads \ {t} :
            where'[u] = where[u] /\ template'[u] = template[u] /\ layout'[u] = layout[u]
      /\ UNCHANGED <<layoutMap, size, cyclic, excess, crowded, damaged>>
    BY <1>0, <1>1, <1>2, GetLayoutOK
<1>4. /\ job'[t] = r /\ phase'[t] = "format" /\ texts[t] = <<>> /\ step[t] = "out"
      /\ \A u \in Threads \ {t} : job'[u] = job[u] /\ phase'[u] = phase[u]
    BY <1>0, <1>1 DEF TypeOK, TextsOK, LockInv, CalledByDecrypt
<1>5. TypeOK' /\ CacheOK'
    <2>1. CryptoTypeOK'
        BY <1>0, <1>1 DEF CryptoTypeOK, cryptoVars, Certificates
    <2> QED
        BY <1>0, <1>1, <1>3, <2>1 DEF TypeOK, CacheOK
<1>6. OthersStay(t)
    BY <1>1, <1>3, <1>4 DEF OthersStay, cryptoVars
<1>7. CallOK(t)'
    BY <1>0, <1>1, <1>4 DEF CallOK, Locked, Deriving, cryptoVars
<1>8. TextsOK(t)'
    BY <1>1, <1>2, <1>4 DEF TextsOK
<1>9. FormatOK(t)' /\ ResultOK(t)'
    BY <1>2, <1>3, <1>4 DEF FormatOK, ResultOK
<1> QED
    BY <1>5, <1>6, <1>7, <1>8, <1>9 DEF StepOK, ThreadOK

\* Decrypted.
LEMMA DecryptedOK ==
    ASSUME OutcomeInv, LockInv, NEW t \in Threads, Decrypted(t)
    PROVE  StepOK(t)
<1>0. TypeOK /\ CryptoTypeOK /\ LayoutTypeOK /\ CallOK(t) /\ TextsOK(t) /\ FormatOK(t) /\ CacheOK
    BY DEF OutcomeInv, ThreadOK, TypeOK
<1> DEFINE n == Len(texts[t])
           r == job[t]
           q == texts'[t]
<1>1. /\ phase[t] = "decrypt" /\ step[t] = "returned" /\ n + 1 = Len(r.data)
      /\ texts' = [texts EXCEPT ![t] = Append(texts[t], text[t])]
      /\ step' = [step EXCEPT ![t] = "out"]
      /\ UNCHANGED <<class, lock, keyMap, algs, native, ciphers, arg, cert, text, missed, work, job>>
    BY DEF Decrypted, At, Goto
<1>2. /\ texts' \in [Threads -> Seq({"text", "garbled", "null"})]
      /\ n \in Nat /\ Len(q) = n + 1
      /\ \A i \in 1 .. Len(q) : Gives(t, r.data[i], q[i])
      /\ \A u \in Threads \ {t} : texts'[u] = texts[u]
    BY <1>1, TextsGrow
<1>3. r \in work /\ q \in Seq({"text", "garbled", "null"}) /\ Len(q) = Len(r.data)
    BY <1>0, <1>1, <1>2 DEF TextsOK
<1>4. /\ Len(r.data) \in 1 .. 2 /\ (Len(r.data) = 1 => r.template = None)
      /\ r.template \in Templates \cup {None}
    BY <1>0, <1>1, <1>2, <1>3, RecordShape
<1>5. /\ Range(q) = {q[i] : i \in 1 .. Len(q)}
      /\ "null" \in Range(q) =>
            \/ Range(r.data) \cap {"torn", "mark"} # {}
            \/ Range(r.data) \subseteq {"text"} /\ t \in missed
            \/ "foreign" \in Range(r.data)
      /\ "null" \notin Range(q) =>
            \/ Range(r.data) \subseteq {"text"} /\ q = r.data
            \/ "foreign" \in Range(r.data)
    <2> HIDE DEF q, r
    <2> QED
        BY <1>0, <1>2, <1>3, TextsDecide
<1>6. /\ step'[t] = "out" /\ cert[t] = None /\ job'[t] = r
      /\ \A u \in Threads \ {t} : step'[u] = step[u]
    BY <1>0, <1>1 DEF CryptoTypeOK, CallOK
<1>7. CryptoTypeOK'
    BY <1>0, <1>1 DEF CryptoTypeOK, Certificates, CryptoSteps
<1>8. CallOK(t)'
    BY <1>1, <1>6 DEF CallOK, Locked, Deriving
<1>9. \A d, v : Gives(t, d, v)' <=> Gives(t, d, v)
    BY <1>1 DEF Gives
<1>10. ASSUME NEW o \in {"damaged", "message"}, Finish(t, o), UNCHANGED layoutVars,
              o = "damaged" <=> "null" \in Range(q),
              o = "message" => Len(r.data) = 1
       PROVE  StepOK(t)
    <2>1. /\ phase'[t] = "done" /\ out'[t] = o
          /\ \A u \in Threads \ {t} : phase'[u] = phase[u] /\ out'[u] = out[u]
        BY <1>0, <1>10 DEF Finish, TypeOK
    <2>2. TypeOK' /\ CacheOK'
        BY <1>0, <1>1, <1>2, <1>7, <1>10
           DEF TypeOK, layoutVars, LayoutTypeOK, CacheOK, Finish, Outcomes
    <2>3. OthersStay(t)
        BY <1>1, <1>2, <1>6, <1>10, <2>1 DEF OthersStay, layoutVars
    <2>4. TextsOK(t)'
        BY <1>1, <1>2, <1>3, <1>6, <1>9, <2>1 DEF TextsOK
    <2>5. FormatOK(t)'
        BY <1>0, <1>1, <1>10, <2>1 DEF FormatOK, layoutVars
    <2>6. ResultOK(t)'
        <3>1. layout'[t] = None /\ missed' = missed
            BY <1>0, <1>1, <1>10 DEF FormatOK, layoutVars
        <3>2. CASE o = "damaged"
            BY <1>5, <1>6, <1>10, <2>1, <3>1, <3>2 DEF ResultOK
        <3>3. CASE o = "message"
            <4>1. r.template = None
                BY <1>4, <1>10, <3>3
            <4> QED
                BY <1>5, <1>6, <1>10, <2>1, <3>1, <3>3, <4>1 DEF ResultOK
        <3> QED
            BY <3>2, <3>3
    <2> QED
        BY <1>8, <2>2, <2>3, <2>4, <2>5, <2>6 DEF StepOK, ThreadOK
<1>11. CASE "null" \in Range(q)
    BY <1>10, <1>11 DEF Decrypted
<1>12. CASE "null" \notin Range(q) /\ Len(r.data) = 1
    BY <1>10, <1>12 DEF Decrypted
<1>13. CASE "null" \notin Range(q) /\ Len(r.data) # 1
    <2>1. /\ GetLayout(t, r.template) /\ phase' = [phase EXCEPT ![t] = "format"] /\ out' = out
        BY <1>13 DEF Decrypted
    <2>2. /\ LayoutTypeOK' /\ template'[t] = r.template /\ layout'[t] = None
          /\ where'[t] = IF r.template = None THEN "returned" ELSE "get"
          /\ \A u \in Threads \ {t} :
                where'[u] = where[u] /\ template'[u] = template[u] /\ layout'[u] = layout[u]
          /\ UNCHANGED <<layoutMap, size, cyclic, excess, crowded, damaged>>
        BY <1>0, <1>4, <2>1, GetLayoutOK
    <2>3. phase'[t] = "format" /\ \A u \in Threads \ {t} : phase'[u] = phase[u]
        BY <1>0, <2>1 DEF TypeOK
    <2>4. TypeOK' /\ CacheOK'
        BY <1>0, <1>1, <1>2, <1>7, <2>1, <2>2 DEF TypeOK, CacheOK
    <2>5. OthersStay(t)
        BY <1>1, <1>2, <1>6, <2>1, <2>2, <2>3 DEF OthersStay
    <2>6. TextsOK(t)'
        <3>1. \A i \in 1 .. Len(q) : q[i] # "null"
            BY <1>5, <1>13
        <3> QED
            BY <1>1, <1>2, <1>3, <1>6, <1>9, <2>3, <3>1 DEF TextsOK
    <2>7. FormatOK(t)' /\ ResultOK(t)'
        BY <1>4, <1>6, <2>2, <2>3 DEF FormatOK, ResultOK
    <2> QED
        BY <1>8, <2>4, <2>5, <2>6, <2>7 DEF StepOK, ThreadOK
<1> QED
    BY <1>11, <1>12, <1>13

\* DecryptError, Formatted and Forget.
LEMMA EndingOK ==
    ASSUME OutcomeInv, LockInv, NEW t \in Threads, DecryptError(t) \/ Formatted(t) \/ Forget(t)
    PROVE  StepOK(t)
<1>0. TypeOK /\ CryptoTypeOK /\ LayoutTypeOK /\ CallOK(t) /\ TextsOK(t) /\ FormatOK(t) /\ CacheOK
    BY DEF OutcomeInv, ThreadOK, TypeOK
<1>1. CASE DecryptError(t)
    <2>1. /\ phase[t] = "decrypt" /\ step[t] = "thrown" /\ step' = [step EXCEPT ![t] = "out"]
          /\ Finish(t, "error")
          /\ UNCHANGED <<class, lock, keyMap, algs, native, ciphers, arg, cert, text, missed,
                         layoutVars, work, job, texts>>
        BY <1>1 DEF DecryptError, At, Goto
    <2>2. /\ step'[t] = "out" /\ phase'[t] = "done" /\ out'[t] = "error" /\ cert[t] = None
          /\ class = "failed"
          /\ \A u \in Threads \ {t} :
                step'[u] = step[u] /\ phase'[u] = phase[u] /\ out'[u] = out[u]
        BY <1>0, <2>1 DEF CryptoTypeOK, TypeOK, Finish, CallOK
    <2>3. CryptoTypeOK'
        BY <1>0, <2>1 DEF CryptoTypeOK, Certificates, CryptoSteps
    <2>4. TypeOK' /\ CacheOK'
        BY <1>0, <2>1, <2>3 DEF TypeOK, layoutVars, LayoutTypeOK, CacheOK, Finish, Outcomes
    <2>5. OthersStay(t)
        BY <2>1, <2>2 DEF OthersStay, layoutVars
    <2>6. CallOK(t)'
        BY <2>1, <2>2 DEF CallOK, Locked, Deriving
    <2>7. TextsOK(t)'
        <3>1. \A d, v : Gives(t, d, v)' <=> Gives(t, d, v)
            BY <2>1 DEF Gives
        <3> QED
            BY <1>0, <2>1, <2>2, <3>1 DEF TextsOK
    <2>8. FormatOK(t)' /\ ResultOK(t)'
        BY <1>0, <2>1, <2>2 DEF FormatOK, ResultOK, layoutVars
    <2> QED
        BY <2>4, <2>5, <2>6, <2>7, <2>8 DEF StepOK, ThreadOK
<1>2. CASE Formatted(t)
    <2> DEFINE r == job[t]
               q == texts[t]
    <2>1. /\ phase[t] = "format" /\ where[t] \in {"returned", "thrown"}
          /\ where' = [where EXCEPT ![t] = "out"]
          /\ UNCHANGED <<cryptoVars, layoutMap, size, cyclic, template, excess, layout, crowded,
                         damaged, work, job, texts>>
        BY <1>2 DEF Formatted, GoTo
    <2>2. PICK o \in {"exception", "message"} :
                Finish(t, o) /\ (o = "exception" <=> where[t] = "thrown")
        BY <1>2 DEF Formatted
    <2>3. /\ where'[t] = "out" /\ phase'[t] = "done" /\ out'[t] = o /\ step[t] = "out"
          /\ \A u \in Threads \ {t} :
                where'[u] = where[u] /\ phase'[u] = phase[u] /\ out'[u] = out[u]
        BY <1>0, <2>1, <2>2 DEF LayoutTypeOK, TypeOK, Finish, LockInv, CalledByDecrypt
    <2>4. TypeOK' /\ CacheOK'
        <3>1. CryptoTypeOK' /\ LayoutTypeOK' /\ CacheOK'
            BY <1>0, <2>1
               DEF CryptoTypeOK, LayoutTypeOK, CacheOK, cryptoVars, Certificates, LayoutSteps
        <3> QED
            BY <1>0, <2>1, <2>2, <3>1 DEF TypeOK, Finish, Outcomes
    <2>5. OthersStay(t)
        BY <2>1, <2>3 DEF OthersStay, cryptoVars
    <2>6. CallOK(t)'
        BY <1>0, <2>1, <2>3 DEF CallOK, Locked, Deriving, cryptoVars
    <2>7. TextsOK(t)'
        <3>1. \A d, v : Gives(t, d, v)' <=> Gives(t, d, v)
            BY <2>1 DEF Gives, cryptoVars
        <3> QED
            BY <1>0, <2>1, <2>3, <3>1 DEF TextsOK
    <2>8. FormatOK(t)'
        BY <1>0, <2>1, <2>3 DEF FormatOK
    <2>9. ResultOK(t)'
        <3>1. /\ r \in work /\ q \in Seq({"text", "garbled", "null"}) /\ Len(q) = Len(r.data)
              /\ \A i \in 1 .. Len(q) : Gives(t, r.data[i], q[i]) /\ q[i] # "null"
            BY <1>0, <2>1 DEF TextsOK, TypeOK
        <3>2. (Range(r.data) \subseteq {"text"} /\ q = r.data) \/ "foreign" \in Range(r.data)
            <4> HIDE DEF r, q
            <4>1. Range(q) = {q[i] : i \in 1 .. Len(q)}
                BY <1>0, <3>1, TextsDecide
            <4>2. "null" \notin Range(q)
                BY <3>1, <4>1
            <4> QED
                BY <1>0, <3>1, <4>2, TextsDecide
        <3>3. /\ template[t] = r.template
              /\ o = "message" => layout[t] = template[t]
              /\ o = "exception" => template[t] \in Improper \/ crowded
            BY <1>0, <2>1, <2>2 DEF FormatOK
        <3> QED
            BY <2>1, <2>2, <2>3, <3>2, <3>3 DEF ResultOK
    <2> QED
        BY <2>4, <2>5, <2>6, <2>7, <2>8, <2>9 DEF StepOK, ThreadOK
<1>3. CASE Forget(t)
    <2>1. /\ phase[t] = "done"
          /\ job' = [job EXCEPT ![t] = None] /\ phase' = [phase EXCEPT ![t] = "idle"]
          /\ texts' = [texts EXCEPT ![t] = <<>>] /\ out' = [out EXCEPT ![t] = "none"]
          /\ text' = [text EXCEPT ![t] = "null"] /\ missed' = missed \ {t}
          /\ template' = [template EXCEPT ![t] = None] /\ layout' = [layout EXCEPT ![t] = None]
          /\ UNCHANGED <<class, lock, keyMap, algs, native, ciphers, step, arg, cert,
                         layoutMap, size, cyclic, where, excess, crowded, damaged, work>>
        BY <1>3 DEF Forget
    <2>2. /\ phase'[t] = "idle" /\ texts'[t] = <<>> /\ layout'[t] = None
          /\ step[t] = "out" /\ where[t] = "out"
        BY <1>0, <2>1 DEF TypeOK, LayoutTypeOK, LockInv, CalledByDecrypt, FormatOK
    <2>3. \A u \in Threads \ {t} :
              /\ job'[u] = job[u] /\ phase'[u] = phase[u] /\ texts'[u] = texts[u]
              /\ out'[u] = out[u] /\ text'[u] = text[u]
              /\ template'[u] = template[u] /\ layout'[u] = layout[u]
        BY <1>0, <2>1 DEF TypeOK, CryptoTypeOK, LayoutTypeOK
    <2>4. TypeOK' /\ CacheOK'
        <3>1. CryptoTypeOK'
            BY <1>0, <2>1 DEF CryptoTypeOK, Certificates
        <3>2. LayoutTypeOK' /\ CacheOK'
            BY <1>0, <2>1 DEF LayoutTypeOK, CacheOK
        <3>3. texts' \in [Threads -> Seq({"text", "garbled", "null"})]
            BY <1>0, <2>1 DEF TypeOK
        <3> QED
            BY <1>0, <2>1, <3>1, <3>2, <3>3 DEF TypeOK, Outcomes
    <2>5. OthersStay(t)
        BY <2>1, <2>3 DEF OthersStay
    <2>6. CallOK(t)'
        BY <1>0, <2>1, <2>2 DEF CallOK, Locked, Deriving
    <2>7. TextsOK(t)' /\ FormatOK(t)' /\ ResultOK(t)'
        BY <2>1, <2>2 DEF TextsOK, FormatOK, ResultOK
    <2> QED
        BY <2>4, <2>5, <2>6, <2>7 DEF StepOK, ThreadOK
<1> QED
    BY <1>1, <1>2, <1>3

-----------------------------------------------------------------------------
(* The invariant and the theorems. *)

\* The invariant is inductive, with the one of the lock.
LEMMA OutcomeStep == OutcomeInv /\ LockInv /\ [Next]_vars => OutcomeInv'
<1> SUFFICES ASSUME OutcomeInv, LockInv, [Next]_vars PROVE OutcomeInv'
    OBVIOUS
<1>1. ASSUME NEW t \in Threads, StepOK(t) PROVE OutcomeInv'
    <2>1. \A u \in Threads \ {t} : ThreadOK(u)'
        BY <1>1, Waits DEF StepOK, OutcomeInv
    <2> QED
        BY <1>1, <2>1 DEF StepOK, OutcomeInv
<1>2. CASE UNCHANGED vars
    <2>1. TypeOK' /\ CacheOK'
        BY <1>2 DEF OutcomeInv, TypeOK, CryptoTypeOK, LayoutTypeOK, CacheOK, Certificates,
                    vars, cryptoVars, layoutVars, callerVars
    <2>2. ASSUME NEW u \in Threads PROVE ThreadOK(u)'
        <3>1. Chunk(u)' = Chunk(u) /\ Mode(u)' = Mode(u)
            BY <1>2 DEF Chunk, Mode, vars, cryptoVars, callerVars
        <3>2. \A d, v : Gives(u, d, v) <=> Gives(u, d, v)'
            BY <1>2 DEF Gives, vars, cryptoVars
        <3>3. CallOK(u)'
            BY <1>2, <3>1, <3>2
               DEF OutcomeInv, ThreadOK, CallOK, Certificates, vars, cryptoVars, callerVars
        <3>4. TextsOK(u)'
            BY <1>2, <3>2 DEF OutcomeInv, ThreadOK, TextsOK, vars, cryptoVars, callerVars
        <3>5. FormatOK(u)' /\ ResultOK(u)'
            BY <1>2 DEF OutcomeInv, ThreadOK, FormatOK, ResultOK, vars, cryptoVars, layoutVars,
                        callerVars
        <3> QED
            BY <3>3, <3>4, <3>5 DEF ThreadOK
    <2> QED
        BY <2>1, <2>2 DEF OutcomeInv
<1>3. ASSUME NEW t \in Threads, NEW r \in work, Begin(t, r) \/ Resend(t, r)
      PROVE  OutcomeInv'
    BY <1>1, <1>3, BeginOK, ResendOK
<1>4. ASSUME NEW t \in Threads, ThreadStep(t)
      PROVE  OutcomeInv'
    <2>1. CASE Hangs(t)
        BY <1>2, <2>1 DEF Hangs
    <2> QED
        BY <1>1, <1>4, <2>1, CryptoStepOK, LayoutStepOK, DecryptNextOK, DecryptedOK, EndingOK
           DEF ThreadStep
<1> QED
    BY <1>2, <1>3, <1>4 DEF Next

\* It holds when nothing has been decoded.
LEMMA OutcomeInit == Init => OutcomeInv
<1> SUFFICES ASSUME Init PROVE OutcomeInv
    OBVIOUS
<1>1. CryptoTypeOK
    BY CryptoAssumption DEF Init, CryptoInit, CryptoTypeOK, CryptoSteps
<1>2. LayoutTypeOK /\ CacheOK
    <2>1. DOMAIN layoutMap = {} /\ size = 0 /\ MaxCapacity \in Nat
        BY LayoutAssumption DEF Init, LayoutInit
    <2>2. Range(layoutMap) = {}
        BY <2>1 DEF Range
    <2>3. CacheOK
        BY <2>1 DEF CacheOK
    <2>4. /\ where \in [Threads -> LayoutSteps] /\ template \in [Threads -> Templates \cup {None}]
          /\ excess \in [Threads -> Nat] /\ layout \in [Threads -> Templates \cup {None}]
        BY DEF Init, LayoutInit, LayoutSteps
    <2>5. cyclic \in BOOLEAN /\ crowded \in BOOLEAN /\ damaged \in BOOLEAN
        BY DEF Init, LayoutInit
    <2>6. DOMAIN layoutMap \subseteq Templates \ Improper /\ Range(layoutMap) \subseteq Templates
          /\ size \in Nat
        BY <2>1, <2>2
    <2> QED
        BY <2>3, <2>4, <2>5, <2>6 DEF LayoutTypeOK
<1>3. TypeOK
    BY <1>1, <1>2 DEF Init, TypeOK, Outcomes
<1>4. \A t \in Threads : ThreadOK(t)
    BY DEF Init, CryptoInit, LayoutInit, ThreadOK, CallOK, TextsOK, FormatOK, ResultOK, Locked,
           Deriving
<1> QED
    BY <1>2, <1>3, <1>4 DEF OutcomeInv

\* Every reachable state is well typed: among others, a certificate in keyMap or in a
\* thread's hands is one of its own application, and no improper template is cached.
THEOREM TypeCorrect == SafeSpec => []TypeOK
<1>1. OutcomeInv => TypeOK
    BY DEF OutcomeInv
<1> QED
    BY <1>1, LockInit, LockStep, OutcomeInit, OutcomeStep, PTL DEF SafeSpec

\* What a record becomes depends on the record alone, however many threads decrypt and
\* format at the same time: the text of a sound one arrives whole and with its own
\* layout, a damaged one is noticed.
THEOREM OutcomesAreOwn == SafeSpec => []OwnOutcome
<1>1. OutcomeInv => OwnOutcome
    BY DEF OutcomeInv, ThreadOK, ResultOK, OwnOutcome
<1> QED
    BY <1>1, LockInit, LockStep, OutcomeInit, OutcomeStep, PTL DEF SafeSpec

-----------------------------------------------------------------------------
(* The size of the cache. *)

\* The threads that have decided to put.
Putters == {t \in Threads : where[t] = "put"}

\* Entries and decided puts together stay within the bound: a thread decides when the
\* size allows it, whatever the others have decided, or pays with a removal.
CacheInv ==
    ~damaged => /\ IsFiniteSet(DOMAIN layoutMap)
                /\ size = Cardinality(DOMAIN layoutMap)
                /\ size + Cardinality(Putters) <= MaxCapacity + Cardinality(Threads)

\* The number of threads that have decided is a number, as their set is finite.
LEMMA PuttersCount ==
    ASSUME NEW S \in SUBSET Threads
    PROVE  /\ IsFiniteSet(S) /\ Cardinality(S) \in Nat /\ Cardinality(Threads) \in Nat
           /\ Cardinality(S) <= Cardinality(Threads)
<1>1. IsFiniteSet(Threads)
    BY LayoutAssumption
<1> QED
    BY <1>1, FS_Subset, FS_CardinalityType

\* A step that neither changes the cache nor decides to put.
LEMMA CacheQuiet ==
    ASSUME CacheInv, UNCHANGED <<layoutMap, size, damaged>>, size \in Nat, Putters' \subseteq Putters
    PROVE  CacheInv'
<1>1. Putters \in SUBSET Threads /\ Putters' \in SUBSET Threads /\ MaxCapacity \in Nat
    BY LayoutAssumption DEF Putters
<1>2. Cardinality(Putters') <= Cardinality(Putters) /\ Cardinality(Putters) \in Nat
      /\ Cardinality(Putters') \in Nat /\ Cardinality(Threads) \in Nat
    BY <1>1, PuttersCount, FS_Subset
<1> QED
    BY <1>1, <1>2 DEF CacheInv

\* The decision, the removal and the put.
LEMMA CacheChanges ==
    ASSUME OutcomeInv, CacheInv, NEW t \in Threads, Size(t) \/ Evict(t) \/ Put(t)
    PROVE  CacheInv'
<1>0. /\ LayoutTypeOK /\ FormatOK(t) /\ MaxCapacity \in Nat /\ Putters \in SUBSET Threads
      /\ Putters' \in SUBSET Threads
    BY LayoutAssumption DEF OutcomeInv, TypeOK, ThreadOK, Putters
<1>1. /\ Cardinality(Putters) \in Nat /\ Cardinality(Putters') \in Nat /\ IsFiniteSet(Putters)
      /\ Cardinality(Threads) \in Nat /\ Cardinality(Putters') <= Cardinality(Threads)
    BY <1>0, PuttersCount
<1>2. CASE Size(t)
    <2>1. UNCHANGED <<layoutMap, size, damaged>>
        BY <1>2 DEF Size
    <2>2. CASE size <= MaxCapacity
        BY <1>0, <1>1, <2>1, <2>2 DEF CacheInv, LayoutTypeOK
    <2>3. CASE ~(size <= MaxCapacity)
        <3>1. excess'[t] > 0
            BY <1>0, <1>2, <2>3 DEF Size, LayoutTypeOK
        <3>2. where' = [where EXCEPT ![t] = "evict"]
            BY <1>2, <3>1 DEF Size, GoTo
        <3>3. Putters' \subseteq Putters
            BY <1>0, <3>2 DEF Putters, LayoutTypeOK
        <3> QED
            BY <1>0, <2>1, <3>3, CacheQuiet DEF LayoutTypeOK
    <2> QED
        BY <2>2, <2>3
<1>3. CASE Evict(t)
    <2> SUFFICES ASSUME ~damaged'
                 PROVE  /\ IsFiniteSet(DOMAIN layoutMap')
                        /\ size' = Cardinality(DOMAIN layoutMap')
                        /\ size' + Cardinality(Putters') <= MaxCapacity + Cardinality(Threads)
        BY DEF CacheInv
    <2>1. PICK p \in DOMAIN layoutMap :
                /\ Becomes(Restrict(layoutMap, DOMAIN layoutMap \ {p}), size - 1)
                /\ damaged' = damaged
        BY <1>3 DEF Evict, Changed
    <2> DEFINE D == DOMAIN layoutMap
               E == DOMAIN layoutMap'
    <2>2. E = D \ {p} /\ p \in D /\ size' = size - 1
        BY <2>1 DEF Becomes, Restrict
    <2>3. /\ IsFiniteSet(D) /\ size = Cardinality(D)
          /\ size + Cardinality(Putters) <= MaxCapacity + Cardinality(Threads)
        BY <2>1 DEF CacheInv
    <2>4. Putters' \subseteq Putters \cup {t}
        BY <1>0, <1>3 DEF Evict, GoTo, Putters, LayoutTypeOK
    <2>5. Cardinality(Putters') <= Cardinality(Putters) + 1
        <3> DEFINE S == Putters
                   T == Putters'
        <3>1. IsFiniteSet(S) /\ T \subseteq S \cup {t} /\ Cardinality(S) \in Nat
            BY <1>1, <2>4
        <3> HIDE DEF S, T
        <3>2. IsFiniteSet(S \cup {t}) /\ Cardinality(S \cup {t}) <= Cardinality(S) + 1
            BY <3>1, FS_AddElement
        <3>3. Cardinality(T) <= Cardinality(S \cup {t}) /\ Cardinality(T) \in Nat
              /\ Cardinality(S \cup {t}) \in Nat
            BY <3>1, <3>2, FS_Subset, FS_CardinalityType
        <3>4. Cardinality(T) <= Cardinality(S) + 1
            BY <3>1, <3>2, <3>3
        <3> QED
            BY <3>4 DEF S, T
    <2> HIDE DEF D, E
    <2>6. IsFiniteSet(E) /\ Cardinality(E) = Cardinality(D) - 1
        BY <2>2, <2>3, FS_RemoveElement
    <2>7. size' + Cardinality(Putters') <= MaxCapacity + Cardinality(Threads)
        BY <1>0, <1>1, <2>2, <2>3, <2>5 DEF LayoutTypeOK
    <2>8. size' = Cardinality(E)
        BY <2>2, <2>3, <2>6
    <2> QED
        BY <2>6, <2>7, <2>8 DEF E
<1>4. CASE Put(t)
    <2> SUFFICES ASSUME ~damaged'
                 PROVE  /\ IsFiniteSet(DOMAIN layoutMap')
                        /\ size' = Cardinality(DOMAIN layoutMap')
                        /\ size' + Cardinality(Putters') <= MaxCapacity + Cardinality(Threads)
        BY DEF CacheInv
    <2> DEFINE D == DOMAIN layoutMap
               E == DOMAIN layoutMap'
               p == template[t]
    <2>1. damaged' = damaged /\ E = D \cup {p} /\ size' = IF p \in D THEN size ELSE size + 1
        BY <1>4 DEF Put, Changed, Becomes, With
    <2>2. /\ IsFiniteSet(D) /\ size = Cardinality(D)
          /\ size + Cardinality(Putters) <= MaxCapacity + Cardinality(Threads)
        BY <2>1 DEF CacheInv
    <2>3. Putters' = Putters \ {t} /\ t \in Putters
        BY <1>0, <1>4 DEF Put, In, GoTo, Putters, LayoutTypeOK
    <2>4. Cardinality(Putters') = Cardinality(Putters) - 1
        <3> DEFINE S == Putters
        <3>1. IsFiniteSet(S) /\ t \in S /\ Putters' = S \ {t}
            BY <1>1, <2>3
        <3> HIDE DEF S
        <3>2. Cardinality(S \ {t}) = Cardinality(S) - 1
            BY <3>1, FS_RemoveElement
        <3> QED
            BY <3>1, <3>2 DEF S
    <2> HIDE DEF D, E, p
    <2>5. IsFiniteSet(E) /\ Cardinality(E) = IF p \in D THEN Cardinality(D) ELSE Cardinality(D) + 1
        BY <2>1, <2>2, FS_AddElement
    <2>6. size' + Cardinality(Putters') <= MaxCapacity + Cardinality(Threads)
        BY <1>0, <1>1, <2>1, <2>2, <2>4 DEF LayoutTypeOK
    <2>7. size' = Cardinality(E)
        BY <2>1, <2>2, <2>5
    <2> QED
        BY <2>5, <2>6, <2>7 DEF E
<1> QED
    BY <1>2, <1>3, <1>4

\* The bound is inductive, with what the threads know.
LEMMA CacheStep == OutcomeInv /\ CacheInv /\ [Next]_vars => CacheInv'
<1> SUFFICES ASSUME OutcomeInv, CacheInv, [Next]_vars PROVE CacheInv'
    OBVIOUS
<1>0. size \in Nat /\ where \in [Threads -> LayoutSteps]
    BY DEF OutcomeInv, TypeOK, LayoutTypeOK
<1>1. CASE UNCHANGED layoutVars
    BY <1>0, <1>1, CacheQuiet DEF layoutVars, Putters
<1>2. ASSUME NEW t \in Threads, NEW s, s # "put", GoTo(t, s),
             UNCHANGED <<layoutMap, size, damaged>>
      PROVE  CacheInv'
    <2>1. Putters' \subseteq Putters
        BY <1>0, <1>2 DEF GoTo, Putters
    <2> QED
        BY <1>0, <1>2, <2>1, CacheQuiet
<1>3. ASSUME NEW t \in Threads, NEW p, GetLayout(t, p) PROVE CacheInv'
    BY <1>2, <1>3 DEF GetLayout
<1>4. ASSUME NEW t \in Threads, NEW r \in work, Begin(t, r) \/ Resend(t, r)
      PROVE  CacheInv'
    BY <1>1, <1>3, <1>4 DEF Begin, Resend
<1>5. ASSUME NEW t \in Threads, ThreadStep(t)
      PROVE  CacheInv'
    <2>1. CASE LayoutStep(t)
        <3>1. CASE Size(t) \/ Evict(t) \/ Put(t)
            BY <3>1, CacheChanges
        <3>2. CASE Hit(t) \/ Miss(t) \/ EvictThrows(t) \/ Loops(t)
            BY <1>2, <3>2 DEF Hit, Miss, EvictThrows, Loops
        <3> QED
            BY <2>1, <3>1, <3>2 DEF LayoutStep
    <2>2. CASE Decrypted(t)
        BY <1>1, <1>3, <2>2 DEF Decrypted
    <2>3. CASE Formatted(t)
        BY <1>2, <2>3 DEF Formatted
    <2>4. CASE Forget(t)
        <3>1. UNCHANGED <<layoutMap, size, damaged, where>>
            BY <2>4 DEF Forget
        <3> QED
            BY <1>0, <3>1, CacheQuiet DEF Putters
    <2>5. CASE UNCHANGED layoutVars
        BY <1>1, <2>5
    <2> QED
        BY <1>5, <2>1, <2>2, <2>3, <2>4, <2>5
           DEF ThreadStep, DecryptNext, DecryptError, Hangs, vars
<1> QED
    BY <1>1, <1>4, <1>5 DEF Next, vars

\* At first the cache is empty.
LEMMA CacheInit == Init => CacheInv
<1> SUFFICES ASSUME Init PROVE CacheInv
    OBVIOUS
<1>1. DOMAIN layoutMap = {} /\ size = 0 /\ Putters = {} /\ MaxCapacity \in Nat
    BY LayoutAssumption DEF Init, LayoutInit, Putters
<1>2. IsFiniteSet({}) /\ Cardinality({}) = 0
    BY FS_EmptySet
<1>3. Cardinality(Threads) \in Nat
    BY LayoutAssumption, FS_CardinalityType
<1> QED
    BY <1>1, <1>2, <1>3 DEF CacheInv

\* Unless a race damages the map, the cache never exceeds its capacity by more than
\* the number of threads, although check and put are apart.
THEOREM CacheIsBounded == SafeSpec => []CacheBounded
<1>1. OutcomeInv /\ CacheInv => CacheBounded
    <2> SUFFICES ASSUME OutcomeInv, CacheInv, ~damaged
                 PROVE  Cardinality(DOMAIN layoutMap) <= MaxCapacity + Cardinality(Threads)
        BY DEF CacheBounded
    <2>1. Putters \in SUBSET Threads /\ MaxCapacity \in Nat /\ size \in Nat
        BY LayoutAssumption DEF Putters, OutcomeInv, TypeOK, LayoutTypeOK
    <2>2. Cardinality(Putters) \in Nat /\ Cardinality(Threads) \in Nat
        BY <2>1, PuttersCount
    <2> QED
        BY <2>1, <2>2 DEF CacheInv
<1> QED
    BY <1>1, LockInit, LockStep, OutcomeInit, OutcomeStep, CacheInit, CacheStep, PTL DEF SafeSpec
=============================================================================
