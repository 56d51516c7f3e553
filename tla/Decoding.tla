------------------------------ MODULE Decoding ------------------------------
(***************************************************************************)
(* What a record of a log file, or the payload of a report, becomes while  *)
(* several threads decode at the same time: the composition of CryptoTool  *)
(* and LayoutCache by their callers, parse.LogFileParser with              *)
(* LogFileParseTask.output and GraylogClientService.createMessage, and     *)
(* ClientRestController.decryptPayload.                                    *)
(*                                                                         *)
(* Intake takes what a record becomes for a property of the record.  This  *)
(* module says how far that is so.                                         *)
(***************************************************************************)
EXTENDS CryptoTool, LayoutCache

CONSTANT
    Workloads   \* sets of records that may come together

\* A log line has a tag and a message, both encrypted; a payload is one chunk and
\* has no layout; a message that is sent again was decrypted before.
Record == [key : Apps \cup Sessions, data : {<<>>} \cup (Chunks \X Chunks),
           template : Templates \cup {None}]
          \cup [key : Apps \cup Sessions, data : {<<c>> : c \in Chunks}, template : {None}]

ASSUME WorkloadsAssumption == Workloads \subseteq SUBSET Record

VARIABLES
    work,   \* the records that come in this behaviour
    job,    \* the record each thread decodes
    phase,  \* "idle", "decrypt", "format", "done"
    texts,  \* what the calls of AESDecrypt for it have returned
    out     \* what it became

callerVars == <<work, job, phase, texts, out>>
vars == <<cryptoVars, layoutVars, callerVars>>

Outcomes == {"none", "message", "damaged", "exception", "error"}

TypeOK ==
    /\ CryptoTypeOK
    /\ LayoutTypeOK
    /\ work \in Workloads
    /\ job \in [Threads -> work \cup {None}]
    /\ phase \in [Threads -> {"idle", "decrypt", "format", "done"}]
    /\ texts \in [Threads -> Seq({"text", "garbled", "null"})]
    /\ out \in [Threads -> Outcomes]

Init ==
    /\ CryptoInit
    /\ LayoutInit
    /\ work \in Workloads
    /\ job = [t \in Threads |-> None]
    /\ phase = [t \in Threads |-> "idle"]
    /\ texts = [t \in Threads |-> <<>>]
    /\ out = [t \in Threads |-> "none"]

-----------------------------------------------------------------------------
\* The caller knows what becomes of its record.
Finish(t, o) ==
    /\ phase' = [phase EXCEPT ![t] = "done"]
    /\ out' = [out EXCEPT ![t] = o]

\* A thread takes a record and decrypts its first chunk.
Begin(t, r) ==
    /\ phase[t] = "idle"
    /\ job' = [job EXCEPT ![t] = r]
    /\ phase' = [phase EXCEPT ![t] = "decrypt"]
    /\ r.data /= <<>>
    /\ Call(t, r.key, r.data[1])
    /\ UNCHANGED <<missed, layoutVars, work, texts, out>>

\* write() of a message of retryPutQueue starts with createMessage.
Resend(t, r) ==
    /\ phase[t] = "idle"
    /\ job' = [job EXCEPT ![t] = r]
    /\ phase' = [phase EXCEPT ![t] = "format"]
    /\ r.data = <<>>
    /\ GetLayout(t, r.template)
    /\ UNCHANGED <<cryptoVars, work, texts, out>>

\* The tag is decrypted; the message is, too, whatever came out.
DecryptNext(t) ==
    /\ phase[t] = "decrypt"
    /\ At(t, "returned")
    /\ Len(texts[t]) + 1 < Len(job[t].data)
    /\ texts' = [texts EXCEPT ![t] = Append(@, text[t])]
    /\ Call(t, job[t].key, job[t].data[Len(texts[t]) + 2])
    /\ UNCHANGED <<missed, layoutVars, work, job, phase, out>>

\* All is decrypted.  One null makes the record damaged; otherwise a log line is
\* formatted with the layout of its template.
Decrypted(t) ==
    /\ phase[t] = "decrypt"
    /\ At(t, "returned")
    /\ Len(texts[t]) + 1 = Len(job[t].data)
    /\ texts' = [texts EXCEPT ![t] = Append(@, text[t])]
    /\ Goto(t, "out")
    /\ IF "null" \in Range(texts'[t])
       THEN Finish(t, "damaged") /\ UNCHANGED layoutVars
       ELSE IF Len(job[t].data) = 1
            THEN Finish(t, "message") /\ UNCHANGED layoutVars
            ELSE /\ GetLayout(t, job[t].template)
                 /\ phase' = [phase EXCEPT ![t] = "format"]
                 /\ UNCHANGED out
    /\ UNCHANGED <<class, lock, keyMap, algs, native, ciphers, arg, cert, text, missed, work,
                   job>>

\* An Error of the class passes the parser's catch (Exception).
DecryptError(t) ==
    /\ phase[t] = "decrypt"
    /\ At(t, "thrown")
    /\ Goto(t, "out")
    /\ Finish(t, "error")
    /\ UNCHANGED <<class, lock, keyMap, algs, native, ciphers, arg, cert, text, missed,
                   layoutVars, work, job, texts>>

\* createMessage has its layout, or ends with an exception.
Formatted(t) ==
    /\ phase[t] = "format"
    /\ where[t] \in {"returned", "thrown"}
    /\ GoTo(t, "out")
    /\ Finish(t, IF where[t] = "thrown" THEN "exception" ELSE "message")
    /\ UNCHANGED <<cryptoVars, layoutMap, size, cyclic, template, excess, layout, crowded, damaged,
                   work, job, texts>>

\* It forgets the record, and what its calls returned.
Forget(t) ==
    /\ phase[t] = "done"
    /\ job' = [job EXCEPT ![t] = None]
    /\ phase' = [phase EXCEPT ![t] = "idle"]
    /\ texts' = [texts EXCEPT ![t] = <<>>]
    /\ out' = [out EXCEPT ![t] = "none"]
    /\ text' = [text EXCEPT ![t] = "null"]
    /\ missed' = missed \ {t}
    /\ template' = [template EXCEPT ![t] = None]
    /\ layout' = [layout EXCEPT ![t] = None]
    /\ UNCHANGED <<class, lock, keyMap, algs, native, ciphers, step, arg, cert,
                   layoutMap, size, cyclic, where, excess, crowded, damaged, work>>

\* A thread in the cycle of the map keeps running in it.
Hangs(t) == In(t, "hang") /\ UNCHANGED vars

ThreadStep(t) ==
    \/ CryptoStep(t) /\ UNCHANGED <<layoutVars, callerVars>>
    \/ LayoutStep(t) /\ UNCHANGED <<cryptoVars, callerVars>>
    \/ DecryptNext(t)
    \/ Decrypted(t)
    \/ DecryptError(t)
    \/ Formatted(t)
    \/ Forget(t)
    \/ Hangs(t)

Next == \E t \in Threads : (\E r \in work : Begin(t, r) \/ Resend(t, r)) \/ ThreadStep(t)

SafeSpec == Init /\ [][Next]_vars

\* Threads run; nothing makes a record arrive.
Spec == SafeSpec /\ \A t \in Threads : WF_vars(ThreadStep(t))

-----------------------------------------------------------------------------
\* LogFileParser: what a record becomes depends on the record alone, whatever
\* other threads decrypt or format: the text of a sound one arrives whole and
\* with its own layout, a damaged one is noticed.  The exceptions are a native
\* library that could not be loaded, a failure of OpenSSL or of a Cipher in one of the
\* record's own calls, and a cache that is beyond its capacity.
OwnOutcome ==
    \A t \in Threads : LET r == job[t] IN
        phase[t] = "done" =>
            \/ out[t] = "error" /\ class = "failed"
            \/ Range(r.data) \cap {"torn", "mark"} /= {} /\ out[t] = "damaged"
            \/ Range(r.data) \subseteq {"text"} /\
                  \/ out[t] = "message" /\ texts[t] = r.data /\ layout[t] = r.template
                  \/ out[t] = "exception" /\ (r.template \in Improper \/ crowded)
                  \/ out[t] = "damaged" /\ t \in missed
            \/ "foreign" \in Range(r.data)
=============================================================================
