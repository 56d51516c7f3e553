----------------------------- MODULE CryptoTool -----------------------------
(***************************************************************************)
(* util.CryptoTool and the native function it calls, security of           *)
(* native/interface.c.                                                     *)
(*                                                                         *)
(* Both AESDecrypt methods are synchronized and static, so all calls share *)
(* the lock of the class.  Data of an old client are encrypted with a key  *)
(* OpenSSL derives from the application id; the derived certificate is     *)
(* kept in keyMap.  A new client sends its key.  What is encrypted is      *)
(* represented by how it decrypts:                                         *)
(*   "text"     is encrypted with the key of the call;                     *)
(*   "foreign"  with another one;                                          *)
(*   "torn"     is not of the expected form;                               *)
(*   "mark"     is missing, or a mark the client wrote instead             *)
(*              (errorBytes, CRYPTO_ERROR).                                *)
(* A key is the sequence of its halves of 32 bytes.  EVP_BytesToKey fills  *)
(* the first one; the other is whatever the stack held.                    *)
(***************************************************************************)
EXTENDS Integers, Sequences, DecodingThreads

CONSTANTS
    Apps,      \* application ids of old clients
    Sessions,  \* keys of new clients
    Garbage    \* what the uninitialised half of the native key may hold

Chunks == {"text", "foreign", "torn", "mark"}
Algorithms == {"aes-256-cbc", "md5"}

ASSUME CryptoAssumption ==
    /\ Apps \cap Sessions = {}
    /\ None \notin Threads \cup Apps \cup Sessions
    /\ Garbage /= {}

VARIABLES
    class,    \* has the class been initialised?
    lock,     \* owner of the lock of the class
    keyMap,   \* derived certificate of each application
    algs,     \* OpenSSL's table of algorithms
    native,   \* the C globals cipher and dgst: are they set?
    ciphers,  \* keys the two Cipher objects were last initialised with
    step,     \* where each thread is in AESDecrypt
    arg,      \* its arguments
    cert,     \* its certificate
    text,     \* what it returns
    missed    \* threads for whose present record OpenSSL or a Cipher has failed

cryptoVars == <<class, lock, keyMap, algs, native, ciphers, step, arg, cert,
                text, missed>>

\* The certificates of application a; of iv nothing is left undefined.
Certificates(a) == {<<a, g>> : g \in Garbage}

CryptoSteps == {"out", "call", "keyMap", "load", "find", "derive", "put", "init",
                "final", "leave", "returned", "thrown"}

CryptoTypeOK ==
    /\ class \in {"none", "loaded", "failed"}
    /\ lock \in Threads \cup {None}
    /\ DOMAIN keyMap = Apps /\ \A a \in Apps : keyMap[a] \in Certificates(a) \cup {None}
    /\ algs \subseteq Algorithms
    /\ native \in [cipher : BOOLEAN, dgst : BOOLEAN]
    /\ DOMAIN ciphers = {"cbc", "ecb"}
    /\ step \in [Threads -> CryptoSteps]
    /\ arg \in [Threads -> [key : Apps \cup Sessions, data : Chunks] \cup {None}]
    /\ DOMAIN cert = Threads
    /\ \A t \in Threads : cert[t] = None \/ cert[t] \in Certificates(arg[t].key)
    /\ text \in [Threads -> {"text", "garbled", "null"}]
    /\ missed \subseteq Threads

CryptoInit ==
    /\ class = "none"
    /\ lock = None
    /\ keyMap = [a \in Apps |-> None]
    /\ algs = {}
    /\ native = [cipher |-> FALSE, dgst |-> FALSE]
    /\ ciphers = [cbc |-> <<>>, ecb |-> <<>>]
    /\ step = [t \in Threads |-> "out"]
    /\ arg = [t \in Threads |-> None]
    /\ cert = [t \in Threads |-> None]
    /\ text = [t \in Threads |-> "null"]
    /\ missed = {}

At(t, s) == step[t] = s
Goto(t, s) == step' = [step EXCEPT ![t] = s]

\* The method returns v; the lock is still held.
Return(t, v) ==
    /\ text' = [text EXCEPT ![t] = v]
    /\ Goto(t, "leave")

-----------------------------------------------------------------------------
(* Entry and exit. *)

\* A caller calls AESDecrypt(key, data).
Call(t, key, data) ==
    /\ Goto(t, "call")
    /\ arg' = [arg EXCEPT ![t] = [key |-> key, data |-> data]]
    /\ text' = [text EXCEPT ![t] = "null"]
    /\ UNCHANGED <<class, lock, keyMap, algs, native, ciphers, cert>>

\* The first call initialises the class, which loads the native library.
ClassInit(t) ==
    /\ At(t, "call")
    /\ class = "none"
    /\ class' \in {"loaded", "failed"}
    /\ UNCHANGED <<lock, keyMap, algs, native, ciphers, step, arg, cert, text, missed>>

\* Without the library every call ends with an Error, which catch (Exception)
\* lets through.
ClassUnusable(t) ==
    /\ At(t, "call")
    /\ class = "failed"
    /\ Goto(t, "thrown")
    /\ arg' = [arg EXCEPT ![t] = None]
    /\ UNCHANGED <<class, lock, keyMap, algs, native, ciphers, cert, text, missed>>

\* The first statements: a mark is answered with null.
Entered(t) ==
    /\ IF arg[t].data = "mark"
       THEN Return(t, "null")
       ELSE /\ Goto(t, IF arg[t].key \in Apps THEN "keyMap" ELSE "init")
            /\ UNCHANGED text
    /\ UNCHANGED <<class, keyMap, algs, native, ciphers, arg, cert, missed>>

\* Faulty variant: the methods are not synchronized.
EnterUnlocked(t) ==
    /\ At(t, "call")
    /\ class = "loaded"
    /\ UNCHANGED lock
    /\ Entered(t)

Enter(t) ==
    /\ At(t, "call")
    /\ class = "loaded"
    /\ lock = None
    /\ lock' = t
    /\ Entered(t)

Leave(t) ==
    /\ At(t, "leave")
    /\ lock' = None
    /\ Goto(t, "returned")
    /\ arg' = [arg EXCEPT ![t] = None]
    /\ cert' = [cert EXCEPT ![t] = None]
    /\ UNCHANGED <<class, keyMap, algs, native, ciphers, text, missed>>

-----------------------------------------------------------------------------
(* The key of an old client: from keyMap, or derived by security(). *)

KeyMapGet(t) ==
    /\ At(t, "keyMap")
    /\ cert' = [cert EXCEPT ![t] = keyMap[arg[t].key]]
    /\ Goto(t, IF keyMap[arg[t].key] = None THEN "load" ELSE "init")
    /\ UNCHANGED <<class, lock, keyMap, algs, native, ciphers, arg, text, missed>>

\* OpenSSL_add_all_algorithms reports no error: an entry may be missing.
AddAllAlgorithms(t) ==
    /\ At(t, "load")
    /\ \E added \in SUBSET Algorithms : algs' = algs \cup added
    /\ missed' = IF algs' = Algorithms THEN missed ELSE missed \cup {t}
    /\ Goto(t, "find")
    /\ UNCHANGED <<class, lock, keyMap, native, ciphers, arg, cert, text>>

\* Faulty variants: the table is emptied as soon as the pointers are found; a
\* failure is repeated until it is none.
GetByNameCleans(t) ==
    /\ At(t, "find")
    /\ native' = [cipher |-> "aes-256-cbc" \in algs, dgst |-> "md5" \in algs]
    /\ algs' = {}
    /\ IF native'.cipher /\ native'.dgst
       THEN Goto(t, "derive") /\ UNCHANGED text
       ELSE Return(t, "null")
    /\ UNCHANGED <<class, lock, keyMap, ciphers, arg, cert, missed>>

GetByNameRetries(t) ==
    /\ At(t, "find")
    /\ native' = [cipher |-> "aes-256-cbc" \in algs, dgst |-> "md5" \in algs]
    /\ Goto(t, IF native'.cipher /\ native'.dgst THEN "derive" ELSE "load")
    /\ UNCHANGED <<class, lock, keyMap, algs, ciphers, arg, cert, text, missed>>

\* EVP_get_cipherbyname, EVP_get_digestbyname.  If one is missing security()
\* returns NULL; this leaves the table as it is, nothing in keyMap, and
\* AESDecrypt with null.
GetByName(t) ==
    /\ At(t, "find")
    /\ native' = [cipher |-> "aes-256-cbc" \in algs, dgst |-> "md5" \in algs]
    /\ IF native'.cipher /\ native'.dgst
       THEN Goto(t, "derive") /\ UNCHANGED text
       ELSE Return(t, "null")
    /\ UNCHANGED <<class, lock, keyMap, algs, ciphers, arg, cert, missed>>

\* EVP_BytesToKey fills 32 of the 64 bytes of key, and all are copied, or it fails
\* and security() returns NULL.  EVP_cleanup empties the table of the process.
Security(t) ==
    /\ At(t, "derive")
    /\ algs' = {}
    /\ \/ /\ \E c \in Certificates(arg[t].key) : cert' = [cert EXCEPT ![t] = c]
          /\ Goto(t, "put")
          /\ UNCHANGED <<text, missed>>
       \/ /\ missed' = missed \cup {t}
          /\ Return(t, "null")
          /\ UNCHANGED cert
    /\ UNCHANGED <<class, lock, keyMap, native, ciphers, arg>>

KeyMapPut(t) ==
    /\ At(t, "put")
    /\ keyMap' = [keyMap EXCEPT ![arg[t].key] = cert[t]]
    /\ Goto(t, "init")
    /\ UNCHANGED <<class, lock, algs, native, ciphers, arg, cert, text, missed>>

-----------------------------------------------------------------------------
(* Decryption with the Cipher object of the method, which all threads share. *)

Mode(t) == IF arg[t].key \in Apps THEN "cbc" ELSE "ecb"

\* The first 32 bytes of the certificate's key, or the client's key.
AesKey(t) == IF arg[t].key \in Apps THEN SubSeq(cert[t], 1, 1) ELSE <<arg[t].key>>

\* A text of an old client must have two parts before the cipher is used.
Splits(t) == arg[t].data /= "torn" \/ arg[t].key \notin Apps

CipherInit(t) ==
    /\ At(t, "init")
    /\ IF Splits(t)
       THEN /\ ciphers' = [ciphers EXCEPT ![Mode(t)] = AesKey(t)]
            /\ Goto(t, "final")
            /\ UNCHANGED text
       ELSE Return(t, "null") /\ UNCHANGED ciphers
    /\ UNCHANGED <<class, lock, keyMap, algs, native, arg, cert, missed>>

\* Cipher.getInstance or init throws: the provider or the strength of the key is not
\* allowed.  The exception is answered with null.
CipherFails(t) ==
    /\ At(t, "init")
    /\ Splits(t)
    /\ missed' = missed \cup {t}
    /\ Return(t, "null")
    /\ UNCHANGED <<class, lock, keyMap, algs, native, ciphers, arg, cert>>

\* A wrong key is noticed by the padding, or gives some other text; data that are
\* not of whole blocks throw.  An exception is answered with null.
DoFinal(t) ==
    /\ At(t, "final")
    /\ \E v \in CASE arg[t].data = "torn" -> {"null"}
                  [] arg[t].data = "text" /\ ciphers[Mode(t)] = <<arg[t].key>> -> {"text"}
                  [] OTHER -> {"null", "garbled"} :
          Return(t, v)
    /\ UNCHANGED <<class, lock, keyMap, algs, native, ciphers, arg, cert, missed>>

CryptoStep(t) ==
    \/ ClassInit(t)
    \/ ClassUnusable(t)
    \/ Enter(t)
    \/ Leave(t)
    \/ KeyMapGet(t)
    \/ AddAllAlgorithms(t)
    \/ GetByName(t)
    \/ Security(t)
    \/ KeyMapPut(t)
    \/ CipherInit(t)
    \/ CipherFails(t)
    \/ DoFinal(t)

-----------------------------------------------------------------------------
\* security(): the pointers EVP_BytesToKey gets are the ones that were tested.
\* They are globals, and so is the table they point into; only the lock of the
\* Java class keeps another call from resetting them.
TestedIsUsed ==
    \A t \in Threads : At(t, "derive") =>
        /\ native.cipher /\ native.dgst
        /\ algs = Algorithms

\* AESDecrypt: no path through the method, early return or exception, keeps the
\* lock of the class, so that decryption never stops for everyone.
LockReleased == \A t \in Threads : lock = t ~> lock /= t
=============================================================================
