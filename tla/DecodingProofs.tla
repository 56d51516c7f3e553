--------------------------- MODULE DecodingProofs ---------------------------
(***************************************************************************)
(* What the lock of CryptoTool protects, for any number of threads, keys,  *)
(* templates and workloads.                                                *)
(***************************************************************************)
EXTENDS Decoding, TLAPS

\* The steps a thread takes as the owner of the lock.
Locked == {"keyMap", "load", "find", "derive", "put", "init", "final", "leave"}

\* A thread is between entry and exit of AESDecrypt exactly if it owns the lock.
OwnerIsInside == \A t \in Threads : step[t] \in Locked <=> lock = t

\* AESDecrypt is only called from a caller that decrypts.
CalledByDecrypt == \A t \in Threads : phase[t] /= "decrypt" => step[t] = "out"

LockTypes ==
    /\ step \in [Threads -> CryptoSteps]
    /\ phase \in [Threads -> {"idle", "decrypt", "format", "done"}]
    /\ algs \subseteq Algorithms

LockInv == LockTypes /\ OwnerIsInside /\ CalledByDecrypt /\ TestedIsUsed

-----------------------------------------------------------------------------
\* A step of a thread outside of the locked part, to a place outside of it, that
\* leaves the lock and what it protects alone.
LEMMA Outside ==
    ASSUME LockInv, NEW t \in Threads, NEW s \in CryptoSteps,
           step[t] \notin Locked, s \notin Locked, Goto(t, s),
           UNCHANGED <<lock, algs, native>>,
           phase' \in [Threads -> {"idle", "decrypt", "format", "done"}],
           \A u \in Threads \ {t} : phase'[u] = phase[u],
           phase'[t] /= "decrypt" => s = "out"
    PROVE  LockInv'
<1> USE DEF LockInv, LockTypes
<1>1. LockTypes'
    BY DEF Goto
<1>2. OwnerIsInside'
    BY DEF Goto, OwnerIsInside
<1>3. CalledByDecrypt'
    BY DEF Goto, CalledByDecrypt
<1>4. TestedIsUsed'
    BY DEF Goto, TestedIsUsed, At, Locked
<1> QED
    BY <1>1, <1>2, <1>3, <1>4

\* A step of the owner that keeps the lock may change what it protects, unless
\* it goes on to the derivation.
LEMMA Inside ==
    ASSUME LockInv, NEW t \in Threads, NEW s \in Locked,
           step[t] \in Locked, Goto(t, s), UNCHANGED <<lock, phase>>,
           algs' \subseteq Algorithms,
           s = "derive" => native'.cipher /\ native'.dgst /\ algs' = Algorithms
    PROVE  LockInv'
<1> USE DEF LockInv, LockTypes
<1>1. LockTypes'
    BY DEF Goto, Locked, CryptoSteps
<1>2. OwnerIsInside'
    BY DEF Goto, OwnerIsInside
<1>3. CalledByDecrypt'
    BY DEF Goto, CalledByDecrypt, Locked
<1>4. TestedIsUsed'
    BY DEF Goto, TestedIsUsed, At, Locked, OwnerIsInside
<1> QED
    BY <1>1, <1>2, <1>3, <1>4

\* A step that leaves all of this alone.
LEMMA Apart ==
    ASSUME LockInv, UNCHANGED <<lock, algs, native, step, phase>>
    PROVE  LockInv'
BY DEF LockInv, LockTypes, OwnerIsInside, CalledByDecrypt, TestedIsUsed, At

-----------------------------------------------------------------------------
\* The steps within AESDecrypt.
LEMMA CryptoStepKeeps ==
    ASSUME LockInv, NEW t \in Threads, CryptoStep(t), UNCHANGED phase
    PROVE  LockInv'
<1>0. /\ step \in [Threads -> CryptoSteps]
      /\ phase \in [Threads -> {"idle", "decrypt", "format", "done"}]
      /\ algs \subseteq Algorithms
      /\ phase[t] /= "decrypt" => step[t] = "out"
    BY DEF LockInv, LockTypes, CalledByDecrypt
<1>1. CASE ClassInit(t)
    BY <1>1, Apart DEF ClassInit
<1>2. CASE ClassUnusable(t)
    BY <1>0, <1>2, Outside DEF ClassUnusable, At, Locked, CryptoSteps
<1>3. CASE Enter(t)
    <2>1. PICK s \in {"leave", "keyMap", "init"} : Goto(t, s)
        BY <1>3 DEF Enter, Entered, Return
    <2>2. /\ step[t] = "call" /\ lock = None /\ lock' = t
          /\ UNCHANGED <<algs, native>>
        BY <1>3 DEF Enter, Entered, At
    <2>3. LockTypes'
        BY <1>0, <2>1, <2>2 DEF LockTypes, Goto, CryptoSteps
    <2>4. OwnerIsInside'
        BY <1>0, <2>1, <2>2, CryptoAssumption DEF LockInv, OwnerIsInside, Goto, Locked
    <2>5. CalledByDecrypt'
        BY <1>0, <2>1, <2>2 DEF LockInv, CalledByDecrypt, Goto
    <2>6. TestedIsUsed'
        BY <1>0, <2>1, <2>2 DEF LockInv, TestedIsUsed, Goto, At
    <2> QED
        BY <2>3, <2>4, <2>5, <2>6 DEF LockInv
<1>4. CASE Leave(t)
    <2>1. /\ step[t] = "leave" /\ lock' = None /\ Goto(t, "returned")
          /\ UNCHANGED <<algs, native>>
        BY <1>4 DEF Leave, At
    <2>2. LockTypes'
        BY <1>0, <2>1 DEF LockTypes, Goto, CryptoSteps
    <2>3. OwnerIsInside'
        BY <1>0, <2>1, CryptoAssumption DEF LockInv, OwnerIsInside, Goto, Locked
    <2>4. CalledByDecrypt'
        BY <1>0, <2>1 DEF LockInv, CalledByDecrypt, Goto
    <2>5. TestedIsUsed'
        BY <1>0, <2>1 DEF LockInv, TestedIsUsed, Goto, At
    <2> QED
        BY <2>2, <2>3, <2>4, <2>5 DEF LockInv
<1>5. CASE KeyMapGet(t)
    BY <1>0, <1>5, Inside DEF KeyMapGet, At, Locked
<1>6. CASE AddAllAlgorithms(t)
    BY <1>0, <1>6, Inside DEF AddAllAlgorithms, At, Locked
<1>7. CASE GetByName(t)
    <2>1. /\ step[t] = "find" /\ UNCHANGED <<lock, algs>>
          /\ native' = [cipher |-> "aes-256-cbc" \in algs, dgst |-> "md5" \in algs]
        BY <1>7 DEF GetByName, At
    <2>2. CASE native'.cipher /\ native'.dgst
        <3>1. Goto(t, "derive")
            BY <1>7, <2>2 DEF GetByName
        <3>2. algs' = Algorithms
            BY <1>0, <2>1, <2>2 DEF Algorithms
        <3> QED
            BY <1>0, <2>1, <2>2, <3>1, <3>2, Inside DEF Locked
    <2>3. CASE ~(native'.cipher /\ native'.dgst)
        <3>1. Goto(t, "leave")
            BY <1>7, <2>3 DEF GetByName, Return
        <3> QED
            BY <1>0, <2>1, <3>1, Inside DEF Locked
    <2> QED
        BY <2>2, <2>3
<1>8. CASE Security(t)
    <2>1. PICK s \in {"put", "leave"} : Goto(t, s)
        BY <1>8 DEF Security, Return
    <2> QED
        BY <1>8, <2>1, Inside DEF Security, At, Locked
<1>9. CASE KeyMapPut(t)
    BY <1>0, <1>9, Inside DEF KeyMapPut, At, Locked
<1>10. CASE CipherInit(t)
    <2>1. PICK s \in {"leave", "final"} : Goto(t, s)
        BY <1>10 DEF CipherInit, Return
    <2> QED
        BY <1>0, <1>10, <2>1, Inside DEF CipherInit, At, Locked
<1>11. CASE DoFinal(t)
    <2>1. Goto(t, "leave")
        BY <1>11 DEF DoFinal, Return
    <2> QED
        BY <1>0, <1>11, <2>1, Inside DEF DoFinal, At, Locked
<1>12. CASE CipherFails(t)
    <2>1. Goto(t, "leave")
        BY <1>12 DEF CipherFails, Return
    <2> QED
        BY <1>0, <1>12, <2>1, Inside DEF CipherFails, At, Locked
<1> QED
    BY <1>1, <1>2, <1>3, <1>4, <1>5, <1>6, <1>7, <1>8, <1>9, <1>10, <1>11, <1>12 DEF CryptoStep

\* The steps of the callers, and those within getLayout.
LEMMA CallerStepKeeps ==
    ASSUME LockInv, NEW t \in Threads, NEW r,
           \/ Begin(t, r) \/ Resend(t, r) \/ DecryptNext(t) \/ Decrypted(t)
           \/ DecryptError(t) \/ Formatted(t) \/ Forget(t)
    PROVE  LockInv'
<1>0. /\ step \in [Threads -> CryptoSteps]
      /\ phase \in [Threads -> {"idle", "decrypt", "format", "done"}]
      /\ phase[t] /= "decrypt" => step[t] = "out"
      /\ step = [step EXCEPT ![t] = step[t]]
    BY DEF LockInv, LockTypes, CalledByDecrypt
<1>1. CASE Begin(t, r)
    BY <1>0, <1>1, Outside DEF Begin, Call, Locked, CryptoSteps
<1>2. CASE Resend(t, r)
    BY <1>0, <1>2, Outside DEF Resend, cryptoVars, Goto, Locked, CryptoSteps
<1>3. CASE DecryptNext(t)
    BY <1>0, <1>3, Outside DEF DecryptNext, Call, At, Locked, CryptoSteps
<1>4. CASE Decrypted(t)
    <2>1. PICK p \in {"done", "format"} : phase' = [phase EXCEPT ![t] = p]
        BY <1>4 DEF Decrypted, Finish
    <2> QED
        BY <1>0, <1>4, <2>1, Outside DEF Decrypted, At, Locked, CryptoSteps
<1>5. CASE DecryptError(t)
    BY <1>0, <1>5, Outside DEF DecryptError, Finish, At, Locked, CryptoSteps
<1>6. CASE Formatted(t)
    BY <1>0, <1>6, Outside DEF Formatted, Finish, cryptoVars, Goto, Locked, CryptoSteps
<1>7. CASE Forget(t)
    BY <1>0, <1>7, Outside DEF Forget, Goto, Locked, CryptoSteps
<1> QED
    BY <1>1, <1>2, <1>3, <1>4, <1>5, <1>6, <1>7

-----------------------------------------------------------------------------
\* At first no thread owns the lock.
LEMMA LockInit == Init => LockInv
  BY CryptoAssumption DEF Init, CryptoInit, LockInv, LockTypes, OwnerIsInside,
     CalledByDecrypt, TestedIsUsed, At, Locked, CryptoSteps

\* Every step keeps the lock's promise.
LEMMA LockStep == LockInv /\ [Next]_vars => LockInv'
<1> SUFFICES ASSUME LockInv, [Next]_vars PROVE LockInv'
    OBVIOUS
<1>1. CASE UNCHANGED vars
    BY <1>1, Apart DEF vars, cryptoVars, callerVars
<1>2. ASSUME NEW t \in Threads, NEW r \in work, Begin(t, r) \/ Resend(t, r)
      PROVE  LockInv'
    BY <1>2, CallerStepKeeps
<1>3. ASSUME NEW t \in Threads, ThreadStep(t)
      PROVE  LockInv'
    <2>1. CASE CryptoStep(t) /\ UNCHANGED <<layoutVars, callerVars>>
        BY <2>1, CryptoStepKeeps DEF callerVars
    <2>2. CASE LayoutStep(t) /\ UNCHANGED <<cryptoVars, callerVars>>
        BY <2>2, Apart DEF cryptoVars, callerVars
    <2>3. CASE DecryptNext(t) \/ Decrypted(t) \/ DecryptError(t) \/ Formatted(t) \/ Forget(t)
        BY <2>3, CallerStepKeeps
    <2>4. CASE Hangs(t)
        BY <2>4, Apart DEF Hangs, vars, cryptoVars, callerVars
    <2> QED
        BY <1>3, <2>1, <2>2, <2>3, <2>4 DEF ThreadStep
<1> QED
    BY <1>1, <1>2, <1>3 DEF Next

\* security() never hands EVP_BytesToKey a pointer it has not tested, or one into
\* a table that another call has emptied: the lock of the class is enough.
THEOREM GlobalsAreProtected == SafeSpec => []TestedIsUsed
<1>1. LockInv => TestedIsUsed
    BY DEF LockInv
<1> QED
    BY <1>1, LockInit, LockStep, PTL DEF SafeSpec
=============================================================================
