--------------------------- MODULE RegistryProofs ---------------------------
(***************************************************************************)
(* Proofs about what the server keeps in mongodb, for any number of        *)
(* applications, tokens and HTTP threads and any number of requests.       *)
(***************************************************************************)
EXTENDS Registry, FiniteSetTheorems, TLAPS

-----------------------------------------------------------------------------
(* Facts about requests and configurations. *)

\* The fields and the kind of each sort of request.
LEMMA RequestFields ==
    /\ \A r \in ClientRequest : r.app \in Apps /\ r.op \in {"token", "report"}
    /\ \A r \in ConfigRequest :
            /\ r.op \in {"grant", "revoke", "level"}
            /\ r.op \in {"grant", "revoke"} => r.ids \in SUBSET Apps
            /\ r.op = "level" => r.level \in Levels
    /\ \A r \in ProfileRequest : r.target \in Targets /\ r.op = "profile"
  BY DEF ClientRequest, ConfigRequest, ProfileRequest

\* The kinds of requests are apart.
LEMMA RequestKinds ==
    /\ \A r \in ClientRequest : Kind(r) = "client"
    /\ \A r \in ConfigRequest : Kind(r) = "config"
    /\ \A r \in ProfileRequest : Kind(r) = "profile"
<1>1. \A r \in ConfigRequest : r \notin ClientRequest
    BY RequestFields
<1>2. \A r \in ProfileRequest : r \notin ClientRequest /\ r \notin ConfigRequest
    BY RequestFields
<1> QED
    BY <1>1, <1>2 DEF Kind

\* An update makes a configuration of a configuration.
LEMMA ChangeType ==
    ASSUME NEW r \in ConfigRequest, NEW c \in Config
    PROVE  Change(r, c) \in Config
<1>1. CASE r.op = "grant"
    BY <1>1, RequestFields DEF Change, Config
<1>2. CASE r.op = "revoke"
    BY <1>2, RequestFields DEF Change, Config
<1>3. CASE r.op = "level"
    BY <1>3, RequestFields DEF Change, Config
<1> QED
    BY <1>1, <1>2, <1>3, RequestFields

\* A value that is not used is found where there is one.
LEMMA FreshIsUnused ==
    ASSUME NEW S, S # {}
    PROVE  Fresh(S) \in S
  BY DEF Fresh

\* What GlobalConfigRepository.read returns is a configuration.
LEMMA ReadType ==
    ASSUME TypeOK, NEW c \in Read
    PROVE  c \in Config
<1>1. DefaultConfig \in Config
    BY DEF DefaultConfig, Config
<1>2. \A d \in Configs : docs[d] \in Config
    BY DEF TypeOK, Configs
<1> QED
    BY <1>1, <1>2 DEF Read

-----------------------------------------------------------------------------
(* The inductive invariant: what a handler knows at each of its steps, and *)
(* what the documents have to do with each other.                          *)

TokenSteps   == {"existing", "remove", "store"}
ReportSteps  == {"auth", "forget", "reauth", "client", "insert", "answer"}
KeySteps     == {"lookup", "load", "put", "key"}
ConfigSteps  == {"check", "read", "find", "write"}
ProfileSteps == {"count", "save"}
ClientSteps  == TokenSteps \cup ReportSteps \cup KeySteps

\* What the request of a handler is about.
RequestOK(h) ==
    /\ at[h] \in ClientSteps => req[h] \in ClientRequest /\ req[h].app \in hist.created
    /\ at[h] \in TokenSteps => req[h].op = "token"
    /\ at[h] \in ReportSteps => req[h].op = "report"
    /\ at[h] \in ConfigSteps => req[h] \in ConfigRequest
    /\ at[h] = "check" => req[h].op = "grant"
    /\ at[h] \in ProfileSteps => req[h] \in ProfileRequest

\* Its token belongs to the application that asks; what it removes is expired, what
\* it is asked to accept was issued.
TokenHeld(h) ==
    /\ at[h] \in {"remove", "store", "auth", "forget", "reauth", "client"} =>
            token[h] \in Tokens /\ owner[token[h]] = req[h].app
    /\ at[h] \in {"remove", "forget"} => token[h] \in expired
    /\ at[h] \in {"auth", "reauth"} => token[h] \in hist.issued

\* The key pair it found is that of its application; without one the application
\* was deleted.  The document it will overwrite exists.
FoundOK(h) ==
    /\ at[h] \in {"idle", "existing", "remove", "auth", "forget", "reauth", "client",
                  "lookup", "load"} => found[h] = None
    /\ at[h] = "put" => found[h] = req[h].app
    /\ at[h] = "key" => \/ found[h] = req[h].app
                        \/ found[h] = None /\ req[h].app \notin apps
    /\ at[h] \in {"find", "write"} => cfg[h] \in Config
    /\ at[h] = "write" => found[h] \in Configs \cup {None}

HandlerOK(h) == RequestOK(h) /\ TokenHeld(h) /\ FoundOK(h)

\* A registered application has its key pair, its tokens carry the key; a token a
\* client has received is stored or expired; who was refused or got no key was
\* deleted, and no one was denied.
DocumentsOK ==
    /\ apps \subseteq pairs /\ apps \subseteq hist.created
    /\ \A k \in Tokens : owner[k] # None =>
            owner[k] \in hist.created /\ (k \in keyed \/ owner[k] \notin apps)
    /\ hist.issued \subseteq stored \cup expired
    /\ \A a \in hist.keyless \cup hist.refused : a \in hist.created /\ a \notin apps
    /\ hist.denied = {}

RegistryInv == TypeOK /\ DocumentsOK /\ \A h \in Handlers : HandlerOK(h)

\* What no step takes back.
Lasting ==
    /\ hist.created \subseteq hist'.created
    /\ \A a \in hist.created : a \notin apps => a \notin apps'
    /\ \A k \in Tokens : owner[k] # None => owner'[k] = owner[k]
    /\ expired \subseteq expired' /\ hist.issued \subseteq hist'.issued
    /\ Configs \subseteq Configs'

\* The handlers other than h are where they were.
OthersWait(h) ==
    \A g \in Handlers \ {h} :
        /\ at'[g] = at[g] /\ req'[g] = req[g] /\ cfg'[g] = cfg[g]
        /\ found'[g] = found[g] /\ token'[g] = token[g]

LocalType ==
    /\ at \in [Handlers -> Steps]
    /\ req \in [Handlers -> Request \cup {None}]
    /\ cfg \in [Handlers -> Config \cup {None}]
    /\ found \in [Handlers -> Apps \cup DocIds \cup {None}]
    /\ token \in [Handlers -> Tokens \cup {None}]

\* A handler that waits keeps what it knows.
LEMMA WaitingOK ==
    ASSUME TypeOK, DocumentsOK, Lasting, NEW g \in Handlers, HandlerOK(g),
           at'[g] = at[g], req'[g] = req[g], cfg'[g] = cfg[g],
           found'[g] = found[g], token'[g] = token[g]
    PROVE  HandlerOK(g)'
<1>0. None \notin Apps
    BY RegistryAssumption
<1>1. RequestOK(g)'
    BY DEF HandlerOK, RequestOK, Lasting, ClientSteps
<1>2. TokenHeld(g)'
    <2>1. at[g] \in {"remove", "store", "auth", "forget", "reauth", "client"} =>
            req[g].app \in Apps
        BY RequestFields DEF HandlerOK, RequestOK, ClientSteps, TokenSteps, ReportSteps
    <2> QED
        BY <1>0, <2>1 DEF HandlerOK, TokenHeld, Lasting
<1>3. FoundOK(g)'
    <2>1. at[g] = "key" => req[g].app \in hist.created
        BY DEF HandlerOK, RequestOK, ClientSteps, KeySteps
    <2> QED
        BY <2>1 DEF HandlerOK, FoundOK, Lasting
<1> QED
    BY <1>1, <1>2, <1>3 DEF HandlerOK

\* A handler that ends knows nothing.
LEMMA EndedOK ==
    ASSUME TypeOK, NEW h \in Handlers, End(h)
    PROVE  LocalType' /\ HandlerOK(h)' /\ OthersWait(h)
<1>1. at'[h] = "idle" /\ found'[h] = None
    BY DEF End, Go, TypeOK
<1>2. HandlerOK(h)'
    BY <1>1 DEF HandlerOK, RequestOK, TokenHeld, FoundOK, ClientSteps, TokenSteps, ReportSteps,
                KeySteps, ConfigSteps, ProfileSteps
<1>3. LocalType'
    BY DEF End, Go, TypeOK, LocalType, Steps
<1>4. OthersWait(h)
    BY DEF End, Go, TypeOK, OthersWait
<1> QED
    BY <1>2, <1>3, <1>4

\* What a step of handler h has to show.
StepOK(h) == TypeOK' /\ DocumentsOK' /\ Lasting /\ HandlerOK(h)' /\ OthersWait(h)

\* A step that writes nothing but the handler's own variables.
LEMMA QuietOK ==
    ASSUME RegistryInv, NEW h \in Handlers, UNCHANGED <<data, requests, hist>>,
           LocalType', HandlerOK(h)', OthersWait(h)
    PROVE  StepOK(h)
<1>1. TypeOK'
    BY DEF RegistryInv, TypeOK, LocalType, data, tokenData
<1>2. DocumentsOK'
    BY DEF RegistryInv, DocumentsOK, data, tokenData
<1>3. Lasting
    BY DEF Lasting, Configs, data, tokenData
<1> QED
    BY <1>1, <1>2, <1>3 DEF StepOK

\* The beginning of a request.
LEMMA BeginOK ==
    ASSUME RegistryInv, NEW h \in Handlers, NEW r \in Request, NEW step \in Steps,
           Begin(h, r, step), NEW t \in Tokens \cup {None}, token' = [token EXCEPT ![h] = t]
    PROVE  /\ TypeOK' /\ DocumentsOK' /\ Lasting /\ OthersWait(h)
           /\ at'[h] = step /\ req'[h] = r /\ token'[h] = t /\ found'[h] = None
<1>0. TypeOK
    BY DEF RegistryInv
<1>1. /\ at' = [at EXCEPT ![h] = step] /\ req' = [req EXCEPT ![h] = r]
      /\ UNCHANGED <<data, cfg, found>>
      /\ requests' = requests + 1 /\ requests < MaxRequests
    BY DEF Begin, Go
<1>2. at'[h] = step /\ req'[h] = r /\ token'[h] = t /\ found'[h] = None
    BY <1>0, <1>1 DEF RegistryInv, HandlerOK, FoundOK, TypeOK, Begin
<1>3. OthersWait(h)
    BY <1>0, <1>1 DEF OthersWait, TypeOK
<1>4. LocalType'
    BY <1>0, <1>1 DEF LocalType, TypeOK
<1>5. requests' \in 0 .. MaxRequests
    BY <1>0, <1>1, RegistryAssumption DEF TypeOK
<1>6. PICK o \in SUBSET {"client", "config", "profile"}, n \in SUBSET Apps :
            hist' = [hist EXCEPT !.overlap = o, !.named = n]
    <2>1. Kind(r) \in {"client", "config", "profile"}
        BY DEF Kind
    <2>2. hist.overlap \in SUBSET {"client", "config", "profile"}
        BY <1>0 DEF TypeOK, History
    <2>3. hist.named \cup (IF r.op = "revoke" THEN r.ids ELSE {}) \in SUBSET Apps
        BY <1>0, RequestFields DEF TypeOK, History, Request
    <2> QED
        BY <2>1, <2>2, <2>3 DEF Begin
<1>7. hist' \in History
    BY <1>0, <1>6 DEF TypeOK, History
<1>8. /\ hist'.created = hist.created /\ hist'.issued = hist.issued
      /\ hist'.refused = hist.refused /\ hist'.keyless = hist.keyless
      /\ hist'.denied = hist.denied
    BY <1>0, <1>6 DEF TypeOK, History
<1>9. TypeOK'
    BY <1>0, <1>1, <1>4, <1>5, <1>7, <1>8 DEF TypeOK, LocalType, data, tokenData
<1>10. DocumentsOK'
    BY <1>1, <1>8 DEF RegistryInv, DocumentsOK, data, tokenData
<1>11. Lasting
    BY <1>1, <1>8 DEF Lasting, Configs, data, tokenData
<1> QED
    BY <1>2, <1>3, <1>9, <1>10, <1>11

\* The beginning of a request without a token.
LEMMA BeginPlainOK ==
    ASSUME RegistryInv, NEW h \in Handlers, NEW r \in Request, NEW step \in Steps,
           Begin(h, r, step), token' = token
    PROVE  /\ TypeOK' /\ DocumentsOK' /\ Lasting /\ OthersWait(h)
           /\ at'[h] = step /\ req'[h] = r /\ found'[h] = None
<1>1. PICK t \in Tokens \cup {None} : token' = [token EXCEPT ![h] = t]
    BY DEF RegistryInv, TypeOK
<1> QED
    BY <1>1, BeginOK

\* The requests that begin.
LEMMA BeginningOK ==
    ASSUME RegistryInv, NEW h \in Handlers,
           \/ \E a \in Apps : TokenRequest(h, a)
           \/ \E k \in Tokens : ClientUserReport(h, k)
           \/ \E l \in Levels : UpdateLevel(h, l)
           \/ \E ids \in SUBSET Apps \ {{}} : AddGrantClient(h, ids) \/ RemoveGrantClient(h, ids)
           \/ \E t \in Targets : CreateProfile(h, t)
    PROVE  StepOK(h)
<1> USE DEF HandlerOK, RequestOK, TokenHeld, FoundOK, ClientSteps, TokenSteps, ReportSteps,
            KeySteps, ConfigSteps, ProfileSteps
<1>2. ASSUME NEW a \in Apps, TokenRequest(h, a) PROVE StepOK(h)
    <2> DEFINE r == [op |-> "token", app |-> a]
    <2>1. r \in ClientRequest /\ r \in Request /\ r.op = "token" /\ r.app = a
        BY DEF ClientRequest, Request
    <2>2. Begin(h, r, "existing") /\ token' = token /\ a \in apps
        BY <1>2 DEF TokenRequest
    <2> HIDE DEF r
    <2>3. /\ TypeOK' /\ DocumentsOK' /\ Lasting /\ OthersWait(h)
          /\ at'[h] = "existing" /\ req'[h] = r /\ found'[h] = None
        BY <2>1, <2>2, BeginPlainOK DEF Steps
    <2>4. a \in hist'.created
        BY <2>2, <2>3 DEF RegistryInv, DocumentsOK, Lasting
    <2> QED
        BY <2>1, <2>3, <2>4 DEF StepOK
<1>3. ASSUME NEW k \in Tokens, ClientUserReport(h, k) PROVE StepOK(h)
    <2> DEFINE r == [op |-> "report", app |-> owner[k]]
    <2>0. owner[k] # None /\ owner[k] \in Apps /\ owner[k] \in hist.created /\ k \in hist.issued
        BY <1>3 DEF ClientUserReport, RegistryInv, DocumentsOK, TypeOK
    <2>1. r \in ClientRequest /\ r \in Request /\ r.op = "report" /\ r.app = owner[k]
        BY <2>0 DEF ClientRequest, Request
    <2>2. Begin(h, r, "auth") /\ token' = [token EXCEPT ![h] = k]
        BY <1>3 DEF ClientUserReport
    <2> HIDE DEF r
    <2>3. /\ TypeOK' /\ DocumentsOK' /\ Lasting /\ OthersWait(h)
          /\ at'[h] = "auth" /\ req'[h] = r /\ found'[h] = None /\ token'[h] = k
        BY <2>1, <2>2, BeginOK DEF Steps
    <2>4. owner[k] \in hist'.created /\ owner'[k] = owner[k] /\ k \in hist'.issued
        BY <2>0, <2>3 DEF Lasting
    <2> QED
        BY <2>1, <2>3, <2>4 DEF StepOK
<1>4. ASSUME NEW r \in ConfigRequest, NEW step \in {"check", "read"},
             Begin(h, r, step), token' = token, step = "check" => r.op = "grant"
      PROVE  StepOK(h)
    <2>1. r \in Request /\ step \in Steps
        BY DEF Request, Steps
    <2>2. /\ TypeOK' /\ DocumentsOK' /\ Lasting /\ OthersWait(h)
          /\ at'[h] = step /\ req'[h] = r /\ found'[h] = None
        BY <1>4, <2>1, BeginPlainOK
    <2> QED
        BY <1>4, <2>2 DEF StepOK
<1>5. ASSUME NEW t \in Targets, CreateProfile(h, t) PROVE StepOK(h)
    <2> DEFINE r == [op |-> "profile", target |-> t]
    <2>1. r \in ProfileRequest /\ r \in Request
        BY DEF ProfileRequest, Request
    <2>2. Begin(h, r, "count") /\ token' = token
        BY <1>5 DEF CreateProfile
    <2> HIDE DEF r
    <2>3. /\ TypeOK' /\ DocumentsOK' /\ Lasting /\ OthersWait(h)
          /\ at'[h] = "count" /\ req'[h] = r /\ found'[h] = None
        BY <2>1, <2>2, BeginPlainOK DEF Steps
    <2> QED
        BY <2>1, <2>3 DEF StepOK
<1>6. ASSUME NEW l \in Levels, UpdateLevel(h, l) PROVE StepOK(h)
    <2>1. [op |-> "level", level |-> l] \in ConfigRequest
        BY DEF ConfigRequest
    <2> QED
        BY <1>4, <1>6, <2>1 DEF UpdateLevel
<1>7. ASSUME NEW ids \in SUBSET Apps \ {{}}, AddGrantClient(h, ids) \/ RemoveGrantClient(h, ids)
      PROVE  StepOK(h)
    <2>1. /\ [op |-> "grant", ids |-> ids] \in ConfigRequest
          /\ [op |-> "revoke", ids |-> ids] \in ConfigRequest
        BY DEF ConfigRequest
    <2> QED
        BY <1>4, <1>7, <2>1 DEF AddGrantClient, RemoveGrantClient
<1> QED
    BY <1>2, <1>3, <1>5, <1>6, <1>7

\* A step that only moves the handler on, and may set what it has found, read or
\* which token it works on.
LEMMA MovedOK ==
    ASSUME RegistryInv, NEW h \in Handlers, NEW step \in Steps, Go(h, step), req' = req,
           \/ cfg' = cfg
           \/ \E c \in Config : cfg' = [cfg EXCEPT ![h] = c],
           \/ found' = found
           \/ \E x \in Apps \cup DocIds \cup {None} : found' = [found EXCEPT ![h] = x],
           \/ token' = token
           \/ \E t \in Tokens \cup {None} : token' = [token EXCEPT ![h] = t]
    PROVE  LocalType' /\ OthersWait(h) /\ at'[h] = step /\ req'[h] = req[h]
<1>0. TypeOK
    BY DEF RegistryInv
<1>1. at' = [at EXCEPT ![h] = step]
    BY DEF Go
<1>2. cfg' \in [Handlers -> Config \cup {None}] /\ \A g \in Handlers \ {h} : cfg'[g] = cfg[g]
    BY <1>0 DEF TypeOK
<1>3. /\ found' \in [Handlers -> Apps \cup DocIds \cup {None}]
      /\ \A g \in Handlers \ {h} : found'[g] = found[g]
    BY <1>0 DEF TypeOK
<1>4. token' \in [Handlers -> Tokens \cup {None}] /\ \A g \in Handlers \ {h} : token'[g] = token[g]
    BY <1>0 DEF TypeOK
<1> QED
    BY <1>0, <1>1, <1>2, <1>3, <1>4 DEF TypeOK, LocalType, OthersWait

\* ApplicationKeyPairManager.getKeyPair.
LEMMA KeyOK ==
    ASSUME RegistryInv, NEW h \in Handlers, KeyHit(h) \/ KeyMiss(h) \/ KeyLoad(h) \/ KeyPut(h)
    PROVE  StepOK(h)
<1> USE DEF HandlerOK, RequestOK, TokenHeld, FoundOK, ClientSteps, TokenSteps, ReportSteps,
            KeySteps, ConfigSteps, ProfileSteps
<1>0. TypeOK /\ DocumentsOK /\ HandlerOK(h)
    BY DEF RegistryInv
<1>1. req[h] \in ClientRequest /\ req[h].app \in hist.created /\ req[h].app \in Apps
    BY <1>0, RequestFields DEF KeyHit, KeyMiss, KeyLoad, KeyPut
<1>2. CASE KeyHit(h)
    <2>1. /\ Go(h, "key") /\ UNCHANGED <<data, req, cfg, token, requests, hist>>
          /\ found' = [found EXCEPT ![h] = req[h].app]
        BY <1>2 DEF KeyHit
    <2>2. LocalType' /\ OthersWait(h) /\ at'[h] = "key" /\ req'[h] = req[h]
        BY <1>1, <2>1, MovedOK DEF Steps
    <2>3. found'[h] = req[h].app
        BY <1>0, <2>1 DEF TypeOK
    <2>4. HandlerOK(h)'
        BY <1>1, <2>1, <2>2, <2>3
    <2> QED
        BY <2>1, <2>2, <2>4, QuietOK
<1>3. CASE KeyMiss(h)
    <2>1. Go(h, "load") /\ UNCHANGED <<data, req, cfg, found, token, requests, hist>>
        BY <1>3 DEF KeyMiss
    <2>2. LocalType' /\ OthersWait(h) /\ at'[h] = "load" /\ req'[h] = req[h]
        BY <2>1, MovedOK DEF Steps
    <2>3. HandlerOK(h)'
        BY <1>0, <1>1, <1>3, <2>1, <2>2 DEF KeyMiss
    <2> QED
        BY <2>1, <2>2, <2>3, QuietOK
<1>4. CASE KeyLoad(h) /\ HasKeyPair(req[h].app)
    <2>1. /\ Go(h, "put") /\ UNCHANGED <<data, req, cfg, token, requests, hist>>
          /\ found' = [found EXCEPT ![h] = req[h].app]
        BY <1>4 DEF KeyLoad
    <2>2. LocalType' /\ OthersWait(h) /\ at'[h] = "put" /\ req'[h] = req[h]
        BY <1>1, <2>1, MovedOK DEF Steps
    <2>3. found'[h] = req[h].app
        BY <1>0, <2>1 DEF TypeOK
    <2>4. HandlerOK(h)'
        BY <1>1, <2>1, <2>2, <2>3
    <2> QED
        BY <2>1, <2>2, <2>4, QuietOK
<1>5. CASE KeyLoad(h) /\ ~HasKeyPair(req[h].app)
    <2>1. Go(h, "key") /\ UNCHANGED <<data, req, cfg, found, token, requests, hist>>
        BY <1>5 DEF KeyLoad
    <2>2. LocalType' /\ OthersWait(h) /\ at'[h] = "key" /\ req'[h] = req[h]
        BY <2>1, MovedOK DEF Steps
    <2>3. found'[h] = None /\ req[h].app \notin apps'
        BY <1>0, <1>5, <2>1 DEF KeyLoad, HasKeyPair, DocumentsOK, data
    <2>4. HandlerOK(h)'
        BY <1>1, <2>1, <2>2, <2>3
    <2> QED
        BY <2>1, <2>2, <2>4, QuietOK
<1>6. CASE KeyPut(h)
    <2>1. /\ Go(h, "key") /\ at[h] = "put"
          /\ UNCHANGED <<apps, pairs, tokenData, docs, profiles, users, req, cfg, found, token,
                         requests, hist>>
          /\ keyPairMap' \subseteq keyPairMap \cup {found[h]}
        BY <1>6 DEF KeyPut
    <2>2. LocalType' /\ OthersWait(h) /\ at'[h] = "key" /\ req'[h] = req[h]
        BY <2>1, MovedOK DEF Steps
    <2>3. found[h] = req[h].app
        BY <1>0, <2>1
    <2>4. HandlerOK(h)'
        BY <1>1, <2>1, <2>2, <2>3
    <2>5. TypeOK'
        BY <1>0, <1>1, <2>1, <2>2, <2>3 DEF TypeOK, LocalType, tokenData
    <2>6. DocumentsOK' /\ Lasting
        BY <1>0, <2>1 DEF DocumentsOK, Lasting, Configs, tokenData
    <2> QED
        BY <2>2, <2>4, <2>5, <2>6 DEF StepOK
<1> QED
    BY <1>2, <1>3, <1>4, <1>5, <1>6

\* The tokens a request finds, removes, makes and stores.
LEMMA TokenOK ==
    ASSUME RegistryInv, NEW h \in Handlers,
           TokenExisting(h) \/ RemoveToken(h) \/ Enhance(h) \/ StoreToken(h)
    PROVE  StepOK(h)
<1> USE DEF HandlerOK, RequestOK, TokenHeld, FoundOK, ClientSteps, TokenSteps, ReportSteps,
            KeySteps, ConfigSteps, ProfileSteps
<1>0. TypeOK /\ DocumentsOK /\ HandlerOK(h) /\ None \notin Apps
    BY RegistryAssumption DEF RegistryInv
<1>1. req[h] \in ClientRequest /\ req[h].app \in hist.created /\ req[h].app \in Apps
    BY <1>0, RequestFields DEF TokenExisting, RemoveToken, Enhance, StoreToken
<1>2. CASE TokenExisting(h)
    <2>0. /\ at[h] = "existing" /\ found[h] = None /\ req[h].op = "token"
          /\ UNCHANGED <<data, req, cfg, found, requests, hist>>
        BY <1>0, <1>2 DEF TokenExisting
    <2>1. CASE Go(h, "lookup") /\ UNCHANGED token
        <3>1. LocalType' /\ OthersWait(h) /\ at'[h] = "lookup" /\ req'[h] = req[h]
            BY <2>0, <2>1, MovedOK DEF Steps
        <3>2. HandlerOK(h)'
            BY <1>1, <2>0, <3>1
        <3> QED
            BY <2>0, <3>1, <3>2, QuietOK
    <2>2. ASSUME NEW k \in stored, owner[k] = req[h].app, token' = [token EXCEPT ![h] = k],
                 Go(h, IF k \in expired THEN "remove" ELSE "store")
          PROVE  StepOK(h)
        <3>0. k \in Tokens
            BY <1>0, <2>2 DEF TypeOK
        <3>1. PICK step \in {"remove", "store"} :
                Go(h, step) /\ (step = "remove" => k \in expired)
            BY <2>2
        <3>2. LocalType' /\ OthersWait(h) /\ at'[h] = step /\ req'[h] = req[h]
            BY <2>0, <2>2, <3>0, <3>1, MovedOK DEF Steps
        <3>3. token'[h] = k
            BY <1>0, <2>2 DEF TypeOK
        <3>4. HandlerOK(h)'
            BY <1>1, <2>0, <2>2, <3>0, <3>1, <3>2, <3>3 DEF data, tokenData
        <3> QED
            BY <2>0, <3>2, <3>4, QuietOK
    <2> QED
        BY <1>2, <2>1, <2>2 DEF TokenExisting
<1>3. CASE RemoveToken(h)
    <2>0. /\ at[h] \in {"remove", "forget"} /\ token[h] \in Tokens /\ token[h] \in expired
          /\ stored' = stored \ {token[h]}
          /\ UNCHANGED <<apps, pairs, keyPairMap, owner, keyed, expired, docs, profiles, users,
                         requests, hist>>
        BY <1>0, <1>3 DEF RemoveToken
    <2>1. DocumentsOK' /\ Lasting
        BY <1>0, <2>0 DEF DocumentsOK, Lasting, Configs
    <2>2. LocalType' => TypeOK'
        BY <1>0, <2>0 DEF TypeOK, LocalType
    <2>3. CASE at[h] = "remove"
        <3>1. Go(h, "lookup") /\ token' = [token EXCEPT ![h] = None] /\ UNCHANGED <<req, cfg, found>>
            BY <1>3, <2>3 DEF RemoveToken
        <3>2. LocalType' /\ OthersWait(h) /\ at'[h] = "lookup" /\ req'[h] = req[h]
            BY <3>1, MovedOK DEF Steps
        <3>3. HandlerOK(h)'
            BY <1>0, <1>1, <2>0, <2>3, <3>1, <3>2
        <3> QED
            BY <2>1, <2>2, <3>2, <3>3 DEF StepOK
    <2>4. CASE at[h] = "forget"
        <3>1. LocalType' /\ HandlerOK(h)' /\ OthersWait(h)
            BY <1>0, <1>3, <2>4, EndedOK DEF RemoveToken
        <3> QED
            BY <2>1, <2>2, <3>1 DEF StepOK
    <2> QED
        BY <2>0, <2>3, <2>4
<1>4. CASE Enhance(h)
    <2> DEFINE k == Fresh({i \in Tokens : owner[i] = None})
    <2>0. k \in Tokens /\ owner[k] = None
        <3> DEFINE U == {i \in Tokens : owner[i] = None}
        <3>1. U # {}
            BY <1>4 DEF Enhance
        <3>2. Fresh(U) \in U
            <4> HIDE DEF U
            <4> QED
                BY <3>1, FreshIsUnused
        <3> QED
            BY <3>2
    <2>1. /\ at[h] = "key" /\ req[h].op = "token"
          /\ owner' = [owner EXCEPT ![k] = req[h].app]
          /\ keyed' = IF found[h] = None THEN keyed ELSE keyed \cup {k}
          /\ token' = [token EXCEPT ![h] = k]
          /\ Go(h, "store")
          /\ UNCHANGED <<apps, pairs, keyPairMap, stored, expired, docs, profiles, users,
                         req, cfg, found, requests, hist>>
        BY <1>4 DEF Enhance
    <2> HIDE DEF k
    <2>2. LocalType' /\ OthersWait(h) /\ at'[h] = "store" /\ req'[h] = req[h]
        BY <2>0, <2>1, MovedOK DEF Steps
    <2>3. token'[h] = k /\ owner'[k] = req[h].app
        BY <1>0, <2>0, <2>1 DEF TypeOK
    <2>4. HandlerOK(h)'
        BY <1>1, <2>0, <2>1, <2>2, <2>3
    <2>5. \A i \in Tokens : owner[i] # None => i # k /\ owner'[i] = owner[i]
        BY <1>0, <2>0, <2>1 DEF TypeOK
    <2>6. TypeOK'
        <3>1. owner' \in [Tokens -> Apps \cup {None}]
            BY <1>0, <1>1, <2>1 DEF TypeOK
        <3>2. keyed' \cup stored' \cup expired' \subseteq {i \in Tokens : owner'[i] # None}
            BY <1>0, <1>1, <2>0, <2>1, <2>3, <2>5 DEF TypeOK
        <3> QED
            BY <1>0, <2>1, <2>2, <3>1, <3>2 DEF TypeOK, LocalType
    <2>7. found[h] = None => req[h].app \notin apps
        BY <1>0, <1>1, <2>1
    <2>8. DocumentsOK'
        <3>1. \A i \in Tokens : owner'[i] # None =>
                    owner'[i] \in hist.created /\ (i \in keyed' \/ owner'[i] \notin apps)
            BY <1>0, <1>1, <2>1, <2>3, <2>5, <2>7 DEF DocumentsOK, TypeOK
        <3> QED
            BY <1>0, <2>1, <3>1 DEF DocumentsOK
    <2>9. Lasting
        BY <2>1, <2>5 DEF Lasting, Configs
    <2> QED
        BY <2>2, <2>4, <2>6, <2>8, <2>9 DEF StepOK
<1>5. CASE StoreToken(h)
    <2>0. /\ at[h] = "store" /\ token[h] \in Tokens /\ owner[token[h]] = req[h].app
          /\ stored' = stored \cup {token[h]}
          /\ UNCHANGED <<apps, pairs, keyPairMap, owner, keyed, expired, docs, profiles, users,
                         requests>>
        BY <1>0, <1>5 DEF StoreToken
    <2>1. LocalType' /\ HandlerOK(h)' /\ OthersWait(h)
        BY <1>0, <1>5, EndedOK DEF StoreToken
    <2>2. /\ hist' \in History
          /\ hist'.created = hist.created /\ hist'.refused = hist.refused
          /\ hist'.denied = hist.denied
          /\ hist.issued \subseteq hist'.issued /\ hist'.issued \subseteq hist.issued \cup {token[h]}
          /\ hist'.keyless \subseteq hist.keyless \cup {req[h].app}
          /\ token[h] \in keyed => hist'.keyless = hist.keyless
        <3>1. CASE hist' = hist
            BY <1>0, <3>1 DEF TypeOK
        <3>2. CASE hist' = [hist EXCEPT !.issued = @ \cup {token[h]},
                               !.keyless = IF token[h] \in keyed THEN @
                                           ELSE @ \cup {req[h].app}]
            <4>1. hist.issued \cup {token[h]} \in SUBSET Tokens
                BY <1>0, <2>0 DEF TypeOK, History
            <4>2. (IF token[h] \in keyed THEN hist.keyless ELSE hist.keyless \cup {req[h].app})
                    \in SUBSET Apps
                BY <1>0, <1>1 DEF TypeOK, History
            <4> QED
                BY <1>0, <3>2, <4>1, <4>2 DEF TypeOK, History
        <3> QED
            BY <1>5, <3>1, <3>2 DEF StoreToken
    <2>3. TypeOK'
        BY <1>0, <1>1, <2>0, <2>1, <2>2 DEF TypeOK, LocalType
    <2>4. token[h] \notin keyed => req[h].app \notin apps
        BY <1>0, <1>1, <2>0 DEF DocumentsOK
    <2>5. DocumentsOK'
        <3>1. \A a \in hist'.keyless \cup hist'.refused : a \in hist.created /\ a \notin apps
            BY <1>0, <1>1, <2>2, <2>4 DEF DocumentsOK
        <3>2. hist'.issued \subseteq stored' \cup expired
            BY <1>0, <2>0, <2>2 DEF DocumentsOK
        <3> QED
            BY <1>0, <2>0, <2>2, <3>1, <3>2 DEF DocumentsOK
    <2>6. Lasting
        BY <2>0, <2>2 DEF Lasting, Configs
    <2> QED
        BY <2>1, <2>3, <2>5, <2>6 DEF StepOK
<1> QED
    BY <1>2, <1>3, <1>4, <1>5

\* A refusal of a token for which there is a reason.
LEMMA DenyOK ==
    ASSUME RegistryInv, NEW h \in Handlers, Deny(h), UNCHANGED <<data, requests>>,
           token[h] \in expired \/ owner[token[h]] \notin apps
    PROVE  StepOK(h)
<1>0. TypeOK /\ DocumentsOK
    BY DEF RegistryInv
<1>1. hist' = hist
    <2>1. hist' = [hist EXCEPT !.denied = hist.denied]
        BY DEF Deny
    <2> QED
        BY <1>0, <2>1 DEF TypeOK, History
<1>2. LocalType' /\ HandlerOK(h)' /\ OthersWait(h)
    BY <1>0, EndedOK DEF Deny
<1> QED
    BY <1>1, <1>2, QuietOK

\* loadAuthentication.
LEMMA AuthOK ==
    ASSUME RegistryInv, NEW h \in Handlers,
           ReadAccessToken(h) \/ ReadAuthentication(h) \/ LoadClient(h)
    PROVE  StepOK(h)
<1> USE DEF HandlerOK, RequestOK, TokenHeld, FoundOK, ClientSteps, TokenSteps, ReportSteps,
            KeySteps, ConfigSteps, ProfileSteps
<1>0. TypeOK /\ DocumentsOK /\ HandlerOK(h)
    BY DEF RegistryInv
<1>1. /\ at[h] \in {"auth", "reauth", "client"}
      /\ req[h] \in ClientRequest /\ req[h].app \in hist.created /\ req[h].op = "report"
      /\ token[h] \in Tokens /\ owner[token[h]] = req[h].app /\ found[h] = None
      /\ UNCHANGED <<data, requests>>
    BY <1>0 DEF ReadAccessToken, ReadAuthentication, LoadClient
<1>2. CASE Deny(h)
    <2>1. token[h] \in expired \/ owner[token[h]] \notin apps
        <3>1. CASE at[h] \in {"auth", "reauth"} /\ token[h] \notin stored
            BY <1>0, <3>1 DEF DocumentsOK
        <3>2. CASE at[h] \in {"auth", "reauth"} /\ token[h] \in stored
            <4>1. at'[h] # "idle"
                BY <1>0, <3>2 DEF ReadAccessToken, ReadAuthentication, LoadClient, Go, TypeOK
            <4>2. at'[h] = "idle"
                BY <1>0, <1>2 DEF Deny, End, Go, TypeOK
            <4> QED
                BY <4>1, <4>2
        <3>3. CASE at[h] = "client"
            <4>1. at'[h] = "idle"
                BY <1>0, <1>2 DEF Deny, End, Go, TypeOK
            <4>2. req[h].app \notin apps
                BY <1>0, <3>3, <4>1 DEF ReadAccessToken, ReadAuthentication, LoadClient, Go, TypeOK
            <4> QED
                BY <1>1, <4>2
        <3> QED
            BY <1>1, <3>1, <3>2, <3>3
    <2> QED
        BY <1>1, <1>2, <2>1, DenyOK
<1>3. ASSUME NEW step \in {"forget", "reauth", "client", "lookup"}, Go(h, step),
             UNCHANGED <<req, cfg, found, token, hist>>,
             step = "forget" => token[h] \in expired,
             step = "reauth" => token[h] \in hist.issued
      PROVE  StepOK(h)
    <2>1. LocalType' /\ OthersWait(h) /\ at'[h] = step /\ req'[h] = req[h]
        BY <1>3, MovedOK DEF Steps
    <2>2. HandlerOK(h)'
        BY <1>1, <1>3, <2>1 DEF data, tokenData
    <2> QED
        BY <1>1, <1>3, <2>1, <2>2, QuietOK
<1>4. CASE ReadAccessToken(h) /\ ~Deny(h)
    <2>1. PICK step \in {"forget", "reauth"} :
            Go(h, step) /\ (step = "forget" => token[h] \in expired)
        BY <1>4 DEF ReadAccessToken
    <2>2. UNCHANGED <<req, cfg, found, token, hist>> /\ token[h] \in hist.issued
        BY <1>0, <1>4 DEF ReadAccessToken
    <2> QED
        BY <1>3, <2>1, <2>2
<1>5. CASE ReadAuthentication(h) /\ ~Deny(h)
    BY <1>3, <1>5 DEF ReadAuthentication
<1>6. CASE LoadClient(h) /\ ~Deny(h)
    BY <1>3, <1>6 DEF LoadClient
<1> QED
    BY <1>2, <1>4, <1>5, <1>6

\* The report of a client user.
LEMMA ReportOK ==
    ASSUME RegistryInv, NEW h \in Handlers,
           ReportRefused(h) \/ UserFind(h) \/ UserInsert(h) \/ ReportAnswer(h)
    PROVE  StepOK(h)
<1> USE DEF HandlerOK, RequestOK, TokenHeld, FoundOK, ClientSteps, TokenSteps, ReportSteps,
            KeySteps, ConfigSteps, ProfileSteps
<1>0. TypeOK /\ DocumentsOK /\ HandlerOK(h) /\ None \notin Apps
    BY RegistryAssumption DEF RegistryInv
<1>1. req[h] \in ClientRequest /\ req[h].app \in hist.created /\ req[h].app \in Apps
    BY <1>0, RequestFields DEF ReportRefused, UserFind, UserInsert, ReportAnswer
<1>2. CASE ReportRefused(h)
    <2>1. LocalType' /\ HandlerOK(h)' /\ OthersWait(h)
        BY <1>0, <1>2, EndedOK DEF ReportRefused
    <2>2. req[h].app \notin apps /\ UNCHANGED <<data, requests>>
        BY <1>0, <1>1, <1>2 DEF ReportRefused
    <2>3. hist' = [hist EXCEPT !.refused = hist.refused \cup {req[h].app}]
        BY <1>2 DEF ReportRefused
    <2>4. /\ hist' \in History
          /\ hist'.created = hist.created /\ hist'.refused = hist.refused \cup {req[h].app}
          /\ hist'.denied = hist.denied /\ hist'.issued = hist.issued
          /\ hist'.keyless = hist.keyless
        <3>1. hist.refused \cup {req[h].app} \in SUBSET Apps
            BY <1>0, <1>1 DEF TypeOK, History
        <3> QED
            BY <1>0, <2>3, <3>1 DEF TypeOK, History
    <2>5. TypeOK'
        BY <1>0, <2>1, <2>2, <2>4 DEF TypeOK, LocalType, data, tokenData
    <2>6. DocumentsOK' /\ Lasting
        BY <1>0, <1>1, <2>2, <2>4 DEF DocumentsOK, Lasting, Configs, data, tokenData
    <2> QED
        BY <2>1, <2>5, <2>6 DEF StepOK
<1>3. CASE UserFind(h)
    <2>1. PICK step \in {"insert", "answer"} : Go(h, step)
        BY <1>3 DEF UserFind
    <2>2. UNCHANGED <<data, req, cfg, found, token, requests, hist>> /\ req[h].op = "report"
        BY <1>3 DEF UserFind
    <2>3. LocalType' /\ OthersWait(h) /\ at'[h] = step /\ req'[h] = req[h]
        BY <2>1, <2>2, MovedOK DEF Steps
    <2>4. HandlerOK(h)'
        BY <1>1, <2>1, <2>2, <2>3
    <2> QED
        BY <2>2, <2>3, <2>4, QuietOK
<1>4. CASE UserInsert(h)
    <2>1. /\ Go(h, "answer") /\ req[h].op = "report"
          /\ users' = [users EXCEPT ![req[h].app] = @ + 1]
          /\ UNCHANGED <<apps, pairs, keyPairMap, tokenData, docs, profiles, req, cfg, found,
                         token, requests, hist>>
        BY <1>0, <1>4 DEF UserInsert
    <2>2. LocalType' /\ OthersWait(h) /\ at'[h] = "answer" /\ req'[h] = req[h]
        BY <2>1, MovedOK DEF Steps
    <2>3. HandlerOK(h)'
        BY <1>1, <2>1, <2>2
    <2>4. users' \in [Apps -> Nat]
        <3>1. users \in [Apps -> Nat] /\ users' = [users EXCEPT ![req[h].app] = users[req[h].app] + 1]
            BY <1>0, <2>1 DEF TypeOK
        <3> QED
            BY <1>1, <3>1
    <2>5. TypeOK'
        BY <1>0, <2>1, <2>2, <2>4 DEF TypeOK, LocalType, tokenData
    <2>6. DocumentsOK' /\ Lasting
        BY <1>0, <2>1 DEF DocumentsOK, Lasting, Configs, tokenData
    <2> QED
        BY <2>2, <2>3, <2>5, <2>6 DEF StepOK
<1>5. CASE ReportAnswer(h)
    <2>1. LocalType' /\ HandlerOK(h)' /\ OthersWait(h) /\ UNCHANGED <<data, requests>>
        BY <1>0, <1>5, EndedOK DEF ReportAnswer
    <2>2. PICK T \in SUBSET {req[h].app} : hist' = [hist EXCEPT !.told = hist.told \cup T]
        BY <1>5 DEF ReportAnswer
    <2>3. /\ hist' \in History
          /\ hist'.created = hist.created /\ hist'.refused = hist.refused
          /\ hist'.denied = hist.denied /\ hist'.issued = hist.issued
          /\ hist'.keyless = hist.keyless
        <3>1. hist.told \cup T \in SUBSET Apps
            BY <1>0, <1>1 DEF TypeOK, History
        <3> QED
            BY <1>0, <2>2, <3>1 DEF TypeOK, History
    <2>4. TypeOK'
        BY <1>0, <2>1, <2>3 DEF TypeOK, LocalType, data, tokenData
    <2>5. DocumentsOK' /\ Lasting
        BY <1>0, <2>1, <2>3 DEF DocumentsOK, Lasting, Configs, data, tokenData
    <2> QED
        BY <2>1, <2>4, <2>5 DEF StepOK
<1> QED
    BY <1>2, <1>3, <1>4, <1>5

\* The global configuration.
LEMMA ConfigOK ==
    ASSUME RegistryInv, NEW h \in Handlers,
           GrantCheck(h) \/ ConfigRead(h) \/ ConfigFind(h) \/ ConfigWrite(h)
    PROVE  StepOK(h)
<1> USE DEF HandlerOK, RequestOK, TokenHeld, FoundOK, ClientSteps, TokenSteps, ReportSteps,
            KeySteps, ConfigSteps, ProfileSteps
<1>0. TypeOK /\ DocumentsOK /\ HandlerOK(h) /\ None \notin Config
    BY RegistryAssumption DEF RegistryInv
<1>1. req[h] \in ConfigRequest
    BY <1>0 DEF GrantCheck, ConfigRead, ConfigFind, ConfigWrite
<1>2. CASE GrantCheck(h)
    <2>1. CASE End(h)
        <3>1. LocalType' /\ HandlerOK(h)' /\ OthersWait(h)
            BY <1>0, <2>1, EndedOK
        <3>2. UNCHANGED hist
            BY <1>0, <1>2, <2>1 DEF GrantCheck, End, Go, TypeOK
        <3> QED
            BY <1>2, <3>1, <3>2, QuietOK DEF GrantCheck
    <2>2. CASE Go(h, "read") /\ UNCHANGED <<req, cfg, found, token>>
        <3>1. LocalType' /\ OthersWait(h) /\ at'[h] = "read" /\ req'[h] = req[h]
            BY <2>2, MovedOK DEF Steps
        <3>2. HandlerOK(h)'
            BY <1>1, <3>1
        <3>3. PICK n \in SUBSET Apps : hist' = [hist EXCEPT !.named = n]
            <4>1. hist.named \cup req[h].ids \in SUBSET Apps
                BY <1>0, <1>1, <1>2, RequestFields DEF GrantCheck, TypeOK, History
            <4>2. hist = [hist EXCEPT !.named = hist.named] /\ hist.named \in SUBSET Apps
                BY <1>0 DEF TypeOK, History
            <4> QED
                BY <1>2, <4>1, <4>2 DEF GrantCheck
        <3>4. /\ hist' \in History
              /\ hist'.created = hist.created /\ hist'.refused = hist.refused
              /\ hist'.denied = hist.denied /\ hist'.issued = hist.issued
              /\ hist'.keyless = hist.keyless
            BY <1>0, <3>3 DEF TypeOK, History
        <3>5. UNCHANGED <<data, requests>>
            BY <1>2 DEF GrantCheck
        <3>6. TypeOK'
            BY <1>0, <3>1, <3>4, <3>5 DEF TypeOK, LocalType, data, tokenData
        <3>7. DocumentsOK' /\ Lasting
            BY <1>0, <3>4, <3>5 DEF DocumentsOK, Lasting, Configs, data, tokenData
        <3> QED
            BY <3>1, <3>2, <3>6, <3>7 DEF StepOK
    <2> QED
        BY <1>2, <2>1, <2>2 DEF GrantCheck
<1>3. CASE ConfigRead(h)
    <2>1. PICK c \in Read : cfg' = [cfg EXCEPT ![h] = Change(req[h], c)]
        BY <1>3 DEF ConfigRead
    <2>2. Change(req[h], c) \in Config
        BY <1>0, <1>1, ReadType, ChangeType
    <2>3. Go(h, "find") /\ UNCHANGED <<data, req, found, token, requests, hist>>
        BY <1>3 DEF ConfigRead
    <2>4. LocalType' /\ OthersWait(h) /\ at'[h] = "find" /\ req'[h] = req[h]
        BY <2>1, <2>2, <2>3, MovedOK DEF Steps
    <2>5. cfg'[h] \in Config
        BY <1>0, <2>1, <2>2 DEF TypeOK
    <2>6. HandlerOK(h)'
        BY <1>1, <2>4, <2>5
    <2> QED
        BY <2>3, <2>4, <2>6, QuietOK
<1>4. CASE ConfigFind(h)
    <2>1. PICK d \in Configs \cup {None} : found' = [found EXCEPT ![h] = d]
        BY <1>4 DEF ConfigFind
    <2>2. Go(h, "write") /\ UNCHANGED <<data, req, cfg, token, requests, hist>>
        BY <1>4 DEF ConfigFind
    <2>3. d \in Apps \cup DocIds \cup {None} /\ found'[h] = d
        BY <1>0, <2>1 DEF Configs, TypeOK
    <2>4. LocalType' /\ OthersWait(h) /\ at'[h] = "write" /\ req'[h] = req[h]
        BY <2>1, <2>2, <2>3, MovedOK DEF Steps
    <2>5. cfg'[h] \in Config /\ d \in Configs' \cup {None}
        BY <1>0, <1>4, <2>2 DEF ConfigFind, Configs, data
    <2>6. HandlerOK(h)'
        BY <1>1, <2>3, <2>4, <2>5
    <2> QED
        BY <2>2, <2>4, <2>6, QuietOK
<1>5. CASE ConfigWrite(h)
    <2>1. LocalType' /\ HandlerOK(h)' /\ OthersWait(h)
        BY <1>0, <1>5, EndedOK DEF ConfigWrite
    <2>2. PICK d \in DocIds : docs' = [docs EXCEPT ![d] = cfg[h]]
        <3>1. CASE found[h] = None
            <4> DEFINE U == DocIds \ Configs
            <4>1. U # {}
                BY <1>5, <3>1 DEF ConfigWrite, Configs
            <4>2. Fresh(U) \in U
                <5> HIDE DEF U
                <5> QED
                    BY <4>1, FreshIsUnused
            <4> QED
                BY <1>5, <3>1, <4>2 DEF ConfigWrite
        <3>2. CASE found[h] # None
            BY <1>0, <1>5, <3>2 DEF ConfigWrite, Configs
        <3> QED
            BY <3>1, <3>2
    <2>3. cfg[h] \in Config
        BY <1>0, <1>5 DEF ConfigWrite
    <2>4. UNCHANGED <<apps, pairs, keyPairMap, tokenData, profiles, users, requests>>
        BY <1>5 DEF ConfigWrite
    <2>5. PICK c \in Config : hist' = [hist EXCEPT !.serial = c]
        <3>1. hist.serial \in Config
            BY <1>0 DEF TypeOK, History
        <3>2. Change(req[h], hist.serial) \in Config
            BY <1>1, <3>1, ChangeType
        <3> QED
            BY <1>5, <3>2 DEF ConfigWrite
    <2>6. /\ hist' \in History
          /\ hist'.created = hist.created /\ hist'.refused = hist.refused
          /\ hist'.denied = hist.denied /\ hist'.issued = hist.issued
          /\ hist'.keyless = hist.keyless
        BY <1>0, <2>5 DEF TypeOK, History
    <2>7. docs' \in [DocIds -> Config \cup {None}] /\ Configs \subseteq Configs'
        BY <1>0, <2>2, <2>3 DEF TypeOK, Configs
    <2>8. TypeOK'
        BY <1>0, <2>1, <2>4, <2>6, <2>7 DEF TypeOK, LocalType, tokenData
    <2>9. DocumentsOK' /\ Lasting
        BY <1>0, <2>4, <2>6, <2>7 DEF DocumentsOK, Lasting, tokenData
    <2> QED
        BY <2>1, <2>8, <2>9 DEF StepOK
<1> QED
    BY <1>2, <1>3, <1>4, <1>5

\* The profiles, and a handler that fails.
LEMMA ProfileOK ==
    ASSUME RegistryInv, NEW h \in Handlers, ProfileCount(h) \/ ProfileSave(h) \/ HandlerFails(h)
    PROVE  StepOK(h)
<1> USE DEF HandlerOK, RequestOK, TokenHeld, FoundOK, ClientSteps, TokenSteps, ReportSteps,
            KeySteps, ConfigSteps, ProfileSteps
<1>0. TypeOK /\ DocumentsOK /\ HandlerOK(h)
    BY DEF RegistryInv
<1>1. CASE End(h) /\ UNCHANGED <<data, requests, hist>>
    BY <1>0, <1>1, EndedOK, QuietOK
<1>2. CASE ProfileCount(h) /\ ~End(h)
    <2>1. Go(h, "save") /\ UNCHANGED <<data, req, cfg, found, token, requests, hist>>
        BY <1>2 DEF ProfileCount
    <2>2. LocalType' /\ OthersWait(h) /\ at'[h] = "save" /\ req'[h] = req[h]
        BY <2>1, MovedOK DEF Steps
    <2>3. HandlerOK(h)'
        BY <1>0, <1>2, <2>2 DEF ProfileCount
    <2> QED
        BY <2>1, <2>2, <2>3, QuietOK
<1>3. CASE ProfileSave(h)
    <2>1. LocalType' /\ HandlerOK(h)' /\ OthersWait(h)
        BY <1>0, <1>3, EndedOK DEF ProfileSave
    <2>2. UNCHANGED <<apps, pairs, keyPairMap, tokenData, docs, users, requests, hist>>
        BY <1>3 DEF ProfileSave
    <2>3. req[h].target \in Targets
        BY <1>0, <1>3, RequestFields DEF ProfileSave
    <2>4. profiles' \in [ProfileIds -> Targets \cup {None}]
        BY <1>0, <1>3, <2>3 DEF ProfileSave, TypeOK
    <2>5. TypeOK'
        BY <1>0, <2>1, <2>2, <2>4 DEF TypeOK, LocalType, tokenData
    <2>6. DocumentsOK' /\ Lasting
        BY <1>0, <2>2 DEF DocumentsOK, Lasting, Configs, tokenData
    <2> QED
        BY <2>1, <2>5, <2>6 DEF StepOK
<1> QED
    BY <1>1, <1>2, <1>3 DEF ProfileCount, HandlerFails

\* Every step of a handler.
LEMMA HandlerStepOK ==
    ASSUME RegistryInv, NEW h \in Handlers, HandlerStep(h)
    PROVE  StepOK(h)
  BY BeginningOK, KeyOK, TokenOK, AuthOK, ReportOK, ConfigOK, ProfileOK DEF HandlerStep

\* Applications, expiry, edits of profiles: no handler moves.
LEMMA OutsideOK ==
    ASSUME RegistryInv,
           \/ \E a \in Apps : CreateApp(a) \/ UpdateApp(a) \/ DeleteApp(a)
           \/ \E k \in Tokens : Expire(k)
           \/ \E p \in ProfileIds, t \in Targets : UpdateProfile(p, t)
           \/ \E p \in ProfileIds : DeleteProfile(p)
    PROVE  TypeOK' /\ DocumentsOK' /\ Lasting /\ UNCHANGED local
<1>0. TypeOK /\ DocumentsOK
    BY DEF RegistryInv
<1>1. ASSUME NEW a \in Apps, CreateApp(a)
      PROVE  TypeOK' /\ DocumentsOK' /\ Lasting /\ UNCHANGED local
    <2>1. hist' = [hist EXCEPT !.created = hist.created \cup {a}]
        BY <1>1 DEF CreateApp
    <2>2. /\ hist' \in History
          /\ hist'.created = hist.created \cup {a} /\ hist'.refused = hist.refused
          /\ hist'.denied = hist.denied /\ hist'.issued = hist.issued
          /\ hist'.keyless = hist.keyless
        BY <1>0, <2>1 DEF TypeOK, History
    <2>3. TypeOK'
        BY <1>0, <1>1, <2>2 DEF CreateApp, TypeOK, local, tokenData
    <2>4. DocumentsOK' /\ Lasting
        BY <1>0, <1>1, <2>2 DEF CreateApp, DocumentsOK, Lasting, Configs, TypeOK, tokenData
    <2> QED
        BY <1>1, <2>3, <2>4 DEF CreateApp
<1>2. ASSUME NEW a \in Apps, UpdateApp(a)
      PROVE  TypeOK' /\ DocumentsOK' /\ Lasting /\ UNCHANGED local
    BY <1>0, <1>2 DEF UpdateApp, vars, data, tokenData, local, TypeOK, DocumentsOK, Lasting, Configs
<1>3. ASSUME NEW a \in Apps, DeleteApp(a)
      PROVE  TypeOK' /\ DocumentsOK' /\ Lasting /\ UNCHANGED local
    BY <1>0, <1>3 DEF DeleteApp, tokenData, local, TypeOK, DocumentsOK, Lasting, Configs
<1>4. ASSUME NEW k \in Tokens, Expire(k)
      PROVE  TypeOK' /\ DocumentsOK' /\ Lasting /\ UNCHANGED local
    BY <1>0, <1>4 DEF Expire, local, TypeOK, DocumentsOK, Lasting, Configs
<1>5. ASSUME NEW p \in ProfileIds, NEW t \in Targets, UpdateProfile(p, t)
      PROVE  TypeOK' /\ DocumentsOK' /\ Lasting /\ UNCHANGED local
    <2>1. hist' = [hist EXCEPT !.updated = hist.updated \cup {p}]
        BY <1>5 DEF UpdateProfile
    <2>2. /\ hist' \in History
          /\ hist'.created = hist.created /\ hist'.refused = hist.refused
          /\ hist'.denied = hist.denied /\ hist'.issued = hist.issued
          /\ hist'.keyless = hist.keyless
        BY <1>0, <2>1 DEF TypeOK, History
    <2>3. requests' \in 0 .. MaxRequests /\ profiles' \in [ProfileIds -> Targets \cup {None}]
        BY <1>0, <1>5, RegistryAssumption DEF UpdateProfile, TypeOK
    <2>4. TypeOK'
        BY <1>0, <1>5, <2>2, <2>3 DEF UpdateProfile, TypeOK, local, tokenData
    <2>5. DocumentsOK' /\ Lasting
        BY <1>0, <1>5, <2>2 DEF UpdateProfile, DocumentsOK, Lasting, Configs, tokenData
    <2> QED
        BY <1>5, <2>4, <2>5 DEF UpdateProfile
<1>6. ASSUME NEW p \in ProfileIds, DeleteProfile(p)
      PROVE  TypeOK' /\ DocumentsOK' /\ Lasting /\ UNCHANGED local
    <2>1. requests' \in 0 .. MaxRequests /\ profiles' \in [ProfileIds -> Targets \cup {None}]
        BY <1>0, <1>6, RegistryAssumption DEF DeleteProfile, TypeOK
    <2>2. TypeOK'
        BY <1>0, <1>6, <2>1 DEF DeleteProfile, TypeOK, local, tokenData
    <2>3. DocumentsOK' /\ Lasting
        BY <1>0, <1>6 DEF DeleteProfile, DocumentsOK, Lasting, Configs, tokenData
    <2> QED
        BY <1>6, <2>2, <2>3 DEF DeleteProfile
<1> QED
    BY <1>1, <1>2, <1>3, <1>4, <1>5, <1>6

\* The invariant is inductive.
LEMMA RegistryStep == RegistryInv /\ [Next]_vars => RegistryInv'
<1> SUFFICES ASSUME RegistryInv, [Next]_vars PROVE RegistryInv'
    OBVIOUS
<1>0. TypeOK /\ DocumentsOK /\ \A h \in Handlers : HandlerOK(h)
    BY DEF RegistryInv
<1>1. CASE UNCHANGED vars
    <2>1. TypeOK' /\ DocumentsOK'
        BY <1>0, <1>1 DEF vars, data, tokenData, local, TypeOK, DocumentsOK
    <2>2. Lasting /\ UNCHANGED local
        BY <1>1 DEF vars, data, tokenData, Lasting, Configs
    <2> QED
        BY <1>0, <2>1, <2>2, WaitingOK DEF RegistryInv, local
<1>2. ASSUME NEW h \in Handlers, HandlerStep(h) PROVE RegistryInv'
    <2>1. StepOK(h)
        BY <1>2, HandlerStepOK
    <2>2. \A g \in Handlers \ {h} : HandlerOK(g)'
        BY <1>0, <2>1, WaitingOK DEF StepOK, OthersWait
    <2> QED
        BY <2>1, <2>2 DEF StepOK, RegistryInv
<1>3. CASE \/ \E a \in Apps : CreateApp(a) \/ UpdateApp(a) \/ DeleteApp(a)
           \/ \E k \in Tokens : Expire(k)
           \/ \E p \in ProfileIds, t \in Targets : UpdateProfile(p, t)
           \/ \E p \in ProfileIds : DeleteProfile(p)
    <2>1. TypeOK' /\ DocumentsOK' /\ Lasting /\ UNCHANGED local
        BY <1>3, OutsideOK
    <2> QED
        BY <1>0, <2>1, WaitingOK DEF RegistryInv, local
<1>4. CASE Restart
    <2>1. TypeOK'
        BY <1>0, <1>4 DEF Restart, TypeOK, Steps, tokenData
    <2>2. DocumentsOK'
        BY <1>0, <1>4 DEF Restart, DocumentsOK, tokenData
    <2>3. \A h \in Handlers : HandlerOK(h)'
        BY <1>4 DEF Restart, HandlerOK, RequestOK, TokenHeld, FoundOK, ClientSteps, TokenSteps,
                    ReportSteps, KeySteps, ConfigSteps, ProfileSteps
    <2> QED
        BY <2>1, <2>2, <2>3 DEF RegistryInv
<1> QED
    BY <1>1, <1>2, <1>3, <1>4 DEF Next

\* It holds when the server starts on an empty database.
LEMMA RegistryInit == Init => RegistryInv
<1> SUFFICES ASSUME Init PROVE RegistryInv
    OBVIOUS
<1>1. hist \in History /\ requests \in 0 .. MaxRequests
    BY RegistryAssumption DEF Init, History, DefaultConfig, Config
<1>2. TypeOK
    BY <1>1 DEF Init, TypeOK, Steps
<1>3. DocumentsOK
    BY DEF Init, DocumentsOK
<1>4. \A h \in Handlers : HandlerOK(h)
    BY DEF Init, HandlerOK, RequestOK, TokenHeld, FoundOK, ClientSteps, TokenSteps,
           ReportSteps, KeySteps, ConfigSteps, ProfileSteps
<1> QED
    BY <1>2, <1>3, <1>4 DEF RegistryInv

\* Every reachable state is well typed: among others, only key pairs of applications
\* that were created are cached, and every stored token belongs to an application.
THEOREM TypeCorrect == Spec => []TypeOK
<1>1. RegistryInv => TypeOK
    BY DEF RegistryInv
<1> QED
    BY <1>1, RegistryInit, RegistryStep, PTL DEF Spec

\* A registered application gets tokens with its public key, and its clients are not
\* refused, whatever races in keyPairMap, restarts and edits there are.
THEOREM KeyWorks == Spec => []IssuedKeyWorks
<1>1. RegistryInv => IssuedKeyWorks
    BY DEF RegistryInv, DocumentsOK, IssuedKeyWorks
<1> QED
    BY <1>1, RegistryInit, RegistryStep, PTL DEF Spec

\* A token a client has received is accepted until it expires or its application is
\* deleted, whatever other requests for tokens run.
THEOREM TokenWorks == Spec => []IssuedTokenWorks
<1>1. RegistryInv => IssuedTokenWorks
    BY DEF RegistryInv, DocumentsOK, IssuedTokenWorks
<1> QED
    BY <1>1, RegistryInit, RegistryStep, PTL DEF Spec

-----------------------------------------------------------------------------
(* Requests that overlap. *)

\* The steps of a request, by its kind.
KindSteps == [k \in {"client", "config", "profile"} |->
                IF k = "client" THEN ClientSteps
                ELSE IF k = "config" THEN ConfigSteps ELSE ProfileSteps]

\* Two requests of a kind run at the same time only if the history says so.
Exclusive(kind) ==
    kind \notin hist.overlap =>
        \A g, h \in Handlers : at[g] \in KindSteps[kind] /\ at[h] \in KindSteps[kind] => g = h

AloneInv == \A kind \in {"client", "config", "profile"} : Exclusive(kind)

\* A handler that is idle begins a request, one that is not goes on.
LEMMA BeginsOrGoesOn ==
    ASSUME RegistryInv, NEW h \in Handlers, HandlerStep(h)
    PROVE  \/ /\ at[h] = "idle" /\ UNCHANGED data
              /\ \/ \E r \in ClientRequest : Begin(h, r, "existing") \/ Begin(h, r, "auth")
                 \/ \E r \in ConfigRequest : Begin(h, r, "check") \/ Begin(h, r, "read")
                 \/ \E r \in ProfileRequest : Begin(h, r, "count")
           \/ /\ at[h] # "idle"
              /\ \/ TokenExisting(h) \/ RemoveToken(h) \/ StoreToken(h) \/ Enhance(h)
                 \/ ReadAccessToken(h) \/ ReadAuthentication(h) \/ LoadClient(h)
                 \/ KeyHit(h) \/ KeyMiss(h) \/ KeyLoad(h) \/ KeyPut(h)
                 \/ ReportRefused(h) \/ UserFind(h) \/ UserInsert(h) \/ ReportAnswer(h)
                 \/ GrantCheck(h) \/ ConfigRead(h) \/ ConfigFind(h) \/ ConfigWrite(h)
                 \/ ProfileCount(h) \/ ProfileSave(h) \/ HandlerFails(h)
<1>1. ASSUME NEW a \in Apps, TokenRequest(h, a)
      PROVE  at[h] = "idle" /\ UNCHANGED data
             /\ \E r \in ClientRequest : Begin(h, r, "existing")
    BY <1>1 DEF TokenRequest, Begin, ClientRequest
<1>2. ASSUME NEW k \in Tokens, ClientUserReport(h, k)
      PROVE  at[h] = "idle" /\ UNCHANGED data
             /\ \E r \in ClientRequest : Begin(h, r, "auth")
    <2>1. owner[k] \in Apps
        BY <1>2 DEF ClientUserReport, RegistryInv, TypeOK
    <2> QED
        BY <1>2, <2>1 DEF ClientUserReport, Begin, ClientRequest
<1>3. ASSUME NEW l \in Levels, UpdateLevel(h, l)
      PROVE  at[h] = "idle" /\ UNCHANGED data
             /\ \E r \in ConfigRequest : Begin(h, r, "read")
    BY <1>3 DEF UpdateLevel, Begin, ConfigRequest
<1>4. ASSUME NEW ids \in SUBSET Apps \ {{}}, AddGrantClient(h, ids) \/ RemoveGrantClient(h, ids)
      PROVE  at[h] = "idle" /\ UNCHANGED data
             /\ \E r \in ConfigRequest : Begin(h, r, "check") \/ Begin(h, r, "read")
    BY <1>4 DEF AddGrantClient, RemoveGrantClient, Begin, ConfigRequest
<1>5. ASSUME NEW t \in Targets, CreateProfile(h, t)
      PROVE  at[h] = "idle" /\ UNCHANGED data
             /\ \E r \in ProfileRequest : Begin(h, r, "count")
    BY <1>5 DEF CreateProfile, Begin, ProfileRequest
<1>6. \/ TokenExisting(h) \/ RemoveToken(h) \/ StoreToken(h) \/ Enhance(h)
      \/ ReadAccessToken(h) \/ ReadAuthentication(h) \/ LoadClient(h)
      \/ KeyHit(h) \/ KeyMiss(h) \/ KeyLoad(h) \/ KeyPut(h)
      \/ ReportRefused(h) \/ UserFind(h) \/ UserInsert(h) \/ ReportAnswer(h)
      \/ GrantCheck(h) \/ ConfigRead(h) \/ ConfigFind(h) \/ ConfigWrite(h)
      \/ ProfileCount(h) \/ ProfileSave(h) \/ HandlerFails(h)
      => at[h] # "idle"
    BY DEF TokenExisting, RemoveToken, StoreToken, Enhance, ReadAccessToken, ReadAuthentication,
           LoadClient, KeyHit, KeyMiss, KeyLoad, KeyPut, ReportRefused, UserFind, UserInsert,
           ReportAnswer, GrantCheck, ConfigRead, ConfigFind, ConfigWrite, ProfileCount,
           ProfileSave, HandlerFails
<1> QED
    BY <1>1, <1>2, <1>3, <1>4, <1>5, <1>6 DEF HandlerStep

\* What a step of a handler does to the history.
LEMMA HistorySteps ==
    ASSUME RegistryInv, NEW h \in Handlers, HandlerStep(h)
    PROVE  /\ hist'.updated = hist.updated
           /\ hist'.told = hist.told \/ ReportAnswer(h)
           /\ hist.named \subseteq hist'.named
           /\ hist'.serial = hist.serial \/ ConfigWrite(h)
           /\ hist.overlap \subseteq hist'.overlap
           /\ at[h] # "idle" => hist'.overlap = hist.overlap
<1>0. hist \in History
    BY DEF RegistryInv, TypeOK
<1>1. CASE at[h] = "idle"
    <2>1. PICK r, step : Begin(h, r, step)
        BY <1>1, BeginsOrGoesOn
    <2> DEFINE o == {k \in {Kind(r)} : \E g \in Handlers \ {h} :
                                          at[g] /= "idle" /\ Kind(req[g]) = k}
    <2> DEFINE n == IF r.op = "revoke" THEN r.ids ELSE {}
    <2>2. hist' = [hist EXCEPT !.overlap = hist.overlap \cup o, !.named = hist.named \cup n]
        BY <2>1 DEF Begin
    <2> HIDE DEF o, n
    <2> QED
        BY <1>0, <1>1, <2>2 DEF History
<1>2. CASE at[h] # "idle"
    <2>1. CASE hist' = hist
        BY <2>1
    <2>2. CASE StoreToken(h)
        BY <1>0, <2>2 DEF StoreToken, History
    <2>3. CASE ReadAccessToken(h) \/ ReadAuthentication(h) \/ LoadClient(h)
        BY <1>0, <2>3 DEF ReadAccessToken, ReadAuthentication, LoadClient, Deny, History
    <2>4. CASE ReportRefused(h)
        BY <1>0, <2>4 DEF ReportRefused, History
    <2>5. CASE ReportAnswer(h)
        BY <1>0, <2>5 DEF ReportAnswer, History
    <2>6. CASE ConfigWrite(h)
        BY <1>0, <2>6 DEF ConfigWrite, History
    <2>7. CASE GrantCheck(h)
        BY <1>0, <2>7 DEF GrantCheck, History
    <2> QED
        BY <1>2, <2>1, <2>2, <2>3, <2>4, <2>5, <2>6, <2>7, BeginsOrGoesOn
           DEF TokenExisting, RemoveToken, Enhance, KeyHit, KeyMiss, KeyLoad, KeyPut, UserFind,
               UserInsert, ConfigRead, ConfigFind, ProfileCount, ProfileSave, HandlerFails
<1> QED
    BY <1>1, <1>2

\* A handler that goes on stays with its kind of request, or ends.
LEMMA StaysInKind ==
    ASSUME RegistryInv, NEW h \in Handlers, HandlerStep(h), at[h] # "idle",
           NEW kind \in {"client", "config", "profile"}, at'[h] \in KindSteps[kind]
    PROVE  at[h] \in KindSteps[kind]
<1> USE DEF KindSteps, ClientSteps, TokenSteps, ReportSteps, KeySteps, ConfigSteps, ProfileSteps
<1>0. at \in [Handlers -> Steps]
    BY DEF RegistryInv, TypeOK
<1>1. ~End(h)
    BY <1>0 DEF End, Go
<1>2. ~Deny(h)
    BY <1>1 DEF Deny
<1>3. CASE TokenExisting(h) \/ RemoveToken(h) \/ StoreToken(h) \/ Enhance(h)
    BY <1>0, <1>1, <1>3 DEF TokenExisting, RemoveToken, StoreToken, Enhance, Go
<1>4. CASE ReadAccessToken(h) \/ ReadAuthentication(h) \/ LoadClient(h)
    BY <1>0, <1>2, <1>4 DEF ReadAccessToken, ReadAuthentication, LoadClient, Go
<1>5. CASE KeyHit(h) \/ KeyMiss(h) \/ KeyLoad(h) \/ KeyPut(h)
    BY <1>0, <1>5 DEF KeyHit, KeyMiss, KeyLoad, KeyPut, Go
<1>6. CASE ReportRefused(h) \/ UserFind(h) \/ UserInsert(h) \/ ReportAnswer(h)
    BY <1>0, <1>1, <1>6 DEF ReportRefused, UserFind, UserInsert, ReportAnswer, Go
<1>7. CASE GrantCheck(h) \/ ConfigRead(h) \/ ConfigFind(h) \/ ConfigWrite(h)
    BY <1>0, <1>1, <1>7 DEF GrantCheck, ConfigRead, ConfigFind, ConfigWrite, Go
<1>8. CASE ProfileCount(h) \/ ProfileSave(h) \/ HandlerFails(h)
    BY <1>0, <1>1, <1>8 DEF ProfileCount, ProfileSave, HandlerFails, Go
<1> QED
    BY <1>3, <1>4, <1>5, <1>6, <1>7, <1>8, BeginsOrGoesOn

\* A request that begins meets no other of its kind, or the history says so.
LEMMA BeginsAlone ==
    ASSUME RegistryInv, NEW h \in Handlers, NEW r, NEW step, Begin(h, r, step),
           NEW kind \in {"client", "config", "profile"}, Kind(r) = kind, kind \notin hist'.overlap,
           NEW g \in Handlers \ {h}
    PROVE  at[g] \notin KindSteps[kind]
<1>0. hist \in History /\ HandlerOK(g)
    BY DEF RegistryInv, TypeOK
<1> DEFINE o == {k \in {Kind(r)} : \E f \in Handlers \ {h} :
                                        at[f] /= "idle" /\ Kind(req[f]) = k}
<1> DEFINE n == IF r.op = "revoke" THEN r.ids ELSE {}
<1>1. hist' = [hist EXCEPT !.overlap = hist.overlap \cup o, !.named = hist.named \cup n]
    BY DEF Begin
<1>2. kind \notin o
    <2> HIDE DEF o, n
    <2> QED
        BY <1>0, <1>1 DEF History
<1>3. at[g] = "idle" \/ Kind(req[g]) # kind
    BY <1>2
<1>4. at[g] \in KindSteps[kind] => at[g] # "idle" /\ Kind(req[g]) = kind
    BY <1>0, RequestKinds DEF KindSteps, ClientSteps, TokenSteps, ReportSteps, KeySteps,
                              ConfigSteps, ProfileSteps, HandlerOK, RequestOK
<1> QED
    BY <1>3, <1>4

\* Requests that overlap are recorded.
LEMMA AloneStep == RegistryInv /\ AloneInv /\ [Next]_vars => AloneInv'
<1> SUFFICES ASSUME RegistryInv, AloneInv, [Next]_vars PROVE AloneInv'
    OBVIOUS
<1>0. TypeOK /\ hist \in History
    BY DEF RegistryInv, TypeOK
<1>1. ASSUME at' = at, hist'.overlap = hist.overlap PROVE AloneInv'
    BY <1>1 DEF AloneInv, Exclusive, KindSteps, ClientSteps, TokenSteps, ReportSteps, KeySteps,
                ConfigSteps, ProfileSteps
<1>2. CASE UNCHANGED vars
    BY <1>1, <1>2 DEF vars, local
<1>3. CASE \/ \E a \in Apps : CreateApp(a) \/ UpdateApp(a) \/ DeleteApp(a)
           \/ \E k \in Tokens : Expire(k)
           \/ \E p \in ProfileIds, t \in Targets : UpdateProfile(p, t)
           \/ \E p \in ProfileIds : DeleteProfile(p)
    BY <1>0, <1>1, <1>3 DEF CreateApp, UpdateApp, DeleteApp, Expire, UpdateProfile,
                            DeleteProfile, History, vars, local
<1>4. CASE Restart
    BY <1>4 DEF Restart, AloneInv, Exclusive, KindSteps, ClientSteps, TokenSteps, ReportSteps,
                KeySteps, ConfigSteps, ProfileSteps
<1>5. ASSUME NEW h \in Handlers, HandlerStep(h) PROVE AloneInv'
    <2>0. OthersWait(h) /\ hist.overlap \subseteq hist'.overlap
        BY <1>5, HandlerStepOK, HistorySteps DEF StepOK
    <2> SUFFICES ASSUME NEW kind \in {"client", "config", "profile"}, kind \notin hist'.overlap,
                        NEW f \in Handlers, NEW g \in Handlers,
                        at'[f] \in KindSteps[kind], at'[g] \in KindSteps[kind], f # g
                 PROVE  FALSE
        BY DEF AloneInv, Exclusive, KindSteps, ClientSteps, TokenSteps, ReportSteps, KeySteps,
               ConfigSteps, ProfileSteps
    <2>1. \A e \in Handlers \ {h} : at'[e] = at[e]
        BY <2>0 DEF OthersWait
    <2>2. \A d, e \in Handlers : at[d] \in KindSteps[kind] /\ at[e] \in KindSteps[kind] => d = e
        BY <2>0 DEF AloneInv, Exclusive
    <2>3. CASE at[h] # "idle"
        <3>1. at'[h] \in KindSteps[kind] => at[h] \in KindSteps[kind]
            BY <1>5, <2>3, StaysInKind
        <3> QED
            BY <2>1, <2>2, <3>1
    <2>4. CASE at[h] = "idle" /\ at'[h] \in KindSteps[kind]
        <3>1. PICK r, step : Begin(h, r, step) /\ Kind(r) = kind
            <4>1. PICK r, step :
                    /\ Begin(h, r, step)
                    /\ \/ r \in ClientRequest /\ step \in {"existing", "auth"}
                       \/ r \in ConfigRequest /\ step \in {"check", "read"}
                       \/ r \in ProfileRequest /\ step = "count"
                BY <1>5, <2>4, BeginsOrGoesOn
            <4>2. at'[h] = step
                BY <1>0, <4>1 DEF Begin, Go, TypeOK
            <4>3. Kind(r) = kind
                BY <2>4, <4>1, <4>2, RequestKinds
                   DEF KindSteps, ClientSteps, TokenSteps, ReportSteps, KeySteps, ConfigSteps,
                       ProfileSteps
            <4> QED
                BY <4>1, <4>3
        <3>2. \A e \in Handlers \ {h} : at[e] \notin KindSteps[kind]
            BY <3>1, BeginsAlone
        <3> QED
            BY <2>1, <3>2
    <2>5. CASE at'[h] \notin KindSteps[kind]
        BY <2>1, <2>2, <2>5
    <2> QED
        BY <2>3, <2>4, <2>5
<1> QED
    BY <1>2, <1>3, <1>4, <1>5 DEF Next

\* At first no request runs.
LEMMA AloneInit == Init => AloneInv
  BY DEF Init, AloneInv, Exclusive, KindSteps, ClientSteps, TokenSteps, ReportSteps, KeySteps,
         ConfigSteps, ProfileSteps

-----------------------------------------------------------------------------
(* SerialUpdatesApply. *)

\* Without overlapping updates the one document is what the updates make one after
\* the other, and an update that has read it still has it before its eyes.
OneConfig ==
    /\ \A d, e \in Configs : d = e
    /\ Configs = {} => hist.serial = DefaultConfig
    /\ \A d \in Configs : docs[d] = hist.serial
    /\ \A h \in Handlers : at[h] \in {"find", "write"} => cfg[h] = Change(req[h], hist.serial)
    /\ \A h \in Handlers : at[h] = "write" /\ found[h] = None => Configs = {}

SerialInv == "config" \notin hist.overlap => OneConfig

\* What the steps of a handler do to the configuration.
LEMMA ConfigEffects ==
    ASSUME RegistryInv, NEW h \in Handlers, HandlerStep(h)
    PROVE  \/ docs' = docs /\ at'[h] \notin {"find", "write"}
           \/ ConfigRead(h) \/ ConfigFind(h) \/ ConfigWrite(h)
<1>0. at \in [Handlers -> Steps]
    BY DEF RegistryInv, TypeOK
<1>1. CASE at[h] = "idle"
    BY <1>0, <1>1, BeginsOrGoesOn DEF Begin, Go, data
<1>2. CASE End(h)
    <2>1. at'[h] = "idle"
        BY <1>0, <1>2 DEF End, Go
    <2>2. docs' = docs \/ ConfigWrite(h)
        BY <1>1, BeginsOrGoesOn
           DEF data, TokenExisting, RemoveToken, StoreToken, Enhance, ReadAccessToken,
               ReadAuthentication, LoadClient, KeyHit, KeyMiss, KeyLoad, KeyPut, ReportRefused,
               UserFind, UserInsert, ReportAnswer, GrantCheck, ConfigRead, ConfigFind,
               ProfileCount, ProfileSave, HandlerFails
    <2> QED
        BY <2>1, <2>2
<1>3. CASE Deny(h)
    BY <1>2, <1>3 DEF Deny
<1>4. CASE TokenExisting(h) \/ RemoveToken(h) \/ StoreToken(h) \/ Enhance(h)
    BY <1>0, <1>2, <1>4 DEF TokenExisting, RemoveToken, StoreToken, Enhance, Go, data
<1>5. CASE ReadAccessToken(h) \/ ReadAuthentication(h) \/ LoadClient(h)
    BY <1>0, <1>3, <1>5 DEF ReadAccessToken, ReadAuthentication, LoadClient, Go, data
<1>6. CASE KeyHit(h) \/ KeyMiss(h) \/ KeyLoad(h) \/ KeyPut(h)
    BY <1>0, <1>6 DEF KeyHit, KeyMiss, KeyLoad, KeyPut, Go, data
<1>7. CASE ReportRefused(h) \/ UserFind(h) \/ UserInsert(h) \/ ReportAnswer(h)
    BY <1>0, <1>2, <1>7 DEF ReportRefused, UserFind, UserInsert, ReportAnswer, Go, data
<1>8. CASE GrantCheck(h)
    BY <1>0, <1>2, <1>8 DEF GrantCheck, Go, data
<1>9. CASE ProfileCount(h) \/ ProfileSave(h) \/ HandlerFails(h)
    BY <1>0, <1>2, <1>9 DEF ProfileCount, ProfileSave, HandlerFails, Go, data
<1> QED
    BY <1>1, <1>4, <1>5, <1>6, <1>7, <1>8, <1>9, BeginsOrGoesOn

\* Without overlapping updates read() returns that configuration.
LEMMA ReadsSerial ==
    ASSUME OneConfig
    PROVE  Read = {hist.serial}
<1>1. CASE Configs = {}
    BY <1>1 DEF OneConfig, Read
<1>2. CASE Configs # {}
    <2>1. PICK d \in Configs : TRUE
        BY <1>2
    <2>2. docs[d] = hist.serial /\ \A e \in Configs : docs[e] = hist.serial
        BY <2>1 DEF OneConfig
    <2> QED
        BY <1>2, <2>2 DEF Read
<1> QED
    BY <1>1, <1>2

\* Another handler's step leaves what an update knows alone.
LEMMA ConfigQuiet ==
    ASSUME OneConfig, docs' = docs, hist'.serial = hist.serial,
           \A h \in Handlers :
              at'[h] \in {"find", "write"} =>
                 at[h] = at'[h] /\ cfg'[h] = cfg[h] /\ req'[h] = req[h] /\ found'[h] = found[h]
    PROVE  OneConfig'
<1>1. Configs' = Configs
    BY DEF Configs
<1>2. \A h \in Handlers : at'[h] \in {"find", "write"} => cfg'[h] = Change(req'[h], hist'.serial)
    BY DEF OneConfig
<1>3. \A h \in Handlers : at'[h] = "write" /\ found'[h] = None => Configs' = {}
    BY <1>1 DEF OneConfig
<1>4. \A h \in Handlers : Change(req[h], hist.serial)' = Change(req'[h], hist'.serial)
    BY DEF Change
<1>5. DefaultConfig' = DefaultConfig
    BY DEF DefaultConfig, DefaultLevel
<1> QED
    BY <1>1, <1>2, <1>3, <1>4, <1>5 DEF OneConfig

\* A write puts the next configuration of the series in the place of the last.
LEMMA WriteInTurn ==
    ASSUME RegistryInv, AloneInv, "config" \notin hist.overlap, OneConfig,
           NEW h \in Handlers, ConfigWrite(h), OthersWait(h)
    PROVE  OneConfig'
<1>0. TypeOK /\ HandlerOK(h) /\ hist \in History /\ None \notin Config
    BY RegistryAssumption DEF RegistryInv, TypeOK
<1>1. at[h] = "write" /\ cfg[h] = Change(req[h], hist.serial) /\ cfg[h] \in Config
    BY <1>0 DEF ConfigWrite, OneConfig, HandlerOK, FoundOK
<1>2. hist'.serial = cfg[h]
    <2>1. hist' = [hist EXCEPT !.serial = cfg[h]]
        BY <1>1 DEF ConfigWrite
    <2> QED
        BY <1>0, <2>1 DEF History
<1>3. PICK d \in DocIds : /\ docs' = [docs EXCEPT ![d] = cfg[h]]
                          /\ \A e \in Configs : e = d
    <2>1. CASE found[h] = None
        <3> DEFINE U == DocIds \ Configs
        <3>1. Configs = {}
            BY <1>1, <2>1 DEF OneConfig
        <3>2. U # {}
            BY <2>1 DEF ConfigWrite, Configs
        <3>3. Fresh(U) \in U
            <4> HIDE DEF U
            <4> QED
                BY <3>2, FreshIsUnused
        <3> QED
            BY <2>1, <3>1, <3>3 DEF ConfigWrite
    <2>2. CASE found[h] # None
        <3>1. found[h] \in Configs
            BY <1>0, <1>1, <2>2 DEF HandlerOK, FoundOK
        <3> QED
            BY <2>2, <3>1 DEF ConfigWrite, OneConfig, Configs
    <2> QED
        BY <2>1, <2>2
<1>4. docs \in [DocIds -> Config \cup {None}]
    BY <1>0 DEF TypeOK
<1>5. Configs' = {d} /\ docs'[d] = cfg[h]
    BY <1>0, <1>1, <1>3, <1>4 DEF Configs
<1>6. \A g \in Handlers : at'[g] \notin {"find", "write"}
    <2>1. at'[h] = "idle"
        BY <1>0 DEF ConfigWrite, End, Go, TypeOK
    <2>2. \A g \in Handlers \ {h} : at[g] \notin ConfigSteps
        BY <1>1 DEF AloneInv, Exclusive, KindSteps, ConfigSteps
    <2> QED
        BY <2>1, <2>2 DEF OthersWait, ConfigSteps
<1> QED
    BY <1>2, <1>5, <1>6 DEF OneConfig

\* The configuration follows the series of updates, unless they overlap.
LEMMA SerialStep == RegistryInv /\ AloneInv /\ SerialInv /\ [Next]_vars => SerialInv'
<1> SUFFICES ASSUME RegistryInv, AloneInv, SerialInv, [Next]_vars PROVE SerialInv'
    OBVIOUS
<1>0. TypeOK /\ hist \in History
    BY DEF RegistryInv, TypeOK
<1>1. ASSUME docs' = docs, hist'.serial = hist.serial, hist.overlap \subseteq hist'.overlap,
             \A h \in Handlers :
               at'[h] \in {"find", "write"} =>
                 at[h] = at'[h] /\ cfg'[h] = cfg[h] /\ req'[h] = req[h] /\ found'[h] = found[h]
      PROVE  SerialInv'
    BY <1>1, ConfigQuiet DEF SerialInv
<1>2. CASE UNCHANGED vars
    BY <1>1, <1>2 DEF vars, local, data
<1>3. CASE \/ \E a \in Apps : CreateApp(a) \/ UpdateApp(a) \/ DeleteApp(a)
           \/ \E k \in Tokens : Expire(k)
           \/ \E p \in ProfileIds, t \in Targets : UpdateProfile(p, t)
           \/ \E p \in ProfileIds : DeleteProfile(p)
    <2>1. UNCHANGED <<docs, local>>
        BY <1>3 DEF CreateApp, UpdateApp, DeleteApp, Expire, UpdateProfile, DeleteProfile,
                    vars, data
    <2>2. hist'.serial = hist.serial /\ hist'.overlap = hist.overlap
        BY <1>0, <1>3 DEF CreateApp, UpdateApp, DeleteApp, Expire, UpdateProfile, DeleteProfile,
                    vars, History
    <2> QED
        BY <1>1, <2>1, <2>2 DEF local
<1>4. CASE Restart
    BY <1>1, <1>4 DEF Restart
<1>5. ASSUME NEW h \in Handlers, HandlerStep(h) PROVE SerialInv'
    <2>0. OthersWait(h) /\ HandlerOK(h) /\ HandlerOK(h)'
        BY <1>5, HandlerStepOK DEF StepOK, RegistryInv
    <2>1. CASE docs' = docs /\ at'[h] \notin {"find", "write"} /\ ~ConfigWrite(h)
        BY <1>1, <1>5, <2>0, <2>1, HistorySteps DEF OthersWait
    <2>2. CASE ConfigRead(h) \/ ConfigFind(h)
        <3>1. docs' = docs /\ hist' = hist /\ req' = req
            BY <2>2 DEF ConfigRead, ConfigFind, data
        <3>2. Configs' = Configs
            BY <3>1 DEF Configs
        <3>3. ASSUME "config" \notin hist.overlap PROVE OneConfig'
            <4>0. OneConfig
                BY <3>3 DEF SerialInv
            <4>1. at'[h] \in {"find", "write"} => cfg'[h] = Change(req[h], hist.serial)
                <5>1. CASE ConfigRead(h)
                    <6>1. PICK c \in Read : cfg' = [cfg EXCEPT ![h] = Change(req[h], c)]
                        BY <5>1 DEF ConfigRead
                    <6>2. c = hist.serial
                        BY <4>0, <6>1, ReadsSerial
                    <6> QED
                        BY <1>0, <6>1, <6>2 DEF TypeOK
                <5>2. CASE ConfigFind(h)
                    BY <4>0, <5>2 DEF ConfigFind, OneConfig
                <5> QED
                    BY <2>2, <5>1, <5>2
            <4>2. at'[h] = "write" /\ found'[h] = None => Configs = {}
                <5>1. CASE ConfigRead(h)
                    BY <1>0, <5>1 DEF ConfigRead, Go, TypeOK
                <5>2. CASE ConfigFind(h)
                    <6>1. None \notin DocIds
                        BY RegistryAssumption
                    <6> QED
                        BY <1>0, <5>2, <6>1 DEF ConfigFind, Configs, TypeOK
                <5> QED
                    BY <2>2, <5>1, <5>2
            <4>3. \A g \in Handlers : Change(req[g], hist.serial)' = Change(req[g], hist.serial)
                BY <3>1 DEF Change
            <4>4. \A g \in Handlers : at'[g] \in {"find", "write"} =>
                        cfg'[g] = Change(req[g], hist.serial)
                BY <2>0, <4>0, <4>1 DEF OthersWait, OneConfig
            <4>5. \A g \in Handlers : at'[g] = "write" /\ found'[g] = None => Configs = {}
                BY <2>0, <4>0, <4>2 DEF OthersWait, OneConfig
            <4>6. DefaultConfig' = DefaultConfig
                BY DEF DefaultConfig, DefaultLevel
            <4> QED
                BY <3>1, <3>2, <4>0, <4>3, <4>4, <4>5, <4>6 DEF OneConfig
        <3> QED
            BY <3>1, <3>3 DEF SerialInv
    <2>3. CASE ConfigWrite(h)
        <3>1. hist'.overlap = hist.overlap
            BY <1>5, <2>3, HistorySteps DEF ConfigWrite
        <3>2. "config" \notin hist'.overlap => OneConfig'
            BY <2>0, <2>3, <3>1, WriteInTurn DEF SerialInv
        <3> QED
            BY <3>2 DEF SerialInv
    <2> QED
        BY <1>5, <2>1, <2>2, <2>3, ConfigEffects
<1> QED
    BY <1>2, <1>3, <1>4, <1>5 DEF Next

\* At first the configuration is the default one.
LEMMA SerialInit == Init => SerialInv
<1> SUFFICES ASSUME Init PROVE SerialInv
    OBVIOUS
<1>1. Configs = {} /\ hist.serial = DefaultConfig
    BY DEF Init, Configs
<1>2. \A h \in Handlers : at[h] = "idle"
    BY DEF Init
<1>3. OneConfig
    BY <1>1, <1>2 DEF OneConfig
<1> QED
    BY <1>3 DEF SerialInv

\* Updates of the configuration that do not overlap take effect in full and in order,
\* on one document, whatever handlers fail and however often the server restarts.
THEOREM SerialUpdates == Spec => []SerialUpdatesApply
<1>1. RegistryInv /\ SerialInv => SerialUpdatesApply
    <2> SUFFICES ASSUME RegistryInv, SerialInv, "config" \notin hist.overlap
                 PROVE  Cardinality(Configs) <= 1 /\ Read = {hist.serial}
        BY DEF SerialUpdatesApply
    <2>1. OneConfig
        BY DEF SerialInv
    <2>2. Cardinality(Configs) <= 1
        <3>1. CASE Configs = {}
            BY <3>1, FS_EmptySet
        <3>2. ASSUME NEW d \in Configs PROVE Cardinality(Configs) <= 1
            <4>1. Configs = {d}
                BY <2>1 DEF OneConfig
            <4>2. Cardinality({d}) = 1
                BY FS_Singleton
            <4> QED
                BY <4>1, <4>2
        <3> QED
            BY <3>1, <3>2
    <2> QED
        BY <2>1, <2>2, ReadsSerial
<1> QED
    BY <1>1, RegistryInit, RegistryStep, AloneInit, AloneStep, SerialInit, SerialStep, PTL DEF Spec

-----------------------------------------------------------------------------
(* OnlyNamedAreTold. *)

\* Documents, and what a handler is about to write, grant to those only whom a request
\* named; what a request that got past the check names is recorded.
NamedInv ==
    /\ \A d \in Configs : docs[d].grants \subseteq hist.named
    /\ \A h \in Handlers : at[h] \in {"find", "write"} => cfg[h].grants \subseteq hist.named
    /\ \A h \in Handlers :
          at[h] = "read" /\ req[h].op \in {"grant", "revoke"} => req[h].ids \subseteq hist.named
    /\ hist.told \subseteq hist.named

\* An update grants to none but those granted before and those its request names.
LEMMA ChangeGrants ==
    ASSUME NEW r \in ConfigRequest, NEW c \in Config, NEW N, c.grants \subseteq N,
           r.op \in {"grant", "revoke"} => r.ids \subseteq N
    PROVE  Change(r, c).grants \subseteq N
<1>1. CASE r.op = "grant"
    BY <1>1 DEF Change, Config
<1>2. CASE r.op = "revoke"
    BY <1>2 DEF Change, Config
<1>3. CASE r.op = "level"
    BY <1>3 DEF Change, Config
<1> QED
    BY <1>1, <1>2, <1>3, RequestFields

\* What read() returns grants to those only whom a request named.
LEMMA ReadNamed ==
    ASSUME NamedInv, NEW c \in Read
    PROVE  c.grants \subseteq hist.named
  BY DEF NamedInv, Read, DefaultConfig

\* A step that writes no configuration and whose handler does not come near one.
LEMMA NamedQuiet ==
    ASSUME NamedInv, docs' = docs, hist.named \subseteq hist'.named,
           hist'.told \subseteq hist'.named,
           \A h \in Handlers :
              at'[h] \in {"read", "find", "write"} =>
                 at[h] = at'[h] /\ cfg'[h] = cfg[h] /\ req'[h] = req[h]
    PROVE  NamedInv'
  BY DEF NamedInv, Configs

\* A handler gets to reading the configuration with what it names recorded.
LEMMA ReadComes ==
    ASSUME RegistryInv, NEW h \in Handlers, HandlerStep(h), at'[h] = "read",
           req'[h].op \in {"grant", "revoke"}
    PROVE  req'[h].ids \subseteq hist'.named
<1>0. TypeOK /\ hist \in History
    BY DEF RegistryInv, TypeOK
<1>1. ASSUME NEW r, Begin(h, r, "read"), r.op = "revoke"
      PROVE  req'[h].ids \subseteq hist'.named
    <2> DEFINE o == {k \in {Kind(r)} : \E g \in Handlers \ {h} :
                                          at[g] /= "idle" /\ Kind(req[g]) = k}
    <2>1. hist' = [hist EXCEPT !.overlap = hist.overlap \cup o, !.named = hist.named \cup r.ids]
        BY <1>1 DEF Begin
    <2> HIDE DEF o
    <2>2. hist'.named = hist.named \cup r.ids
        BY <1>0, <2>1 DEF History
    <2> QED
        BY <1>0, <1>1, <2>2 DEF Begin, TypeOK
<1>2. ASSUME NEW r, NEW step, Begin(h, r, step) PROVE step = "read" /\ req'[h] = r
    BY <1>0, <1>2 DEF Begin, Go, TypeOK
<1>3. CASE \/ \E a \in Apps : TokenRequest(h, a)
           \/ \E k \in Tokens : ClientUserReport(h, k)
           \/ \E t \in Targets : CreateProfile(h, t)
    <2>1. ASSUME NEW a \in Apps, TokenRequest(h, a) PROVE FALSE
        <3>1. Begin(h, [op |-> "token", app |-> a], "existing")
            BY <2>1 DEF TokenRequest
        <3>2. "existing" = "read"
            BY <3>1, <1>2
        <3> QED
            BY <3>2
    <2>2. ASSUME NEW k \in Tokens, ClientUserReport(h, k) PROVE FALSE
        <3>1. Begin(h, [op |-> "report", app |-> owner[k]], "auth")
            BY <2>2 DEF ClientUserReport
        <3>2. "auth" = "read"
            BY <3>1, <1>2
        <3> QED
            BY <3>2
    <2>3. ASSUME NEW t \in Targets, CreateProfile(h, t) PROVE FALSE
        <3>1. Begin(h, [op |-> "profile", target |-> t], "count")
            BY <2>3 DEF CreateProfile
        <3>2. "count" = "read"
            BY <3>1, <1>2
        <3> QED
            BY <3>2
    <2> QED
        BY <1>3, <2>1, <2>2, <2>3
<1>4. CASE \E l \in Levels : UpdateLevel(h, l)
    BY <1>2, <1>4 DEF UpdateLevel
<1>5. CASE \E ids \in SUBSET Apps \ {{}} : AddGrantClient(h, ids) \/ RemoveGrantClient(h, ids)
    BY <1>1, <1>2, <1>5 DEF AddGrantClient, RemoveGrantClient
<1>6. ~End(h) /\ ~Deny(h)
    BY <1>0 DEF End, Deny, Go, TypeOK
<1>7. CASE GrantCheck(h)
    <2>1. hist' = [hist EXCEPT !.named = hist.named \cup req[h].ids] /\ req' = req
        BY <1>6, <1>7 DEF GrantCheck
    <2> QED
        BY <1>0, <2>1 DEF History
<1>8. CASE TokenExisting(h) \/ RemoveToken(h) \/ StoreToken(h) \/ Enhance(h)
    BY <1>0, <1>6, <1>8 DEF TokenExisting, RemoveToken, StoreToken, Enhance, Go, TypeOK
<1>9. CASE ReadAccessToken(h) \/ ReadAuthentication(h) \/ LoadClient(h)
    BY <1>0, <1>6, <1>9 DEF ReadAccessToken, ReadAuthentication, LoadClient, Go, TypeOK
<1>10. CASE KeyHit(h) \/ KeyMiss(h) \/ KeyLoad(h) \/ KeyPut(h)
    BY <1>0, <1>10 DEF KeyHit, KeyMiss, KeyLoad, KeyPut, Go, TypeOK
<1>11. CASE ReportRefused(h) \/ UserFind(h) \/ UserInsert(h) \/ ReportAnswer(h)
    BY <1>0, <1>6, <1>11 DEF ReportRefused, UserFind, UserInsert, ReportAnswer, Go, TypeOK
<1>12. CASE ConfigRead(h) \/ ConfigFind(h) \/ ConfigWrite(h)
    BY <1>0, <1>6, <1>12 DEF ConfigRead, ConfigFind, ConfigWrite, Go, TypeOK
<1>13. CASE ProfileCount(h) \/ ProfileSave(h) \/ HandlerFails(h)
    BY <1>0, <1>6, <1>13 DEF ProfileCount, ProfileSave, HandlerFails, Go, TypeOK
<1> QED
    BY <1>3, <1>4, <1>5, <1>7, <1>8, <1>9, <1>10, <1>11, <1>12, <1>13 DEF HandlerStep

\* A handler's answer tells those only whom the document it reads grants.
LEMMA ToldNamed ==
    ASSUME RegistryInv, NamedInv, NEW h \in Handlers, ReportAnswer(h)
    PROVE  hist'.told \subseteq hist'.named /\ hist'.named = hist.named
<1>0. hist \in History
    BY DEF RegistryInv, TypeOK
<1>1. PICK c \in Read :
        hist' = [hist EXCEPT !.told = hist.told \cup {a \in {req[h].app} : Granted(a, c)}]
    BY DEF ReportAnswer
<1> DEFINE T == {a \in {req[h].app} : Granted(a, c)}
<1>2. T \subseteq hist.named
    BY ReadNamed DEF Granted
<1>3. hist' = [hist EXCEPT !.told = hist.told \cup T]
    BY <1>1
<1> HIDE DEF T
<1>4. hist'.told = hist.told \cup T /\ hist'.named = hist.named
    BY <1>0, <1>3 DEF History
<1> QED
    BY <1>2, <1>4 DEF NamedInv

\* Reading, changing and writing a configuration.
LEMMA ConfigNamed ==
    ASSUME RegistryInv, NamedInv, NEW h \in Handlers, OthersWait(h),
           ConfigRead(h) \/ ConfigFind(h) \/ ConfigWrite(h)
    PROVE  NamedInv'
<1>0. TypeOK /\ HandlerOK(h) /\ hist \in History
    BY DEF RegistryInv, TypeOK
<1>1. req[h] \in ConfigRequest /\ at[h] # "idle"
    BY <1>0 DEF ConfigRead, ConfigFind, ConfigWrite, HandlerOK, RequestOK, ConfigSteps
<1>2. \A g \in Handlers \ {h} :
          /\ at'[g] = at[g] /\ cfg'[g] = cfg[g] /\ req'[g] = req[g]
    BY DEF OthersWait
<1>3. hist'.named = hist.named /\ hist'.told = hist.told
    BY <1>0 DEF ConfigRead, ConfigFind, ConfigWrite, History
<1>4. CASE ConfigRead(h)
    <2>1. PICK c \in Read : cfg' = [cfg EXCEPT ![h] = Change(req[h], c)]
        BY <1>4 DEF ConfigRead
    <2>2. c \in Config /\ c.grants \subseteq hist.named
        BY <1>0, ReadType, ReadNamed
    <2>3. req[h].op \in {"grant", "revoke"} => req[h].ids \subseteq hist.named
        BY <1>4 DEF ConfigRead, NamedInv
    <2>4. Change(req[h], c).grants \subseteq hist.named
        BY <1>1, <2>2, <2>3, ChangeGrants
    <2>5. cfg'[h].grants \subseteq hist.named /\ at'[h] = "find"
        BY <1>0, <1>4, <2>1, <2>4 DEF ConfigRead, Go, TypeOK
    <2>6. docs' = docs
        BY <1>4 DEF ConfigRead, data
    <2> QED
        BY <1>2, <1>3, <2>5, <2>6 DEF NamedInv, Configs
<1>5. CASE ConfigFind(h)
    <2>1. docs' = docs /\ cfg' = cfg /\ at[h] = "find" /\ at'[h] = "write"
        BY <1>0, <1>5 DEF ConfigFind, data, Go, TypeOK
    <2> QED
        BY <1>2, <1>3, <2>1 DEF NamedInv, Configs
<1>6. CASE ConfigWrite(h)
    <2>1. at'[h] = "idle"
        BY <1>0, <1>6 DEF ConfigWrite, End, Go, TypeOK
    <2>2. PICK d : docs' = [docs EXCEPT ![d] = cfg[h]]
        BY <1>6 DEF ConfigWrite
    <2>3. cfg[h].grants \subseteq hist.named
        BY <1>6 DEF ConfigWrite, NamedInv
    <2>4. \A e \in Configs' : docs'[e].grants \subseteq hist.named
        BY <1>0, <2>2, <2>3 DEF NamedInv, Configs, TypeOK
    <2> QED
        BY <1>2, <1>3, <2>1, <2>4 DEF NamedInv
<1> QED
    BY <1>4, <1>5, <1>6

\* No step grants to an application that no request has named.
LEMMA NamedStep == RegistryInv /\ NamedInv /\ [Next]_vars => NamedInv'
<1> SUFFICES ASSUME RegistryInv, NamedInv, [Next]_vars PROVE NamedInv'
    OBVIOUS
<1>0. TypeOK /\ hist \in History /\ hist.told \subseteq hist.named
    BY DEF RegistryInv, TypeOK, NamedInv
<1>1. CASE UNCHANGED vars
    BY <1>0, <1>1, NamedQuiet DEF vars, local, data
<1>2. CASE \/ \E a \in Apps : CreateApp(a) \/ UpdateApp(a) \/ DeleteApp(a)
           \/ \E k \in Tokens : Expire(k)
           \/ \E p \in ProfileIds, t \in Targets : UpdateProfile(p, t)
           \/ \E p \in ProfileIds : DeleteProfile(p)
    <2>1. UNCHANGED <<docs, local>>
        BY <1>2 DEF CreateApp, UpdateApp, DeleteApp, Expire, UpdateProfile, DeleteProfile,
                    vars, data
    <2>2. hist'.named = hist.named /\ hist'.told = hist.told
        BY <1>0, <1>2 DEF CreateApp, UpdateApp, DeleteApp, Expire, UpdateProfile, DeleteProfile,
                    vars, History
    <2> QED
        BY <1>0, <2>1, <2>2, NamedQuiet DEF local
<1>3. CASE Restart
    BY <1>0, <1>3, NamedQuiet DEF Restart
<1>4. ASSUME NEW h \in Handlers, HandlerStep(h) PROVE NamedInv'
    <2>0. OthersWait(h)
        BY <1>4, HandlerStepOK DEF StepOK
    <2>1. CASE ConfigRead(h) \/ ConfigFind(h) \/ ConfigWrite(h)
        BY <2>0, <2>1, ConfigNamed
    <2>2. CASE docs' = docs /\ at'[h] \notin {"find", "write"}
        <3>1. hist'.told \subseteq hist'.named /\ hist.named \subseteq hist'.named
            BY <1>0, <1>4, HistorySteps, ToldNamed
        <3>2. at'[h] = "read" /\ req'[h].op \in {"grant", "revoke"}
                => req'[h].ids \subseteq hist'.named
            BY <1>4, ReadComes
        <3>3. \A g \in Handlers \ {h} :
                  at'[g] = at[g] /\ cfg'[g] = cfg[g] /\ req'[g] = req[g]
            BY <2>0 DEF OthersWait
        <3>4. Configs' = Configs
            BY <2>2 DEF Configs
        <3> QED
            BY <2>2, <3>1, <3>2, <3>3, <3>4 DEF NamedInv
    <2> QED
        BY <1>4, <2>1, <2>2, ConfigEffects
<1> QED
    BY <1>1, <1>2, <1>3, <1>4 DEF Next

\* A client is told to upload only if an administrator named its application, in a
\* grant of registered ones or in a removal, whatever updates overlap or fail.
THEOREM NamedAreTold == Spec => []OnlyNamedAreTold
<1>1. Init => NamedInv
    BY DEF Init, NamedInv, Configs
<1>2. NamedInv => OnlyNamedAreTold
    BY DEF NamedInv, OnlyNamedAreTold
<1> QED
    BY <1>1, <1>2, RegistryInit, RegistryStep, NamedStep, PTL DEF Spec
=============================================================================
