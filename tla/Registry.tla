------------------------------ MODULE Registry ------------------------------
(***************************************************************************)
(* What the server keeps in mongodb besides the uploads, and the HTTP      *)
(* handlers that share it: applications and their key pairs                *)
(* (rest.AppRestController, auth.ApplicationKeyPairManager), the access    *)
(* tokens (auth.OAuth2RepositoryTokenStore), the global configuration with *)
(* its grants, the control profiles (rest.SystemRestController) and the    *)
(* report of a client user (ClientRestController.clientUserReport).        *)
(*                                                                         *)
(* A database call is atomic; a handler makes several, and nothing locks   *)
(* between them.  findOne without a sort may return any document.  The     *)
(* repositories have no unique index.  Client ids, token values and        *)
(* document ids are random and never used again.                           *)
(*                                                                         *)
(* The steps of spring security between the calls of the token store are   *)
(* external: DefaultTokenServices.createAccessToken and loadAuthentication *)
(* for the grant type client_credentials.  Its answer never holds the      *)
(* refresh token that is made with every access token, so no request reads *)
(* the documents of refresh tokens; that they are stored and removed is a  *)
(* call that may fail.                                                     *)
(***************************************************************************)
EXTENDS Integers, FiniteSets

CONSTANTS
    Apps,         \* client ids of applications
    Tokens,       \* values of access tokens (a bound)
    Handlers,     \* HTTP threads
    DocIds,       \* ids of configuration documents (a bound)
    ProfileIds,   \* ids of control profiles (a bound)
    Targets,      \* what a profile is for: platform, uid, alias, appId
    Levels,       \* levels an administrator sets
    UserLevel,    \* level of the user of each application, from its uid
    MaxRequests,  \* bound on the requests of a behaviour, but for those on applications
    None

DefaultLevel == 100

Config == [level : Levels \cup {DefaultLevel}, grants : SUBSET Apps]

ASSUME RegistryAssumption ==
    /\ Levels \subseteq Int
    /\ UserLevel \in [Apps -> 0 .. 99]
    /\ MaxRequests \in Nat
    /\ None \notin Targets \cup DocIds \cup Apps \cup Tokens \cup Config
    /\ IsFiniteSet(Handlers) /\ IsFiniteSet(DocIds) /\ IsFiniteSet(ProfileIds)

VARIABLES
    apps,        \* documents of applications
    pairs,       \* applications whose document holds their key pair
    keyPairMap,  \* applications whose key pair is cached
    owner,       \* application each access token was made for
    keyed,       \* tokens that carry the public key
    stored,      \* tokens that have a document
    expired,     \* tokens whose time is over
    docs,        \* configuration documents
    profiles,    \* target of each profile
    users,       \* number of documents of the user of each application
    at,          \* next step of each handler
    req,         \* its request
    cfg,         \* the configuration it has read and changed
    found,       \* result of its last query
    token,       \* the access token it works on
    requests,    \* requests begun
    hist         \* history, see below

tokenData == <<owner, keyed, stored, expired>>
data == <<apps, pairs, keyPairMap, tokenData, docs, profiles, users>>
local == <<at, req, cfg, found, token>>
vars == <<data, local, requests, hist>>

ClientRequest == [op : {"token", "report"}, app : Apps]
ConfigRequest == [op : {"grant", "revoke"}, ids : SUBSET Apps \ {{}}]
                 \cup [op : {"level"}, level : Levels]
ProfileRequest == [op : {"profile"}, target : Targets]
Request == ClientRequest \cup ConfigRequest \cup ProfileRequest

Steps == {"idle", "existing", "remove", "store", "auth", "forget", "reauth", "client",
          "lookup", "load", "put", "key", "insert", "answer",
          "check", "read", "find", "write", "count", "save"}

(***************************************************************************)
(* History: applications ever created; tokens that clients received;       *)
(* applications refused although they had a token with the key, and those  *)
(* that got one without it; tokens denied before their time; applications  *)
(* told to upload; those an administrator named in addGrantClient, all of  *)
(* them registered, or in removeGrantClient; the configuration that        *)
(* results from the updates one after the other; the profiles ever         *)
(* updated; the kinds of requests of which two ran at the same time.       *)
(***************************************************************************)
History == [created : SUBSET Apps, issued : SUBSET Tokens, refused : SUBSET Apps,
            keyless : SUBSET Apps, denied : SUBSET Tokens,
            told : SUBSET Apps, named : SUBSET Apps, serial : Config,
            updated : SUBSET ProfileIds,
            overlap : SUBSET {"client", "config", "profile"}]

\* A random value that was not used before: no state tells unused ones apart.
Fresh(unused) == CHOOSE x \in unused : TRUE

\* GlobalConfigRepository.defaultConfig.
DefaultConfig == [level |-> DefaultLevel, grants |-> {}]

\* The configuration documents.
Configs == {d \in DocIds : docs[d] /= None}

\* GlobalConfigRepository.read: the documents it may return.
Read == IF Configs = {} THEN {DefaultConfig} ELSE {docs[d] : d \in Configs}

\* v1ClientUserReport: may the user of a upload under configuration c?
Granted(a, c) == a \in c.grants /\ UserLevel[a] < c.level

\* addClient, removeClient and updateLevel.  removeClient keeps the named
\* clients that are NOT in the list, and drops all others.
Change(r, c) ==
    CASE r.op = "grant"  -> [c EXCEPT !.grants = @ \cup r.ids]
      [] r.op = "revoke" -> [c EXCEPT !.grants = r.ids \ @]
      [] r.op = "level"  -> [c EXCEPT !.level = r.level]

Kind(r) == IF r \in ClientRequest THEN "client"
           ELSE IF r \in ConfigRequest THEN "config" ELSE "profile"

Init ==
    /\ apps = {} /\ pairs = {} /\ keyPairMap = {}
    /\ owner = [k \in Tokens |-> None]
    /\ keyed = {} /\ stored = {} /\ expired = {}
    /\ docs = [d \in DocIds |-> None]
    /\ profiles = [p \in ProfileIds |-> None]
    /\ users = [a \in Apps |-> 0]
    /\ at = [h \in Handlers |-> "idle"]
    /\ req = [h \in Handlers |-> None]
    /\ cfg = [h \in Handlers |-> None]
    /\ found = [h \in Handlers |-> None]
    /\ token = [h \in Handlers |-> None]
    /\ requests = 0
    /\ hist = [created |-> {}, issued |-> {}, refused |-> {}, keyless |-> {},
               denied |-> {}, told |-> {}, named |-> {},
               serial |-> DefaultConfig, updated |-> {}, overlap |-> {}]

-----------------------------------------------------------------------------
(* Applications.  Each of these handlers makes one database call. *)

CreateApp(a) ==
    /\ a \notin hist.created
    /\ apps' = apps \cup {a}
    /\ pairs' = pairs \cup {a}
    /\ hist' = [hist EXCEPT !.created = @ \cup {a}]
    /\ UNCHANGED <<keyPairMap, tokenData, docs, profiles, users, local, requests>>

\* Faulty variant: the document is replaced by the request's fields.
UpdateAppReplaces(a) ==
    /\ a \in apps
    /\ pairs' = pairs \ {a}
    /\ UNCHANGED <<apps, keyPairMap, tokenData, docs, profiles, users, local,
                   requests, hist>>

\* update sets the descriptive fields, and leaves the key pair alone.
UpdateApp(a) ==
    /\ a \in apps
    /\ UNCHANGED vars

DeleteApp(a) ==
    /\ a \in apps
    /\ apps' = apps \ {a}
    /\ pairs' = pairs \ {a}
    /\ UNCHANGED <<keyPairMap, tokenData, docs, profiles, users, local,
                   requests, hist>>

-----------------------------------------------------------------------------
(* Requests that take several steps. *)

Go(h, step) == at' = [at EXCEPT ![h] = step]

\* The handler has answered, or failed.
End(h) ==
    /\ Go(h, "idle")
    /\ req' = [req EXCEPT ![h] = None]
    /\ cfg' = [cfg EXCEPT ![h] = None]
    /\ found' = [found EXCEPT ![h] = None]
    /\ token' = [token EXCEPT ![h] = None]

Begin(h, r, step) ==
    /\ at[h] = "idle"
    /\ requests < MaxRequests
    /\ requests' = requests + 1
    /\ Go(h, step)
    /\ req' = [req EXCEPT ![h] = r]
    /\ hist' = [hist EXCEPT !.overlap = @ \cup
                   {k \in {Kind(r)} : \E g \in Handlers \ {h} :
                                          at[g] /= "idle" /\ Kind(req[g]) = k},
                            !.named = @ \cup (IF r.op = "revoke" THEN r.ids ELSE {})]
    /\ UNCHANGED <<data, cfg, found>>

\* A client asks for a token; spring security has checked id and secret.
TokenRequest(h, a) ==
    /\ a \in apps
    /\ Begin(h, [op |-> "token", app |-> a], "existing")
    /\ UNCHANGED token

\* A client that has a token with its public key reports its user.
ClientUserReport(h, k) ==
    /\ k \in hist.issued \cap keyed
    /\ Begin(h, [op |-> "report", app |-> owner[k]], "auth")
    /\ token' = [token EXCEPT ![h] = k]

UpdateLevel(h, l) == UNCHANGED token /\ Begin(h, [op |-> "level", level |-> l], "read")

AddGrantClient(h, ids) == UNCHANGED token /\ Begin(h, [op |-> "grant", ids |-> ids], "check")

RemoveGrantClient(h, ids) == UNCHANGED token /\ Begin(h, [op |-> "revoke", ids |-> ids], "read")

CreateProfile(h, t) == UNCHANGED token /\ Begin(h, [op |-> "profile", target |-> t], "count")

(***************************************************************************)
(* ApplicationKeyPairManager.getKeyPair.  keyPairMap is a LinkedHashMap    *)
(* that all HTTP threads use without a lock: while another thread puts, a  *)
(* get may miss an entry, and of two puts at a time each may undo entries. *)
(***************************************************************************)
Putting(h) == \E g \in Handlers \ {h} : at[g] = "put"

KeyHit(h) ==
    /\ at[h] = "lookup"
    /\ req[h].app \in keyPairMap
    /\ Go(h, "key")
    /\ found' = [found EXCEPT ![h] = req[h].app]
    /\ UNCHANGED <<data, req, cfg, token, requests, hist>>

KeyMiss(h) ==
    /\ at[h] = "lookup"
    /\ req[h].app \notin keyPairMap \/ Putting(h)
    /\ Go(h, "load")
    /\ UNCHANGED <<data, req, cfg, found, token, requests, hist>>

\* keyPair() decodes the pair that createApp has added to the document.
HasKeyPair(a) == a \in apps \cap pairs

\* Faulty variant: the loaded key pair is not compared with null.
KeyLoadUnchecked(h) ==
    /\ at[h] = "load"
    /\ Go(h, "put")
    /\ found' = [found EXCEPT ![h] = IF HasKeyPair(req[h].app) THEN req[h].app ELSE None]
    /\ UNCHANGED <<data, req, cfg, token, requests, hist>>

KeyLoad(h) ==
    /\ at[h] = "load"
    /\ IF HasKeyPair(req[h].app)
       THEN Go(h, "put") /\ found' = [found EXCEPT ![h] = req[h].app]
       ELSE Go(h, "key") /\ found' = found
    /\ UNCHANGED <<data, req, cfg, token, requests, hist>>

KeyPut(h) ==
    /\ at[h] = "put"
    /\ \E lost \in SUBSET (keyPairMap \cup {found[h]}) :
          /\ lost = {} \/ Putting(h)
          /\ keyPairMap' = (keyPairMap \cup {found[h]}) \ lost
    /\ Go(h, "key")
    /\ UNCHANGED <<apps, pairs, tokenData, docs, profiles, users, req, cfg, found, token,
                   requests, hist>>

-----------------------------------------------------------------------------
(* Access tokens.  How many documents a token has makes no difference: a   *)
(* read takes any of them, a removal all.                                  *)

\* Time passes.
Expire(k) ==
    /\ owner[k] /= None
    /\ k \notin expired
    /\ expired' = expired \cup {k}
    /\ UNCHANGED <<apps, pairs, keyPairMap, owner, keyed, stored, docs, profiles, users,
                   local, requests, hist>>

\* Faulty variant: the document is taken away before it is stored again.
TokenExistingTakes(h) ==
    /\ at[h] = "existing"
    /\ LET mine == {k \in stored : owner[k] = req[h].app}
       IN  \/ mine = {} /\ Go(h, "lookup") /\ UNCHANGED <<token, stored>>
          \/ \E k \in mine :
                /\ token' = [token EXCEPT ![h] = k]
                /\ Go(h, IF k \in expired THEN "remove" ELSE "store")
                /\ stored' = stored \ {k}
    /\ UNCHANGED <<apps, pairs, keyPairMap, owner, keyed, expired, docs, profiles, users,
                   req, cfg, found, requests, hist>>

\* createAccessToken looks for a token of the client: it makes one, or stores and
\* returns again the one it has found, or replaces it when it is expired.
TokenExisting(h) ==
    /\ at[h] = "existing"
    /\ LET mine == {k \in stored : owner[k] = req[h].app}
       IN  \/ mine = {} /\ Go(h, "lookup") /\ UNCHANGED token
          \/ \E k \in mine :
                /\ token' = [token EXCEPT ![h] = k]
                /\ Go(h, IF k \in expired THEN "remove" ELSE "store")
    /\ UNCHANGED <<data, req, cfg, found, requests, hist>>

\* removeAccessToken, for an expired token that a request has found: of the client
\* that asks for a token (after removeRefreshToken), or in loadAuthentication.
RemoveToken(h) ==
    /\ at[h] \in {"remove", "forget"}
    /\ stored' = stored \ {token[h]}
    /\ IF at[h] = "remove"
       THEN /\ Go(h, "lookup")
            /\ token' = [token EXCEPT ![h] = None]
            /\ UNCHANGED <<req, cfg, found>>
       ELSE End(h)
    /\ UNCHANGED <<apps, pairs, keyPairMap, owner, keyed, expired, docs, profiles, users,
                   requests, hist>>

\* SimpleTokenEnhancer.enhance: a new token carries the public key.
Enhance(h) ==
    /\ at[h] = "key" /\ req[h].op = "token"
    /\ {k \in Tokens : owner[k] = None} /= {}
    /\ LET k == Fresh({i \in Tokens : owner[i] = None}) IN
          /\ owner' = [owner EXCEPT ![k] = req[h].app]
          /\ keyed' = IF found[h] = None THEN keyed ELSE keyed \cup {k}
          /\ token' = [token EXCEPT ![h] = k]
    /\ Go(h, "store")
    /\ UNCHANGED <<apps, pairs, keyPairMap, stored, expired, docs, profiles, users,
                   req, cfg, found, requests, hist>>

\* storeAccessToken, storeRefreshToken if the token is new, and the answer, which the
\* client does not get if the second call fails.  That storeAccessToken looks for a
\* document of the token only tells which one it overwrites.
StoreToken(h) ==
    /\ at[h] = "store"
    /\ stored' = stored \cup {token[h]}
    /\ \/ hist' = [hist EXCEPT !.issued = @ \cup {token[h]},
                               !.keyless = IF token[h] \in keyed THEN @
                                           ELSE @ \cup {req[h].app}]
       \/ UNCHANGED hist
    /\ End(h)
    /\ UNCHANGED <<apps, pairs, keyPairMap, owner, keyed, expired, docs, profiles, users,
                   requests>>

\* The request ends as unauthorised.
Deny(h) ==
    /\ hist' = [hist EXCEPT !.denied = @ \cup
           {k \in {token[h]} : k \notin expired /\ owner[k] \in apps}]
    /\ End(h)

\* loadAuthentication: readAccessToken, and a look at the time, ...
ReadAccessToken(h) ==
    /\ at[h] = "auth"
    /\ IF token[h] \notin stored
       THEN Deny(h)
       ELSE /\ Go(h, IF token[h] \in expired THEN "forget" ELSE "reauth")
            /\ UNCHANGED <<req, cfg, found, token, hist>>
    /\ UNCHANGED <<data, requests>>

\* ... readAuthentication, which throws if the token is gone by now, ...
ReadAuthentication(h) ==
    /\ at[h] = "reauth"
    /\ IF token[h] \notin stored
       THEN Deny(h)
       ELSE Go(h, "client") /\ UNCHANGED <<req, cfg, found, token, hist>>
    /\ UNCHANGED <<data, requests>>

\* ... and loadClientByClientId.
LoadClient(h) ==
    /\ at[h] = "client"
    /\ IF req[h].app \notin apps
       THEN Deny(h)
       ELSE Go(h, "lookup") /\ UNCHANGED <<req, cfg, found, token, hist>>
    /\ UNCHANGED <<data, requests>>

-----------------------------------------------------------------------------
\* decrypt found no private key: 400.
ReportRefused(h) ==
    /\ at[h] = "key" /\ req[h].op = "report" /\ found[h] = None
    /\ hist' = [hist EXCEPT !.refused = @ \cup {req[h].app}]
    /\ End(h)
    /\ UNCHANGED <<data, requests>>

\* ClientUserRepository.save: an upsert looks for the document and updates it.
UserFind(h) ==
    /\ at[h] = "key" /\ req[h].op = "report" /\ found[h] /= None
    /\ Go(h, IF users[req[h].app] = 0 THEN "insert" ELSE "answer")
    /\ UNCHANGED <<data, req, cfg, found, token, requests, hist>>

\* Without a unique index mongodb does not look again before it inserts.
UserInsert(h) ==
    /\ at[h] = "insert"
    /\ users' = [users EXCEPT ![req[h].app] = @ + 1]
    /\ Go(h, "answer")
    /\ UNCHANGED <<apps, pairs, keyPairMap, tokenData, docs, profiles, req, cfg, found,
                   token, requests, hist>>

ReportAnswer(h) ==
    /\ at[h] = "answer"
    /\ \E c \in Read : hist' = [hist EXCEPT !.told = @ \cup
                                    {a \in {req[h].app} : Granted(a, c)}]
    /\ End(h)
    /\ UNCHANGED <<data, requests>>

-----------------------------------------------------------------------------
(* The global configuration: read, change, save. *)

\* Faulty variant: one registered application is enough.
GrantCheckSome(h) ==
    /\ at[h] = "check"
    /\ IF req[h].ids \cap apps /= {}
       THEN /\ Go(h, "read")
            /\ hist' = [hist EXCEPT !.named = @ \cup (req[h].ids \cap apps)]
            /\ UNCHANGED <<req, cfg, found, token>>
       ELSE End(h) /\ UNCHANGED hist
    /\ UNCHANGED <<data, requests>>

\* addGrantClient: all named applications must be registered.
GrantCheck(h) ==
    /\ at[h] = "check"
    /\ IF req[h].ids \subseteq apps
       THEN /\ Go(h, "read")
            /\ hist' = [hist EXCEPT !.named = @ \cup req[h].ids]
            /\ UNCHANGED <<req, cfg, found, token>>
       ELSE End(h) /\ UNCHANGED hist
    /\ UNCHANGED <<data, requests>>

\* Faulty variant: the update starts from the default configuration.
ConfigReadDefault(h) ==
    /\ at[h] = "read"
    /\ cfg' = [cfg EXCEPT ![h] = Change(req[h], DefaultConfig)]
    /\ Go(h, "find")
    /\ UNCHANGED <<data, req, found, token, requests, hist>>

ConfigRead(h) ==
    /\ at[h] = "read"
    /\ \E c \in Read : cfg' = [cfg EXCEPT ![h] = Change(req[h], c)]
    /\ Go(h, "find")
    /\ UNCHANGED <<data, req, found, token, requests, hist>>

\* GlobalConfigRepository.save looks again for the document to overwrite.
ConfigFind(h) ==
    /\ at[h] = "find"
    /\ \E d \in IF Configs = {} THEN {None} ELSE Configs :
          found' = [found EXCEPT ![h] = d]
    /\ Go(h, "write")
    /\ UNCHANGED <<data, req, cfg, token, requests, hist>>

ConfigWrite(h) ==
    /\ at[h] = "write"
    /\ found[h] = None => Configs /= DocIds
    /\ LET d == IF found[h] = None THEN Fresh(DocIds \ Configs) ELSE found[h]
       IN  docs' = [docs EXCEPT ![d] = cfg[h]]
    /\ hist' = [hist EXCEPT !.serial = Change(req[h], @)]
    /\ End(h)
    /\ UNCHANGED <<apps, pairs, keyPairMap, tokenData, profiles, users, requests>>

-----------------------------------------------------------------------------
(* Control profiles. *)

\* Faulty variant: the existing profiles are not counted.
ProfileCountNothing(h) ==
    /\ at[h] = "count"
    /\ Go(h, "save")
    /\ UNCHANGED <<data, req, cfg, found, token, requests, hist>>

\* ControlProfileRepository.save of a profile without an id.
ProfileCount(h) ==
    /\ at[h] = "count"
    /\ IF \E p \in ProfileIds : profiles[p] = req[h].target
       THEN End(h)
       ELSE Go(h, "save") /\ UNCHANGED <<req, cfg, found, token>>
    /\ UNCHANGED <<data, requests, hist>>

ProfileSave(h) ==
    /\ at[h] = "save"
    /\ \E p \in ProfileIds \ hist.updated :
          /\ profiles[p] = None
          /\ profiles' = [profiles EXCEPT ![p] = req[h].target]
    /\ End(h)
    /\ UNCHANGED <<apps, pairs, keyPairMap, tokenData, docs, users, requests, hist>>

\* A save with an id overwrites or inserts, and does not compare targets.
UpdateProfile(p, t) ==
    /\ requests < MaxRequests
    /\ requests' = requests + 1
    /\ profiles' = [profiles EXCEPT ![p] = t]
    /\ hist' = [hist EXCEPT !.updated = @ \cup {p}]
    /\ UNCHANGED <<apps, pairs, keyPairMap, tokenData, docs, users, local>>

DeleteProfile(p) ==
    /\ requests < MaxRequests
    /\ requests' = requests + 1
    /\ profiles[p] /= None
    /\ profiles' = [profiles EXCEPT ![p] = None]
    /\ UNCHANGED <<apps, pairs, keyPairMap, tokenData, docs, users, local, hist>>

-----------------------------------------------------------------------------
\* A database call throws: the handler answers with an error.
HandlerFails(h) ==
    /\ at[h] /= "idle"
    /\ End(h)
    /\ UNCHANGED <<data, requests, hist>>

\* The server stops and starts again: handlers and cache are gone.
Restart ==
    /\ keyPairMap' = {}
    /\ at' = [h \in Handlers |-> "idle"]
    /\ req' = [h \in Handlers |-> None]
    /\ cfg' = [h \in Handlers |-> None]
    /\ found' = [h \in Handlers |-> None]
    /\ token' = [h \in Handlers |-> None]
    /\ UNCHANGED <<apps, pairs, tokenData, docs, profiles, users, requests, hist>>

HandlerStep(h) ==
    \/ \E a \in Apps : TokenRequest(h, a)
    \/ \E k \in Tokens : ClientUserReport(h, k)
    \/ TokenExisting(h) \/ RemoveToken(h) \/ StoreToken(h)
    \/ ReadAccessToken(h) \/ ReadAuthentication(h) \/ LoadClient(h)
    \/ \E l \in Levels : UpdateLevel(h, l)
    \/ \E ids \in SUBSET Apps \ {{}} : AddGrantClient(h, ids) \/ RemoveGrantClient(h, ids)
    \/ \E t \in Targets : CreateProfile(h, t)
    \/ KeyHit(h) \/ KeyMiss(h) \/ KeyLoad(h) \/ KeyPut(h)
    \/ Enhance(h) \/ ReportRefused(h)
    \/ UserFind(h) \/ UserInsert(h) \/ ReportAnswer(h)
    \/ GrantCheck(h) \/ ConfigRead(h) \/ ConfigFind(h) \/ ConfigWrite(h)
    \/ ProfileCount(h) \/ ProfileSave(h)
    \/ HandlerFails(h)

Next ==
    \/ \E a \in Apps : CreateApp(a) \/ UpdateApp(a) \/ DeleteApp(a)
    \/ \E k \in Tokens : Expire(k)
    \/ \E h \in Handlers : HandlerStep(h)
    \/ \E p \in ProfileIds, t \in Targets : UpdateProfile(p, t)
    \/ \E p \in ProfileIds : DeleteProfile(p)
    \/ Restart

Spec == Init /\ [][Next]_vars

-----------------------------------------------------------------------------
\* The types of the variables; a cached or loaded key pair is that of an
\* application that was created, and a document's user count is a number.
TypeOK ==
    /\ apps \subseteq Apps /\ pairs \subseteq apps
    /\ keyPairMap \subseteq hist.created
    /\ owner \in [Tokens -> Apps \cup {None}]
    /\ keyed \cup stored \cup expired \subseteq {k \in Tokens : owner[k] /= None}
    /\ token \in [Handlers -> Tokens \cup {None}]
    /\ docs \in [DocIds -> Config \cup {None}]
    /\ profiles \in [ProfileIds -> Targets \cup {None}]
    /\ users \in [Apps -> Nat]
    /\ at \in [Handlers -> Steps]
    /\ req \in [Handlers -> Request \cup {None}]
    /\ cfg \in [Handlers -> Config \cup {None}]
    /\ found \in [Handlers -> Apps \cup DocIds \cup {None}]
    /\ requests \in 0 .. MaxRequests
    /\ hist \in History

\* getKeyPair: the token of a registered application carries its public key, and
\* a client that encrypts with it is refused only if its application has been
\* deleted, whatever races in keyPairMap, restarts and edits of the application
\* happen between token and report.
IssuedKeyWorks == (hist.keyless \cup hist.refused) \cap apps = {}

\* OAuth2RepositoryTokenStore: a token that a client has received is accepted until
\* it expires or its application is deleted, whatever other requests for tokens
\* of the application store, remove or fail to store at the same time.
IssuedTokenWorks == hist.denied = {}

\* GlobalConfigRepository: updates that do not overlap take effect in full and
\* in order, on one document; interrupted ones have no effect.
SerialUpdatesApply ==
    "config" \notin hist.overlap =>
        /\ Cardinality(Configs) <= 1
        /\ Read = {hist.serial}

\* v1ClientUserReport: a client is told to upload only if an administrator named its
\* application, as a registered one in addGrantClient or, since removeClient grants what
\* was not granted, in removeGrantClient: whatever updates overlap, fail half-way or
\* overwrite each other, and whichever of several documents the report reads.
OnlyNamedAreTold == hist.told \subseteq hist.named

Duplicates(S, racing) == Cardinality(S) <= IF racing THEN Cardinality(Handlers) ELSE 1

\* The check-then-insert of configuration, profiles and users makes no more documents
\* of a kind than handlers that ran at the same time: one, unless two such requests
\* overlapped.  Profiles that were updated are not compared.  An application has one
\* token document unless requests overlapped; then there is no bound, since every
\* expired token may be replaced by as many as handlers come upon it.
InsertRacesBounded ==
    /\ Duplicates(Configs, "config" \in hist.overlap)
    /\ \A t \in Targets :
          Duplicates({p \in ProfileIds \ hist.updated : profiles[p] = t},
                     "profile" \in hist.overlap)
    /\ \A a \in Apps :
          /\ Duplicates(1 .. users[a], "client" \in hist.overlap)
          /\ "client" \notin hist.overlap => Duplicates({k \in stored : owner[k] = a}, FALSE)
=============================================================================
