------------------------ MODULE RegistryRacesProofs ------------------------
(***************************************************************************)
(* Proofs about the races of check and insert: how many documents of one   *)
(* kind they can make, for any number of HTTP threads.                     *)
(*                                                                         *)
(* A handler that has looked and found nothing will insert.  Documents and *)
(* such handlers together never exceed the bound: a handler joins them     *)
(* only while there is no document, and its insert takes one away from the *)
(* handlers as it adds one to the documents.                               *)
(***************************************************************************)
EXTENDS RegistryProofs

Bound(kind) == IF kind \in hist.overlap THEN Cardinality(Handlers) ELSE 1

\* The handlers that will insert a document.
ConfigInserters == {h \in Handlers : at[h] = "write" /\ found[h] = None}
ProfileInserters(t) == {h \in Handlers : at[h] = "save" /\ req[h].target = t}
UserInserters(a) == {h \in Handlers : at[h] = "insert" /\ req[h].app = a}

\* The profiles that count: those never updated by their id.
NewProfiles(t) == {p \in ProfileIds \ hist.updated : profiles[p] = t}

ConfigRoom == Cardinality(Configs) + Cardinality(ConfigInserters) <= Bound("config")

ProfileRoom(t) ==
    Cardinality(NewProfiles(t)) + Cardinality(ProfileInserters(t)) <= Bound("profile")

UserRoom(a) == users[a] + Cardinality(UserInserters(a)) <= Bound("client")

RoomInv ==
    /\ ConfigRoom
    /\ \A t \in Targets : ProfileRoom(t)
    /\ \A a \in Apps : UserRoom(a)

\* Unless token requests overlap, an application has one token document, none when its
\* request is about to make a token, and only the one a request has found.
OneToken ==
    /\ \A j, k \in stored : owner[j] = owner[k] => j = k
    /\ \A h \in Handlers : at[h] \in KeySteps /\ req[h].op = "token" =>
            \A k \in stored : owner[k] # req[h].app
    /\ \A h \in Handlers : at[h] \in {"remove", "store"} =>
            \A k \in stored : owner[k] = req[h].app => k = token[h]

TokenInv == "client" \notin hist.overlap => OneToken

-----------------------------------------------------------------------------
(* Counting. *)

\* Sets of handlers and of documents are finite.
LEMMA SmallSets ==
    /\ \A V \in SUBSET Handlers : IsFiniteSet(V) /\ Cardinality(V) \in Nat
                                  /\ Cardinality(V) <= Cardinality(Handlers)
    /\ \A D \in SUBSET DocIds : IsFiniteSet(D) /\ Cardinality(D) \in Nat
    /\ \A D \in SUBSET ProfileIds : IsFiniteSet(D) /\ Cardinality(D) \in Nat
    /\ Cardinality(Handlers) \in Nat
<1>1. IsFiniteSet(Handlers) /\ IsFiniteSet(DocIds) /\ IsFiniteSet(ProfileIds)
    BY RegistryAssumption
<1>2. ASSUME NEW V \in SUBSET Handlers
      PROVE  IsFiniteSet(V) /\ Cardinality(V) \in Nat /\ Cardinality(V) <= Cardinality(Handlers)
    BY <1>1, FS_Subset, FS_CardinalityType
<1>3. ASSUME NEW D, D \in SUBSET DocIds \/ D \in SUBSET ProfileIds
      PROVE  IsFiniteSet(D) /\ Cardinality(D) \in Nat
    BY <1>1, <1>3, FS_Subset, FS_CardinalityType
<1>4. Cardinality(Handlers) \in Nat
    BY <1>1, FS_CardinalityType
<1> QED
    BY <1>2, <1>3, <1>4

\* The bound only grows.
LEMMA BoundGrows ==
    ASSUME NEW h \in Handlers, hist.overlap \subseteq hist'.overlap, NEW kind
    PROVE  Bound(kind) \in Nat /\ Bound(kind)' \in Nat /\ Bound(kind) <= Bound(kind)'
<1>1. Cardinality(Handlers) \in Nat /\ 1 <= Cardinality(Handlers)
    <2>1. Cardinality({h}) = 1 /\ {h} \in SUBSET Handlers
        BY FS_Singleton
    <2> QED
        BY <2>1, SmallSets
<1> QED
    BY <1>1 DEF Bound

\* The set S gets no larger, or by one element.
LEMMA CountOneMore ==
    ASSUME NEW S, NEW T, NEW x, IsFiniteSet(S), T \subseteq S \cup {x}
    PROVE  IsFiniteSet(T) /\ Cardinality(T) \in Nat /\ Cardinality(T) <= Cardinality(S) + 1
<1>1. IsFiniteSet(S \cup {x}) /\ Cardinality(S \cup {x}) <= Cardinality(S) + 1
      /\ Cardinality(S) \in Nat
    BY FS_AddElement, FS_CardinalityType
<1> QED
    BY <1>1, FS_Subset, FS_CardinalityType

\* There is room for the documents of handlers that go on without inserting, ...
LEMMA RoomKept ==
    ASSUME NEW n \in Nat, NEW m \in Nat, m <= n, NEW W \in SUBSET Handlers,
           NEW V \in SUBSET W, NEW b \in Nat, NEW c \in Nat, b <= c,
           n + Cardinality(W) <= b
    PROVE  m + Cardinality(V) <= c
<1>1. Cardinality(V) \in Nat /\ Cardinality(W) \in Nat /\ Cardinality(V) <= Cardinality(W)
    BY SmallSets, FS_Subset
<1> QED
    BY <1>1

\* ... for the one that a handler inserts, ...
LEMMA RoomUsed ==
    ASSUME NEW n \in Nat, NEW m \in Nat, m <= n + 1, NEW W \in SUBSET Handlers,
           NEW h \in W, NEW V \in SUBSET (W \ {h}), NEW b \in Nat,
           n + Cardinality(W) <= b
    PROVE  m + Cardinality(V) <= b
<1>1. Cardinality(W) \in Nat /\ IsFiniteSet(W) /\ W \ {h} \in SUBSET Handlers
    BY SmallSets
<1>2. Cardinality(W \ {h}) = Cardinality(W) - 1
    BY <1>1, FS_RemoveElement
<1>3. Cardinality(V) \in Nat /\ Cardinality(V) <= Cardinality(W \ {h})
    BY <1>1, SmallSets, FS_Subset
<1> QED
    BY <1>1, <1>2, <1>3

\* ... and, where there is no document, for all handlers that run.
LEMMA RoomAtFirst ==
    ASSUME NEW kind, NEW overlap, NEW W \in SUBSET Handlers,
           kind \notin overlap => \A g, h \in W : g = h
    PROVE  0 + Cardinality(W) <= IF kind \in overlap THEN Cardinality(Handlers) ELSE 1
<1>1. CASE kind \in overlap
    BY <1>1, SmallSets
<1>2. CASE kind \notin overlap
    <2>1. \A g, h \in W : g = h
        BY <1>2
    <2>2. CASE W = {}
        BY <1>2, <2>2, FS_EmptySet
    <2>3. ASSUME NEW g \in W PROVE Cardinality(W) = 1
        <3>1. W = {g}
            BY <2>1
        <3> QED
            BY <3>1, FS_Singleton
    <2> QED
        BY <1>2, <2>2, <2>3
<1> QED
    BY <1>1, <1>2

-----------------------------------------------------------------------------
(* What the steps of a handler do to the documents and to those who insert. *)

\* A step of a handler changes profiles, or makes it insert one, only at the count or
\* the save.
LEMMA ProfileEffects ==
    ASSUME RegistryInv, NEW h \in Handlers, HandlerStep(h)
    PROVE  \/ profiles' = profiles /\ at'[h] # "save"
           \/ ProfileCount(h) \/ ProfileSave(h)
<1>0. at \in [Handlers -> Steps]
    BY DEF RegistryInv, TypeOK
<1>1. CASE at[h] = "idle"
    BY <1>0, <1>1, BeginsOrGoesOn DEF Begin, Go, data
<1>2. ASSUME End(h) PROVE at'[h] = "idle"
    BY <1>0, <1>2 DEF End, Go
<1>3. ASSUME Deny(h) PROVE at'[h] = "idle"
    BY <1>2, <1>3 DEF Deny
<1>4. CASE TokenExisting(h) \/ RemoveToken(h) \/ StoreToken(h) \/ Enhance(h)
    BY <1>0, <1>2, <1>4 DEF TokenExisting, RemoveToken, StoreToken, Enhance, Go, data
<1>5. CASE ReadAccessToken(h) \/ ReadAuthentication(h) \/ LoadClient(h)
    BY <1>0, <1>3, <1>5 DEF ReadAccessToken, ReadAuthentication, LoadClient, Go, data
<1>6. CASE KeyHit(h) \/ KeyMiss(h) \/ KeyLoad(h) \/ KeyPut(h)
    BY <1>0, <1>6 DEF KeyHit, KeyMiss, KeyLoad, KeyPut, Go, data
<1>7. CASE ReportRefused(h) \/ UserFind(h) \/ UserInsert(h) \/ ReportAnswer(h)
    BY <1>0, <1>2, <1>7 DEF ReportRefused, UserFind, UserInsert, ReportAnswer, Go, data
<1>8. CASE GrantCheck(h) \/ ConfigRead(h) \/ ConfigFind(h) \/ ConfigWrite(h)
    BY <1>0, <1>2, <1>8 DEF GrantCheck, ConfigRead, ConfigFind, ConfigWrite, Go, data
<1>9. CASE HandlerFails(h)
    BY <1>0, <1>2, <1>9 DEF HandlerFails, data
<1> QED
    BY <1>1, <1>4, <1>5, <1>6, <1>7, <1>8, <1>9, BeginsOrGoesOn

\* It changes the documents of users, or makes it insert one, only in the upsert.
LEMMA UserEffects ==
    ASSUME RegistryInv, NEW h \in Handlers, HandlerStep(h)
    PROVE  \/ users' = users /\ at'[h] # "insert"
           \/ UserFind(h) \/ UserInsert(h)
<1>0. at \in [Handlers -> Steps]
    BY DEF RegistryInv, TypeOK
<1>1. CASE at[h] = "idle"
    BY <1>0, <1>1, BeginsOrGoesOn DEF Begin, Go, data
<1>2. ASSUME End(h) PROVE at'[h] = "idle"
    BY <1>0, <1>2 DEF End, Go
<1>3. ASSUME Deny(h) PROVE at'[h] = "idle"
    BY <1>2, <1>3 DEF Deny
<1>4. CASE TokenExisting(h) \/ RemoveToken(h) \/ StoreToken(h) \/ Enhance(h)
    BY <1>0, <1>2, <1>4 DEF TokenExisting, RemoveToken, StoreToken, Enhance, Go, data
<1>5. CASE ReadAccessToken(h) \/ ReadAuthentication(h) \/ LoadClient(h)
    BY <1>0, <1>3, <1>5 DEF ReadAccessToken, ReadAuthentication, LoadClient, Go, data
<1>6. CASE KeyHit(h) \/ KeyMiss(h) \/ KeyLoad(h) \/ KeyPut(h)
    BY <1>0, <1>6 DEF KeyHit, KeyMiss, KeyLoad, KeyPut, Go, data
<1>7. CASE ReportRefused(h) \/ ReportAnswer(h)
    BY <1>0, <1>2, <1>7 DEF ReportRefused, ReportAnswer, Go, data
<1>8. CASE GrantCheck(h) \/ ConfigRead(h) \/ ConfigFind(h) \/ ConfigWrite(h)
    BY <1>0, <1>2, <1>8 DEF GrantCheck, ConfigRead, ConfigFind, ConfigWrite, Go, data
<1>9. CASE ProfileCount(h) \/ ProfileSave(h) \/ HandlerFails(h)
    BY <1>0, <1>2, <1>9 DEF ProfileCount, ProfileSave, HandlerFails, Go, data
<1> QED
    BY <1>1, <1>4, <1>5, <1>6, <1>7, <1>8, <1>9, BeginsOrGoesOn

\* It changes the documents of tokens, or what the handler will do to them, only in
\* the steps of a token request; a report looks up its key pair, too.
LEMMA TokenEffects ==
    ASSUME RegistryInv, NEW h \in Handlers, HandlerStep(h)
    PROVE  \/ UNCHANGED <<stored, owner>> /\ at'[h] \notin KeySteps \cup {"remove", "store"}
           \/ LoadClient(h) \/ KeyHit(h) \/ KeyMiss(h) \/ KeyLoad(h) \/ KeyPut(h)
           \/ TokenExisting(h) \/ RemoveToken(h) \/ StoreToken(h) \/ Enhance(h)
<1>0. at \in [Handlers -> Steps]
    BY DEF RegistryInv, TypeOK
<1> USE DEF KeySteps
<1>1. CASE at[h] = "idle"
    BY <1>0, <1>1, BeginsOrGoesOn DEF Begin, Go, data, tokenData
<1>2. ASSUME End(h) PROVE at'[h] = "idle"
    BY <1>0, <1>2 DEF End, Go
<1>3. ASSUME Deny(h) PROVE at'[h] = "idle"
    BY <1>2, <1>3 DEF Deny
<1>5. CASE ReadAccessToken(h) \/ ReadAuthentication(h)
    BY <1>0, <1>3, <1>5 DEF ReadAccessToken, ReadAuthentication, Go, data, tokenData
<1>7. CASE ReportRefused(h) \/ UserFind(h) \/ UserInsert(h) \/ ReportAnswer(h)
    BY <1>0, <1>2, <1>7 DEF ReportRefused, UserFind, UserInsert, ReportAnswer, Go, data, tokenData
<1>8. CASE GrantCheck(h) \/ ConfigRead(h) \/ ConfigFind(h) \/ ConfigWrite(h)
    BY <1>0, <1>2, <1>8 DEF GrantCheck, ConfigRead, ConfigFind, ConfigWrite, Go, data, tokenData
<1>9. CASE ProfileCount(h) \/ ProfileSave(h) \/ HandlerFails(h)
    BY <1>0, <1>2, <1>9 DEF ProfileCount, ProfileSave, HandlerFails, Go, data, tokenData
<1> QED
    BY <1>1, <1>5, <1>7, <1>8, <1>9, BeginsOrGoesOn

-----------------------------------------------------------------------------
(* The bounds hold after every step of a handler. *)

\* The configuration: ConfigFind makes a handler insert only if there is no document.
LEMMA ConfigRoomStep ==
    ASSUME RegistryInv, AloneInv', ConfigRoom, NEW h \in Handlers, HandlerStep(h)
    PROVE  ConfigRoom'
<1>0. /\ OthersWait(h) /\ HandlerOK(h) /\ at \in [Handlers -> Steps] /\ None \notin Config
      /\ found \in [Handlers -> Apps \cup DocIds \cup {None}]
      /\ docs \in [DocIds -> Config \cup {None}]
    BY HandlerStepOK, RegistryAssumption DEF StepOK, RegistryInv, TypeOK
<1>1. Bound("config") \in Nat /\ Bound("config")' \in Nat /\ Bound("config") <= Bound("config")'
    BY BoundGrows, HistorySteps
<1>2. /\ Configs \in SUBSET DocIds /\ Configs' \in SUBSET DocIds
      /\ ConfigInserters \in SUBSET Handlers /\ ConfigInserters' \in SUBSET Handlers
    BY DEF Configs, ConfigInserters
<1>3. Cardinality(Configs) \in Nat /\ Cardinality(Configs') \in Nat
    BY <1>2, SmallSets
<1>4. ASSUME Cardinality(Configs') <= Cardinality(Configs), ConfigInserters' \subseteq ConfigInserters
      PROVE  ConfigRoom'
    BY <1>1, <1>2, <1>3, <1>4, RoomKept DEF ConfigRoom
<1>5. ASSUME at'[h] # "write" PROVE ConfigInserters' \subseteq ConfigInserters \ {h}
    BY <1>0, <1>5 DEF ConfigInserters, OthersWait
<1>6. ASSUME docs' = docs PROVE Configs' = Configs
    BY <1>6 DEF Configs
<1>7. CASE docs' = docs /\ at'[h] # "write"
    BY <1>3, <1>4, <1>5, <1>6, <1>7
<1>8. CASE ConfigFind(h)
    <2>1. docs' = docs
        BY <1>8 DEF ConfigFind, data
    <2>2. CASE Configs = {}
        <3>1. \A g \in ConfigInserters' : at'[g] \in KindSteps["config"]
            BY DEF ConfigInserters, KindSteps, ConfigSteps
        <3>2. "config" \notin hist'.overlap => \A f, g \in ConfigInserters' : f = g
            BY <1>2, <3>1 DEF AloneInv, Exclusive, KindSteps
        <3>3. 0 + Cardinality(ConfigInserters') <= Bound("config")'
            BY <1>2, <3>2, RoomAtFirst DEF Bound
        <3>4. Cardinality(Configs') = 0
            BY <1>6, <2>1, <2>2, FS_EmptySet
        <3> QED
            BY <3>3, <3>4 DEF ConfigRoom
    <2>3. CASE Configs # {}
        <3>1. found'[h] # None
            BY <1>0, <1>8, <2>3, RegistryAssumption DEF ConfigFind, Configs
        <3>2. ConfigInserters' \subseteq ConfigInserters
            BY <1>0, <3>1 DEF ConfigInserters, OthersWait
        <3> QED
            BY <1>3, <1>4, <1>6, <2>1, <3>2
    <2> QED
        BY <2>2, <2>3
<1>9. CASE ConfigWrite(h)
    <2>1. at'[h] # "write" /\ cfg[h] \in Config /\ at[h] = "write"
        BY <1>0, <1>9 DEF ConfigWrite, End, Go, HandlerOK, FoundOK
    <2>2. CASE found[h] = None
        <3> DEFINE d == Fresh(DocIds \ Configs)
        <3>1. docs' = [docs EXCEPT ![d] = cfg[h]]
            BY <1>9, <2>2 DEF ConfigWrite
        <3> HIDE DEF d
        <3>2. Configs' \subseteq Configs \cup {d}
            BY <1>0, <3>1 DEF Configs
        <3>3. IsFiniteSet(Configs)
            BY <1>2, SmallSets
        <3>4. Cardinality(Configs') <= Cardinality(Configs) + 1
            <4> DEFINE S == Configs  T == Configs'
            <4>1. IsFiniteSet(S) /\ T \subseteq S \cup {d}
                BY <3>2, <3>3
            <4> HIDE DEF S, T
            <4>2. Cardinality(T) <= Cardinality(S) + 1
                BY <4>1, CountOneMore
            <4> QED
                BY <4>2 DEF S, T
        <3>5. h \in ConfigInserters
            BY <2>1, <2>2 DEF ConfigInserters
        <3>6. Cardinality(Configs') + Cardinality(ConfigInserters') <= Bound("config")
            BY <1>1, <1>2, <1>3, <1>5, <2>1, <3>4, <3>5, RoomUsed DEF ConfigRoom
        <3>7. Cardinality(ConfigInserters') \in Nat
            BY <1>2, SmallSets
        <3> QED
            BY <1>1, <1>3, <3>6, <3>7 DEF ConfigRoom
    <2>3. CASE found[h] # None
        <3>1. found[h] \in Configs
            BY <1>0, <2>1, <2>3 DEF HandlerOK, FoundOK
        <3>2. docs' = [docs EXCEPT ![found[h]] = cfg[h]]
            BY <1>9, <2>3 DEF ConfigWrite
        <3>3. Configs' = Configs
            BY <1>0, <2>1, <3>1, <3>2 DEF Configs
        <3> QED
            BY <1>3, <1>4, <1>5, <2>1, <3>3
    <2> QED
        BY <2>2, <2>3
<1>10. CASE ConfigRead(h)
    BY <1>0, <1>7, <1>10 DEF ConfigRead, Go, data
<1> QED
    BY <1>7, <1>8, <1>9, <1>10, ConfigEffects

\* Profiles: ProfileCount makes a handler insert only if there is none for the target.
LEMMA ProfileRoomStep ==
    ASSUME RegistryInv, AloneInv', NEW t \in Targets, ProfileRoom(t),
           NEW h \in Handlers, HandlerStep(h)
    PROVE  ProfileRoom(t)'
<1>0. /\ OthersWait(h) /\ HandlerOK(h) /\ at \in [Handlers -> Steps]
      /\ profiles \in [ProfileIds -> Targets \cup {None}]
    BY HandlerStepOK DEF StepOK, RegistryInv, TypeOK
<1> DEFINE W == ProfileInserters(t)
           P == NewProfiles(t)
<1>1. Bound("profile") \in Nat /\ Bound("profile")' \in Nat /\ Bound("profile") <= Bound("profile")'
    BY BoundGrows, HistorySteps
<1>2. /\ P \in SUBSET ProfileIds /\ P' \in SUBSET ProfileIds
      /\ W \in SUBSET Handlers /\ W' \in SUBSET Handlers
    BY DEF NewProfiles, ProfileInserters
<1>3. Cardinality(P) \in Nat /\ Cardinality(P') \in Nat
    BY <1>2, SmallSets
<1>4. ASSUME P' = P, W' \subseteq W PROVE ProfileRoom(t)'
    <2>1. Cardinality(P) + Cardinality(W) <= Bound("profile")
        BY DEF ProfileRoom
    <2>2. Cardinality(P') + Cardinality(W') <= Bound("profile")'
        <3> HIDE DEF P, W
        <3> QED
            BY <1>1, <1>2, <1>3, <1>4, <2>1, RoomKept
    <2> QED
        BY <2>2 DEF ProfileRoom
<1>5. ASSUME at'[h] # "save" PROVE W' \subseteq W \ {h}
    BY <1>0, <1>5 DEF ProfileInserters, OthersWait
<1>6. ASSUME profiles' = profiles PROVE P' = P
    BY <1>6, HistorySteps DEF NewProfiles
<1>7. CASE profiles' = profiles /\ at'[h] # "save"
    BY <1>4, <1>5, <1>6, <1>7
<1>8. CASE ProfileCount(h)
    <2>1. profiles' = profiles
        BY <1>8 DEF ProfileCount, data
    <2>2. CASE at'[h] = "save" /\ req'[h].target = t
        <3>1. P = {}
            BY <1>0, <1>8, <2>2 DEF ProfileCount, End, Go, NewProfiles
        <3>2. \A g \in W' : at'[g] \in KindSteps["profile"]
            BY DEF ProfileInserters, KindSteps, ProfileSteps
        <3>3. "profile" \notin hist'.overlap => \A f, g \in W' : f = g
            BY <1>2, <3>2 DEF AloneInv, Exclusive, KindSteps
        <3>4. 0 + Cardinality(W') <= Bound("profile")'
            <4> HIDE DEF W
            <4> QED
                BY <1>2, <3>3, RoomAtFirst DEF Bound
        <3>5. Cardinality(P') = 0
            BY <1>6, <2>1, <3>1, FS_EmptySet
        <3> QED
            BY <3>4, <3>5 DEF ProfileRoom
    <2>3. CASE ~(at'[h] = "save" /\ req'[h].target = t)
        <3>1. W' \subseteq W
            BY <1>0, <2>3 DEF ProfileInserters, OthersWait
        <3> QED
            BY <1>4, <1>6, <2>1, <3>1
    <2> QED
        BY <2>2, <2>3
<1>9. CASE ProfileSave(h)
    <2>1. at'[h] # "save" /\ at[h] = "save"
        BY <1>0, <1>9 DEF ProfileSave, End, Go
    <2>2. PICK p \in ProfileIds \ hist.updated :
                profiles[p] = None /\ profiles' = [profiles EXCEPT ![p] = req[h].target]
        BY <1>9 DEF ProfileSave
    <2>3. hist'.updated = hist.updated
        BY HistorySteps
    <2>4. CASE req[h].target = t
        <3>1. P' \subseteq P \cup {p} /\ h \in W
            BY <1>0, <2>1, <2>2, <2>3, <2>4 DEF NewProfiles, ProfileInserters
        <3>2. IsFiniteSet(P)
            BY <1>2, SmallSets
        <3>3. Cardinality(P) + Cardinality(W) <= Bound("profile")
            BY DEF ProfileRoom
        <3>4. W' \subseteq W \ {h}
            BY <1>5, <2>1
        <3>5. Cardinality(P') + Cardinality(W') <= Bound("profile")'
            <4> HIDE DEF P, W
            <4>1. Cardinality(P') <= Cardinality(P) + 1
                BY <3>1, <3>2, CountOneMore
            <4>2. Cardinality(P') + Cardinality(W') <= Bound("profile")
                BY <1>1, <1>2, <1>3, <3>1, <3>3, <3>4, <4>1, RoomUsed
            <4>3. Cardinality(W') \in Nat
                BY <1>2, SmallSets
            <4> QED
                BY <1>1, <1>3, <4>2, <4>3
        <3> QED
            BY <3>5 DEF ProfileRoom
    <2>5. CASE req[h].target # t
        <3>1. P' = P
            <4>1. None # t
                BY RegistryAssumption
            <4> QED
                BY <1>0, <2>2, <2>3, <2>5, <4>1 DEF NewProfiles
        <3> QED
            BY <1>4, <1>5, <2>1, <3>1
    <2> QED
        BY <2>4, <2>5
<1> QED
    BY <1>7, <1>8, <1>9, ProfileEffects

\* Users: the upsert makes a handler insert only if there is no document.
LEMMA UserRoomStep ==
    ASSUME RegistryInv, AloneInv', NEW a \in Apps, UserRoom(a),
           NEW h \in Handlers, HandlerStep(h)
    PROVE  UserRoom(a)'
<1>0. OthersWait(h) /\ HandlerOK(h) /\ at \in [Handlers -> Steps] /\ users \in [Apps -> Nat]
    BY HandlerStepOK DEF StepOK, RegistryInv, TypeOK
<1> DEFINE W == UserInserters(a)
<1>1. Bound("client") \in Nat /\ Bound("client")' \in Nat /\ Bound("client") <= Bound("client")'
    BY BoundGrows, HistorySteps
<1>2. W \in SUBSET Handlers /\ W' \in SUBSET Handlers /\ users[a] \in Nat
    BY <1>0 DEF UserInserters
<1>3. users[a] + Cardinality(W) <= Bound("client")
    BY DEF UserRoom
<1>4. ASSUME users'[a] = users[a], W' \subseteq W PROVE UserRoom(a)'
    <2>1. users'[a] + Cardinality(W') <= Bound("client")'
        <3> HIDE DEF W
        <3> QED
            BY <1>1, <1>2, <1>3, <1>4, RoomKept
    <2> QED
        BY <2>1 DEF UserRoom
<1>5. ASSUME at'[h] # "insert" PROVE W' \subseteq W \ {h}
    BY <1>0, <1>5 DEF UserInserters, OthersWait
<1>6. CASE users' = users /\ at'[h] # "insert"
    BY <1>4, <1>5, <1>6
<1>7. CASE UserFind(h)
    <2>1. users' = users /\ req' = req
        BY <1>7 DEF UserFind, data
    <2>2. CASE at'[h] = "insert" /\ req'[h].app = a
        <3>1. users'[a] = 0
            BY <1>0, <1>7, <2>1, <2>2 DEF UserFind, Go
        <3>2. \A g \in W' : at'[g] \in KindSteps["client"]
            BY DEF UserInserters, KindSteps, ClientSteps, ReportSteps
        <3>3. "client" \notin hist'.overlap => \A f, g \in W' : f = g
            BY <1>2, <3>2 DEF AloneInv, Exclusive, KindSteps
        <3>4. 0 + Cardinality(W') <= Bound("client")'
            <4> HIDE DEF W
            <4> QED
                BY <1>2, <3>3, RoomAtFirst DEF Bound
        <3> QED
            BY <3>1, <3>4 DEF UserRoom
    <2>3. CASE ~(at'[h] = "insert" /\ req'[h].app = a)
        <3>1. W' \subseteq W
            BY <1>0, <2>3 DEF UserInserters, OthersWait
        <3> QED
            BY <1>4, <2>1, <3>1
    <2> QED
        BY <2>2, <2>3
<1>8. CASE UserInsert(h)
    <2>1. at'[h] # "insert" /\ at[h] = "insert"
        BY <1>0, <1>8 DEF UserInsert, Go
    <2>2. users' = [users EXCEPT ![req[h].app] = users[req[h].app] + 1]
        BY <1>8 DEF UserInsert
    <2>3. CASE req[h].app = a
        <3>1. users'[a] = users[a] + 1 /\ h \in W
            BY <1>0, <2>1, <2>2, <2>3 DEF UserInserters
        <3>2. W' \subseteq W \ {h}
            BY <1>5, <2>1
        <3>3. users'[a] + Cardinality(W') <= Bound("client")'
            <4> HIDE DEF W
            <4>1. users'[a] + Cardinality(W') <= Bound("client")
                BY <1>1, <1>2, <1>3, <3>1, <3>2, RoomUsed
            <4>2. Cardinality(W') \in Nat
                BY <1>2, SmallSets
            <4> QED
                BY <1>1, <1>2, <3>1, <4>1, <4>2
        <3> QED
            BY <3>3 DEF UserRoom
    <2>4. CASE req[h].app # a
        BY <1>0, <1>4, <1>5, <2>1, <2>2, <2>4
    <2> QED
        BY <2>3, <2>4
<1> QED
    BY <1>6, <1>7, <1>8, UserEffects

\* A step that stores nothing and moves no token request leaves the tokens in order.
LEMMA TokenQuiet ==
    ASSUME OneToken, stored' \subseteq stored, \A k \in stored : owner'[k] = owner[k],
           \A h \in Handlers :
              at'[h] \in KeySteps \cup {"remove", "store"} =>
                 \/ /\ req'[h] = req[h] /\ token'[h] = token[h]
                    /\ at[h] = at'[h] \/ (at[h] \in KeySteps /\ at'[h] \in KeySteps)
                 \/ at'[h] \in KeySteps /\ req'[h].op = "report"
    PROVE  OneToken'
<1>1. \A j, k \in stored' : owner'[j] = owner'[k] => j = k
    BY DEF OneToken
<1>2. \A h \in Handlers : at'[h] \in KeySteps /\ req'[h].op = "token" =>
            \A k \in stored' : owner'[k] # req'[h].app
    BY DEF OneToken, KeySteps
<1>3. \A h \in Handlers : at'[h] \in {"remove", "store"} =>
            \A k \in stored' : owner'[k] = req'[h].app => k = token'[h]
    BY DEF OneToken, KeySteps
<1> QED
    BY <1>1, <1>2, <1>3 DEF OneToken, KeySteps

\* Tokens: every step of a request that runs alone.
LEMMA OneTokenStep ==
    ASSUME RegistryInv, AloneInv, "client" \notin hist.overlap, OneToken,
           NEW h \in Handlers, HandlerStep(h)
    PROVE  OneToken'
<1>0. /\ OthersWait(h) /\ HandlerOK(h) /\ at \in [Handlers -> Steps]
      /\ token \in [Handlers -> Tokens \cup {None}] /\ owner \in [Tokens -> Apps \cup {None}]
      /\ stored \subseteq Tokens /\ \A k \in stored : owner[k] # None
    BY HandlerStepOK DEF StepOK, RegistryInv, TypeOK
<1>1. ASSUME at[h] \in ClientSteps
      PROVE  \A g \in Handlers \ {h} : at'[g] \notin ClientSteps
    BY <1>0, <1>1 DEF AloneInv, Exclusive, KindSteps, OthersWait
<1>2. KeySteps \cup {"remove", "store"} \subseteq ClientSteps
    BY DEF ClientSteps, TokenSteps, KeySteps
<1>3. ASSUME at[h] \in ClientSteps,
             \A j, k \in stored' : owner'[j] = owner'[k] => j = k,
             at'[h] \in KeySteps /\ req'[h].op = "token" =>
                \A k \in stored' : owner'[k] # req'[h].app,
             at'[h] \in {"remove", "store"} =>
                \A k \in stored' : owner'[k] = req'[h].app => k = token'[h]
      PROVE  OneToken'
    <2>1. \A g \in Handlers : at'[g] \in KeySteps \cup {"remove", "store"} => g = h
        BY <1>1, <1>2, <1>3
    <2>2. \A g \in Handlers : at'[g] \in KeySteps /\ req'[g].op = "token" =>
                \A k \in stored' : owner'[k] # req'[g].app
        BY <1>3, <2>1
    <2>3. \A g \in Handlers : at'[g] \in {"remove", "store"} =>
                \A k \in stored' : owner'[k] = req'[g].app => k = token'[g]
        BY <1>3, <2>1
    <2> QED
        BY <1>3, <2>2, <2>3 DEF OneToken, KeySteps
<1>4. CASE UNCHANGED <<stored, owner>> /\ at'[h] \notin KeySteps \cup {"remove", "store"}
    BY <1>0, <1>4, TokenQuiet DEF OthersWait
<1>5. CASE LoadClient(h)
    <2>1. UNCHANGED <<stored, owner>> /\ req[h].op = "report" /\ at'[h] \in {"idle", "lookup"}
        BY <1>0, <1>5 DEF LoadClient, Deny, End, Go, data, tokenData, HandlerOK, RequestOK, ReportSteps
    <2>2. at'[h] = "lookup" => req'[h] = req[h]
        BY <1>0, <1>5 DEF LoadClient, Deny, End, Go
    <2> QED
        BY <1>0, <2>1, <2>2, TokenQuiet DEF OthersWait, KeySteps
<1>6. CASE KeyHit(h) \/ KeyMiss(h) \/ KeyLoad(h) \/ KeyPut(h)
    <2>1. UNCHANGED <<stored, owner, req, token>> /\ at[h] \in KeySteps /\ at'[h] \in KeySteps
        BY <1>0, <1>6 DEF KeyHit, KeyMiss, KeyLoad, KeyPut, Go, data, tokenData, KeySteps
    <2> QED
        BY <1>0, <2>1, TokenQuiet DEF OthersWait
<1>7. CASE TokenExisting(h)
    <2>1. UNCHANGED <<stored, owner, req>> /\ at[h] \in ClientSteps
        BY <1>7 DEF TokenExisting, data, tokenData, ClientSteps, TokenSteps
    <2>2. CASE at'[h] = "lookup" /\ \A k \in stored : owner[k] # req[h].app
        BY <1>3, <2>1, <2>2 DEF OneToken
    <2>3. CASE token'[h] \in stored /\ owner[token'[h]] = req[h].app /\ at'[h] \in {"remove", "store"}
        <3>1. \A k \in stored : owner[k] = req[h].app => k = token'[h]
            BY <2>3 DEF OneToken
        <3>2. at'[h] \notin KeySteps
            BY <2>3 DEF KeySteps
        <3> QED
            BY <1>3, <2>1, <3>1, <3>2 DEF OneToken
    <2> QED
        BY <1>0, <1>7, <2>2, <2>3 DEF TokenExisting, Go
<1>8. CASE RemoveToken(h)
    <2>1. /\ owner' = owner /\ at[h] \in ClientSteps /\ at[h] \in {"remove", "forget"}
          /\ stored' = stored \ {token[h]}
        BY <1>8 DEF RemoveToken, ClientSteps, TokenSteps, ReportSteps
    <2>2. CASE at[h] = "remove"
        <3>1. at'[h] = "lookup" /\ req' = req
            BY <1>0, <1>8, <2>2 DEF RemoveToken, Go
        <3>2. \A k \in stored' : owner[k] # req[h].app
            BY <2>1, <2>2 DEF OneToken
        <3> QED
            BY <1>3, <2>1, <3>1, <3>2 DEF OneToken
    <2>3. CASE at[h] = "forget"
        <3>1. at'[h] = "idle"
            BY <1>0, <1>8, <2>3 DEF RemoveToken, End, Go
        <3> QED
            BY <1>3, <2>1, <3>1 DEF OneToken, KeySteps
    <2> QED
        BY <2>1, <2>2, <2>3
<1>9. CASE StoreToken(h)
    <2>1. /\ owner' = owner /\ at[h] = "store" /\ stored' = stored \cup {token[h]}
          /\ at'[h] = "idle" /\ at[h] \in ClientSteps
        BY <1>0, <1>9 DEF StoreToken, End, Go, ClientSteps, TokenSteps
    <2>2. owner[token[h]] = req[h].app
        BY <1>0, <2>1 DEF HandlerOK, TokenHeld
    <2>3. \A j, k \in stored' : owner'[j] = owner'[k] => j = k
        BY <2>1, <2>2 DEF OneToken
    <2> QED
        BY <1>3, <2>1, <2>3 DEF KeySteps
<1>10. CASE Enhance(h)
    <2> DEFINE U == {i \in Tokens : owner[i] = None}
    <2>1. /\ at[h] \in ClientSteps /\ at[h] \in KeySteps /\ req[h].op = "token" /\ at'[h] = "store"
          /\ stored' = stored /\ req' = req /\ owner' = [owner EXCEPT ![Fresh(U)] = req[h].app]
        BY <1>0, <1>10 DEF Enhance, Go, ClientSteps, KeySteps
    <2>2. Fresh(U) \in U
        <3>1. U # {}
            BY <1>10 DEF Enhance
        <3> HIDE DEF U
        <3> QED
            BY <3>1, FreshIsUnused
    <2>3. \A k \in stored : owner'[k] = owner[k]
        BY <1>0, <2>1, <2>2
    <2>4. \A k \in stored : owner[k] # req[h].app
        BY <2>1 DEF OneToken
    <2>5. \A j, k \in stored' : owner'[j] = owner'[k] => j = k
        BY <2>1, <2>3 DEF OneToken
    <2> HIDE DEF U
    <2> QED
        BY <1>3, <2>1, <2>3, <2>4, <2>5 DEF KeySteps
<1> QED
    BY <1>4, <1>5, <1>6, <1>7, <1>8, <1>9, <1>10, TokenEffects

-----------------------------------------------------------------------------
RaceInv == RoomInv /\ TokenInv

\* A step that is no handler's, or stops them all, adds no document and no one who
\* inserts.
LEMMA OutsideRoom ==
    ASSUME TypeOK, TypeOK', RaceInv, Configs' = Configs, users' = users,
           stored' = stored, owner' = owner, hist'.overlap = hist.overlap,
           \A t \in Targets : NewProfiles(t)' \subseteq NewProfiles(t),
           UNCHANGED local \/ Restart
    PROVE  RaceInv'
<1>1. \A kind : Bound(kind)' = Bound(kind) /\ Bound(kind) \in Nat
    BY SmallSets DEF Bound
<1>2. /\ ConfigInserters' \subseteq ConfigInserters
      /\ \A t : ProfileInserters(t)' \subseteq ProfileInserters(t)
      /\ \A a : UserInserters(a)' \subseteq UserInserters(a)
    BY DEF local, Restart, ConfigInserters, ProfileInserters, UserInserters
<1>3. ConfigRoom'
    <2>1. ConfigInserters \in SUBSET Handlers /\ Cardinality(Configs) \in Nat
        <3>1. Configs \in SUBSET DocIds
            BY DEF Configs
        <3> QED
            BY <3>1, SmallSets DEF ConfigInserters
    <2> QED
        BY <1>1, <1>2, <2>1, RoomKept DEF RaceInv, RoomInv, ConfigRoom
<1>4. ASSUME NEW t \in Targets PROVE ProfileRoom(t)'
    <2> DEFINE W == ProfileInserters(t)
               P == NewProfiles(t)
    <2>1. W \in SUBSET Handlers /\ P \in SUBSET ProfileIds /\ P' \subseteq P /\ W' \subseteq W
        BY <1>2 DEF ProfileInserters, NewProfiles
    <2>2. Cardinality(P) + Cardinality(W) <= Bound("profile")
        BY DEF RaceInv, RoomInv, ProfileRoom
    <2>3. Cardinality(P') + Cardinality(W') <= Bound("profile")'
        <3> HIDE DEF P, W
        <3>1. Cardinality(P) \in Nat /\ Cardinality(P') \in Nat /\ Cardinality(P') <= Cardinality(P)
            BY <2>1, SmallSets, FS_Subset
        <3> QED
            BY <1>1, <2>1, <2>2, <3>1, RoomKept
    <2> QED
        BY <2>3 DEF ProfileRoom
<1>5. ASSUME NEW a \in Apps PROVE UserRoom(a)'
    <2> DEFINE W == UserInserters(a)
    <2>1. W \in SUBSET Handlers /\ W' \subseteq W /\ users[a] \in Nat
        BY <1>2 DEF UserInserters, TypeOK
    <2>2. users[a] + Cardinality(W) <= Bound("client")
        BY DEF RaceInv, RoomInv, UserRoom
    <2>3. users'[a] + Cardinality(W') <= Bound("client")'
        <3> HIDE DEF W
        <3> QED
            BY <1>1, <2>1, <2>2, RoomKept
    <2> QED
        BY <2>3 DEF UserRoom
<1>6. TokenInv'
    <2>1. \A h \in Handlers : at'[h] \in KeySteps \cup {"remove", "store"} =>
                at'[h] = at[h] /\ req'[h] = req[h] /\ token'[h] = token[h]
        BY DEF local, Restart, KeySteps
    <2> QED
        BY <2>1, TokenQuiet DEF RaceInv, TokenInv
<1> QED
    BY <1>3, <1>4, <1>5, <1>6 DEF RaceInv, RoomInv

\* The bounds are inductive, with what handlers know and who runs alone.
LEMMA RaceStep ==
    RegistryInv /\ AloneInv /\ RegistryInv' /\ AloneInv' /\ RaceInv /\ [Next]_vars => RaceInv'
<1> SUFFICES ASSUME RegistryInv, AloneInv, RegistryInv', AloneInv', RaceInv, [Next]_vars
             PROVE  RaceInv'
    OBVIOUS
<1>0. TypeOK /\ TypeOK' /\ hist \in History
    BY DEF RegistryInv, TypeOK
<1>1. ASSUME NEW h \in Handlers, HandlerStep(h) PROVE RaceInv'
    <2>1. ConfigRoom'
        BY <1>1, ConfigRoomStep DEF RaceInv, RoomInv
    <2>2. \A t \in Targets : ProfileRoom(t)'
        BY <1>1, ProfileRoomStep DEF RaceInv, RoomInv
    <2>3. \A a \in Apps : UserRoom(a)'
        BY <1>1, UserRoomStep DEF RaceInv, RoomInv
    <2>4. TokenInv'
        BY <1>1, HistorySteps, OneTokenStep DEF RaceInv, TokenInv
    <2> QED
        BY <2>1, <2>2, <2>3, <2>4 DEF RaceInv, RoomInv
<1>2. CASE UNCHANGED vars \/ Restart
    <2>1. UNCHANGED <<docs, profiles, users, stored, owner, hist>> /\ (UNCHANGED local \/ Restart)
        BY <1>2 DEF vars, data, tokenData, Restart
    <2>2. Configs' = Configs /\ \A t \in Targets : NewProfiles(t)' \subseteq NewProfiles(t)
        BY <2>1 DEF Configs, NewProfiles
    <2> QED
        BY <1>0, <2>1, <2>2, OutsideRoom
<1>3. CASE (\E a \in Apps : CreateApp(a) \/ UpdateApp(a) \/ DeleteApp(a)) \/ \E k \in Tokens : Expire(k)
    <2>1. UNCHANGED <<docs, profiles, users, stored, owner, local>>
        BY <1>3 DEF CreateApp, UpdateApp, DeleteApp, Expire, vars, data, tokenData
    <2>2. hist'.overlap = hist.overlap /\ hist'.updated = hist.updated
        BY <1>0, <1>3 DEF CreateApp, UpdateApp, DeleteApp, Expire, vars, History
    <2>3. Configs' = Configs /\ \A t \in Targets : NewProfiles(t)' \subseteq NewProfiles(t)
        BY <2>1, <2>2 DEF Configs, NewProfiles
    <2> QED
        BY <1>0, <2>1, <2>2, <2>3, OutsideRoom
<1>4. CASE (\E p \in ProfileIds, t \in Targets : UpdateProfile(p, t)) \/ \E p \in ProfileIds : DeleteProfile(p)
    <2>1. UNCHANGED <<docs, users, stored, owner, local>>
        BY <1>4 DEF UpdateProfile, DeleteProfile, tokenData
    <2>2. PICK p \in ProfileIds :
              \/ /\ \E t \in Targets : profiles' = [profiles EXCEPT ![p] = t]
                 /\ hist' = [hist EXCEPT !.updated = hist.updated \cup {p}]
              \/ profiles' = [profiles EXCEPT ![p] = None] /\ hist' = hist
        BY <1>4 DEF UpdateProfile, DeleteProfile
    <2>3. /\ hist'.overlap = hist.overlap
          /\ \/ hist'.updated = hist.updated \cup {p}
             \/ hist'.updated = hist.updated /\ profiles'[p] = None
        BY <1>0, <2>2 DEF History, TypeOK
    <2>4. \A q \in ProfileIds : q # p => profiles'[q] = profiles[q]
        BY <1>0, <2>2 DEF TypeOK
    <2>5. ASSUME NEW t \in Targets PROVE NewProfiles(t)' \subseteq NewProfiles(t)
        <3>1. None # t
            BY RegistryAssumption
        <3> QED
            BY <2>3, <2>4, <3>1 DEF NewProfiles
    <2>6. Configs' = Configs
        BY <2>1 DEF Configs
    <2> QED
        BY <1>0, <2>1, <2>3, <2>5, <2>6, OutsideRoom
<1> QED
    BY <1>1, <1>2, <1>3, <1>4 DEF Next

\* At first there are no documents and no requests.
LEMMA RaceInit == Init => RaceInv
<1> SUFFICES ASSUME Init PROVE RaceInv
    OBVIOUS
<1>1. /\ Configs = {} /\ ConfigInserters = {} /\ stored = {}
      /\ \A t \in Targets : NewProfiles(t) = {} /\ ProfileInserters(t) = {}
      /\ \A a \in Apps : users[a] = 0 /\ UserInserters(a) = {}
    BY RegistryAssumption DEF Init, Configs, ConfigInserters, NewProfiles, ProfileInserters,
                              UserInserters
<1>2. Cardinality({}) = 0
    BY FS_EmptySet
<1>3. \A kind : Bound(kind) = 1
    BY DEF Init, Bound
<1>4. RoomInv
    <2>1. ConfigRoom
        BY <1>1, <1>2, <1>3 DEF ConfigRoom
    <2>2. ASSUME NEW t \in Targets PROVE ProfileRoom(t)
        <3>1. Cardinality(NewProfiles(t)) = 0 /\ Cardinality(ProfileInserters(t)) = 0
            BY <1>1, <1>2
        <3> QED
            BY <1>3, <3>1 DEF ProfileRoom
    <2>3. ASSUME NEW a \in Apps PROVE UserRoom(a)
        <3>1. users[a] = 0 /\ Cardinality(UserInserters(a)) = 0
            BY <1>1, <1>2
        <3> QED
            BY <1>3, <3>1 DEF UserRoom
    <2> QED
        BY <2>1, <2>2, <2>3 DEF RoomInv
<1>5. TokenInv
    BY <1>1 DEF Init, TokenInv, OneToken, KeySteps
<1> QED
    BY <1>4, <1>5 DEF RaceInv

\* The bounds on documents follow.
LEMMA RaceBounds == TypeOK /\ RaceInv => InsertRacesBounded
<1> SUFFICES ASSUME TypeOK, RaceInv PROVE InsertRacesBounded
    OBVIOUS
<1>0. \A kind : Bound(kind) \in Nat
    BY SmallSets DEF Bound
<1>1. Duplicates(Configs, "config" \in hist.overlap)
    <2>1. Cardinality(Configs) \in Nat /\ Cardinality(ConfigInserters) \in Nat
        <3>1. Configs \in SUBSET DocIds /\ ConfigInserters \in SUBSET Handlers
            BY DEF Configs, ConfigInserters
        <3> QED
            BY <3>1, SmallSets
    <2>2. Cardinality(Configs) <= Bound("config")
        BY <1>0, <2>1 DEF RaceInv, RoomInv, ConfigRoom
    <2> QED
        BY <2>2 DEF Duplicates, Bound
<1>2. ASSUME NEW t \in Targets
      PROVE  Duplicates(NewProfiles(t), "profile" \in hist.overlap)
    <2>1. Cardinality(NewProfiles(t)) \in Nat /\ Cardinality(ProfileInserters(t)) \in Nat
        <3>1. NewProfiles(t) \in SUBSET ProfileIds /\ ProfileInserters(t) \in SUBSET Handlers
            BY DEF NewProfiles, ProfileInserters
        <3> QED
            BY <3>1, SmallSets
    <2>2. Cardinality(NewProfiles(t)) <= Bound("profile")
        BY <1>0, <2>1 DEF RaceInv, RoomInv, ProfileRoom
    <2> QED
        BY <2>2 DEF Duplicates, Bound
<1>3. ASSUME NEW a \in Apps PROVE Duplicates(1 .. users[a], "client" \in hist.overlap)
    <2>1. users[a] \in Nat /\ Cardinality(UserInserters(a)) \in Nat
        <3>1. UserInserters(a) \in SUBSET Handlers
            BY DEF UserInserters
        <3> QED
            BY <3>1, SmallSets DEF TypeOK
    <2>2. Cardinality(1 .. users[a]) = users[a]
        BY <2>1, FS_Interval
    <2>3. users[a] <= Bound("client")
        BY <1>0, <2>1 DEF RaceInv, RoomInv, UserRoom
    <2> QED
        BY <2>2, <2>3 DEF Duplicates, Bound
<1>4. ASSUME NEW a \in Apps, "client" \notin hist.overlap
      PROVE  Duplicates({k \in stored : owner[k] = a}, FALSE)
    <2> DEFINE S == {k \in stored : owner[k] = a}
    <2>1. \A j, k \in S : j = k
        BY <1>4 DEF RaceInv, TokenInv, OneToken
    <2> HIDE DEF S
    <2>2. ASSUME S = {} PROVE Duplicates(S, FALSE)
        BY <2>2, FS_EmptySet DEF Duplicates
    <2>3. ASSUME NEW k \in S PROVE Duplicates(S, FALSE)
        <3>1. S = {k}
            BY <2>1
        <3>2. Cardinality(S) = 1
            BY <3>1, FS_Singleton
        <3> QED
            BY <3>2 DEF Duplicates
    <2>4. Duplicates(S, FALSE)
        BY <2>2, <2>3
    <2> QED
        BY <2>4 DEF S
<1> QED
    BY <1>1, <1>2, <1>3, <1>4 DEF InsertRacesBounded, NewProfiles

\* However many handlers run, fail and restart: check-then-insert makes one document of
\* configuration, profile target and user unless such requests overlapped, and never
\* more than there are handlers; an application has one token document unless
\* requests of clients overlapped.
THEOREM RacesBounded == Spec => []InsertRacesBounded
<1>1. RegistryInv /\ RaceInv => InsertRacesBounded
    BY RaceBounds DEF RegistryInv
<1> QED
    BY <1>1, RegistryInit, RegistryStep, AloneInit, AloneStep, RaceInit, RaceStep, PTL DEF Spec
=============================================================================
