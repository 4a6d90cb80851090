------------------------ MODULE AccountPromiseProofs ------------------------
(* For one process at a time whose account.key nobody removes (Solo), and    *)
(* any environments and keys: the runs of AccountStore, however they crash,  *)
(* implement AccountPromise.                                                 *)
EXTENDS AccountStoreProofs

\* What account.json holds while a run is on its way to replace it: the account
\* of the run's key that it verifies, nothing when an account is created, and
\* nothing of another environment when one is saved.
CacheInv ==
  \A p \in Procs :
    /\ pc[p] \in {"cache", "verify"} => nonce[p] = env[p]
    /\ pc[p] = "verify" => CachedServer = state[p].server /\ state[p].account = key[p]
    /\ pc[p] \in {"create", "fetchobject"} => CachedServer = None
    /\ pc[p] \in {"stateopen", "statewrite", "statepublish"} =>
         CachedServer \in {None, env[p]}

IInvSolo == SoloInv /\ CacheInv

-----------------------------------------------------------------------------
(* What is in account.key and account.json, step by step                     *)

DurableStays == KeyOnDisk' = KeyOnDisk /\ CachedServer' = CachedServer

\* Steps that do not touch the directory.
LEMMA FilesStay ==
  ASSUME UNCHANGED files
  PROVE  DurableStays
BY DEF DurableStays, KeyOnDisk, CachedServer, Exists, Read, files

\* Steps that open or write a temporary file.
LEMMA TmpStays ==
  ASSUME SoloInv, NEW p \in Procs,
         \/ OpenKeyTmp(p) \/ OpenStateTmp(p) \/ WriteKeyTmp(p) \/ WriteStateTmp(p)
  PROVE  DurableStays
<1> SUFFICES /\ dir'[KeyFile] = dir[KeyFile] /\ dir'[StateFile] = dir[StateFile]
             /\ Exists(KeyFile) => content'[dir[KeyFile]] = content[dir[KeyFile]]
             /\ Exists(StateFile) => content'[dir[StateFile]] = content[dir[StateFile]]
  BY DEF DurableStays, KeyOnDisk, CachedServer, Exists, Read
<1>1. ASSUME NEW tmp \in {KeyTmp, StateTmp}, OpenTmp(p, tmp)
      PROVE  /\ dir'[KeyFile] = dir[KeyFile] /\ dir'[StateFile] = dir[StateFile]
             /\ Exists(KeyFile) => content'[dir[KeyFile]] = content[dir[KeyFile]]
             /\ Exists(StateFile) => content'[dir[StateFile]] = content[dir[StateFile]]
  <2>1. tmp \in Names /\ tmp # KeyFile /\ tmp # StateFile
    BY NameFacts
  <2>2. PICK i \in Inodes :
          /\ dir' = [dir EXCEPT ![tmp] = i]
          /\ content' = [content EXCEPT ![i] = None]
          /\ dir[tmp] = i \/ \A n \in Names : dir[n] # i
    BY <1>1, <2>1, OpenFacts DEF SoloInv, IInv
  <2>3. dir[KeyFile] # i /\ dir[StateFile] # i
    BY <2>2, TmpFacts DEF SoloInv
  <2>4. QED
    BY <2>1, <2>2, <2>3, NameFacts DEF SoloInv, IInv, TypeOK, Exists
<1>2. ASSUME WriteKeyTmp(p) \/ WriteStateTmp(p)
      PROVE  /\ dir' = dir
             /\ Exists(KeyFile) => content'[dir[KeyFile]] = content[dir[KeyFile]]
             /\ Exists(StateFile) => content'[dir[StateFile]] = content[dir[StateFile]]
  <2>1. fd[p] \in Inodes /\ fd[p] \in {dir[KeyTmp], dir[StateTmp]}
    BY <1>2 DEF SoloInv, ProgressInv, IInv, TypeOK, RunInv, WriteKeyTmp, WriteStateTmp
  <2>2. dir[KeyFile] # fd[p] /\ dir[StateFile] # fd[p]
    BY <2>1, TmpFacts DEF SoloInv
  <2>3. QED
    BY <1>2, <2>1, <2>2, NameFacts
       DEF SoloInv, IInv, TypeOK, Exists, WriteKeyTmp, WriteStateTmp, WriteTmp
<1>3. QED
  BY <1>1, <1>2 DEF OpenKeyTmp, OpenStateTmp

\* The first key is published: there was none.
LEMMA PublishKeyFacts ==
  ASSUME SoloInv, NEW p \in Procs, PublishKey(p)
  PROVE  /\ KeyOnDisk = None /\ KeyOnDisk' = key[p] /\ key[p] \in Keys
         /\ CachedServer' = CachedServer
         /\ pc' = [pc EXCEPT ![p] = "directory"]
<1>1. /\ Exists(KeyTmp) /\ Read(KeyTmp) = key[p] /\ key[p] \in Keys
      /\ ~Exists(KeyFile) /\ KeyOnDisk = None
  BY DEF SoloInv, ProgressInv, IInv, RunInv, MakesKey, PublishKey, KeyOnDisk
<1>2. /\ dir' = [dir EXCEPT ![KeyFile] = dir[KeyTmp], ![KeyTmp] = None]
      /\ pc' = [pc EXCEPT ![p] = "directory"]
      /\ content' = content
  BY <1>1 DEF PublishKey, Publish, Goto
<1>3. /\ dir'[KeyFile] = dir[KeyTmp] /\ dir'[StateFile] = dir[StateFile]
  BY <1>2, NameFacts DEF SoloInv, IInv, TypeOK
<1>4. QED
  BY <1>1, <1>2, <1>3 DEF KeyOnDisk, CachedServer, Exists, Read

\* The account is saved: it is of the environment of the run.
LEMMA PublishStateFacts ==
  ASSUME SoloInv, NEW p \in Procs, PublishState(p)
  PROVE  /\ KeyOnDisk = key[p] /\ KeyOnDisk' = KeyOnDisk /\ key[p] \in Keys
         /\ CachedServer' = env[p] /\ env[p] \in Envs
         /\ account[env[p]][key[p]] # "none"
         /\ pc' = [pc EXCEPT ![p] = "done"]
<1>1. /\ Exists(StateTmp) /\ Read(StateTmp) = state[p] /\ KeyOnDisk = key[p]
      /\ state[p].server = env[p] /\ env[p] \in Envs /\ key[p] \in Keys
      /\ account[env[p]][key[p]] # "none"
  BY DEF SoloInv, ProgressInv, IInv, RunInv, AuthorizedInv, HasState, PublishState
<1>2. /\ dir' = [dir EXCEPT ![StateFile] = dir[StateTmp], ![StateTmp] = None]
      /\ pc' = [pc EXCEPT ![p] = "done"]
      /\ content' = content
  BY <1>1 DEF PublishState, Publish, Goto
<1>3. /\ dir'[StateFile] = dir[StateTmp] /\ dir'[KeyFile] = dir[KeyFile]
  BY <1>2, NameFacts DEF SoloInv, IInv, TypeOK
<1>4. QED
  BY <1>1, <1>2, <1>3 DEF KeyOnDisk, CachedServer, Exists, Read

\* The operator removes account.json, and no process runs.
LEMMA RemoveFacts ==
  ASSUME SoloInv, Solo, NEW n \in Removable, RemoveFile(n)
  PROVE  /\ KeyOnDisk' = KeyOnDisk
         /\ CachedServer # None /\ CachedServer' = None
         /\ \A p \in Procs : pc[p] = "off"
<1>1. n = StateFile /\ KeyFile # StateFile /\ KeyFile \in Names /\ StateFile \in Names
  BY NameFacts DEF Solo
<1>2. /\ dir'[KeyFile] = dir[KeyFile] /\ dir'[StateFile] = None
      /\ content' = content
  BY <1>1 DEF SoloInv, IInv, TypeOK, RemoveFile
<1>3. CachedServer # None
  BY <1>1, StateFacts, NoneAssumption
     DEF SoloInv, FinalInv, CacheMatchesKey, RemoveFile, CachedServer
<1>4. QED
  BY <1>2, <1>3 DEF KeyOnDisk, CachedServer, Exists, Read, RemoveFile

-----------------------------------------------------------------------------
(* CacheInv is an invariant                                                  *)

LEMMA InitCacheInv ==
  ASSUME Init
  PROVE  CacheInv
BY DEF Init, CacheInv

\* A run reads account.json, and goes on with what it says or without it.
LEMMA ReadCacheCache ==
  ASSUME IInvSolo, Solo, NEW p \in Procs, ReadCache(p)
  PROVE  CacheInv'
<1>1. DurableStays
  BY FilesStay DEF ReadCache
<1>2. \/ pc'[p] = "create" /\ CachedServer = None
      \/ /\ pc'[p] = "verify" /\ CachedServer = state'[p].server
         /\ state'[p].account = KeyOnDisk
      \/ pc'[p] = "failed"
  BY DEF IInvSolo, SoloInv, IInv, TypeOK, FinalInv, CacheMatchesKey, ReadCache, Goto,
     CachedServer
<1>3. /\ KeyOnDisk = key[p] /\ nonce[p] = env[p]
      /\ UNCHANGED <<key, nonce, env>>
  BY DEF IInvSolo, SoloInv, ProgressInv, HasKey, CacheInv, ReadCache, environment
<1>4. QED
  BY <1>1, <1>2, <1>3 DEF Solo, CacheInv, DurableStays

\* Only an account of the run's own environment passes verification.
LEMMA VerifyCache ==
  ASSUME IInvSolo, Solo, NEW p \in Procs, Verify(p)
  PROVE  CacheInv'
<1>1. DurableStays
  BY FilesStay DEF Verify
<1>2. CachedServer = env[p]
  BY StateFacts, NoneAssumption
     DEF IInvSolo, SoloInv, IInv, RunInv, NonceInv, CacheInv, Verify
<1>3. pc'[p] \in {"stateopen", "failed"} /\ env' = env
  BY DEF IInvSolo, SoloInv, IInv, TypeOK, Verify, Goto, environment
<1>4. QED
  BY <1>1, <1>2, <1>3 DEF Solo, CacheInv, DurableStays

\* Nothing was cached when the account was created.
LEMMA CreateCache ==
  ASSUME IInvSolo, Solo, NEW p \in Procs, Create(p) \/ FetchObject(p)
  PROVE  CacheInv'
<1>1. DurableStays
  BY FilesStay DEF Create, FetchObject
<1>2. CachedServer = None
  BY DEF IInvSolo, CacheInv, Create, FetchObject
<1>3. pc'[p] \in {"stateopen", "fetchobject", "failed"}
  BY DEF IInvSolo, SoloInv, IInv, TypeOK, Create, FetchObject, Goto
<1>4. QED
  BY <1>1, <1>2, <1>3 DEF Solo, CacheInv, DurableStays

\* account.json is saved by way of its temporary file.
LEMMA SaveCache ==
  ASSUME IInvSolo, Solo, NEW p \in Procs,
         OpenStateTmp(p) \/ WriteStateTmp(p) \/ PublishState(p)
  PROVE  CacheInv'
<1>1. CASE OpenStateTmp(p) \/ WriteStateTmp(p)
  <2>1. DurableStays
    BY <1>1, TmpStays DEF IInvSolo
  <2>2. /\ pc[p] \in {"stateopen", "statewrite"} /\ env' = env
        /\ pc'[p] \in {"statewrite", "statepublish"}
    BY <1>1 DEF IInvSolo, SoloInv, IInv, TypeOK, OpenStateTmp, WriteStateTmp, Goto,
       environment
  <2>3. QED
    BY <2>1, <2>2 DEF Solo, IInvSolo, CacheInv, DurableStays
<1>2. CASE PublishState(p)
  <2>1. pc'[p] = "done"
    BY <1>2, PublishStateFacts DEF IInvSolo, SoloInv, IInv, TypeOK
  <2>2. QED
    BY <2>1 DEF Solo, CacheInv
<1>3. QED
  BY <1>1, <1>2

\* The other steps come to points at which nothing is said of account.json.
LEMMA OtherCache ==
  ASSUME IInvSolo, Solo, NEW p \in Procs,
         \/ \E e \in Envs : Begin(p, e)
         \/ LoadKey(p) \/ GenerateKey(p) \/ OpenKeyTmp(p) \/ WriteKeyTmp(p)
         \/ PublishKey(p) \/ Discover(p) \/ BadNonce(p) \/ NetworkFault(p) \/ Stop(p)
  PROVE  CacheInv'
<1>1. pc'[p] \in {"key", "keyopen", "keywrite", "keypublish", "directory", "cache",
                  "failed", "off"}
  BY DEF IInvSolo, SoloInv, IInv, TypeOK, Begin, LoadKey, GenerateKey, OpenKeyTmp,
     WriteKeyTmp, PublishKey, Publish, Discover, BadNonce, NetworkFault, Stop, Goto
<1>2. pc'[p] = "cache" => nonce'[p] = env'[p]
  BY DEF IInvSolo, SoloInv, IInv, TypeOK, Begin, LoadKey, GenerateKey, OpenKeyTmp,
     WriteKeyTmp, PublishKey, Publish, Discover, BadNonce, NetworkFault, Stop, Goto,
     environment
<1>3. QED
  BY <1>1, <1>2 DEF Solo, CacheInv

\* What servers, operator and faults do.
LEMMA OutsideCache ==
  ASSUME IInvSolo, Solo,
         \/ \E e \in Envs, k \in Keys : Deactivate(e, k)
         \/ \E n \in Removable : RemoveFile(n)
         \/ CalmDown \/ UNCHANGED vars
  PROVE  CacheInv'
<1>1. CASE \E n \in Removable : RemoveFile(n)
  <2>1. \A p \in Procs : pc'[p] = "off"
    BY <1>1 DEF RemoveFile
  <2>2. QED
    BY <2>1 DEF CacheInv
<1>2. CASE \/ \E e \in Envs, k \in Keys : Deactivate(e, k)
           \/ CalmDown \/ UNCHANGED vars
  <2>1. UNCHANGED <<files, pc, env, nonce, key, state>>
    BY <1>2 DEF Deactivate, CalmDown, vars, memory, environment
  <2>2. QED
    BY <2>1, FilesStay DEF IInvSolo, CacheInv, DurableStays
<1>3. QED
  BY <1>1, <1>2

LEMMA StepCache ==
  ASSUME Solo, IInvSolo, [Next]_vars
  PROVE  IInvSolo'
<1>1. SoloInv'
  BY StepSolo DEF IInvSolo
<1>2. CacheInv'
  BY ReadCacheCache, VerifyCache, CreateCache, SaveCache, OtherCache, OutsideCache
     DEF Next, Step
<1>3. QED
  BY <1>1, <1>2 DEF IInvSolo

LEMMA CacheInvariance == ASSUME Solo PROVE Spec => []IInvSolo
<1>1. Init => IInvSolo
  BY InitSolo, InitCacheInv DEF IInvSolo
<1>2. IInvSolo /\ [Next]_vars => IInvSolo'
  BY StepCache
<1>3. QED
  BY <1>1, <1>2, PTL DEF Spec

-----------------------------------------------------------------------------
(* Every step is a step of AccountPromise, or changes nothing it speaks of   *)

LEMMA InitRefines ==
  ASSUME Init
  PROVE  Promise!Init
<1>1. KeyOnDisk = None /\ CachedServer = None
  BY NameFacts DEF Init, KeyOnDisk, CachedServer, Exists
<1>2. Clients = {}
  BY DEF Init, Clients
<1>3. QED
  BY <1>1, <1>2 DEF Init, Promise!Init

\* Clients come and go with the point "done" alone.
LEMMA ClientsStay ==
  ASSUME UNCHANGED <<env, key>>, NEW p \in Procs, NEW point, pc \in [Procs -> Points],
         pc' = [pc EXCEPT ![p] = point], point # "done", pc[p] # "done"
  PROVE  Clients' = Clients
<1>1. \A q \in Procs : pc'[q] = "done" <=> pc[q] = "done"
  OBVIOUS
<1>2. QED
  BY <1>1 DEF Clients

LEMMA NoClients ==
  ASSUME \A q \in Procs : pc[q] # "done"
  PROVE  Clients = {}
BY DEF Clients

\* Steps of a process that change neither directory nor accounts.
LEMMA QuietRefines ==
  ASSUME IInvSolo, Solo, NEW p \in Procs,
         \/ \E e \in Envs : Begin(p, e)
         \/ LoadKey(p) \/ GenerateKey(p) \/ Discover(p) \/ ReadCache(p) \/ Verify(p)
         \/ BadNonce(p) \/ FetchObject(p) \/ NetworkFault(p)
         \/ OpenKeyTmp(p) \/ OpenStateTmp(p) \/ WriteKeyTmp(p) \/ WriteStateTmp(p)
  PROVE  UNCHANGED Promise!vars
<1>1. DurableStays
  BY FilesStay, TmpStays
     DEF IInvSolo, Begin, LoadKey, GenerateKey, Discover, ReadCache, Verify, BadNonce,
     FetchObject, NetworkFault
<1>2. UNCHANGED account
  BY DEF Begin, LoadKey, GenerateKey, Discover, ReadCache, Verify, BadNonce,
     FetchObject, NetworkFault, OpenKeyTmp, OpenStateTmp, WriteKeyTmp, WriteStateTmp,
     environment
<1>3. \A q \in Procs : pc[q] # "done" /\ pc'[q] # "done"
  BY DEF Solo, IInvSolo, SoloInv, IInv, TypeOK, Begin, LoadKey, GenerateKey, Discover,
     ReadCache, Verify, BadNonce, FetchObject, NetworkFault, OpenKeyTmp, OpenStateTmp,
     WriteKeyTmp, WriteStateTmp, Goto
<1>4. Clients = {} /\ Clients' = {}
  BY <1>3 DEF Clients
<1>5. QED
  BY <1>1, <1>2, <1>4 DEF Promise!vars, DurableStays

LEMMA PublishKeyRefines ==
  ASSUME IInvSolo, Solo, NEW p \in Procs, PublishKey(p)
  PROVE  Promise!SaveKey
<1>1. /\ KeyOnDisk = None /\ KeyOnDisk' \in Keys /\ CachedServer' = CachedServer
      /\ UNCHANGED <<account, env, key>>
  BY PublishKeyFacts DEF IInvSolo, PublishKey, memory, environment
<1>2. Clients' = Clients
  BY <1>1, PublishKeyFacts, ClientsStay DEF IInvSolo, SoloInv, IInv, TypeOK, PublishKey
<1>3. QED
  BY <1>1, <1>2 DEF Promise!SaveKey

\* newAccount registers the saved key, while nothing is cached.
LEMMA CreateRefines ==
  ASSUME IInvSolo, Solo, NEW p \in Procs, Create(p)
  PROVE  Promise!Register(env[p]) \/ UNCHANGED Promise!vars
<1>1. /\ pc[p] = "create" /\ CachedServer = None
      /\ env[p] \in Envs /\ key[p] \in Keys /\ KeyOnDisk = key[p]
  BY DEF IInvSolo, SoloInv, IInv, RunInv, ProgressInv, CacheInv, HasKey, Create
<1>2. DurableStays
  BY FilesStay DEF Create
<1>3. Clients = {} /\ Clients' = {}
  <2>1. \A q \in Procs : pc[q] # "done" /\ pc'[q] # "done"
    BY DEF Solo, IInvSolo, SoloInv, IInv, TypeOK, Create, Goto
  <2>2. QED
    BY <2>1 DEF Clients
<1>4. CASE account[env[p]][key[p]] = "none"
  <2>1. account' = [account EXCEPT ![env[p]][key[p]] = "valid"]
    BY <1>4 DEF Create, Register
  <2>2. QED
    BY <1>1, <1>2, <1>3, <1>4, <2>1, NoneAssumption DEF Promise!Register, DurableStays
<1>5. CASE account[env[p]][key[p]] # "none"
  <2>1. account' = account
    BY <1>1, <1>5 DEF IInvSolo, SoloInv, IInv, TypeOK, Create, Register
  <2>2. QED
    BY <1>2, <1>3, <2>1 DEF Promise!vars, DurableStays
<1>6. QED
  BY <1>4, <1>5

LEMMA PublishStateRefines ==
  ASSUME IInvSolo, Solo, NEW p \in Procs, PublishState(p)
  PROVE  Promise!Prepare(env[p]) /\ env[p] \in Envs
<1>1. /\ KeyOnDisk = key[p] /\ KeyOnDisk' = KeyOnDisk /\ key[p] \in Keys
      /\ CachedServer' = env[p] /\ env[p] \in Envs
      /\ account[env[p]][key[p]] # "none"
      /\ pc' = [pc EXCEPT ![p] = "done"]
  BY PublishStateFacts DEF IInvSolo
<1>2. /\ pc[p] = "statepublish" /\ CachedServer \in {None, env[p]}
      /\ UNCHANGED <<account, env, key>>
  BY DEF IInvSolo, CacheInv, PublishState, memory, environment
<1>3. Clients = {}
  BY <1>2 DEF Solo, Clients
<1>4. Clients' = {[server |-> env[p], key |-> key[p]]}
  <2>1. pc'[p] = "done" /\ \A q \in Procs : q = p
    BY <1>1 DEF Solo, IInvSolo, SoloInv, IInv, TypeOK
  <2>2. {q \in Procs : pc'[q] = "done"} = {p}
    BY <2>1
  <2>3. QED
    BY <1>2, <2>2 DEF Clients
<1>5. QED
  BY <1>1, <1>2, <1>3, <1>4, NoneAssumption DEF Promise!Prepare

LEMMA StopRefines ==
  ASSUME IInvSolo, Solo, NEW p \in Procs, Stop(p)
  PROVE  Promise!Release \/ UNCHANGED Promise!vars
<1>1. DurableStays
  BY FilesStay DEF Stop
<1>2. UNCHANGED account
  BY DEF Stop, environment
<1>3. Clients' = {}
  BY DEF Solo, IInvSolo, SoloInv, IInv, TypeOK, Stop, Goto, Clients
<1>4. QED
  BY <1>1, <1>2, <1>3 DEF Promise!Release, Promise!vars, DurableStays

LEMMA RemoveRefines ==
  ASSUME IInvSolo, Solo, NEW n \in Removable, RemoveFile(n)
  PROVE  Promise!Forget
<1>1. Clients = {}
  BY RemoveFacts, NoClients DEF IInvSolo
<1>2. UNCHANGED <<account, pc, env, key>>
  BY DEF RemoveFile, memory, environment
<1>3. Clients' = {}
  BY <1>1, <1>2 DEF Clients
<1>4. QED
  BY <1>1, <1>2, <1>3, RemoveFacts DEF IInvSolo, Promise!Forget

LEMMA StepRefines ==
  ASSUME IInvSolo, Solo, [Next]_vars
  PROVE  [Promise!Next]_(Promise!vars)
<1>1. ASSUME NEW p \in Procs, (\E e \in Envs : Begin(p, e)) \/ Step(p)
      PROVE  [Promise!Next]_(Promise!vars)
  <2>1. CASE PublishKey(p)
    BY <2>1, PublishKeyRefines DEF Promise!Next
  <2>2. CASE Create(p)
    <3>1. env[p] \in Envs
      BY <2>2 DEF IInvSolo, SoloInv, IInv, RunInv, Create
    <3>2. QED
      BY <2>2, <3>1, CreateRefines DEF Promise!Next
  <2>3. CASE PublishState(p)
    BY <2>3, PublishStateRefines DEF Promise!Next
  <2>4. QED
    BY <1>1, <2>1, <2>2, <2>3, QuietRefines DEF Step
<1>2. ASSUME NEW p \in Procs, NetworkFault(p) \/ Stop(p)
      PROVE  [Promise!Next]_(Promise!vars)
  BY <1>2, QuietRefines, StopRefines DEF Promise!Next
<1>3. CASE \E e \in Envs, k \in Keys : Deactivate(e, k)
  <2>1. PICK e \in Envs, k \in Keys : Deactivate(e, k)
    BY <1>3
  <2>2. UNCHANGED <<files, pc, env, key>>
    BY <2>1 DEF Deactivate, memory
  <2>3. Clients' = Clients
    BY <2>2 DEF Clients
  <2>4. Promise!Deactivate(e, k)
    BY <2>1, <2>2, <2>3, FilesStay DEF Deactivate, Promise!Deactivate, DurableStays
  <2>5. QED
    BY <2>4 DEF Promise!Next
<1>4. CASE \E n \in Removable : RemoveFile(n)
  BY <1>4, RemoveRefines DEF Promise!Next
<1>5. CASE CalmDown \/ UNCHANGED vars
  <2>1. UNCHANGED <<files, account, pc, env, key>>
    BY <1>5 DEF CalmDown, vars, memory, environment
  <2>2. Clients' = Clients
    BY <2>1 DEF Clients
  <2>3. QED
    BY <2>1, <2>2, FilesStay DEF Promise!vars, DurableStays
<1>6. QED
  BY <1>1, <1>2, <1>3, <1>4, <1>5 DEF Next

\* The runs on an account directory, one at a time, for either environment, killed
\* between any two steps and begun again, keep AccountPromise.
THEOREM PromiseKept == ASSUME Solo PROVE Spec => ImplementsAccountPromise
<1>1. IInvSolo /\ [Next]_vars => [Promise!Next]_(Promise!vars)
  BY StepRefines
<1>2. Init => Promise!Init
  BY InitRefines
<1>3. QED
  BY <1>1, <1>2, CacheInvariance, PTL DEF Spec, ImplementsAccountPromise, Promise!Spec

-----------------------------------------------------------------------------
(* What follows from AccountPromise holds of the runs                        *)

\* With it, a cached account is one that its server knows: inductive in
\* AccountPromise alone.
PromiseInv ==
  /\ account \in [Envs -> [Keys -> Statuses \cup {"none"}]]
  /\ KeyOnDisk \in Keys \cup {None}
  /\ Promise!OneAccountPerServer
  /\ Promise!ClientsActAsCached
  /\ CachedServer # None =>
       /\ CachedServer \in Envs /\ KeyOnDisk # None
       /\ account[CachedServer][KeyOnDisk] # "none"
  /\ Clients # {} => CachedServer # None

LEMMA PromiseInvariance == Promise!Spec => []PromiseInv
<1>1. Promise!Init => PromiseInv
  BY NoneAssumption
     DEF Promise!Init, PromiseInv, Promise!OneAccountPerServer, Promise!ClientsActAsCached,
         Statuses
<1>2. ASSUME PromiseInv, [Promise!Next]_(Promise!vars)
      PROVE  PromiseInv'
  <2> USE DEF PromiseInv, Promise!OneAccountPerServer, Promise!ClientsActAsCached
  <2>1. CASE Promise!SaveKey
    BY <1>2, <2>1, NoneAssumption DEF Promise!SaveKey
  <2>2. CASE Promise!Release \/ Promise!Forget
    BY <1>2, <2>2 DEF Promise!Release, Promise!Forget
  <2>3. ASSUME NEW e \in Envs, Promise!Register(e)
        PROVE  PromiseInv'
    <3>1. KeyOnDisk \in Keys
      BY <1>2, <2>3 DEF Promise!Register
    <3>2. account' \in [Envs -> [Keys -> Statuses \cup {"none"}]]
      BY <1>2, <2>3, <3>1 DEF Promise!Register, Statuses
    <3>3. Promise!OneAccountPerServer'
      BY <1>2, <2>3, <3>1 DEF Promise!Register
    <3>4. QED
      BY <1>2, <2>3, <3>2, <3>3 DEF Promise!Register
  <2>4. ASSUME NEW e \in Envs, Promise!Prepare(e)
        PROVE  PromiseInv'
    BY <1>2, <2>4, NoneAssumption DEF Promise!Prepare
  <2>5. ASSUME NEW e \in Envs, NEW k \in Keys, Promise!Deactivate(e, k)
        PROVE  PromiseInv'
    <3>1. /\ account' \in [Envs -> [Keys -> Statuses \cup {"none"}]]
          /\ \A d \in Envs, h \in Keys :
               account'[d][h] # "none" <=> account[d][h] # "none"
      BY <1>2, <2>5 DEF Promise!Deactivate, Statuses
    <3>2. QED
      BY <1>2, <2>5, <3>1 DEF Promise!Deactivate
  <2>6. CASE UNCHANGED Promise!vars
    BY <1>2, <2>6 DEF Promise!vars
  <2>7. QED
    BY <1>2, <2>1, <2>2, <2>3, <2>4, <2>5, <2>6 DEF Promise!Next
<1>3. QED
  BY <1>1, <1>2, PTL DEF Promise!Spec

\* One process at a time: however often its runs are killed and begun again, a
\* directory has at most one account at each server, that of the saved key.
THEOREM OneAccount == ASSUME Solo PROVE Spec => []Promise!OneAccountPerServer
<1>1. PromiseInv => Promise!OneAccountPerServer
  BY DEF PromiseInv
<1>2. QED
  BY <1>1, PromiseKept, PromiseInvariance, PTL DEF ImplementsAccountPromise

\* The client that prepare_account returned acts, while its process lives, as the
\* account in account.json, so that a rerun goes on with the same one.
THEOREM ClientsAreCached == ASSUME Solo PROVE Spec => []Promise!ClientsActAsCached
<1>1. PromiseInv => Promise!ClientsActAsCached
  BY DEF PromiseInv
<1>2. QED
  BY <1>1, PromiseKept, PromiseInvariance, PTL DEF ImplementsAccountPromise

\* save_state never replaces the account of one environment by the other's: a
\* run that finds the other's in account.json has failed before (BadNonce).
THEOREM CachesAreKept == ASSUME Solo PROVE Spec => Promise!CacheIsKept
<1>1. ASSUME PromiseInv, [Promise!Next]_(Promise!vars), CachedServer # None
      PROVE  CachedServer' \in {CachedServer, None}
  BY <1>1 DEF Promise!Next, Promise!vars, Promise!SaveKey, Promise!Release, Promise!Forget,
     Promise!Register, Promise!Prepare, Promise!Deactivate
<1>2. PromiseInv /\ [Promise!Next]_(Promise!vars) =>
        [CachedServer # None => CachedServer' \in {CachedServer, None}]_(Promise!vars)
  BY <1>1
<1>3. QED
  BY <1>2, PromiseKept, PromiseInvariance, PTL
     DEF ImplementsAccountPromise, Promise!Spec, Promise!CacheIsKept

-----------------------------------------------------------------------------
(* The bound on keys is none: a run makes at most one, and the runs after the *)
(* last fault one more between them.                                         *)

KeysSuffice == /\ MaxRuns \in Nat
               /\ IsFiniteSet(Keys) /\ Cardinality(Keys) > MaxRuns

KeyCountInv ==
  /\ ~calm => /\ runs <= MaxRuns
              /\ Cardinality(generated) <= runs
              /\ \A p \in Procs : pc[p] = "key" => Cardinality(generated) < runs
  /\ calm /\ ~Exists(KeyFile) /\ (\A p \in Procs : pc[p] \notin MakesKey) =>
       Cardinality(generated) <= MaxRuns

\* A key file that is there stays.
LEMMA KeyFileStays ==
  ASSUME Solo, SoloInv, [Next]_vars
  PROVE  Exists(KeyFile) => Exists(KeyFile)'
<1>1. Exists(KeyFile) => KeyOnDisk # None /\ KeyOnDisk' = KeyOnDisk
  BY StepSolo, NoneAssumption DEF SoloInv, FinalInv, KeyStays
<1>2. KeyOnDisk' # None => Exists(KeyFile)'
  BY DEF KeyOnDisk
<1>3. QED
  BY <1>1, <1>2

LEMMA StepKeyCount ==
  ASSUME Solo, KeysSuffice, SoloInv, KeyCountInv, [Next]_vars
  PROVE  KeyCountInv'
<1>1. IsFiniteSet(generated) /\ Cardinality(generated) \in Nat /\ runs \in Nat
  <2>1. generated \in SUBSET Keys /\ runs \in Nat
    BY DEF SoloInv, IInv, TypeOK
  <2>2. IsFiniteSet(generated)
    BY <2>1, FS_Subset DEF KeysSuffice
  <2>3. QED
    BY <2>1, <2>2, FS_CardinalityType
<1>2. Exists(KeyFile) => Exists(KeyFile)'
  BY KeyFileStays
<1>3. ASSUME NEW p \in Procs, NEW e \in Envs, Begin(p, e)
      PROVE  KeyCountInv'
  <2>1. /\ pc[p] = "off" /\ pc'[p] \in {"key", "failed"}
        /\ UNCHANGED <<generated, calm>>
        /\ ~calm => runs < MaxRuns /\ runs' = runs + 1
    BY <1>3 DEF SoloInv, IInv, TypeOK, Begin, Goto
  <2>2. QED
    BY <1>1, <1>2, <2>1 DEF Solo, KeysSuffice, KeyCountInv, MakesKey
<1>4. ASSUME NEW p \in Procs, GenerateKey(p)
      PROVE  KeyCountInv'
  <2>1. PICK k \in Keys \ generated : generated' = generated \cup {k}
    BY <1>4 DEF GenerateKey
  <2>2. Cardinality(generated') = Cardinality(generated) + 1
    BY <1>1, <2>1, FS_AddElement
  <2>3. pc[p] = "key" /\ pc'[p] = "keyopen" /\ UNCHANGED <<runs, calm>>
    BY <1>4 DEF SoloInv, IInv, TypeOK, GenerateKey, Goto
  <2>4. QED
    BY <1>1, <2>2, <2>3 DEF Solo, KeyCountInv, MakesKey
<1>5. ASSUME NEW p \in Procs,
             \/ LoadKey(p) \/ OpenKeyTmp(p) \/ WriteKeyTmp(p) \/ PublishKey(p)
             \/ Discover(p) \/ ReadCache(p) \/ Verify(p) \/ BadNonce(p) \/ Create(p)
             \/ FetchObject(p) \/ OpenStateTmp(p) \/ WriteStateTmp(p)
             \/ PublishState(p) \/ NetworkFault(p) \/ Stop(p)
      PROVE  KeyCountInv'
  <2>1. /\ pc'[p] # "key" /\ UNCHANGED <<generated, runs, calm>>
        /\ pc[p] \in MakesKey => \/ ~calm \/ pc'[p] \in MakesKey
                                 \/ PublishKey(p)
    BY <1>5 DEF SoloInv, IInv, TypeOK, LoadKey, OpenKeyTmp, WriteKeyTmp, PublishKey,
       Publish, Discover, ReadCache, Verify, BadNonce, Create, FetchObject,
       OpenStateTmp, WriteStateTmp, PublishState, NetworkFault, Stop, Goto, MakesKey,
       environment
  <2>2. PublishKey(p) => Exists(KeyFile)'
    BY PublishKeyFacts, NoneAssumption DEF KeyOnDisk
  <2>3. QED
    BY <1>2, <2>1, <2>2 DEF Solo, KeyCountInv
<1>6. CASE \/ \E e \in Envs, k \in Keys : Deactivate(e, k)
           \/ \E n \in Removable : RemoveFile(n)
           \/ UNCHANGED vars
  <2>1. UNCHANGED <<pc, generated, runs, calm>>
    BY <1>6 DEF Deactivate, RemoveFile, vars, environment
  <2>2. QED
    BY <1>2, <2>1 DEF KeyCountInv
<1>7. CASE CalmDown
  <2>1. ~calm /\ calm' /\ UNCHANGED <<pc, generated, runs>>
    BY <1>7 DEF CalmDown
  <2>2. QED
    BY <1>1, <2>1 DEF KeyCountInv, KeysSuffice
<1>8. QED
  BY <1>3, <1>4, <1>5, <1>6, <1>7 DEF Next, Step

\* With one key more than runs begun while faults may happen, a run that finds
\* no account.key can always generate one: Recovers is not for want of a key.
THEOREM KeysCanBeMade ==
  ASSUME Solo, KeysSuffice
  PROVE  Spec => [](\A p \in Procs :
           pc[p] = "key" => Exists(KeyFile) \/ Keys \ generated # {})
<1>1. Init => KeyCountInv
  BY FS_EmptySet DEF Init, KeyCountInv, KeysSuffice
<1>2. SoloInv /\ KeyCountInv /\ [Next]_vars => KeyCountInv'
  BY StepKeyCount
<1>3. ASSUME SoloInv, KeyCountInv, NEW p \in Procs, pc[p] = "key", ~Exists(KeyFile)
      PROVE  Keys \ generated # {}
  <2>1. /\ generated \in SUBSET Keys /\ runs \in Nat
        /\ IsFiniteSet(generated) /\ Cardinality(generated) \in Nat
        /\ Cardinality(Keys) \in Nat
    <3>1. generated \in SUBSET Keys /\ runs \in Nat
      BY <1>3 DEF SoloInv, IInv, TypeOK
    <3>2. IsFiniteSet(generated)
      BY <3>1, FS_Subset DEF KeysSuffice
    <3>3. QED
      BY <3>1, <3>2, FS_CardinalityType DEF KeysSuffice
  <2>2. \A q \in Procs : pc[q] \notin MakesKey
    BY <1>3 DEF Solo, MakesKey
  <2>3. Cardinality(generated) <= MaxRuns
    BY <1>3, <2>1, <2>2 DEF KeyCountInv, KeysSuffice
  <2>4. generated # Keys
    BY <2>1, <2>3 DEF KeysSuffice
  <2>5. QED
    BY <2>1, <2>4
<1>4. SoloInv /\ KeyCountInv =>
        \A p \in Procs : pc[p] = "key" => Exists(KeyFile) \/ Keys \ generated # {}
  BY <1>3
<1>5. QED
  BY <1>1, <1>2, <1>4, SoloInvariance, PTL DEF Spec

-----------------------------------------------------------------------------
(* Recovery, step by step                                                    *)

\* Nobody remembers as deactivated an account that is not.
Honest(record) == record.status = "deactivated" =>
                    account[record.server][record.account] = "deactivated"
HonestInv == /\ \A i \in Inodes : content[i] \in States => Honest(content[i])
             /\ \A p \in Procs : state[p] # None => Honest(state[p])

\* A deactivated account stays so.
LEMMA DeactivationStays ==
  ASSUME IInv, [Next]_vars
  PROVE  \A e \in Envs, k \in Keys :
           account[e][k] = "deactivated" => account'[e][k] = "deactivated"
<1>1. ASSUME NEW p \in Procs, Create(p)
      PROVE  \A e \in Envs, k \in Keys :
               account[e][k] = "deactivated" => account'[e][k] = "deactivated"
  BY <1>1 DEF IInv, TypeOK, Create, Register
<1>2. ASSUME NEW d \in Envs, NEW h \in Keys, Deactivate(d, h)
      PROVE  \A e \in Envs, k \in Keys :
               account[e][k] = "deactivated" => account'[e][k] = "deactivated"
  BY <1>2 DEF IInv, TypeOK, Deactivate
<1>3. CASE UNCHANGED account
  BY <1>3
<1>4. QED
  BY <1>1, <1>2, <1>3 DEF Next, Begin, Step, LoadKey, GenerateKey, OpenKeyTmp,
     WriteKeyTmp, PublishKey, Discover, ReadCache, Verify, BadNonce, FetchObject,
     OpenStateTmp, WriteStateTmp, PublishState, NetworkFault, Stop, RemoveFile,
     CalmDown, vars, environment

\* What newAccount and the account object say of the status is true, or "valid".
LEMMA RememberHonestly ==
  ASSUME IInv, NEW p \in Procs, env[p] \in Envs, key[p] \in Keys,
         NEW s \in Statuses \cup {"none"},
         s \in {account'[env[p]][key[p]], "valid"}, Remember(p, env[p], key[p], s)
  PROVE  \A q \in Procs : /\ q # p => state'[q] = state[q]
                          /\ q = p => Honest(state[q])'
BY DEF IInv, TypeOK, Remember, Honest

LEMMA StepHonest ==
  ASSUME IInv, HonestInv, [Next]_vars
  PROVE  HonestInv'
<1> DEFINE Monotone == \A e \in Envs, k \in Keys :
                         account[e][k] = "deactivated" => account'[e][k] = "deactivated"
           Old(s) == \/ \E i \in Inodes : content[i] \in States /\ s = content[i]
                     \/ \E p \in Procs : state[p] # None /\ s = state[p]
<1>1. Monotone
  BY DeactivationStays
<1>2. \A s \in States : Old(s) => Honest(s)'
  BY <1>1, StateFacts DEF HonestInv, Honest
<1>3. \A i \in Inodes : content'[i] \in States => Old(content'[i])
  <2>1. ASSUME NEW p \in Procs, NEW tmp \in Names, OpenTmp(p, tmp)
        PROVE  \A i \in Inodes : content'[i] \in States => Old(content'[i])
    BY <2>1, OpenFacts, StateFacts DEF IInv, TypeOK
  <2>2. ASSUME NEW p \in Procs, WriteKeyTmp(p)
        PROVE  \A i \in Inodes : content'[i] \in States => Old(content'[i])
    BY <2>2, KeyAssumption DEF IInv, TypeOK, RunInv, MakesKey, WriteKeyTmp, WriteTmp
  <2>3. ASSUME NEW p \in Procs, WriteStateTmp(p)
        PROVE  \A i \in Inodes : content'[i] \in States => Old(content'[i])
    BY <2>3, StateFacts, TornAssumption DEF IInv, TypeOK, WriteStateTmp, WriteTmp
  <2>4. CASE UNCHANGED content
    BY <2>4
  <2>5. QED
    BY <2>1, <2>2, <2>3, <2>4, NameFacts DEF Next, Begin, Step, LoadKey, GenerateKey,
       OpenKeyTmp, PublishKey, Discover, ReadCache, Verify, BadNonce, Create,
       FetchObject, OpenStateTmp, PublishState, NetworkFault, Stop, Deactivate,
       RemoveFile, CalmDown, vars, files
<1>4. \A p \in Procs : state'[p] # None => Honest(state[p])'
  <2>1. ASSUME NEW p \in Procs, ReadCache(p)
        PROVE  \A q \in Procs : state'[q] # None => state'[q] \in States /\ Old(state'[q])
    <3>1. \A q \in Procs : state'[q] = state[q] \/ state'[q] = Read(StateFile)
      BY <2>1 DEF IInv, TypeOK, ReadCache
    <3>2. /\ Exists(StateFile) => dir[StateFile] \in Inodes
          /\ state' = state \/ (Exists(StateFile) /\ Read(StateFile) \in States)
      BY <2>1, NameFacts DEF IInv, TypeOK, ReadCache, Exists
    <3>3. QED
      BY <3>1, <3>2 DEF IInv, TypeOK, Read
  <2>2. ASSUME NEW p \in Procs, Verify(p)
        PROVE  \A q \in Procs : state'[q] # None => Honest(state[q])'
    <3>1. UNCHANGED account
      BY <2>2 DEF Verify, environment
    <3>2. \A q \in Procs : state'[q] = state[q] \/ state'[q].status = "valid"
      BY <2>2 DEF IInv, TypeOK, Verify, Remember
    <3>3. QED
      BY <3>1, <3>2 DEF HonestInv, Honest
  <2>3. ASSUME NEW p \in Procs, Create(p) \/ FetchObject(p)
        PROVE  \A q \in Procs : state'[q] # None => Honest(state[q])'
    <3>1. /\ env[p] \in Envs /\ key[p] \in Keys
          /\ account' \in [Envs -> [Keys -> Statuses \cup {"none"}]]
      BY <2>3, StepIInv DEF IInv, TypeOK, RunInv, HasKey, Create, FetchObject
    <3>2. \/ UNCHANGED state
          \/ \E s \in {account'[env[p]][key[p]], "valid"} : Remember(p, env[p], key[p], s)
      BY <2>3 DEF Create, FetchObject, environment
    <3>3. CASE UNCHANGED state
      BY <1>2, <3>3 DEF IInv, TypeOK
    <3>4. ASSUME NEW s \in {account'[env[p]][key[p]], "valid"},
                 Remember(p, env[p], key[p], s)
          PROVE  \A q \in Procs : state'[q] # None => Honest(state[q])'
      <4>1. s \in Statuses \cup {"none"}
        BY <3>1 DEF Statuses
      <4>2. \A q \in Procs : /\ q # p => state'[q] = state[q]
                             /\ q = p => Honest(state[q])'
        BY <3>1, <3>4, <4>1, RememberHonestly
      <4>3. QED
        BY <1>2, <4>2 DEF IInv, TypeOK
    <3>5. QED
      BY <3>2, <3>3, <3>4
  <2>4. ASSUME \A q \in Procs : state'[q] = state[q] \/ state'[q] = None
        PROVE  \A q \in Procs : state'[q] # None => Honest(state[q])'
    BY <1>2, <2>4 DEF IInv, TypeOK
  <2>5. ASSUME NEW p \in Procs, Stop(p)
        PROVE  \A q \in Procs : state'[q] = state[q] \/ state'[q] = None
    BY <2>5 DEF IInv, TypeOK, Stop
  <2>6. \/ \E p \in Procs : \/ ReadCache(p) \/ Verify(p) \/ Create(p) \/ FetchObject(p)
                            \/ Stop(p)
        \/ UNCHANGED state
    BY DEF Next, Begin, Step, LoadKey, GenerateKey, OpenKeyTmp, WriteKeyTmp, PublishKey,
       Discover, BadNonce, OpenStateTmp, WriteStateTmp, PublishState, NetworkFault,
       Deactivate, RemoveFile, CalmDown, vars, memory
  <2>7. QED
    BY <1>2, <2>1, <2>2, <2>3, <2>4, <2>5, <2>6
<1>5. QED
  BY <1>2, <1>3, <1>4 DEF HonestInv

RecoverInv == IInvSolo /\ PromiseInv /\ HonestInv

LEMMA RecoverInvariance == ASSUME Solo PROVE Spec => []RecoverInv
<1>1. Init => HonestInv
  BY StateFacts DEF Init, HonestInv
<1>2. IInvSolo /\ HonestInv /\ [Next]_vars => HonestInv'
  BY StepHonest DEF IInvSolo, SoloInv
<1>3. QED
  BY <1>1, <1>2, CacheInvariance, PromiseKept, PromiseInvariance, PTL
     DEF Spec, ImplementsAccountPromise, RecoverInv

\* A cache is of another environment when it names another server.
LEMMA ForeignFacts ==
  ASSUME SoloInv, NEW p \in Procs, env[p] # None
  PROVE  ForeignCache(p) <=> CachedServer \notin {None, env[p]}
<1>1. CASE Exists(StateFile)
  <2>1. Read(StateFile) \in States /\ Read(StateFile).server # None
    BY <1>1, StateFacts, NoneAssumption DEF SoloInv, FinalInv, CacheMatchesKey
  <2>2. QED
    BY <1>1, <2>1 DEF ForeignCache, CachedServer
<1>2. CASE ~Exists(StateFile)
  BY <1>2 DEF ForeignCache, CachedServer
<1>3. QED
  BY <1>1, <1>2

\* A key file that is there is a key, and account.json is not there without it.
LEMMA FinalFacts ==
  ASSUME SoloInv
  PROVE  /\ Exists(KeyFile) => Read(KeyFile) \in Keys
         /\ Exists(StateFile) => Exists(KeyFile) /\ Read(StateFile) \in States
<1>1. Exists(KeyFile) => Read(KeyFile) \in Keys
  BY DEF SoloInv, FinalInv, KeyOnDisk
<1>2. Exists(StateFile) => Read(StateFile) \in States /\ KeyOnDisk \in Keys
  BY StateFacts DEF SoloInv, FinalInv, CacheMatchesKey
<1>3. KeyOnDisk \in Keys => Exists(KeyFile)
  BY NoneAssumption DEF KeyOnDisk
<1>4. QED
  BY <1>1, <1>2, <1>3

\* Verification succeeds of an account that was not deactivated.
LEMMA HopefulVerify ==
  ASSUME RecoverInv, NEW p \in Procs, Hopeful(p), pc[p] = "verify"
  PROVE  /\ nonce[p] = state[p].server
         /\ Acknowledges(state[p].server, p)
         /\ account[state[p].server][key[p]] = "valid"
         /\ state[p].status = "valid"
<1>1. /\ env[p] \in Envs /\ key[p] \in Keys /\ KeyOnDisk = key[p]
      /\ state[p] \in States /\ nonce[p] = env[p]
      /\ CachedServer = state[p].server /\ state[p].account = key[p]
  BY DEF RecoverInv, IInvSolo, SoloInv, IInv, RunInv, ProgressInv, CacheInv, HasKey
<1>2. state[p].server \in Envs /\ state[p].status \in Statuses
  BY <1>1, StateFacts
<1>3. state[p].server = env[p]
  BY <1>1, <1>2, ForeignFacts, NoneAssumption DEF Hopeful, RecoverInv, IInvSolo
<1>4. /\ account[env[p]][key[p]] # "none" /\ account[env[p]][key[p]] # "deactivated"
      /\ account[env[p]][key[p]] \in Statuses \cup {"none"}
  <2>1. account[env[p]][key[p]] # "none"
    BY <1>1, <1>2, <1>3, NoneAssumption DEF RecoverInv, PromiseInv
  <2>2. account[env[p]][key[p]] \in Statuses \cup {"none"}
    BY <1>1 DEF RecoverInv, PromiseInv
  <2>3. QED
    BY <1>1, <2>1, <2>2 DEF Hopeful
<1>5. state[p] # None /\ Honest(state[p])
  BY <1>1, StateFacts DEF RecoverInv, HonestInv
<1>6. QED
  BY <1>1, <1>2, <1>3, <1>4, <1>5 DEF Acknowledges, Statuses, Honest

\* Every step of a run comes nearer to the end of prepare_account.
LEMMA StepAdvances ==
  ASSUME Solo, RecoverInv, NEW p \in Procs, Hopeful(p),
         (\E e \in Envs : Begin(p, e)) \/ Step(p) \/ Stop(p)
  PROVE  Ahead(pc'[p]) < Ahead(pc[p])
<1> USE DEF Ahead
<1> DEFINE Typed == pc \in [Procs -> Points]
<1>1. Typed /\ calm
  BY DEF RecoverInv, IInvSolo, SoloInv, IInv, TypeOK, Hopeful
<1>2. SoloInv
  BY DEF RecoverInv, IInvSolo
<1>3. CASE \E e \in Envs : Begin(p, e)
  BY <1>1, <1>2, <1>3, FinalFacts DEF Begin, Goto
<1>4. CASE LoadKey(p) \/ GenerateKey(p) \/ OpenKeyTmp(p) \/ WriteKeyTmp(p)
  <2>1. <<pc[p], pc'[p]>> \in {<<"key", "directory">>, <<"key", "keyopen">>,
                              <<"keyopen", "keywrite">>, <<"keywrite", "keypublish">>}
    <3>1. LoadKey(p) => pc[p] = "key" /\ pc'[p] = "directory"
      BY <1>1, <1>2, FinalFacts DEF LoadKey, Goto
    <3>2. GenerateKey(p) => pc[p] = "key" /\ pc'[p] = "keyopen"
      BY <1>1 DEF GenerateKey, Goto
    <3>3. OpenKeyTmp(p) => pc[p] = "keyopen" /\ pc'[p] = "keywrite"
      BY <1>1 DEF OpenKeyTmp, Goto
    <3>4. WriteKeyTmp(p) => pc[p] = "keywrite" /\ pc'[p] = "keypublish"
      BY <1>1 DEF WriteKeyTmp, Goto
    <3>5. QED
      BY <1>4, <3>1, <3>2, <3>3, <3>4
  <2>2. QED
    BY <2>1
<1>5. CASE PublishKey(p)
  BY <1>1, <1>2, <1>5, PublishKeyFacts DEF PublishKey
<1>6. CASE Discover(p) \/ ReadCache(p)
  BY <1>1, <1>2, <1>6, FinalFacts DEF Discover, ReadCache, Goto
<1>7. CASE Verify(p)
  <2>1. pc[p] = "verify"
    BY <1>7 DEF Verify
  <2>2. pc'[p] = "stateopen"
    BY <1>1, <1>7, <2>1, HopefulVerify DEF Verify, Goto
  <2>3. QED
    BY <2>1, <2>2
<1>8. CASE BadNonce(p)
  BY <1>8, HopefulVerify DEF BadNonce
<1>9. CASE Create(p) \/ FetchObject(p) \/ OpenStateTmp(p) \/ WriteStateTmp(p)
  <2>1. <<pc[p], pc'[p]>> \in {<<"create", "stateopen">>, <<"create", "fetchobject">>,
                              <<"fetchobject", "stateopen">>,
                              <<"stateopen", "statewrite">>,
                              <<"statewrite", "statepublish">>}
    <3>1. Create(p) => pc[p] = "create" /\ pc'[p] \in {"stateopen", "fetchobject"}
      BY <1>1 DEF Create, Goto
    <3>2. FetchObject(p) => pc[p] = "fetchobject" /\ pc'[p] = "stateopen"
      BY <1>1 DEF FetchObject, Goto
    <3>3. OpenStateTmp(p) => pc[p] = "stateopen" /\ pc'[p] = "statewrite"
      BY <1>1 DEF OpenStateTmp, Goto
    <3>4. WriteStateTmp(p) => pc[p] = "statewrite" /\ pc'[p] = "statepublish"
      BY <1>1 DEF WriteStateTmp, Goto
    <3>5. QED
      BY <1>9, <3>1, <3>2, <3>3, <3>4
  <2>2. QED
    BY <2>1
<1>10. CASE PublishState(p)
  BY <1>1, <1>2, <1>10, PublishStateFacts DEF PublishState
<1>11. CASE Stop(p)
  BY <1>1, <1>11 DEF Stop, Goto
<1>12. QED
  BY <1>3, <1>4, <1>5, <1>6, <1>7, <1>8, <1>9, <1>10, <1>11 DEF Step

\* And nothing that it does bars the account.
LEMMA HopeStays ==
  ASSUME Solo, RecoverInv, NEW p \in Procs, Hopeful(p), [Next]_vars
  PROVE  Hopeful(p)'
<1>1. calm' /\ env'[p] = env[p]
  BY DEF Solo, RecoverInv, IInvSolo, SoloInv, IInv, TypeOK, Hopeful, Next, Begin, Step,
     LoadKey, GenerateKey, OpenKeyTmp, WriteKeyTmp, PublishKey, Discover, ReadCache,
     Verify, BadNonce, Create, FetchObject, OpenStateTmp, WriteStateTmp, PublishState,
     NetworkFault, Stop, Deactivate, RemoveFile, CalmDown, vars, environment
<1>2. CachedServer' \in {None, env[p]}
  <2>1. CachedServer \in {None, env[p]}
    BY ForeignFacts DEF RecoverInv, IInvSolo, Hopeful
  <2>2. CASE \E q \in Procs : PublishState(q)
    BY <2>2, PublishStateFacts DEF Solo, RecoverInv, IInvSolo
  <2>3. CASE \E q \in Procs : PublishKey(q)
    BY <2>1, <2>3, PublishKeyFacts DEF RecoverInv, IInvSolo
  <2>4. CASE \E q \in Procs : OpenKeyTmp(q) \/ OpenStateTmp(q) \/ WriteKeyTmp(q)
                              \/ WriteStateTmp(q)
    BY <2>1, <2>4, TmpStays DEF RecoverInv, IInvSolo, DurableStays
  <2>5. CASE UNCHANGED files
    BY <2>1, <2>5, FilesStay DEF DurableStays
  <2>6. QED
    BY <2>2, <2>3, <2>4, <2>5 DEF Hopeful, Next, Begin, Step, LoadKey, GenerateKey,
       Discover, ReadCache, Verify, BadNonce, Create, FetchObject, NetworkFault, Stop,
       Deactivate, RemoveFile, CalmDown, vars
<1>3. SoloInv'
  BY StepSolo DEF RecoverInv, IInvSolo
<1>4. ~ForeignCache(p)'
  <2>1. Exists(StateFile)' => (Read(StateFile) \in States)'
    BY <1>3 DEF SoloInv, FinalInv, CacheMatchesKey
  <2>2. (Read(StateFile) \in States)' => (Read(StateFile).server \in Envs)'
    BY DEF States
  <2>3. Exists(StateFile)' => (Read(StateFile).server)' = env[p]
    BY <1>2, <2>1, <2>2, NoneAssumption DEF CachedServer
  <2>4. QED
    BY <1>1, <2>3 DEF ForeignCache
<1>5. \A k \in Keys : account'[env[p]][k] # "deactivated"
  <2>1. ASSUME NEW q \in Procs, Create(q)
        PROVE  \A k \in Keys : account'[env[p]][k] # "deactivated"
    <3>1. /\ account \in [Envs -> [Keys -> Statuses \cup {"none"}]]
          /\ env[p] \in Envs
      BY DEF RecoverInv, IInvSolo, SoloInv, IInv, TypeOK, Hopeful
    <3>2. \A k \in Keys : \/ account'[env[p]][k] = account[env[p]][k]
                          \/ account'[env[p]][k] = "valid"
      BY <2>1, <3>1 DEF Create, Register
    <3>3. QED
      BY <3>2 DEF Hopeful
  <2>2. CASE UNCHANGED account
    BY <2>2 DEF Hopeful
  <2>3. QED
    BY <2>1, <2>2 DEF Hopeful, Next, Begin, Step, LoadKey, GenerateKey, OpenKeyTmp,
       WriteKeyTmp, PublishKey, Discover, ReadCache, Verify, BadNonce, FetchObject,
       OpenStateTmp, WriteStateTmp, PublishState, NetworkFault, Stop, Deactivate,
       RemoveFile, CalmDown, vars, environment
<1>6. QED
  BY <1>1, <1>4, <1>5 DEF Hopeful

\* With one process, the only process takes every step that faults do not.
LEMMA StepRecovers ==
  ASSUME Solo, RecoverInv, [Next]_vars, NEW p \in Procs, Hopeful(p)
  PROVE  pc'[p] # pc[p] => Ahead(pc'[p]) < Ahead(pc[p])
<1>1. calm
  BY DEF Hopeful
<1>2. \/ (\E e \in Envs : Begin(p, e)) \/ Step(p) \/ Stop(p)
      \/ UNCHANGED pc
  BY <1>1 DEF Solo, Next, NetworkFault, Deactivate, RemoveFile, CalmDown, vars
<1>3. QED
  BY <1>2, StepAdvances

\* One process at a time, for any number of keys, environments and runs: once
\* faults have stopped, prepare_account and its reruns only come nearer to the
\* prepared account, whatever crashed or failed runs left in the directory.
THEOREM RecoveryAdvances == ASSUME Solo PROVE Spec => RecoversStepByStep
<1>1. RecoverInv /\ [Next]_vars =>
        [\A p \in Procs : Hopeful(p) =>
            /\ Hopeful(p)'
            /\ pc'[p] # pc[p] => Ahead(pc'[p]) < Ahead(pc[p])]_vars
  BY HopeStays, StepRecovers
<1>2. QED
  BY <1>1, RecoverInvariance, PTL DEF Spec, RecoversStepByStep

=============================================================================
