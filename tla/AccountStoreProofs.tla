------------------------- MODULE AccountStoreProofs -------------------------
(* For any number of processes, environments and keys, with crashes between  *)
(* any two steps: records are coherent, prepared clients are authorized,     *)
(* a settled key stays, and no key is generated beside an account.json. For  *)
(* one process whose account.key nobody removes: every account has its key   *)
(* on disk, account.json is whole and of that key, no key is replaced.       *)
EXTENDS AccountStore, FiniteSetTheorems, TLAPS

MakesKey == {"keyopen", "keywrite", "keypublish"}
HasKey == {"directory", "cache", "verify", "create", "fetchobject"}
HasState == {"stateopen", "statewrite", "statepublish", "done"}

\* What a process holds at which point.
RunInv ==
  \A p \in Procs :
    /\ pc[p] # "off" => env[p] \in Envs
    /\ pc[p] \in MakesKey \cup HasKey \cup HasState => key[p] \in Keys
    /\ pc[p] = "verify" => state[p] \in States
    /\ fd[p] # None => pc[p] \in {"keywrite", "statewrite"}
    /\ pc[p] \in {"keywrite", "statewrite"} => fd[p] # None

\* A nonce is of the server of the run: the URL of an account at another
\* server gets no further than BadNonce.
NonceInv ==
  \A p \in Procs : /\ pc[p] = "off" => nonce[p] = None
                   /\ nonce[p] \in {None, env[p]}

\* While a process is past its key, account.key exists; while one is about to
\* look for it, account.json does not exist without it.
KeyInv ==
  \A p \in Procs :
    /\ pc[p] \in HasKey \cup HasState => Exists(KeyFile)
    /\ pc[p] = "key" /\ Exists(StateFile) => Exists(KeyFile)

\* A file has one name, and nobody who writes a state has a key file open.
FilesApart ==
  /\ \A m, n \in Names : dir[m] = dir[n] /\ dir[m] # None => m = n
  /\ \A p \in Procs :
       pc[p] = "statewrite" => fd[p] # dir[KeyFile] /\ fd[p] # dir[KeyTmp]

\* PreparedClientIsAuthorized, for a client that is about to save its state too.
AuthorizedInv ==
  \A p \in Procs :
    /\ pc[p] = "fetchobject" => account[env[p]][key[p]] # "none"
    /\ pc[p] \in HasState => /\ state[p] \in States
                             /\ state[p].account = key[p]
                             /\ state[p].server = env[p]
                             /\ account[env[p]][key[p]] # "none"

IInv == /\ TypeOK /\ RunInv /\ NonceInv /\ KeyInv /\ FilesApart
        /\ RecordsCoherent /\ AuthorizedInv

-----------------------------------------------------------------------------
LEMMA NameFacts ==
  /\ KeyFile \in Names /\ KeyTmp \in Names
  /\ StateFile \in Names /\ StateTmp \in Names
  /\ KeyFile # KeyTmp /\ KeyFile # StateFile /\ KeyFile # StateTmp
  /\ KeyTmp # StateFile /\ KeyTmp # StateTmp /\ StateFile # StateTmp
  /\ Removable \subseteq {KeyFile, StateFile}
BY RemovableAssumption DEF Names, KeyFile, KeyTmp, StateFile, StateTmp

\* A file that is opened for writing is the old one of the name, or no other's.
LEMMA OpenFacts ==
  ASSUME TypeOK, NEW p \in Procs, NEW tmp \in Names, OpenTmp(p, tmp)
  PROVE  \E i \in Inodes :
           /\ dir' = [dir EXCEPT ![tmp] = i]
           /\ content' = [content EXCEPT ![i] = None]
           /\ fd' = [fd EXCEPT ![p] = i]
           /\ \/ dir[tmp] = i
              \/ /\ \A n \in Names : dir[n] # i
                 /\ \A q \in Procs : fd[q] # i
<1>1. CASE Exists(tmp)
  BY <1>1 DEF TypeOK, OpenTmp, Exists
<1>2. CASE ~Exists(tmp)
  <2>1. NewInode \in FreeInodes
    BY <1>2 DEF OpenTmp, NewInode
  <2>2. QED
    BY <1>2, <2>1 DEF OpenTmp, FreeInodes
<1>3. QED
  BY <1>1, <1>2

LEMMA StateFacts ==
  /\ None \notin States
  /\ \A s \in States : /\ s.base \in Envs /\ s.server \in Envs
                        /\ s.account \in Keys /\ s.fingerprint \in Keys
                        /\ s.status \in Statuses
  /\ \A b, e \in Envs, a, k \in Keys, s \in Statuses :
       [base |-> b, server |-> e, account |-> a, status |-> s, fingerprint |-> k]
         \in States
BY NoneAssumption DEF States

-----------------------------------------------------------------------------

LEMMA BeginStep ==
  ASSUME IInv, NEW p \in Procs, NEW e \in Envs, Begin(p, e)
  PROVE  IInv'
<1>1. TypeOK'
  BY DEF IInv, TypeOK, Begin, Goto, Points, Exists, files, memory
<1>2. RunInv' /\ NonceInv'
  BY DEF IInv, TypeOK, RunInv, NonceInv, MakesKey, HasKey, HasState, Begin, Goto,
    files, memory
<1>3. KeyInv' /\ FilesApart'
  BY DEF IInv, TypeOK, KeyInv, FilesApart, HasKey, HasState, Begin, Goto, Exists,
    files, memory
<1>4. RecordsCoherent'
  BY DEF IInv, RecordsCoherent, Coherent, Begin, files, memory
<1>5. AuthorizedInv'
  BY DEF IInv, TypeOK, AuthorizedInv, HasState, Begin, Goto, files, memory
<1>6. QED
  BY <1>1, <1>2, <1>3, <1>4, <1>5 DEF IInv

LEMMA LoadKeyStep ==
  ASSUME IInv, NEW p \in Procs, LoadKey(p)
  PROVE  IInv'
<1>1. TypeOK'
  BY NoneAssumption DEF IInv, TypeOK, LoadKey, Goto, Points, Read, Exists, files,
    environment
<1>2. RunInv' /\ NonceInv'
  BY DEF IInv, TypeOK, RunInv, NonceInv, MakesKey, HasKey, HasState, LoadKey, Goto,
    Read, files, environment
<1>3. KeyInv' /\ FilesApart'
  BY DEF IInv, TypeOK, KeyInv, FilesApart, HasKey, HasState, LoadKey, Goto, Exists,
    files, environment
<1>4. RecordsCoherent'
  BY DEF IInv, RecordsCoherent, Coherent, LoadKey, files, environment
<1>5. AuthorizedInv'
  BY DEF IInv, TypeOK, AuthorizedInv, HasState, LoadKey, Goto, files, environment
<1>6. QED
  BY <1>1, <1>2, <1>3, <1>4, <1>5 DEF IInv

LEMMA GenerateKeyStep ==
  ASSUME IInv, NEW p \in Procs, GenerateKey(p)
  PROVE  IInv'
<1>1. TypeOK'
  BY DEF IInv, TypeOK, GenerateKey, Goto, Points, Exists, files
<1>2. RunInv' /\ NonceInv'
  BY DEF IInv, TypeOK, RunInv, NonceInv, MakesKey, HasKey, HasState, GenerateKey,
    Goto, files
<1>3. KeyInv' /\ FilesApart'
  BY DEF IInv, TypeOK, KeyInv, FilesApart, HasKey, HasState, GenerateKey, Goto,
    Exists, files
<1>4. RecordsCoherent'
  BY DEF IInv, RecordsCoherent, Coherent, GenerateKey, files
<1>5. AuthorizedInv'
  BY DEF IInv, TypeOK, AuthorizedInv, HasState, GenerateKey, Goto, files
<1>6. QED
  BY <1>1, <1>2, <1>3, <1>4, <1>5 DEF IInv

LEMMA DiscoverStep ==
  ASSUME IInv, NEW p \in Procs, Discover(p)
  PROVE  IInv'
<1>1. TypeOK'
  BY DEF IInv, TypeOK, RunInv, Discover, Goto, Points, files, environment
<1>2. RunInv' /\ NonceInv'
  BY DEF IInv, TypeOK, RunInv, NonceInv, MakesKey, HasKey, HasState, Discover, Goto,
    files, environment
<1>3. KeyInv' /\ FilesApart'
  BY DEF IInv, TypeOK, KeyInv, FilesApart, HasKey, HasState, Discover, Goto, Exists,
    files, environment
<1>4. RecordsCoherent'
  BY DEF IInv, RecordsCoherent, Coherent, Discover, files, environment
<1>5. AuthorizedInv'
  BY DEF IInv, TypeOK, AuthorizedInv, HasState, Discover, Goto, files, environment
<1>6. QED
  BY <1>1, <1>2, <1>3, <1>4, <1>5 DEF IInv

LEMMA BadNonceStep ==
  ASSUME IInv, NEW p \in Procs, BadNonce(p)
  PROVE  IInv'
<1>1. TypeOK'
  BY DEF IInv, TypeOK, RunInv, BadNonce, Goto, Points, files, environment
<1>2. RunInv' /\ NonceInv'
  BY DEF IInv, TypeOK, RunInv, NonceInv, MakesKey, HasKey, HasState, BadNonce, Goto,
    files, environment
<1>3. KeyInv' /\ FilesApart'
  BY DEF IInv, TypeOK, KeyInv, FilesApart, HasKey, HasState, BadNonce, Goto, Exists,
    files, environment
<1>4. RecordsCoherent'
  BY DEF IInv, RecordsCoherent, Coherent, BadNonce, files, environment
<1>5. AuthorizedInv'
  BY DEF IInv, TypeOK, AuthorizedInv, HasState, BadNonce, Goto, files, environment
<1>6. QED
  BY <1>1, <1>2, <1>3, <1>4, <1>5 DEF IInv

LEMMA NetworkFaultStep ==
  ASSUME IInv, NEW p \in Procs, NetworkFault(p)
  PROVE  IInv'
<1>1. TypeOK'
  BY DEF IInv, TypeOK, NetworkFault, Goto, Points, files, memory, environment
<1>2. RunInv' /\ NonceInv'
  BY DEF IInv, TypeOK, RunInv, NonceInv, MakesKey, HasKey, HasState, NetworkFault,
    Goto, files, memory, environment
<1>3. KeyInv' /\ FilesApart'
  BY DEF IInv, TypeOK, KeyInv, FilesApart, HasKey, HasState, NetworkFault, Goto,
    Exists, files, memory, environment
<1>4. RecordsCoherent'
  BY DEF IInv, RecordsCoherent, Coherent, NetworkFault, files, memory, environment
<1>5. AuthorizedInv'
  BY DEF IInv, TypeOK, AuthorizedInv, HasState, NetworkFault, Goto, files, memory,
    environment
<1>6. QED
  BY <1>1, <1>2, <1>3, <1>4, <1>5 DEF IInv

LEMMA StopStep ==
  ASSUME IInv, NEW p \in Procs, Stop(p)
  PROVE  IInv'
<1>1. TypeOK'
  BY DEF IInv, TypeOK, Stop, Goto, Points, files, environment
<1>2. RunInv' /\ NonceInv'
  BY DEF IInv, TypeOK, RunInv, NonceInv, MakesKey, HasKey, HasState, Stop, Goto,
    files, environment
<1>3. KeyInv' /\ FilesApart'
  BY DEF IInv, TypeOK, KeyInv, FilesApart, HasKey, HasState, Stop, Goto, Exists,
    files, environment
<1>4. RecordsCoherent'
  BY NoneAssumption DEF IInv, TypeOK, RecordsCoherent, Coherent, Stop, files,
    environment
<1>5. AuthorizedInv'
  BY DEF IInv, TypeOK, AuthorizedInv, HasState, Stop, Goto, files, environment
<1>6. QED
  BY <1>1, <1>2, <1>3, <1>4, <1>5 DEF IInv

\* What account_state_from_object makes of an account.
LEMMA RememberFacts ==
  ASSUME TypeOK, NEW p \in Procs, NEW server \in Envs, NEW a \in Keys,
         NEW s \in Statuses, env[p] \in Envs, key[p] \in Keys,
         Remember(p, server, a, s)
  PROVE  /\ state' \in [Procs -> States \cup {None}]
         /\ state'[p] \in States
         /\ state'[p].base = env[p] /\ state'[p].server = server
         /\ state'[p].account = a /\ state'[p].fingerprint = key[p]
         /\ \A q \in Procs \ {p} : state'[q] = state[q]
<1>1. [base |-> env[p], server |-> server, account |-> a,
       fingerprint |-> key[p], status |-> s] \in States
  BY StateFacts
<1>2. QED
  BY <1>1 DEF TypeOK, Remember

LEMMA ReadCacheStep ==
  ASSUME IInv, NEW p \in Procs, ReadCache(p)
  PROVE  IInv'
<1>1. TypeOK'
  BY NoneAssumption DEF IInv, TypeOK, ReadCache, Goto, Points, files, environment
<1>2. RunInv' /\ NonceInv'
  BY DEF IInv, TypeOK, RunInv, NonceInv, MakesKey, HasKey, HasState, ReadCache,
         Goto, files, environment
<1>3. KeyInv' /\ FilesApart'
  BY DEF IInv, TypeOK, KeyInv, FilesApart, HasKey, HasState, ReadCache, Goto,
         Exists, files
<1>4. RecordsCoherent'
  <2>1. Exists(StateFile) => dir[StateFile] \in Inodes
    BY NameFacts DEF IInv, TypeOK, Exists
  <2>2. QED
    BY <2>1 DEF IInv, TypeOK, RecordsCoherent, ReadCache, Read, files
<1>5. AuthorizedInv'
  BY DEF IInv, TypeOK, AuthorizedInv, HasState, ReadCache, Goto, files, environment
<1>6. QED
  BY <1>1, <1>2, <1>3, <1>4, <1>5 DEF IInv

\* A prepared process remembers the account of its key at the server of its run.
LEMMA PreparedStep ==
  ASSUME IInv, NEW p \in Procs, pc[p] \in {"verify", "create", "fetchobject"},
         NEW s \in Statuses, Remember(p, env[p], key[p], s), Goto(p, "stateopen"),
         account' \in [Envs -> [Keys -> Statuses \cup {"none"}]],
         \A e \in Envs, k \in Keys : account[e][k] # "none" => account'[e][k] # "none",
         account'[env[p]][key[p]] # "none",
         UNCHANGED <<files, nonce, key, fd, env, generated, runs, calm>>
  PROVE  IInv'
<1>1. env[p] \in Envs /\ key[p] \in Keys
  BY DEF IInv, RunInv, HasKey
<1>2. /\ state' \in [Procs -> States \cup {None}]
      /\ state'[p] \in States
      /\ state'[p].base = env[p] /\ state'[p].server = env[p]
      /\ state'[p].account = key[p] /\ state'[p].fingerprint = key[p]
      /\ \A q \in Procs \ {p} : state'[q] = state[q]
  BY <1>1, RememberFacts DEF IInv
<1>3. TypeOK'
  BY <1>2 DEF IInv, TypeOK, Goto, Points, files
<1>4. RunInv' /\ NonceInv'
  BY <1>1, <1>2 DEF IInv, TypeOK, RunInv, NonceInv, MakesKey, HasKey, HasState, Goto
<1>5. KeyInv' /\ FilesApart'
  BY DEF IInv, TypeOK, KeyInv, FilesApart, HasKey, HasState, Goto, Exists, files
<1>6. RecordsCoherent'
  BY <1>2 DEF IInv, TypeOK, RecordsCoherent, Coherent, files
<1>7. AuthorizedInv'
  <2> SUFFICES ASSUME NEW q \in Procs
               PROVE  /\ pc'[q] = "fetchobject" => account'[env[q]][key[q]] # "none"
                      /\ pc'[q] \in HasState =>
                           /\ state'[q] \in States
                           /\ state'[q].account = key[q]
                           /\ state'[q].server = env[q]
                           /\ account'[env[q]][key[q]] # "none"
    BY DEF AuthorizedInv
  <2>1. CASE q = p
    BY <1>2, <2>1 DEF IInv, TypeOK, Goto, HasState
  <2>2. CASE q # p
    <3>1. pc'[q] = pc[q] /\ state'[q] = state[q]
      BY <1>2, <2>2 DEF IInv, TypeOK, Goto
    <3>2. pc[q] \in HasState \cup {"fetchobject"} => env[q] \in Envs /\ key[q] \in Keys
      BY DEF IInv, RunInv, HasKey, HasState
    <3>3. QED
      BY <3>1, <3>2 DEF IInv, AuthorizedInv
  <2>3. QED
    BY <2>1, <2>2
<1>8. QED
  BY <1>3, <1>4, <1>5, <1>6, <1>7 DEF IInv

\* A process fails, or goes on to the account object, with what it has.
LEMMA UnpreparedStep ==
  ASSUME IInv, NEW p \in Procs, pc[p] \in {"verify", "create"},
         \/ Goto(p, "failed")
         \/ Goto(p, "fetchobject") /\ account'[env[p]][key[p]] # "none",
         account' \in [Envs -> [Keys -> Statuses \cup {"none"}]],
         \A e \in Envs, k \in Keys : account[e][k] # "none" => account'[e][k] # "none",
         UNCHANGED <<files, nonce, key, state, fd, env, generated, runs, calm>>
  PROVE  IInv'
<1>1. pc' \in [Procs -> Points] /\ \A q \in Procs : pc'[q] # pc[q] => q = p
  BY DEF IInv, TypeOK, Goto, Points
<1>2. pc'[p] \in {"failed", "fetchobject"}
  BY DEF IInv, TypeOK, Goto
<1>3. TypeOK'
  BY <1>1 DEF IInv, TypeOK, files
<1>4. RunInv' /\ NonceInv'
  BY <1>1, <1>2 DEF IInv, RunInv, NonceInv, MakesKey, HasKey, HasState
<1>5. KeyInv' /\ FilesApart'
  BY <1>1, <1>2 DEF IInv, KeyInv, FilesApart, HasKey, HasState, Exists, files
<1>6. RecordsCoherent'
  BY DEF IInv, RecordsCoherent, Coherent, files
<1>7. AuthorizedInv'
  <2>1. pc'[p] = "fetchobject" => account'[env[p]][key[p]] # "none"
    BY DEF IInv, TypeOK, Goto
  <2>2. \A q \in Procs : pc[q] \in HasState \cup {"fetchobject"} =>
          env[q] \in Envs /\ key[q] \in Keys
    BY DEF IInv, RunInv, HasKey, HasState
  <2>3. QED
    BY <1>1, <1>2, <2>1, <2>2 DEF IInv, AuthorizedInv, HasState
<1>8. QED
  BY <1>3, <1>4, <1>5, <1>6, <1>7 DEF IInv

LEMMA VerifyStep ==
  ASSUME IInv, NEW p \in Procs, Verify(p)
  PROVE  IInv'
<1>1. state[p] \in States /\ env[p] \in Envs /\ key[p] \in Keys
  BY DEF IInv, RunInv, HasKey, Verify
<1>2. state[p].server = env[p]
  BY <1>1, StateFacts, NoneAssumption DEF IInv, NonceInv, Verify
<1>3. ASSUME Acknowledges(env[p], p), NEW s, s = "valid",
             Remember(p, env[p], state[p].account, s), Goto(p, "stateopen")
      PROVE  IInv'
  BY <1>3, PreparedStep DEF IInv, TypeOK, Verify, Acknowledges, Statuses, environment
<1>4. ASSUME Goto(p, "failed"), UNCHANGED state
      PROVE  IInv'
  BY <1>4, UnpreparedStep DEF IInv, TypeOK, Verify, environment
<1>5. QED
  BY <1>2, <1>3, <1>4 DEF Verify

\* newAccount leaves the key with an account, and takes none away.
LEMMA RegisterFacts ==
  ASSUME TypeOK, NEW p \in Procs, env[p] \in Envs, key[p] \in Keys, Register(p)
  PROVE  /\ account' \in [Envs -> [Keys -> Statuses \cup {"none"}]]
         /\ account'[env[p]][key[p]] \in Statuses
         /\ \A e \in Envs, k \in Keys :
              account[e][k] # "none" => account'[e][k] # "none"
BY DEF TypeOK, Register, Statuses

LEMMA CreateStep ==
  ASSUME IInv, NEW p \in Procs, Create(p)
  PROVE  IInv'
<1>1. env[p] \in Envs /\ key[p] \in Keys
  BY DEF IInv, RunInv, HasKey, Create
<1>2. /\ account' \in [Envs -> [Keys -> Statuses \cup {"none"}]]
      /\ account'[env[p]][key[p]] \in Statuses
      /\ \A e \in Envs, k \in Keys : account[e][k] # "none" => account'[e][k] # "none"
  BY <1>1, RegisterFacts DEF IInv, Create
<1>3. account'[env[p]][key[p]] # "none"
  BY <1>2 DEF Statuses
<1>4. ASSUME NEW s \in {account'[env[p]][key[p]], "valid"},
             Remember(p, env[p], key[p], s), Goto(p, "stateopen")
      PROVE  IInv'
  <2>1. s \in Statuses
    BY <1>2 DEF Statuses
  <2>2. QED
    BY <1>2, <1>3, <1>4, <2>1, PreparedStep DEF Create
<1>5. ASSUME Goto(p, "fetchobject") \/ Goto(p, "failed"), UNCHANGED state
      PROVE  IInv'
  BY <1>2, <1>3, <1>5, UnpreparedStep DEF Create
<1>6. QED
  BY <1>4, <1>5 DEF Create

LEMMA FetchObjectStep ==
  ASSUME IInv, NEW p \in Procs, FetchObject(p)
  PROVE  IInv'
<1>1. env[p] \in Envs /\ key[p] \in Keys /\ account[env[p]][key[p]] # "none"
  BY DEF IInv, RunInv, HasKey, AuthorizedInv, FetchObject
<1>2. PICK s \in {account[env[p]][key[p]], "valid"} : Remember(p, env[p], key[p], s)
  BY DEF FetchObject
<1>3. s \in Statuses
  BY <1>1 DEF IInv, TypeOK, Statuses
<1>4. QED
  BY <1>1, <1>2, <1>3, PreparedStep DEF IInv, TypeOK, FetchObject, environment

LEMMA OpenKeyTmpStep ==
  ASSUME IInv, NEW p \in Procs, OpenKeyTmp(p)
  PROVE  IInv'
<1>1. PICK i \in Inodes :
        /\ dir' = [dir EXCEPT ![KeyTmp] = i]
        /\ content' = [content EXCEPT ![i] = None]
        /\ fd' = [fd EXCEPT ![p] = i]
        /\ \/ dir[KeyTmp] = i
           \/ (\A n \in Names : dir[n] # i) /\ (\A q \in Procs : fd[q] # i)
  BY OpenFacts, NameFacts DEF IInv, OpenKeyTmp
<1>2. i # None
  BY NoneAssumption, InodeAssumption DEF Inodes
<1>3. TypeOK'
  BY <1>1, NameFacts DEF IInv, TypeOK, OpenKeyTmp, Goto, Points, environment
<1>4. RunInv' /\ NonceInv'
  BY <1>1, <1>2 DEF IInv, TypeOK, RunInv, NonceInv, MakesKey, HasKey, HasState,
                    OpenKeyTmp, Goto, environment
<1>5. KeyInv'
  BY <1>1, NameFacts DEF IInv, TypeOK, KeyInv, HasKey, HasState, OpenKeyTmp,
     Goto, Exists
<1>6. FilesApart'
  BY <1>1, <1>2, NameFacts DEF IInv, TypeOK, FilesApart, OpenKeyTmp, Goto
<1>7. RecordsCoherent'
  BY <1>1, StateFacts DEF IInv, TypeOK, RecordsCoherent, Coherent, OpenKeyTmp
<1>8. AuthorizedInv'
  BY DEF IInv, TypeOK, AuthorizedInv, HasState, OpenKeyTmp, Goto, environment
<1>9. QED
  BY <1>3, <1>4, <1>5, <1>6, <1>7, <1>8 DEF IInv

LEMMA OpenStateTmpStep ==
  ASSUME IInv, NEW p \in Procs, OpenStateTmp(p)
  PROVE  IInv'
<1>1. PICK i \in Inodes :
        /\ dir' = [dir EXCEPT ![StateTmp] = i]
        /\ content' = [content EXCEPT ![i] = None]
        /\ fd' = [fd EXCEPT ![p] = i]
        /\ \/ dir[StateTmp] = i
           \/ (\A n \in Names : dir[n] # i) /\ (\A q \in Procs : fd[q] # i)
  BY OpenFacts, NameFacts DEF IInv, OpenStateTmp
<1>2. i # None
  BY NoneAssumption, InodeAssumption DEF Inodes
<1>3. TypeOK'
  BY <1>1, NameFacts DEF IInv, TypeOK, OpenStateTmp, Goto, Points, environment
<1>4. RunInv' /\ NonceInv'
  BY <1>1, <1>2 DEF IInv, TypeOK, RunInv, NonceInv, MakesKey, HasKey, HasState,
                    OpenStateTmp, Goto, environment
<1>5. KeyInv'
  BY <1>1, NameFacts DEF IInv, TypeOK, KeyInv, HasKey, HasState, OpenStateTmp,
     Goto, Exists
<1>6. FilesApart'
  BY <1>1, <1>2, NameFacts DEF IInv, TypeOK, FilesApart, OpenStateTmp, Goto
<1>7. RecordsCoherent'
  BY <1>1, StateFacts DEF IInv, TypeOK, RecordsCoherent, Coherent, OpenStateTmp
<1>8. AuthorizedInv'
  BY DEF IInv, TypeOK, AuthorizedInv, HasState, OpenStateTmp, Goto, environment
<1>9. QED
  BY <1>3, <1>4, <1>5, <1>6, <1>7, <1>8 DEF IInv

LEMMA WriteKeyTmpStep ==
  ASSUME IInv, NEW p \in Procs, WriteKeyTmp(p)
  PROVE  IInv'
<1>1. fd[p] \in Inodes /\ key[p] \in Keys
  BY DEF IInv, TypeOK, RunInv, MakesKey, WriteKeyTmp
<1>2. TypeOK'
  BY <1>1 DEF IInv, TypeOK, WriteKeyTmp, WriteTmp, Goto, Points, environment
<1>3. RunInv' /\ NonceInv'
  BY DEF IInv, TypeOK, RunInv, NonceInv, MakesKey, HasKey, HasState, WriteKeyTmp,
         WriteTmp, Goto, environment
<1>4. KeyInv' /\ FilesApart'
  BY DEF IInv, TypeOK, KeyInv, FilesApart, HasKey, HasState, WriteKeyTmp, WriteTmp,
         Goto, Exists
<1>5. RecordsCoherent'
  BY <1>1, KeyAssumption
     DEF IInv, TypeOK, RecordsCoherent, Coherent, WriteKeyTmp, WriteTmp
<1>6. AuthorizedInv'
  BY DEF IInv, TypeOK, AuthorizedInv, HasState, WriteKeyTmp, Goto, environment
<1>7. QED
  BY <1>2, <1>3, <1>4, <1>5, <1>6 DEF IInv

LEMMA WriteStateTmpStep ==
  ASSUME IInv, NEW p \in Procs, WriteStateTmp(p)
  PROVE  IInv'
<1>1. fd[p] \in Inodes /\ state[p] \in States
  BY DEF IInv, TypeOK, RunInv, AuthorizedInv, HasState, WriteStateTmp
<1>2. TypeOK'
  BY <1>1 DEF IInv, TypeOK, WriteStateTmp, WriteTmp, Goto, Points, environment
<1>3. RunInv' /\ NonceInv'
  BY DEF IInv, TypeOK, RunInv, NonceInv, MakesKey, HasKey, HasState, WriteStateTmp,
         WriteTmp, Goto, environment
<1>4. KeyInv' /\ FilesApart'
  BY DEF IInv, TypeOK, KeyInv, FilesApart, HasKey, HasState, WriteStateTmp, WriteTmp,
         Goto, Exists
<1>5. RecordsCoherent'
  <2>1. PICK data \in {state[p], Torn} : content' = [content EXCEPT ![fd[p]] = data]
    BY DEF WriteStateTmp, WriteTmp
  <2>2. Coherent(state[p])
    BY <1>1, StateFacts DEF IInv, RecordsCoherent
  <2>3. \A i \in Inodes : content'[i] \in States => Coherent(content'[i])
    BY <1>1, <2>1, <2>2, TornAssumption DEF IInv, TypeOK, RecordsCoherent
  <2>4. state' = state
    BY DEF WriteStateTmp
  <2>5. QED
    BY <2>3, <2>4 DEF IInv, RecordsCoherent, Coherent
<1>6. AuthorizedInv'
  BY DEF IInv, TypeOK, AuthorizedInv, HasState, WriteStateTmp, Goto, environment
<1>7. QED
  BY <1>2, <1>3, <1>4, <1>5, <1>6 DEF IInv

LEMMA PublishKeyStep ==
  ASSUME IInv, NEW p \in Procs, PublishKey(p)
  PROVE  IInv'
<1>1. \/ /\ Exists(KeyTmp)
         /\ dir' = [dir EXCEPT ![KeyFile] = dir[KeyTmp], ![KeyTmp] = None]
         /\ pc' = [pc EXCEPT ![p] = "directory"]
      \/ dir' = dir /\ pc' = [pc EXCEPT ![p] = "failed"]
  BY DEF PublishKey, Publish, Goto
<1>2. TypeOK'
  BY <1>1, NameFacts DEF IInv, TypeOK, PublishKey, Points, memory, environment
<1>3. RunInv' /\ NonceInv'
  BY <1>1 DEF IInv, TypeOK, RunInv, NonceInv, MakesKey, HasKey, HasState, PublishKey,
              memory, environment
<1>4. KeyInv'
  BY <1>1, NameFacts DEF IInv, TypeOK, KeyInv, HasKey, HasState, PublishKey, Exists
<1>5. FilesApart'
  <2>1. \A m, n \in Names : dir'[m] = dir'[n] /\ dir'[m] # None => m = n
    BY <1>1, NameFacts DEF IInv, TypeOK, FilesApart, Exists
  <2>2. \A q \in Procs : pc'[q] = "statewrite" =>
          /\ pc[q] = "statewrite" /\ fd[q] # None
          /\ fd[q] # dir[KeyFile] /\ fd[q] # dir[KeyTmp]
    BY <1>1 DEF IInv, TypeOK, RunInv, FilesApart
  <2>3. /\ dir'[KeyFile] \in {dir[KeyFile], dir[KeyTmp]}
        /\ dir'[KeyTmp] \in {None, dir[KeyTmp]}
    BY <1>1, NameFacts DEF IInv, TypeOK
  <2>4. QED
    BY <2>1, <2>2, <2>3 DEF FilesApart, PublishKey, memory
<1>6. RecordsCoherent'
  BY DEF IInv, RecordsCoherent, Coherent, PublishKey, memory
<1>7. AuthorizedInv'
  BY <1>1 DEF IInv, TypeOK, AuthorizedInv, HasState, PublishKey, memory, environment
<1>8. QED
  BY <1>2, <1>3, <1>4, <1>5, <1>6, <1>7 DEF IInv

LEMMA PublishStateStep ==
  ASSUME IInv, NEW p \in Procs, PublishState(p)
  PROVE  IInv'
<1>1. \/ /\ Exists(StateTmp)
         /\ dir' = [dir EXCEPT ![StateFile] = dir[StateTmp], ![StateTmp] = None]
         /\ pc' = [pc EXCEPT ![p] = "done"]
      \/ dir' = dir /\ pc' = [pc EXCEPT ![p] = "failed"]
  BY DEF PublishState, Publish, Goto
<1>2. TypeOK'
  BY <1>1, NameFacts DEF IInv, TypeOK, PublishState, Points, memory, environment
<1>3. RunInv' /\ NonceInv'
  BY <1>1 DEF IInv, TypeOK, RunInv, NonceInv, MakesKey, HasKey, HasState, PublishState,
              memory, environment
<1>4. KeyInv'
  <2>1. Exists(KeyFile)
    BY DEF IInv, KeyInv, HasState, PublishState
  <2>2. Exists(KeyFile)'
    BY <1>1, <2>1, NameFacts DEF IInv, TypeOK, Exists
  <2>3. QED
    BY <2>2 DEF KeyInv
<1>5. FilesApart'
  <2>1. \A m, n \in Names : dir'[m] = dir'[n] /\ dir'[m] # None => m = n
    BY <1>1, NameFacts DEF IInv, TypeOK, FilesApart, Exists
  <2>2. \A q \in Procs : pc'[q] = "statewrite" =>
          /\ pc[q] = "statewrite" /\ fd[q] # None
          /\ fd[q] # dir[KeyFile] /\ fd[q] # dir[KeyTmp]
    BY <1>1 DEF IInv, TypeOK, RunInv, FilesApart
  <2>3. /\ dir'[KeyFile] \in {dir[KeyFile], dir[KeyTmp]}
        /\ dir'[KeyTmp] \in {None, dir[KeyTmp]}
    BY <1>1, NameFacts DEF IInv, TypeOK
  <2>4. QED
    BY <2>1, <2>2, <2>3 DEF FilesApart, PublishState, memory
<1>6. RecordsCoherent'
  BY DEF IInv, RecordsCoherent, Coherent, PublishState, memory
<1>7. AuthorizedInv'
  BY <1>1 DEF IInv, TypeOK, AuthorizedInv, HasState, PublishState, memory, environment
<1>8. QED
  BY <1>2, <1>3, <1>4, <1>5, <1>6, <1>7 DEF IInv

LEMMA DeactivateStep ==
  ASSUME IInv, NEW e \in Envs, NEW k \in Keys, Deactivate(e, k)
  PROVE  IInv'
<1>1. /\ account' \in [Envs -> [Keys -> Statuses \cup {"none"}]]
      /\ \A d \in Envs, h \in Keys : account[d][h] # "none" => account'[d][h] # "none"
  BY DEF IInv, TypeOK, Deactivate, Statuses
<1>2. TypeOK'
  BY <1>1 DEF IInv, TypeOK, Deactivate, files, memory
<1>3. RunInv' /\ NonceInv' /\ KeyInv' /\ FilesApart' /\ RecordsCoherent'
  BY DEF IInv, RunInv, NonceInv, KeyInv, FilesApart, RecordsCoherent, Coherent,
         Deactivate, Exists, files, memory
<1>4. AuthorizedInv'
  <2>1. \A q \in Procs : pc[q] \in HasState \cup {"fetchobject"} =>
          env[q] \in Envs /\ key[q] \in Keys
    BY DEF IInv, RunInv, HasKey, HasState
  <2>2. QED
    BY <1>1, <2>1 DEF IInv, AuthorizedInv, Deactivate, memory
<1>5. QED
  BY <1>2, <1>3, <1>4 DEF IInv

LEMMA RemoveFileStep ==
  ASSUME IInv, NEW n \in Removable, RemoveFile(n)
  PROVE  IInv'
<1>1. TypeOK'
  BY NameFacts DEF IInv, TypeOK, RemoveFile, memory, environment
<1>2. KeyInv'
  BY DEF KeyInv, RemoveFile, HasKey, HasState
<1>3. FilesApart'
  BY NameFacts DEF IInv, TypeOK, FilesApart, RemoveFile, memory
<1>4. RunInv' /\ NonceInv' /\ RecordsCoherent' /\ AuthorizedInv'
  BY DEF IInv, RunInv, NonceInv, RecordsCoherent, Coherent, AuthorizedInv,
         RemoveFile, memory, environment
<1>5. QED
  BY <1>1, <1>2, <1>3, <1>4 DEF IInv

LEMMA CalmDownStep ==
  ASSUME IInv, CalmDown
  PROVE  IInv'
BY DEF IInv, TypeOK, RunInv, NonceInv, KeyInv, FilesApart, RecordsCoherent, Coherent,
       AuthorizedInv, CalmDown, Exists, files, memory

-----------------------------------------------------------------------------
LEMMA InitIInv ==
  ASSUME Init
  PROVE  IInv
<1>1. TypeOK
  BY DEF Init, TypeOK, Points
<1>2. RunInv /\ NonceInv /\ KeyInv /\ AuthorizedInv
  BY DEF Init, RunInv, NonceInv, KeyInv, AuthorizedInv, MakesKey, HasKey,
     HasState, Exists
<1>3. FilesApart /\ RecordsCoherent
  BY StateFacts DEF Init, FilesApart, RecordsCoherent
<1>4. QED
  BY <1>1, <1>2, <1>3 DEF IInv

LEMMA StepIInv ==
  ASSUME IInv, [Next]_vars
  PROVE  IInv'
<1>1. ASSUME NEW p \in Procs, NEW e \in Envs, Begin(p, e) PROVE IInv'
  BY <1>1, BeginStep
<1>2. ASSUME NEW p \in Procs, Step(p) PROVE IInv'
  BY <1>2, LoadKeyStep, GenerateKeyStep, OpenKeyTmpStep, WriteKeyTmpStep,
     PublishKeyStep, DiscoverStep, ReadCacheStep, VerifyStep, BadNonceStep,
     CreateStep, FetchObjectStep, OpenStateTmpStep, WriteStateTmpStep,
     PublishStateStep DEF Step
<1>3. ASSUME NEW p \in Procs, NetworkFault(p) \/ Stop(p) PROVE IInv'
  BY <1>3, NetworkFaultStep, StopStep
<1>4. CASE \E e \in Envs, k \in Keys : Deactivate(e, k)
  BY <1>4, DeactivateStep
<1>5. CASE \E n \in Removable : RemoveFile(n)
  BY <1>5, RemoveFileStep
<1>6. CASE CalmDown
  BY <1>6, CalmDownStep
<1>7. CASE UNCHANGED vars
  BY <1>7 DEF IInv, TypeOK, RunInv, NonceInv, KeyInv, FilesApart, RecordsCoherent,
              Coherent, AuthorizedInv, Exists, vars, files, memory, environment
<1>8. QED
  BY <1>1, <1>2, <1>3, <1>4, <1>5, <1>6, <1>7 DEF Next

LEMMA Invariance == Spec => []IInv
BY InitIInv, StepIInv, PTL DEF Spec

-----------------------------------------------------------------------------
\* Types of the account store, for any number of processes: no file descriptor,
\* name, record or account of a kind that prepare_account does not expect.
THEOREM TypeCorrect == Spec => []TypeOK
<1>1. IInv => TypeOK
  BY DEF IInv
<1>2. QED
  BY <1>1, Invariance, PTL

\* No record mixes keys or environments, however many processes load and
\* overwrite each other's account.json.
THEOREM RecordsAreCoherent == Spec => []RecordsCoherent
<1>1. IInv => RecordsCoherent
  BY DEF IInv
<1>2. QED
  BY <1>1, Invariance, PTL

\* A client that prepare_account returned for signs with the key of an account
\* that the server of its environment has.
THEOREM ClientsAreAuthorized == Spec => []PreparedClientIsAuthorized
<1>1. IInv => PreparedClientIsAuthorized
  BY DEF IInv, AuthorizedInv, PreparedClientIsAuthorized, HasState
<1>2. QED
  BY <1>1, Invariance, PTL

\* load_or_create never generates a key beside an account.json: it is looked
\* for only while account.json has its account.key.
THEOREM CacheForbidsNewKey == Spec => NewKeyOnlyWithoutCache
<1>1. ASSUME IInv, Next, generated' # generated
      PROVE  ~Exists(StateFile)
  <2>1. PICK p \in Procs : GenerateKey(p)
    BY <1>1 DEF Next, Begin, Step, LoadKey, OpenKeyTmp, WriteKeyTmp, PublishKey,
       Discover, ReadCache, Verify, BadNonce, Create, FetchObject, OpenStateTmp,
       WriteStateTmp, PublishState, NetworkFault, Stop, Deactivate, RemoveFile,
       CalmDown, environment
  <2>2. QED
    BY <1>1, <2>1 DEF IInv, KeyInv, GenerateKey
<1>2. IInv /\ [Next]_vars => [generated' # generated => ~Exists(StateFile)]_vars
  BY <1>1 DEF vars, environment
<1>3. QED
  BY <1>2, Invariance, PTL DEF Spec, NewKeyOnlyWithoutCache

\* Only a process that has found no account.key writes a key file.
LEMMA StepSettled ==
  ASSUME IInv, [Next]_vars, Settled, Exists(KeyFile)'
  PROVE  Settled' /\ KeyOnDisk' = KeyOnDisk
<1>1. ASSUME IInv, Next, Settled, Exists(KeyFile)'
      PROVE  Settled' /\ KeyOnDisk' = KeyOnDisk
  <2> DEFINE i == dir[KeyFile]
  <2>1. i \in Inodes /\ Exists(KeyFile) /\ content[i] \in Keys
    BY <1>1, NameFacts, NoneAssumption
       DEF IInv, TypeOK, Settled, KeyOnDisk, Exists, Read
  <2>2. SUFFICES /\ dir'[KeyFile] = i
                 /\ content'[i] = content[i]
                 /\ \A p \in Procs : pc'[p] \notin MakesKey
    BY <1>1, <2>1 DEF Settled, KeyOnDisk, Exists, Read, MakesKey
  <2>3. ASSUME NEW p \in Procs, NEW e \in Envs, Begin(p, e)
        PROVE  UNCHANGED files /\ \A q \in Procs : pc'[q] \notin MakesKey
    BY <1>1, <2>3 DEF IInv, TypeOK, Settled, Begin, Goto, files, MakesKey
  <2>4. ASSUME NEW p \in Procs,
               \/ LoadKey(p) \/ Discover(p) \/ ReadCache(p) \/ Verify(p) \/ BadNonce(p)
               \/ Create(p) \/ FetchObject(p) \/ NetworkFault(p) \/ Stop(p)
        PROVE  UNCHANGED files /\ \A q \in Procs : pc'[q] \notin MakesKey
    BY <1>1, <2>4 DEF IInv, TypeOK, Settled, LoadKey, Discover, ReadCache, Verify,
       BadNonce, Create, FetchObject, NetworkFault, Stop, Goto, files, MakesKey
  <2>5. ASSUME NEW p \in Procs,
               GenerateKey(p) \/ OpenKeyTmp(p) \/ WriteKeyTmp(p) \/ PublishKey(p)
        PROVE  FALSE
    BY <1>1, <2>1, <2>5 DEF Settled, GenerateKey, OpenKeyTmp, WriteKeyTmp, PublishKey
  <2>6. ASSUME NEW p \in Procs, OpenStateTmp(p)
        PROVE  /\ dir'[KeyFile] = i
               /\ content'[i] = content[i]
               /\ \A q \in Procs : pc'[q] \notin MakesKey
    <3>1. PICK j \in Inodes :
            /\ dir' = [dir EXCEPT ![StateTmp] = j]
            /\ content' = [content EXCEPT ![j] = None]
            /\ dir[StateTmp] = j \/ \A n \in Names : dir[n] # j
      BY <1>1, <2>6, OpenFacts, NameFacts DEF IInv, OpenStateTmp
    <3>2. j # i
      <4>1. dir[StateTmp] # i /\ dir[KeyFile] = i
        BY <1>1, <2>1, NameFacts DEF IInv, FilesApart, Exists
      <4>2. QED
        BY <3>1, <4>1, NameFacts
    <3>3. QED
      BY <1>1, <2>1, <2>6, <3>1, <3>2, NameFacts
         DEF IInv, TypeOK, Settled, OpenStateTmp, Goto, MakesKey
  <2>7. ASSUME NEW p \in Procs, WriteStateTmp(p)
        PROVE  /\ dir'[KeyFile] = i
               /\ content'[i] = content[i]
               /\ \A q \in Procs : pc'[q] \notin MakesKey
    BY <1>1, <2>1, <2>7
       DEF IInv, TypeOK, FilesApart, Settled, WriteStateTmp, WriteTmp, Goto, MakesKey
  <2>8. ASSUME NEW p \in Procs, PublishState(p)
        PROVE  /\ dir'[KeyFile] = i
               /\ content'[i] = content[i]
               /\ \A q \in Procs : pc'[q] \notin MakesKey
    BY <1>1, <2>8, NameFacts
       DEF IInv, TypeOK, Settled, PublishState, Publish, Goto, MakesKey
  <2>9. CASE \E e \in Envs, k \in Keys : Deactivate(e, k)
    BY <1>1, <2>9 DEF Deactivate, Settled, files, MakesKey
  <2>10. ASSUME NEW n \in Removable, RemoveFile(n)
         PROVE  /\ dir'[KeyFile] = i
                /\ content'[i] = content[i]
                /\ \A q \in Procs : pc'[q] \notin MakesKey
    BY <1>1, <2>10, NameFacts
       DEF IInv, TypeOK, Exists, Settled, RemoveFile, MakesKey
  <2>11. CASE CalmDown
    BY <1>1, <2>11 DEF CalmDown, Settled, files, MakesKey
  <2>12. QED
    BY <1>1, <2>3, <2>4, <2>5, <2>6, <2>7, <2>8, <2>9, <2>10, <2>11
       DEF Next, Step, files
<1>2. ASSUME IInv, UNCHANGED vars, Settled
      PROVE  Settled' /\ KeyOnDisk' = KeyOnDisk
  BY <1>2 DEF Settled, KeyOnDisk, Exists, Read, vars, files
<1>3. QED
  BY <1>1, <1>2

\* The key of a settled directory stays, whatever others do with account.json.
THEOREM SettledKeysStay == Spec => SettledKeyStays
<1>1. IInv /\ [Next]_vars =>
        [Settled /\ Exists(KeyFile)' => Settled' /\ KeyOnDisk' = KeyOnDisk]_vars
  BY StepSettled
<1>2. QED
  BY <1>1, Invariance, PTL DEF Spec, SettledKeyStays

\* A process takes up no key but the one on disk, and registers no other.
LEMMA StepOneKey ==
  ASSUME IInv, [Next]_vars, OneKeyInUse, Exists(KeyFile)'
  PROVE  OneKeyInUse'
<1>1. Settled' /\ KeyOnDisk' = KeyOnDisk /\ KeyOnDisk \in Keys /\ KeyOnDisk # None
  BY StepSettled, NoneAssumption DEF OneKeyInUse, Settled
<1>2. Exists(KeyFile) /\ Read(KeyFile) = KeyOnDisk
  BY <1>1 DEF KeyOnDisk
<1>3. \A p \in Procs : key'[p] \in {None, KeyOnDisk}
  <2>1. ASSUME NEW p \in Procs, LoadKey(p)
        PROVE  \A q \in Procs : key'[q] \in {key[q], KeyOnDisk}
    BY <1>2, <2>1 DEF IInv, TypeOK, LoadKey
  <2>2. ASSUME NEW p \in Procs, Stop(p)
        PROVE  \A q \in Procs : key'[q] \in {key[q], None}
    BY <2>2 DEF IInv, TypeOK, Stop
  <2>3. \A p \in Procs : ~GenerateKey(p)
    BY <1>2 DEF GenerateKey
  <2>4. CASE UNCHANGED key
    BY <2>4 DEF OneKeyInUse
  <2>5. QED
    BY <2>1, <2>2, <2>3, <2>4 DEF OneKeyInUse, Next, Begin, Step, OpenKeyTmp,
       WriteKeyTmp, PublishKey, Discover, ReadCache, Verify, BadNonce, Create,
       FetchObject, OpenStateTmp, WriteStateTmp, PublishState, NetworkFault,
       Deactivate, RemoveFile, CalmDown, vars, memory
<1>4. \A e \in Envs, k \in Keys : account'[e][k] # "none" => KeyOnDisk = k
  <2>1. ASSUME NEW p \in Procs, Create(p)
        PROVE  \A e \in Envs, k \in Keys :
                 account'[e][k] # "none" => account[e][k] # "none" \/ k = KeyOnDisk
    <3>1. key[p] = KeyOnDisk /\ env[p] \in Envs
      BY <2>1, NoneAssumption DEF OneKeyInUse, IInv, RunInv, HasKey, Create
    <3>2. QED
      BY <2>1, <3>1 DEF IInv, TypeOK, Create, Register
  <2>2. ASSUME NEW d \in Envs, NEW h \in Keys, Deactivate(d, h)
        PROVE  \A e \in Envs, k \in Keys :
                 account'[e][k] # "none" => account[e][k] # "none" \/ k = KeyOnDisk
    BY <2>2 DEF IInv, TypeOK, Deactivate
  <2>3. CASE UNCHANGED account
    BY <2>3 DEF OneKeyInUse, AccountKeyOnDisk
  <2>4. QED
    BY <2>1, <2>2, <2>3 DEF OneKeyInUse, AccountKeyOnDisk, Next, Begin, Step, LoadKey,
       GenerateKey, OpenKeyTmp, WriteKeyTmp, PublishKey, Discover, ReadCache, Verify,
       BadNonce, FetchObject, OpenStateTmp, WriteStateTmp, PublishState, NetworkFault,
       Stop, RemoveFile, CalmDown, vars, environment
<1>5. QED
  BY <1>1, <1>3, <1>4 DEF OneKeyInUse, AccountKeyOnDisk

\* Where one key is in use, that of a prepared client is the one on disk.
LEMMA OneKeyIsOnDisk ==
  ASSUME IInv, OneKeyInUse
  PROVE  PreparedKeyIsOnDisk /\ AccountKeyOnDisk
BY NoneAssumption DEF IInv, RunInv, HasState, OneKeyInUse, PreparedKeyIsOnDisk

\* Any number of processes keep to the one key of a settled directory.
THEOREM OneKeyRemains == Spec => OneKeyStays
<1>1. IInv /\ [Next]_vars =>
        [OneKeyInUse /\ Exists(KeyFile)' => OneKeyInUse']_vars
  BY StepOneKey
<1>2. QED
  BY <1>1, Invariance, PTL DEF Spec, OneKeyStays

\* Once one key is in use, as after a first run that was alone, and account.key
\* is left there, neither of what overlapping first runs may do (see the run
\* account_keyrace) can happen any more, however many processes run at once:
\* no prepared client certifies a key that is not on disk, and no account is
\* registered with one.
THEOREM LaterRunsMayOverlap ==
  ASSUME KeyFile \notin Removable
  PROVE  Spec => [](OneKeyInUse => [](PreparedKeyIsOnDisk /\ AccountKeyOnDisk))
<1>1. IInv /\ [Next]_vars => (Exists(KeyFile) => Exists(KeyFile)')
  <2> SUFFICES ASSUME IInv, [Next]_vars, Exists(KeyFile) PROVE Exists(KeyFile)'
    OBVIOUS
  <2>1. ASSUME NEW p \in Procs, NEW tmp \in {KeyTmp, StateTmp}, OpenTmp(p, tmp)
        PROVE  dir'[KeyFile] = dir[KeyFile]
    BY <2>1, OpenFacts, NameFacts DEF IInv, TypeOK
  <2>2. ASSUME NEW p \in Procs, PublishKey(p)
        PROVE  dir'[KeyFile] # None
    BY <2>2, NameFacts DEF IInv, TypeOK, PublishKey, Publish, Exists
  <2>3. ASSUME NEW p \in Procs, PublishState(p)
        PROVE  dir'[KeyFile] = dir[KeyFile]
    BY <2>3, NameFacts DEF IInv, TypeOK, PublishState, Publish
  <2>4. ASSUME NEW n \in Removable, RemoveFile(n)
        PROVE  dir'[KeyFile] = dir[KeyFile]
    BY <2>4, NameFacts DEF IInv, TypeOK, RemoveFile
  <2>5. CASE UNCHANGED dir
    BY <2>5 DEF Exists
  <2>6. QED
    BY <2>1, <2>2, <2>3, <2>4, <2>5 DEF Exists, Next, Begin, Step, LoadKey, GenerateKey,
       OpenKeyTmp, WriteKeyTmp, WriteTmp, Discover, ReadCache, Verify, BadNonce, Create,
       FetchObject, OpenStateTmp, WriteStateTmp, NetworkFault, Stop, Deactivate,
       CalmDown, vars, files
<1>2. OneKeyInUse => Exists(KeyFile)
  BY NoneAssumption DEF OneKeyInUse, Settled, KeyOnDisk
<1>3. IInv /\ OneKeyInUse /\ [Next]_vars => OneKeyInUse'
  BY <1>1, <1>2, StepOneKey
<1>4. IInv /\ OneKeyInUse => PreparedKeyIsOnDisk /\ AccountKeyOnDisk
  BY OneKeyIsOnDisk
<1>5. QED
  BY <1>3, <1>4, Invariance, PTL DEF Spec

-----------------------------------------------------------------------------
(* The bound on inodes is none: as many files as names, and one per process. *)

InodesSuffice == IsFiniteSet(Procs) /\ InodeCount >= Cardinality(Procs) + 3

LEMMA ImageIsSmall ==
  ASSUME NEW S, IsFiniteSet(S), NEW f
  PROVE  LET T == {f[x] : x \in S}
         IN  IsFiniteSet(T) /\ Cardinality(T) <= Cardinality(S)
<1> DEFINE T == {f[x] : x \in S}
           g == [x \in S |-> f[x]]
<1>1. g \in Surjection(S, T)
  BY DEF Surjection
<1>2. QED
  BY <1>1, FS_Surjection

\* The names other than the one to be opened, and the other processes, do not
\* take all inodes.
LEMMA OneInodeIsFree ==
  ASSUME TypeOK, InodesSuffice, NEW p \in Procs, fd[p] = None,
         NEW tmp \in Names, ~Exists(tmp)
  PROVE  FreeInodes # {}
<1> DEFINE Others == Procs \ {p}
           Left == Names \ {tmp}
           A == {dir[n] : n \in Left}
           B == {fd[q] : q \in Others}
<1>1. IsFiniteSet(Others) /\ Cardinality(Others) = Cardinality(Procs) - 1
  BY FS_RemoveElement DEF InodesSuffice
<1>2. IsFiniteSet(Left) /\ Cardinality(Left) = 3
  <2> DEFINE Keys1 == {KeyFile}
             Keys2 == Keys1 \cup {KeyTmp}
             Names3 == Keys2 \cup {StateFile}
  <2>1. IsFiniteSet(Keys2) /\ Cardinality(Keys2) = 2
    <3>1. IsFiniteSet(Keys1) /\ Cardinality(Keys1) = 1
      BY FS_Singleton
    <3>2. KeyTmp \notin Keys1
      BY NameFacts
    <3> HIDE DEF Keys1
    <3>3. QED
      BY <3>1, <3>2, FS_AddElement
  <2>2. IsFiniteSet(Names3) /\ Cardinality(Names3) = 3
    <3>1. StateFile \notin Keys2
      BY NameFacts
    <3> HIDE DEF Keys2
    <3>2. QED
      BY <2>1, <3>1, FS_AddElement
  <2>3. IsFiniteSet(Names) /\ Cardinality(Names) = 4
    <3>1. Names = Names3 \cup {StateTmp}
      BY DEF Names
    <3>2. StateTmp \notin Names3
      BY NameFacts
    <3> HIDE DEF Names3
    <3>3. QED
      BY <2>2, <3>1, <3>2, FS_AddElement
  <2>4. QED
    BY <2>3, FS_RemoveElement
<1>3. IsFiniteSet(A) /\ Cardinality(A) <= 3
  BY <1>2, ImageIsSmall
<1>4. IsFiniteSet(B) /\ Cardinality(B) <= Cardinality(Procs) - 1
  BY <1>1, ImageIsSmall
<1>5. /\ IsFiniteSet(A \cup B)
      /\ Cardinality(A \cup B) <= Cardinality(Procs) + 2
  <2>1. /\ Cardinality(A) \in Nat /\ Cardinality(B) \in Nat
        /\ Cardinality(A \cap B) \in Nat /\ Cardinality(Procs) \in Nat
    BY <1>3, <1>4, FS_CardinalityType, FS_Intersection DEF InodesSuffice
  <2>2. /\ IsFiniteSet(A \cup B)
        /\ Cardinality(A \cup B) =
             Cardinality(A) + Cardinality(B) - Cardinality(A \cap B)
    BY <1>3, <1>4, FS_Union
  <2>3. QED
    BY <1>3, <1>4, <2>1, <2>2
<1>6. SUFFICES ASSUME Inodes \subseteq A \cup B
               PROVE  FALSE
  <2>1. \A i \in Inodes : i # None
    BY NoneAssumption, InodeAssumption DEF Inodes
  <2>2. \A i \in Inodes : i \notin A \cup B => i \in FreeInodes
    BY <2>1 DEF FreeInodes, Exists
  <2>3. QED
    BY <2>2
<1>7. IsFiniteSet(Inodes) /\ Cardinality(Inodes) = InodeCount
  BY FS_Interval, InodeAssumption DEF Inodes
<1>8. Cardinality(Inodes) <= Cardinality(A \cup B)
  BY <1>5, <1>6, FS_Subset
<1>9. QED
  BY <1>5, <1>7, <1>8, FS_CardinalityType, InodeAssumption DEF InodesSuffice

\* With three inodes for the names that stay and one for each process, a
\* temporary file can always be made: no step of AccountStore is held back by
\* the bound, and Recovers does not hold for want of one.
THEOREM FilesCanBeMade ==
  ASSUME InodesSuffice
  PROVE  Spec => [](\A p \in Procs :
           /\ pc[p] = "keyopen" => Exists(KeyTmp) \/ FreeInodes # {}
           /\ pc[p] = "stateopen" => Exists(StateTmp) \/ FreeInodes # {})
<1>1. ASSUME IInv, NEW p \in Procs, pc[p] \in {"keyopen", "stateopen"},
             NEW tmp \in {KeyTmp, StateTmp}
      PROVE  Exists(tmp) \/ FreeInodes # {}
  <2>1. fd[p] = None /\ tmp \in Names
    BY <1>1, NameFacts DEF IInv, RunInv
  <2>2. QED
    BY <1>1, <2>1, OneInodeIsFree DEF IInv
<1>2. IInv => \A p \in Procs :
        /\ pc[p] = "keyopen" => Exists(KeyTmp) \/ FreeInodes # {}
        /\ pc[p] = "stateopen" => Exists(StateTmp) \/ FreeInodes # {}
  BY <1>1
<1>3. QED
  BY <1>2, Invariance, PTL

-----------------------------------------------------------------------------
(* One process, and an account.key that nobody removes.                      *)

Solo == /\ \A p, q \in Procs : p = q
        /\ KeyFile \notin Removable

FinalInv == /\ Exists(KeyFile) => KeyOnDisk \in Keys
            /\ AccountKeyOnDisk
            /\ CacheMatchesKey

\* The disk follows the process: a new key is in the temporary file until it is
\* published, and account.key is the key the process goes on with.
ProgressInv ==
  \A p \in Procs :
    /\ pc[p] \in MakesKey => ~Exists(KeyFile)
    /\ pc[p] = "keywrite" => fd[p] = dir[KeyTmp]
    /\ pc[p] = "keypublish" => Exists(KeyTmp) /\ Read(KeyTmp) = key[p]
    /\ pc[p] \in HasKey \cup HasState => KeyOnDisk = key[p]
    /\ pc[p] = "statewrite" => fd[p] = dir[StateTmp] /\ Read(StateTmp) = None
    /\ pc[p] = "statepublish" => Exists(StateTmp) /\ Read(StateTmp) = state[p]

KeyStays == KeyOnDisk # None => KeyOnDisk' = KeyOnDisk

SoloInv == IInv /\ FinalInv /\ ProgressInv

\* A temporary file is neither account.key nor account.json.
LEMMA TmpFacts ==
  ASSUME IInv, NEW i \in Inodes, NEW tmp \in {KeyTmp, StateTmp},
         dir[tmp] = i \/ \A n \in Names : dir[n] # i
  PROVE  dir[KeyFile] # i /\ dir[StateFile] # i
BY NameFacts, NoneAssumption, InodeAssumption DEF IInv, FilesApart, Inodes

\* What is said of the final files stays as long as they and the accounts do.
LEMMA FinalFilesStay ==
  ASSUME FinalInv,
         dir'[KeyFile] = dir[KeyFile], dir'[StateFile] = dir[StateFile],
         Exists(KeyFile) => content'[dir[KeyFile]] = content[dir[KeyFile]],
         Exists(StateFile) => content'[dir[StateFile]] = content[dir[StateFile]],
         UNCHANGED account
  PROVE  /\ FinalInv'
         /\ KeyOnDisk' = KeyOnDisk /\ Exists(KeyFile)' = Exists(KeyFile)
<1>1. /\ KeyOnDisk' = KeyOnDisk /\ Exists(KeyFile)' = Exists(KeyFile)
      /\ Exists(StateFile)' = Exists(StateFile)
      /\ Exists(StateFile) => Read(StateFile)' = Read(StateFile)
  BY DEF KeyOnDisk, Exists, Read
<1>2. QED
  BY <1>1 DEF FinalInv, AccountKeyOnDisk, CacheMatchesKey

LEMMA MemorySolo ==
  ASSUME SoloInv, Solo, NEW p \in Procs,
         \/ \E e \in Envs : Begin(p, e)
         \/ LoadKey(p) \/ GenerateKey(p) \/ Discover(p) \/ ReadCache(p) \/ Verify(p)
         \/ BadNonce(p) \/ FetchObject(p) \/ NetworkFault(p) \/ Stop(p)
  PROVE  FinalInv' /\ ProgressInv' /\ KeyStays
<1>1. UNCHANGED <<files, account>>
  BY DEF Begin, LoadKey, GenerateKey, Discover, ReadCache, Verify, BadNonce,
         FetchObject, NetworkFault, Stop, environment
<1>2. /\ FinalInv'
      /\ KeyOnDisk' = KeyOnDisk /\ Exists(KeyFile)' = Exists(KeyFile)
  BY <1>1, FinalFilesStay DEF SoloInv, files
<1>3. \/ pc'[p] \in {"off", "key", "failed"}
      \/ pc'[p] = "keyopen" /\ ~Exists(KeyFile)
      \/ /\ pc[p] = "key" /\ pc'[p] = "directory"
         /\ Exists(KeyFile) /\ key'[p] = Read(KeyFile)
      \/ /\ pc[p] \in HasKey /\ pc'[p] \in HasKey \cup {"stateopen"}
         /\ key'[p] = key[p]
  BY DEF SoloInv, IInv, TypeOK, Begin, LoadKey, GenerateKey, Discover, ReadCache,
         Verify, BadNonce, FetchObject, NetworkFault, Stop, Goto, HasKey
<1>4. ProgressInv'
  BY <1>2, <1>3 DEF Solo, SoloInv, ProgressInv, MakesKey, HasKey, HasState, KeyOnDisk
<1>5. QED
  BY <1>2, <1>4 DEF KeyStays

\* newAccount is sent with the key that is in account.key.
LEMMA CreateSolo ==
  ASSUME SoloInv, Solo, NEW p \in Procs, Create(p)
  PROVE  FinalInv' /\ ProgressInv' /\ KeyStays
<1>1. /\ KeyOnDisk' = KeyOnDisk /\ Exists(KeyFile)' = Exists(KeyFile)
      /\ Exists(StateFile)' = Exists(StateFile) /\ Read(StateFile)' = Read(StateFile)
      /\ key'[p] = key[p]
      /\ pc[p] = "create" /\ pc'[p] \in {"stateopen", "fetchobject", "failed"}
  BY DEF SoloInv, IInv, TypeOK, Create, Goto, KeyOnDisk, Exists, Read, files
<1>2. KeyOnDisk = key[p] /\ env[p] \in Envs /\ key[p] \in Keys
  BY <1>1 DEF SoloInv, ProgressInv, IInv, RunInv, HasKey
<1>3. AccountKeyOnDisk'
  BY <1>1, <1>2 DEF SoloInv, FinalInv, AccountKeyOnDisk, IInv, TypeOK, Create, Register
<1>4. FinalInv'
  BY <1>1, <1>3 DEF SoloInv, FinalInv, CacheMatchesKey
<1>5. ProgressInv'
  BY <1>1, <1>2 DEF Solo, ProgressInv, MakesKey, HasKey, HasState
<1>6. QED
  BY <1>1, <1>4, <1>5 DEF KeyStays

LEMMA OpenKeyTmpSolo ==
  ASSUME SoloInv, Solo, NEW p \in Procs, OpenKeyTmp(p)
  PROVE  FinalInv' /\ ProgressInv' /\ KeyStays
<1>1. PICK i \in Inodes :
        /\ dir' = [dir EXCEPT ![KeyTmp] = i]
        /\ content' = [content EXCEPT ![i] = None]
        /\ fd' = [fd EXCEPT ![p] = i]
        /\ dir[KeyTmp] = i \/ \A n \in Names : dir[n] # i
  BY OpenFacts, NameFacts DEF SoloInv, IInv, OpenKeyTmp
<1>2. dir[KeyFile] # i /\ dir[StateFile] # i
  BY <1>1, TmpFacts DEF SoloInv
<1>3. /\ FinalInv'
      /\ KeyOnDisk' = KeyOnDisk /\ Exists(KeyFile)' = Exists(KeyFile)
  <2>1. /\ dir'[KeyFile] = dir[KeyFile] /\ dir'[StateFile] = dir[StateFile]
        /\ Exists(KeyFile) => content'[dir[KeyFile]] = content[dir[KeyFile]]
        /\ Exists(StateFile) => content'[dir[StateFile]] = content[dir[StateFile]]
    BY <1>1, <1>2, NameFacts DEF SoloInv, IInv, TypeOK, Exists
  <2>2. QED
    BY <2>1, FinalFilesStay DEF SoloInv, OpenKeyTmp, environment
<1>4. /\ pc[p] = "keyopen" /\ pc'[p] = "keywrite"
      /\ fd'[p] = i /\ dir'[KeyTmp] = i
  BY <1>1, NameFacts DEF SoloInv, IInv, TypeOK, OpenKeyTmp, Goto
<1>5. ProgressInv'
  BY <1>3, <1>4 DEF Solo, SoloInv, ProgressInv, MakesKey, HasKey, HasState
<1>6. QED
  BY <1>3, <1>5 DEF KeyStays

LEMMA OpenStateTmpSolo ==
  ASSUME SoloInv, Solo, NEW p \in Procs, OpenStateTmp(p)
  PROVE  FinalInv' /\ ProgressInv' /\ KeyStays
<1>1. PICK i \in Inodes :
        /\ dir' = [dir EXCEPT ![StateTmp] = i]
        /\ content' = [content EXCEPT ![i] = None]
        /\ fd' = [fd EXCEPT ![p] = i]
        /\ dir[StateTmp] = i \/ \A n \in Names : dir[n] # i
  BY OpenFacts, NameFacts DEF SoloInv, IInv, OpenStateTmp
<1>2. dir[KeyFile] # i /\ dir[StateFile] # i
  BY <1>1, TmpFacts DEF SoloInv
<1>3. /\ FinalInv'
      /\ KeyOnDisk' = KeyOnDisk /\ Exists(KeyFile)' = Exists(KeyFile)
  <2>1. /\ dir'[KeyFile] = dir[KeyFile] /\ dir'[StateFile] = dir[StateFile]
        /\ Exists(KeyFile) => content'[dir[KeyFile]] = content[dir[KeyFile]]
        /\ Exists(StateFile) => content'[dir[StateFile]] = content[dir[StateFile]]
    BY <1>1, <1>2, NameFacts DEF SoloInv, IInv, TypeOK, Exists
  <2>2. QED
    BY <2>1, FinalFilesStay DEF SoloInv, OpenStateTmp, environment
<1>4. /\ pc[p] = "stateopen" /\ pc'[p] = "statewrite" /\ key'[p] = key[p]
      /\ fd'[p] = i /\ dir'[StateTmp] = i /\ Read(StateTmp)' = None
  BY <1>1, NameFacts DEF SoloInv, IInv, TypeOK, OpenStateTmp, Goto, Read
<1>5. ProgressInv'
  BY <1>3, <1>4 DEF Solo, SoloInv, ProgressInv, MakesKey, HasKey, HasState
<1>6. QED
  BY <1>3, <1>5 DEF KeyStays

LEMMA WriteKeyTmpSolo ==
  ASSUME SoloInv, Solo, NEW p \in Procs, WriteKeyTmp(p)
  PROVE  FinalInv' /\ ProgressInv' /\ KeyStays
<1>1. fd[p] \in Inodes /\ fd[p] # None /\ fd[p] = dir[KeyTmp]
  BY DEF SoloInv, ProgressInv, IInv, TypeOK, RunInv, WriteKeyTmp
<1>2. dir[KeyFile] # fd[p] /\ dir[StateFile] # fd[p]
  BY <1>1, TmpFacts DEF SoloInv
<1>3. dir' = dir /\ content' = [content EXCEPT ![fd[p]] = key[p]]
  BY DEF WriteKeyTmp, WriteTmp
<1>4. /\ FinalInv'
      /\ KeyOnDisk' = KeyOnDisk /\ Exists(KeyFile)' = Exists(KeyFile)
  <2>1. /\ Exists(KeyFile) => content'[dir[KeyFile]] = content[dir[KeyFile]]
        /\ Exists(StateFile) => content'[dir[StateFile]] = content[dir[StateFile]]
    BY <1>2, <1>3, NameFacts DEF SoloInv, IInv, TypeOK, Exists
  <2>2. QED
    BY <1>3, <2>1, FinalFilesStay DEF SoloInv, WriteKeyTmp, environment
<1>5. /\ pc[p] = "keywrite" /\ pc'[p] = "keypublish" /\ key'[p] = key[p]
      /\ Exists(KeyTmp)' /\ Read(KeyTmp)' = key[p]
  BY <1>1, <1>3 DEF SoloInv, IInv, TypeOK, WriteKeyTmp, Goto, Exists, Read
<1>6. ProgressInv'
  BY <1>4, <1>5 DEF Solo, SoloInv, ProgressInv, MakesKey, HasKey, HasState
<1>7. QED
  BY <1>4, <1>6 DEF KeyStays

LEMMA WriteStateTmpSolo ==
  ASSUME SoloInv, Solo, NEW p \in Procs, WriteStateTmp(p)
  PROVE  FinalInv' /\ ProgressInv' /\ KeyStays
<1>1. /\ fd[p] \in Inodes /\ fd[p] # None /\ fd[p] = dir[StateTmp]
      /\ content[fd[p]] = None
  BY DEF SoloInv, ProgressInv, IInv, TypeOK, RunInv, WriteStateTmp, Read
<1>2. dir[KeyFile] # fd[p] /\ dir[StateFile] # fd[p]
  BY <1>1, TmpFacts DEF SoloInv
<1>3. dir' = dir /\ content' = [content EXCEPT ![fd[p]] = state[p]]
  BY <1>1 DEF WriteStateTmp, WriteTmp
<1>4. /\ FinalInv'
      /\ KeyOnDisk' = KeyOnDisk /\ Exists(KeyFile)' = Exists(KeyFile)
  <2>1. /\ Exists(KeyFile) => content'[dir[KeyFile]] = content[dir[KeyFile]]
        /\ Exists(StateFile) => content'[dir[StateFile]] = content[dir[StateFile]]
    BY <1>2, <1>3, NameFacts DEF SoloInv, IInv, TypeOK, Exists
  <2>2. QED
    BY <1>3, <2>1, FinalFilesStay DEF SoloInv, WriteStateTmp, environment
<1>5. /\ pc[p] = "statewrite" /\ pc'[p] = "statepublish"
      /\ key'[p] = key[p] /\ state'[p] = state[p]
      /\ Exists(StateTmp)' /\ Read(StateTmp)' = state[p]
  BY <1>1, <1>3 DEF SoloInv, IInv, TypeOK, WriteStateTmp, Goto, Exists, Read
<1>6. ProgressInv'
  BY <1>4, <1>5 DEF Solo, SoloInv, ProgressInv, MakesKey, HasKey, HasState
<1>7. QED
  BY <1>4, <1>6 DEF KeyStays

\* There is no account, nor an account.json, before the key is published.
LEMMA PublishKeySolo ==
  ASSUME SoloInv, Solo, NEW p \in Procs, PublishKey(p)
  PROVE  FinalInv' /\ ProgressInv' /\ KeyStays
<1>1. /\ Exists(KeyTmp) /\ Read(KeyTmp) = key[p] /\ key[p] \in Keys
      /\ ~Exists(KeyFile) /\ KeyOnDisk = None
  BY DEF SoloInv, ProgressInv, IInv, RunInv, MakesKey, PublishKey, KeyOnDisk
<1>2. /\ \A e \in Envs, k \in Keys : account[e][k] = "none"
      /\ ~Exists(StateFile)
  BY <1>1, NoneAssumption, StateFacts
     DEF SoloInv, FinalInv, AccountKeyOnDisk, CacheMatchesKey
<1>3. /\ dir' = [dir EXCEPT ![KeyFile] = dir[KeyTmp], ![KeyTmp] = None]
      /\ pc' = [pc EXCEPT ![p] = "directory"]
  BY <1>1 DEF PublishKey, Publish, Goto
<1>4. Exists(KeyFile)' /\ KeyOnDisk' = key[p] /\ ~Exists(StateFile)'
  BY <1>1, <1>2, <1>3, NameFacts
     DEF SoloInv, IInv, TypeOK, PublishKey, KeyOnDisk, Exists, Read
<1>5. FinalInv'
  BY <1>1, <1>2, <1>4
     DEF FinalInv, AccountKeyOnDisk, CacheMatchesKey, PublishKey, environment
<1>6. ProgressInv'
  BY <1>3, <1>4 DEF Solo, SoloInv, IInv, TypeOK, ProgressInv, MakesKey,
     PublishKey, memory
<1>7. QED
  BY <1>1, <1>5, <1>6 DEF KeyStays

LEMMA PublishStateSolo ==
  ASSUME SoloInv, Solo, NEW p \in Procs, PublishState(p)
  PROVE  FinalInv' /\ ProgressInv' /\ KeyStays
<1>1. /\ Exists(StateTmp) /\ Read(StateTmp) = state[p] /\ KeyOnDisk = key[p]
      /\ state[p] \in States /\ state[p].account = key[p]
      /\ state[p].fingerprint = key[p]
  BY StateFacts DEF SoloInv, ProgressInv, IInv, AuthorizedInv, RecordsCoherent,
     Coherent,
     HasState, PublishState
<1>2. /\ dir' = [dir EXCEPT ![StateFile] = dir[StateTmp], ![StateTmp] = None]
      /\ pc' = [pc EXCEPT ![p] = "done"]
  BY <1>1 DEF PublishState, Publish, Goto
<1>3. /\ Exists(KeyFile)' = Exists(KeyFile) /\ KeyOnDisk' = KeyOnDisk
      /\ Read(StateFile)' = state[p]
  BY <1>1, <1>2, NameFacts
     DEF SoloInv, IInv, TypeOK, PublishState, KeyOnDisk, Exists, Read
<1>4. FinalInv'
  BY <1>1, <1>3 DEF SoloInv, FinalInv, AccountKeyOnDisk, CacheMatchesKey, PublishState,
                    environment
<1>5. ProgressInv'
  BY <1>1, <1>2, <1>3 DEF Solo, SoloInv, IInv, TypeOK, ProgressInv, MakesKey,
                          PublishState, memory
<1>6. QED
  BY <1>3, <1>4, <1>5 DEF KeyStays

LEMMA OutsideSolo ==
  ASSUME SoloInv, Solo,
         \/ \E e \in Envs, k \in Keys : Deactivate(e, k)
         \/ \E n \in Removable : RemoveFile(n)
         \/ CalmDown \/ UNCHANGED vars
  PROVE  FinalInv' /\ ProgressInv' /\ KeyStays
<1>1. CASE \E e \in Envs, k \in Keys : Deactivate(e, k)
  <2>1. \A d \in Envs, h \in Keys : account'[d][h] # "none" => account[d][h] # "none"
    BY <1>1 DEF SoloInv, IInv, TypeOK, Deactivate
  <2>2. QED
    BY <1>1, <2>1 DEF SoloInv, FinalInv, AccountKeyOnDisk, CacheMatchesKey, ProgressInv,
       KeyStays, KeyOnDisk, Exists, Read, Deactivate, files, memory
<1>2. CASE \E n \in Removable : RemoveFile(n)
  <2>1. RemoveFile(StateFile)
    BY <1>2, NameFacts DEF Solo
  <2>2. /\ Exists(KeyFile)' = Exists(KeyFile) /\ KeyOnDisk' = KeyOnDisk
        /\ ~Exists(StateFile)'
    BY <2>1, NameFacts DEF SoloInv, IInv, TypeOK, RemoveFile, KeyOnDisk, Exists, Read
  <2>3. ProgressInv'
    BY <2>1 DEF ProgressInv, RemoveFile, MakesKey, HasKey, HasState
  <2>4. QED
    BY <2>1, <2>2, <2>3
       DEF SoloInv, FinalInv, AccountKeyOnDisk, CacheMatchesKey, KeyStays,
       RemoveFile, environment
<1>3. CASE CalmDown \/ UNCHANGED vars
  BY <1>3 DEF SoloInv, FinalInv, AccountKeyOnDisk, CacheMatchesKey,
     ProgressInv, KeyStays,
     KeyOnDisk, Exists, Read, CalmDown, vars, files, memory, environment
<1>4. QED
  BY <1>1, <1>2, <1>3

LEMMA InitSolo ==
  ASSUME Init
  PROVE  SoloInv
<1>1. FinalInv /\ ProgressInv
  BY NameFacts DEF Init, FinalInv, AccountKeyOnDisk, CacheMatchesKey, ProgressInv,
     MakesKey, HasKey, HasState, Exists
<1>2. QED
  BY <1>1, InitIInv DEF SoloInv

LEMMA StepSolo ==
  ASSUME Solo, SoloInv, [Next]_vars
  PROVE  SoloInv' /\ KeyStays
<1>1. IInv'
  BY StepIInv DEF SoloInv
<1>2. FinalInv' /\ ProgressInv' /\ KeyStays
  BY MemorySolo, CreateSolo, OpenKeyTmpSolo, WriteKeyTmpSolo, PublishKeySolo,
     OpenStateTmpSolo, WriteStateTmpSolo, PublishStateSolo, OutsideSolo DEF Next, Step
<1>3. QED
  BY <1>1, <1>2 DEF SoloInv

LEMMA SoloInvariance == ASSUME Solo PROVE Spec => []SoloInv
<1>1. SoloInv /\ [Next]_vars => SoloInv'
  BY StepSolo
<1>2. QED
  BY <1>1, InitSolo, PTL DEF Spec

\* With one process at a time and an account.key that stays, no crash, lost
\* response or removal of account.json leaves an account without its key.
THEOREM AccountsKeepTheirKey == ASSUME Solo PROVE Spec => []AccountKeyOnDisk
<1>1. SoloInv => AccountKeyOnDisk
  BY DEF SoloInv, FinalInv
<1>2. QED
  BY <1>1, SoloInvariance, PTL

\* Then account.json, too, is whole and of the key, whenever it is there.
THEOREM CacheIsOfTheKey == ASSUME Solo PROVE Spec => []CacheMatchesKey
<1>1. SoloInv => CacheMatchesKey
  BY DEF SoloInv, FinalInv
<1>2. QED
  BY <1>1, SoloInvariance, PTL

\* And load_or_create never replaces a key that is on disk.
THEOREM KeysAreNotReplaced == ASSUME Solo PROVE Spec => KeyNeverReplaced
<1>1. SoloInv /\ [Next]_vars => [KeyOnDisk # None => KeyOnDisk' = KeyOnDisk]_vars
  BY StepSolo DEF KeyStays
<1>2. QED
  BY <1>1, SoloInvariance, PTL DEF Spec, KeyNeverReplaced

=============================================================================
