---------------------------- MODULE AccountStore ----------------------------
(* The local ACME account: AcmeClient.prepare_account with AcmeKeyManager's  *)
(* load_or_create, save_state and load_state, run by processes that share    *)
(* one account directory, may crash between any two steps and are run again. *)
(* The directory is modelled as the file system sees it: names that refer to *)
(* inodes, so that a temporary file shared by two processes behaves as it    *)
(* does: the second open truncates what the first is writing.                *)
(*                                                                           *)
(* An account is named by its server and the key it was registered with: the *)
(* server returns the same account URL for the same key. Each environment    *)
(* (staging, production) is a server of its own with its own nonces; nothing *)
(* keeps runs for both off one account directory.                            *)
EXTENDS Naturals

CONSTANTS Procs,            \* processes that use the account directory
          Envs,             \* environments, each an ACME server
          Keys,             \* private keys that may be generated
          None,             \* no file, no key, no content
          Torn,             \* a record with the end of a longer one after it
          InodeCount,       \* bound: inodes of the directory's file system
          MaxRuns,          \* bound: runs begun while faults may happen
          Removable         \* files the operator may remove between runs

Inodes == 1 .. InodeCount
KeyFile == "account.key"
KeyTmp == ".account.key.tmp"
StateFile == "account.json"
StateTmp == ".account.json.tmp"
Names == {KeyFile, KeyTmp, StateFile, StateTmp}

\* AcmeAccountState: acme_base_url, the account (server and key of account_url),
\* account_key_fingerprint, status. "deactivated" stands for "revoked" too.
Statuses == {"valid", "deactivated"}
States == [base : Envs, server : Envs, account : Keys, fingerprint : Keys,
           status : Statuses]

ASSUME NoneAssumption == None \notin Keys \cup Envs \cup States \cup Nat
ASSUME KeyAssumption == \A k \in Keys : k \notin States
ASSUME TornAssumption == Torn \notin Keys \cup States \cup {None}
ASSUME InodeAssumption == InodeCount \in Nat
ASSUME RemovableAssumption == Removable \subseteq {KeyFile, StateFile}

VARIABLES dir,              \* dir[name]: the inode a name refers to
          content,          \* content[i]: what is in inode i; None if empty
          pc,               \* pc[p]: where process p stands
          env,              \* env[p]: the server of p's (last) run
          nonce,            \* nonce[p]: the server that issued AcmeClient.nonce
          key,              \* key[p]: AcmeClient.private_key
          state,            \* state[p]: AcmeClient.account_state
          fd,               \* fd[p]: the inode p has open for writing
          account,          \* account[e][k]: server e's account for key k
          generated,        \* keys generated so far
          runs,             \* runs begun
          calm              \* no fault, crash or intervention from now on

files == <<dir, content>>
memory == <<nonce, key, state, fd>>
environment == <<env, account, generated, runs, calm>>
vars == <<files, pc, memory, environment>>

Points == {"off", "key", "keyopen", "keywrite", "keypublish", "directory",
           "cache", "verify", "create", "fetchobject", "stateopen",
           "statewrite", "statepublish", "done", "failed"}

TypeOK ==
  /\ dir \in [Names -> Inodes \cup {None}]
  /\ content \in [Inodes -> Keys \cup States \cup {None, Torn}]
  /\ pc \in [Procs -> Points]
  /\ env \in [Procs -> Envs \cup {None}]
  /\ nonce \in [Procs -> Envs \cup {None}]
  /\ key \in [Procs -> Keys \cup {None}]
  /\ state \in [Procs -> States \cup {None}]
  /\ fd \in [Procs -> Inodes \cup {None}]
  /\ account \in [Envs -> [Keys -> Statuses \cup {"none"}]]
  /\ generated \in SUBSET Keys
  /\ runs \in Nat
  /\ calm \in BOOLEAN

Init ==
  /\ dir = [n \in Names |-> None]
  /\ content = [i \in Inodes |-> None]
  /\ pc = [p \in Procs |-> "off"]
  /\ env = [p \in Procs |-> None]
  /\ nonce = [p \in Procs |-> None]
  /\ key = [p \in Procs |-> None]
  /\ state = [p \in Procs |-> None]
  /\ fd = [p \in Procs |-> None]
  /\ account = [e \in Envs |-> [k \in Keys |-> "none"]]
  /\ generated = {}
  /\ runs = 0
  /\ calm = FALSE

Exists(n) == dir[n] # None
Read(n) == content[dir[n]]
Goto(p, point) == pc' = [pc EXCEPT ![p] = point]

----------------------------------------------------------------------------
(* Files                                                                     *)

FreeInodes == Inodes \ ({dir[n] : n \in Names} \cup {fd[p] : p \in Procs})
NewInode == CHOOSE i \in FreeInodes : TRUE

\* Mutant of OpenTmp: mode "x", the temporary file must not exist.
OpenTmpExclusive(p, tmp) ==
  /\ ~Exists(tmp) /\ FreeInodes # {}
  /\ dir' = [dir EXCEPT ![tmp] = NewInode]
  /\ content' = [content EXCEPT ![NewInode] = None]
  /\ fd' = [fd EXCEPT ![p] = NewInode]

\* open(tmp, "w"): truncates the file if the name exists, else creates it.
OpenTmp(p, tmp) ==
  LET i == IF Exists(tmp) THEN dir[tmp] ELSE NewInode
  IN /\ Exists(tmp) \/ FreeInodes # {}
     /\ dir' = [dir EXCEPT ![tmp] = i]
     /\ content' = [content EXCEPT ![i] = None]
     /\ fd' = [fd EXCEPT ![p] = i]

\* The data is written and the file closed; the inode may have been renamed.
WriteTmp(p, data) ==
  /\ content' = [content EXCEPT ![fd[p]] = data]
  /\ fd' = [fd EXCEPT ![p] = None]
  /\ UNCHANGED dir

\* os.chmod and os.replace: each fails if the temporary name is gone.
Publish(p, tmp, final, next) ==
  IF Exists(tmp)
    THEN /\ dir' = [dir EXCEPT ![final] = dir[tmp], ![tmp] = None]
         /\ Goto(p, next)
    ELSE UNCHANGED dir /\ Goto(p, "failed")

----------------------------------------------------------------------------
(* prepare_account                                                           *)

\* Mutant of Begin: account.json without account.key is let pass.
BeginUnchecked(p, e) ==
  /\ pc[p] = "off"
  /\ calm \/ runs < MaxRuns
  /\ runs' = IF calm THEN runs ELSE runs + 1
  /\ env' = [env EXCEPT ![p] = e]
  /\ Goto(p, "key")
  /\ UNCHANGED <<files, memory, account, generated, calm>>

\* A run for environment e begins; a command run again once all is calm is the
\* same command. An account.json without account.key ends the run at once.
Begin(p, e) ==
  /\ pc[p] = "off"
  /\ calm \/ runs < MaxRuns
  /\ calm => env[p] \in {None, e}
  /\ runs' = IF calm THEN runs ELSE runs + 1
  /\ env' = [env EXCEPT ![p] = e]
  /\ IF Exists(StateFile) /\ ~Exists(KeyFile)
       THEN Goto(p, "failed") ELSE Goto(p, "key")
  /\ UNCHANGED <<files, memory, account, generated, calm>>

\* load_or_create finds the key file: load() raises on an empty one.
LoadKey(p) ==
  /\ pc[p] = "key"
  /\ Exists(KeyFile)
  /\ IF Read(KeyFile) \in Keys
       THEN key' = [key EXCEPT ![p] = Read(KeyFile)] /\ Goto(p, "directory")
       ELSE UNCHANGED key /\ Goto(p, "failed")
  /\ UNCHANGED <<files, nonce, state, fd, environment>>

\* Mutant of GenerateKey: an existing key file is not looked for.
GenerateAlways(p) ==
  /\ pc[p] = "key"
  /\ \E k \in Keys \ generated : /\ key' = [key EXCEPT ![p] = k]
                                 /\ generated' = generated \cup {k}
  /\ Goto(p, "keyopen")
  /\ UNCHANGED <<files, nonce, state, fd, env, account, runs, calm>>

\* Mutant of GenerateKey: the new key is used before it is saved.
GenerateUnsaved(p) ==
  /\ pc[p] = "key"
  /\ ~Exists(KeyFile)
  /\ \E k \in Keys \ generated : /\ key' = [key EXCEPT ![p] = k]
                                 /\ generated' = generated \cup {k}
  /\ Goto(p, "directory")
  /\ UNCHANGED <<files, nonce, state, fd, env, account, runs, calm>>

\* load_or_create finds none: a new key.
GenerateKey(p) ==
  /\ pc[p] = "key"
  /\ ~Exists(KeyFile)
  /\ \E k \in Keys \ generated : /\ key' = [key EXCEPT ![p] = k]
                                 /\ generated' = generated \cup {k}
  /\ Goto(p, "keyopen")
  /\ UNCHANGED <<files, nonce, state, fd, env, account, runs, calm>>

OpenKeyTmp(p) ==
  /\ pc[p] = "keyopen"
  /\ OpenTmp(p, KeyTmp)
  /\ Goto(p, "keywrite")
  /\ UNCHANGED <<nonce, key, state, environment>>

WriteKeyTmp(p) ==
  /\ pc[p] = "keywrite"
  /\ WriteTmp(p, key[p])
  /\ Goto(p, "keypublish")
  /\ UNCHANGED <<nonce, key, state, environment>>

PublishKey(p) ==
  /\ pc[p] = "keypublish"
  /\ Publish(p, KeyTmp, KeyFile, "directory")
  /\ UNCHANGED <<content, memory, environment>>

\* discover_directory and fetch_nonce, both at the server of the run.
Discover(p) ==
  /\ pc[p] = "directory"
  /\ nonce' = [nonce EXCEPT ![p] = env[p]]
  /\ Goto(p, "cache")
  /\ UNCHANGED <<files, key, state, fd, environment>>

\* The cached state, if there is one, is loaded; an empty or torn one raises.
ReadCache(p) ==
  /\ pc[p] = "cache"
  /\ IF ~Exists(StateFile) THEN Goto(p, "create") /\ UNCHANGED state
     ELSE IF Read(StateFile) \in States
       THEN state' = [state EXCEPT ![p] = Read(StateFile)] /\ Goto(p, "verify")
       ELSE UNCHANGED state /\ Goto(p, "failed")
  /\ UNCHANGED <<files, nonce, key, fd, environment>>

\* Mutant of Remember: the fingerprint is taken from account.key.
RememberFromDisk(p, server, a, status) ==
  state' = [state EXCEPT ![p] =
              [base |-> env[p], server |-> server, account |-> a,
               status |-> status,
               fingerprint |-> IF Exists(KeyFile) THEN Read(KeyFile) ELSE key[p]]]

\* account_state_from_object: the client's own base URL, the account's URL, the
\* fingerprint of the key in memory and the status.
Remember(p, server, a, status) ==
  state' = [state EXCEPT ![p] =
              [base |-> env[p], server |-> server, account |-> a,
               fingerprint |-> key[p], status |-> status]]

\* The server that the cached account URL is at knows the key as its account.
Acknowledges(server, p) == /\ state[p].account = key[p]
                           /\ account[server][key[p]] # "none"

\* POST-as-GET of the cached account URL, signed with the key in memory, when
\* the server it names issued the nonce. The server knows the account's key; the
\* object may lack its status, and the cached one stands then. The reply brings
\* that server's next nonce.
Verify(p) ==
  LET server == state[p].server IN
  /\ pc[p] = "verify"
  /\ nonce[p] = server
  /\ \/ /\ Acknowledges(server, p)
        /\ \E s \in {account[server][key[p]], state[p].status} :
             /\ s = "valid"
             /\ Remember(p, server, state[p].account, s)
             /\ Goto(p, "stateopen")
     \/ /\ \/ ~Acknowledges(server, p)
           \/ "valid" # account[server][key[p]]
           \/ "valid" # state[p].status
        /\ Goto(p, "failed")
        /\ UNCHANGED state
  /\ UNCHANGED <<files, nonce, key, fd, environment>>

\* Mutant of BadNonce: the nonce that came with the error is used.
BadNonceReplayed(p) ==
  /\ pc[p] = "verify"
  /\ nonce[p] # state[p].server
  /\ nonce' = [nonce EXCEPT ![p] = state[p].server]
  /\ UNCHANGED <<files, pc, key, state, fd, environment>>

\* The cached account URL is at another server, which refuses the nonce. Its
\* error brings a nonce of its own, but signed_post_raw fetches the next one from
\* the client's directory, so no retry is accepted and the run fails.
BadNonce(p) ==
  /\ pc[p] = "verify"
  /\ nonce[p] # state[p].server
  /\ nonce' = [nonce EXCEPT ![p] = env[p]]
  /\ Goto(p, "failed")
  /\ UNCHANGED <<files, key, state, fd, environment>>

\* newAccount at the run's server registers the key unless it has an account.
Register(p) ==
  account' = [account EXCEPT ![env[p]][key[p]] =
                IF @ = "none" THEN "valid" ELSE @]

\* Mutant of Create: the status is the one the account had before newAccount.
CreateStale(p) ==
  /\ pc[p] = "create"
  /\ Register(p)
  /\ \/ /\ Remember(p, env[p], key[p], account[env[p]][key[p]])
        /\ Goto(p, "stateopen")
     \/ Goto(p, "fetchobject") /\ UNCHANGED state
     \/ Goto(p, "failed") /\ UNCHANGED state /\ ~calm
  /\ UNCHANGED <<files, nonce, key, fd, env, generated, runs, calm>>

\* newAccount signed with the key itself: the server registers it or returns
\* the account the key has; the response may lack a body.
Create(p) ==
  /\ pc[p] = "create"
  /\ Register(p)
  /\ \/ /\ \E s \in {account'[env[p]][key[p]], "valid"} :
             Remember(p, env[p], key[p], s)
        /\ Goto(p, "stateopen")
     \/ Goto(p, "fetchobject") /\ UNCHANGED state
     \/ Goto(p, "failed") /\ UNCHANGED state /\ ~calm
  /\ UNCHANGED <<files, nonce, key, fd, env, generated, runs, calm>>

\* account_object: the account is fetched after a newAccount without a body.
FetchObject(p) ==
  /\ pc[p] = "fetchobject"
  /\ \E s \in {account[env[p]][key[p]], "valid"} : Remember(p, env[p], key[p], s)
  /\ Goto(p, "stateopen")
  /\ UNCHANGED <<files, nonce, key, fd, environment>>

\* Mutant of OpenStateTmp: account.json is written in place.
OpenStateFile(p) ==
  /\ pc[p] = "stateopen"
  /\ OpenTmp(p, StateFile)
  /\ Goto(p, "statewrite")
  /\ UNCHANGED <<nonce, key, state, environment>>

OpenStateTmp(p) ==
  /\ pc[p] = "stateopen"
  /\ OpenTmp(p, StateTmp)
  /\ Goto(p, "statewrite")
  /\ UNCHANGED <<nonce, key, state, environment>>

\* Over the longer record of another process the new one is no JSON. (Keys are
\* of one length.)
WriteStateTmp(p) ==
  /\ pc[p] = "statewrite"
  /\ \E data \in {state[p]} \cup IF content[fd[p]] = None THEN {} ELSE {Torn} :
       WriteTmp(p, data)
  /\ Goto(p, "statepublish")
  /\ UNCHANGED <<nonce, key, state, environment>>

PublishState(p) ==
  /\ pc[p] = "statepublish"
  /\ Publish(p, StateTmp, StateFile, "done")
  /\ UNCHANGED <<content, memory, environment>>

----------------------------------------------------------------------------
(* What goes wrong, and who intervenes                                       *)

\* An HTTP exchange fails before the server acts (after it: see Create).
NetworkFault(p) ==
  /\ ~calm
  /\ pc[p] \in {"directory", "verify", "create", "fetchobject"}
  /\ Goto(p, "failed")
  /\ UNCHANGED <<files, memory, environment>>

\* The process is gone: killed at any point, or exited at the end of its run.
Stop(p) ==
  /\ pc[p] # "off"
  /\ calm => pc[p] = "failed"
  /\ Goto(p, "off")
  /\ nonce' = [nonce EXCEPT ![p] = None]
  /\ key' = [key EXCEPT ![p] = None]
  /\ state' = [state EXCEPT ![p] = None]
  /\ fd' = [fd EXCEPT ![p] = None]
  /\ UNCHANGED <<files, environment>>

\* The server's operator deactivates or revokes an account.
Deactivate(e, k) ==
  /\ ~calm
  /\ account[e][k] = "valid"
  /\ account' = [account EXCEPT ![e][k] = "deactivated"]
  /\ UNCHANGED <<files, memory, pc, env, generated, runs, calm>>

\* The account directory's owner removes a file while no process runs.
RemoveFile(n) ==
  /\ ~calm
  /\ \A p \in Procs : pc[p] = "off"
  /\ Exists(n)
  /\ dir' = [dir EXCEPT ![n] = None]
  /\ UNCHANGED <<content, memory, pc, environment>>

\* Faults and interventions come to an end.
CalmDown ==
  /\ ~calm
  /\ calm' = TRUE
  /\ UNCHANGED <<files, memory, pc, env, account, generated, runs>>

----------------------------------------------------------------------------
Step(p) == \/ LoadKey(p) \/ GenerateKey(p) \/ OpenKeyTmp(p) \/ WriteKeyTmp(p)
           \/ PublishKey(p) \/ Discover(p) \/ ReadCache(p) \/ Verify(p)
           \/ BadNonce(p) \/ Create(p) \/ FetchObject(p) \/ OpenStateTmp(p)
           \/ WriteStateTmp(p) \/ PublishState(p)

Next == \/ \E p \in Procs : \/ \E e \in Envs : Begin(p, e)
                            \/ Step(p) \/ NetworkFault(p) \/ Stop(p)
        \/ \E e \in Envs, k \in Keys : Deactivate(e, k)
        \/ \E n \in Removable : RemoveFile(n)
        \/ CalmDown

\* A process runs on by itself; the operator runs the command again when it
\* failed; faults do not go on for ever. Used for recovery only.
Fairness == /\ \A p \in Procs : /\ WF_vars(Step(p))
                                /\ WF_vars(calm /\ ((\E e \in Envs : Begin(p, e)) \/ Stop(p)))
            /\ WF_vars(CalmDown)

Spec == Init /\ [][Next]_vars
FairSpec == Spec /\ Fairness

----------------------------------------------------------------------------
(* Properties                                                                *)

KeyOnDisk == IF Exists(KeyFile) THEN Read(KeyFile) ELSE None

\* One process at a time: an account known to the server always has its key on
\* disk, so no crash, lost response or removal of account.json orphans an
\* account or makes a later run register a second one. (The key file is
\* published before newAccount is sent.)
AccountKeyOnDisk ==
  \A e \in Envs, k \in Keys : account[e][k] # "none" => KeyOnDisk = k

\* One process at a time: account.json, whenever it is there, is complete and
\* is the account of the key in account.key (save_state replaces it whole).
CacheMatchesKey ==
  Exists(StateFile) => /\ Read(StateFile) \in States
                       /\ Read(StateFile).account = KeyOnDisk
                       /\ Read(StateFile).fingerprint = KeyOnDisk

\* One process at a time: the durable key is never replaced.
KeyNeverReplaced ==
  [][KeyOnDisk # None => KeyOnDisk' = KeyOnDisk]_vars

\* The account directory and the clients as the one who runs the commands sees
\* them, one process at a time.
CachedServer == IF Exists(StateFile) THEN Read(StateFile).server ELSE None

Clients == {[server |-> env[p], key |-> key[p]] :
              p \in {q \in Procs : pc[q] = "done"}}

Promise == INSTANCE AccountPromise
             WITH saved <- KeyOnDisk, cached <- CachedServer, clients <- Clients

\* One process at a time: runs that crash, fail and are begun again, for either
\* environment, keep AccountPromise: no key but the saved one is registered, none
\* while an account is cached, and no environment's cached account gives way to
\* the other's.
ImplementsAccountPromise == Promise!Spec

ForeignCache(p) == /\ Exists(StateFile)
                   /\ Read(StateFile) \in States
                   /\ Read(StateFile).server # env[p]

\* Faults have stopped, and nothing that p cannot help bars its account.
Hopeful(p) == /\ calm /\ env[p] # None
              /\ ~ForeignCache(p)
              /\ \A k \in Keys : account[env[p]][k] # "deactivated"

\* One process at a time: whatever files earlier runs left behind when they
\* crashed or failed, the account is prepared once faults stop, unless it was
\* deactivated or account.json is of another environment.
Recovers == \A p \in Procs : Hopeful(p) ~> pc[p] = "done"

\* How many points lie before prepare_account's return, one rerun included.
Ahead(point) ==
  CASE point = "failed" -> 13
    [] point = "off" -> 12
    [] point = "key" -> 11
    [] point = "keyopen" -> 10
    [] point = "keywrite" -> 9
    [] point = "keypublish" -> 8
    [] point = "directory" -> 7
    [] point = "cache" -> 6
    [] point \in {"verify", "create"} -> 5
    [] point = "fetchobject" -> 4
    [] point = "stateopen" -> 3
    [] point = "statewrite" -> 2
    [] point = "statepublish" -> 1
    [] point = "done" -> 0

\* Recovers, step by step: once faults have stopped, no run fails again on
\* anything that crashed ones left behind, and every step comes nearer.
RecoversStepByStep ==
  [][\A p \in Procs : Hopeful(p) =>
        /\ Hopeful(p)'
        /\ pc'[p] # pc[p] => Ahead(pc'[p]) < Ahead(pc[p])]_vars

\* Any number of processes: once a key is on disk and nobody is creating one,
\* it stays until it is removed: only first runs that overlap replace each
\* other's key.
Settled == /\ KeyOnDisk \in Keys
           /\ \A p \in Procs :
                pc[p] \notin {"keyopen", "keywrite", "keypublish"}
SettledKeyStays ==
  [][Settled /\ Exists(KeyFile)' => Settled' /\ KeyOnDisk' = KeyOnDisk]_vars

\* Any number of processes: the key on disk is the only one in use, by a process
\* or by an account, as it is once the first run has been alone. Overlapping runs
\* of either environment keep it so until the key is removed.
OneKeyInUse == /\ Settled
               /\ \A p \in Procs : key[p] \in {None, KeyOnDisk}
               /\ AccountKeyOnDisk
OneKeyStays == [][OneKeyInUse /\ Exists(KeyFile)' => OneKeyInUse']_vars

\* docs/configuration.md:81-84, any number of processes: no key is generated
\* beside an account.json whose account.key is gone; the run fails instead.
NewKeyOnlyWithoutCache == [][generated' # generated => ~Exists(StateFile)]_vars

\* Any number of processes: no record of an account, on disk or in memory,
\* mixes the account of one key with the fingerprint of another or the account
\* URL of one environment with the base URL of the other, although processes
\* load and overwrite each other's files.
Coherent(record) == /\ record.account = record.fingerprint
                    /\ record.server = record.base
RecordsCoherent ==
  /\ \A i \in Inodes : content[i] \in States => Coherent(content[i])
  /\ \A p \in Procs : state[p] # None => Coherent(state[p])

\* Any number of processes, of both environments: a prepared client signs with
\* the key of the account it names, at the server of its own run, and that
\* server has the account: a client of one environment never goes on with the
\* account another environment's run has cached in the directory.
PreparedClientIsAuthorized ==
  \A p \in Procs : pc[p] = "done" => /\ state[p].account = key[p]
                                     /\ state[p].server = env[p]
                                     /\ account[env[p]][key[p]] # "none"

\* docs/peeringhub.md:37, "the issued certificate belongs with account.key":
\* once every process is done, the key a prepared client goes on to certify is
\* the one in account.key.
Quiescent == \A p \in Procs : pc[p] \in {"off", "done", "failed"}
PreparedKeyIsOnDisk ==
  Quiescent => \A p \in Procs : pc[p] = "done" => key[p] = KeyOnDisk

\* client.py:597, "Persist account state atomically": nobody finds account.json
\* there and incomplete.
CacheIsWhole == Exists(StateFile) => Read(StateFile) \in States
=============================================================================
