--------------------------- MODULE AccountPromise ---------------------------
(* What AcmeClient.prepare_account promises to whoever runs it again and     *)
(* again on one account directory, one process at a time, for either         *)
(* environment, killed or failing at any point: the first key it saves is    *)
(* the only one; only a saved key is registered, and only while no account   *)
(* is cached; a prepared client has the saved key and an account that its    *)
(* server knows; and one environment's cached account is never replaced by   *)
(* the other's, nor used for it.                                             *)
CONSTANTS Envs,             \* environments, each an ACME server
          Keys,             \* private keys
          None

VARIABLES saved,            \* the key in account.key
          cached,           \* the server of the account in account.json
          account,          \* account[e][k]: server e's account for key k
          clients           \* what the prepared client acts with, if there is one

vars == <<saved, cached, account, clients>>

Init == /\ saved = None
        /\ cached = None
        /\ account = [e \in Envs |-> [k \in Keys |-> "none"]]
        /\ clients = {}

SaveKey == /\ saved = None
           /\ saved' \in Keys
           /\ UNCHANGED <<cached, account, clients>>

\* newAccount is performed; perhaps the run never learns of it.
Register(e) == /\ saved # None
               /\ cached = None
               /\ clients = {}
               /\ account[e][saved] = "none"
               /\ account' = [account EXCEPT ![e][saved] = "valid"]
               /\ UNCHANGED <<saved, cached, clients>>

\* prepare_account returns, its account saved for later runs.
Prepare(e) == /\ clients = {}
              /\ saved # None
              /\ cached \in {None, e}
              /\ account[e][saved] # "none"
              /\ cached' = e
              /\ clients' = {[server |-> e, key |-> saved]}
              /\ UNCHANGED <<saved, account>>

\* The process that held the client is gone.
Release == /\ clients # {}
           /\ clients' = {}
           /\ UNCHANGED <<saved, cached, account>>

\* The operator removes account.json.
Forget == /\ clients = {}
          /\ cached # None
          /\ cached' = None
          /\ UNCHANGED <<saved, account, clients>>

\* The server's operator deactivates or revokes an account.
Deactivate(e, k) == /\ account[e][k] = "valid"
                    /\ account' = [account EXCEPT ![e][k] = "deactivated"]
                    /\ UNCHANGED <<saved, cached, clients>>

Next == \/ SaveKey \/ Release \/ Forget
        \/ \E e \in Envs : Register(e) \/ Prepare(e)
        \/ \E e \in Envs, k \in Keys : Deactivate(e, k)

Spec == Init /\ [][Next]_vars

-----------------------------------------------------------------------------
(* What the one who runs the commands has of it                              *)

\* A server knows the saved key and no other, so that an environment never has
\* two accounts of one directory.
OneAccountPerServer ==
  \A e \in Envs, k \in Keys : account[e][k] # "none" => k = saved

\* While a client is in use, the account it acts with is the cached one, of its
\* own environment and the saved key, and known to the server.
ClientsActAsCached ==
  \A c \in clients : /\ c = [server |-> cached, key |-> saved]
                     /\ account[cached][saved] # "none"

\* The cached account of an environment goes only when it is removed.
CacheIsKept == [][cached # None => cached' \in {cached, None}]_vars
=============================================================================
