---------------------------- MODULE AcmeTransport ----------------------------
(* Signed ACME POSTs: AcmeClient.signed_post_raw, _signed_post_once and       *)
(* fetch_nonce of acme_core/client.py, one client object against an ACME      *)
(* server and a network that delays and loses. The calls are made one after   *)
(* the other, as the program does; a caller may go on after a failed call     *)
(* (authorization_diagnostics does). Nonces are numbered in the order the     *)
(* server issues them; 0 stands for None.                                     *)
EXTENDS Naturals

CONSTANTS Calls,            \* the signed POSTs the program makes
          NoCall,           \* no call is being made
          Retries,          \* AcmeClient.bad_nonce_retries
          MaxNonce          \* bound: nonces the server issues

ASSUME RetriesAssumption == Retries \in Nat
ASSUME NonceAssumption == MaxNonce \in Nat
ASSUME NoCallAssumption == NoCall \notin Calls

VARIABLES pc,               \* where the client stands, see Points
          call,             \* the call being made
          attempt,          \* `attempt` of the loop in signed_post_raw
          nonce,            \* AcmeClient.nonce
          reply,            \* the HTTP response of the current attempt
          result,           \* result[c]: how call c ended
          issued,           \* number of nonces the server has issued
          live,             \* the nonces the server would accept
          delayed,          \* requests the client no longer waits for
          performed,        \* performed[c]: how often the server performed c
          voids             \* voids[c]: how often, while c was being made, the
                            \* server voided the nonce the client held

client == <<pc, call, attempt, nonce, result>>
server == <<issued, live, performed, voids>>
vars == <<pc, call, attempt, nonce, reply, result, issued, live, delayed,
          performed, voids>>

\* "sign": entry of _signed_post_once; "first": fetch_nonce for want of a
\* nonce; "wire": the POST is under way; "reply": its response is at hand;
\* "refetch": fetch_nonce in the handler of AcmeBadNonceError.
Points == {"idle", "sign", "first", "wire", "reply", "refetch"}
Results == {"none", "ok", "error", "gaveup"}
Nonces == 0 .. MaxNonce
Replies == [status : {"none", "ok", "error", "badNonce"}, replay : Nonces]
NoReply == [status |-> "none", replay |-> 0]

TypeOK ==
  /\ pc \in Points
  /\ call \in Calls \cup {NoCall}
  /\ attempt \in 0 .. Retries
  /\ nonce \in Nonces
  /\ reply \in Replies
  /\ result \in [Calls -> Results]
  /\ issued \in Nonces
  /\ live \in SUBSET (1 .. MaxNonce)
  /\ delayed \in SUBSET [call : Calls, nonce : Nonces]
  /\ performed \in [Calls -> Nat]
  /\ voids \in [Calls -> Nat]

Init ==
  /\ pc = "idle"
  /\ call = NoCall
  /\ attempt = 0
  /\ nonce = 0
  /\ reply = NoReply
  /\ result = [c \in Calls |-> "none"]
  /\ issued = 0
  /\ live = {}
  /\ delayed = {}
  /\ performed = [c \in Calls |-> 0]
  /\ voids = [c \in Calls |-> 0]

----------------------------------------------------------------------------
(* The client                                                                *)

\* The call ends: signed_post_raw returns or raises.
Return(r) ==
  /\ result' = [result EXCEPT ![call] = r]
  /\ call' = NoCall
  /\ pc' = "idle"

\* The loop `for attempt in range(self.bad_nonce_retries + 1)` is entered.
StartCall(c) ==
  /\ pc = "idle"
  /\ result[c] = "none"
  /\ call' = c
  /\ attempt' = 0
  /\ pc' = "sign"
  /\ UNCHANGED <<nonce, reply, result, server, delayed>>

\* nonce = self.nonce or self.fetch_nonce()
Sign ==
  /\ pc = "sign"
  /\ pc' = IF nonce = 0 THEN "first" ELSE "wire"
  /\ UNCHANGED <<call, attempt, nonce, reply, result, server, delayed>>

\* Mutant of TransportError: a timeout is retried like a badNonce.
RetryAfterTimeout ==
  /\ pc = "wire"
  /\ pc' = "refetch"
  /\ delayed' = delayed \cup {[call |-> call, nonce |-> nonce]}
  /\ UNCHANGED <<call, result, attempt, nonce, reply, server>>

\* session.post raised: self.nonce keeps the nonce that was sent. The request
\* is perhaps lost, perhaps still on its way to the server.
TransportError ==
  /\ pc = "wire"
  /\ Return("error")
  /\ delayed' = delayed \cup {[call |-> call, nonce |-> nonce]}
  /\ UNCHANGED <<attempt, nonce, reply, server>>

\* The same, when it is the response that does not arrive.
ReplyLost ==
  /\ pc = "reply"
  /\ Return("error")
  /\ reply' = NoReply
  /\ UNCHANGED <<attempt, nonce, server, delayed>>

\* Mutants of HandleReply: an error is taken for a success; the nonce is not
\* fetched again before the retry.
ErrorIsOk ==
  /\ pc = "reply"
  /\ nonce' = IF reply.replay # 0 THEN reply.replay ELSE nonce
  /\ IF reply.status = "badNonce"
       THEN pc' = "refetch" /\ UNCHANGED <<call, result>>
       ELSE Return("ok")
  /\ reply' = NoReply
  /\ UNCHANGED <<attempt, server, delayed>>
RetryOldNonce ==
  /\ pc = "reply"
  /\ nonce' = IF reply.replay # 0 THEN reply.replay ELSE nonce
  /\ IF reply.status = "badNonce"
       THEN pc' = "sign" /\ UNCHANGED <<call, result>>
       ELSE Return(reply.status)
  /\ reply' = NoReply
  /\ UNCHANGED <<attempt, server, delayed>>

\* A Replay-Nonce header is kept whatever the status; then a status of 400 or
\* more raises, AcmeBadNonceError alone being caught by the retry loop.
HandleReply ==
  /\ pc = "reply"
  /\ nonce' = IF reply.replay # 0 THEN reply.replay ELSE nonce
  /\ IF reply.status = "badNonce"
       THEN pc' = "refetch" /\ UNCHANGED <<call, result>>
       ELSE Return(reply.status)
  /\ reply' = NoReply
  /\ UNCHANGED <<attempt, server, delayed>>

\* Mutants of FetchNonce: one retry more than the budget allows; a nonce that is
\* already there is not replaced.
RetryOnceMore ==
  /\ pc \in {"first", "refetch"}
  /\ issued < MaxNonce
  /\ issued' = issued + 1
  /\ live' = live \cup {issued + 1}
  /\ nonce' = issued + 1
  /\ IF pc = "refetch" /\ attempt > Retries
       THEN Return("gaveup") /\ UNCHANGED attempt
       ELSE /\ attempt' = IF pc = "refetch" THEN attempt + 1 ELSE attempt
            /\ pc' = "sign"
            /\ UNCHANGED <<call, result>>
  /\ UNCHANGED <<reply, delayed, performed, voids>>
KeepOldNonce ==
  /\ pc \in {"first", "refetch"}
  /\ issued < MaxNonce
  /\ issued' = issued + 1
  /\ live' = live \cup {issued + 1}
  /\ nonce' = IF nonce = 0 THEN issued + 1 ELSE nonce
  /\ IF pc = "refetch" /\ attempt = Retries
       THEN Return("gaveup") /\ UNCHANGED attempt
       ELSE /\ attempt' = IF pc = "refetch" THEN attempt + 1 ELSE attempt
            /\ pc' = "sign"
            /\ UNCHANGED <<call, result>>
  /\ UNCHANGED <<reply, delayed, performed, voids>>

\* fetch_nonce delivers (HEAD, or GET after a 405): in the retry handler it
\* does so after the last attempt too, and then signed_post_raw gives up.
FetchNonce ==
  /\ pc \in {"first", "refetch"}
  /\ issued < MaxNonce
  /\ issued' = issued + 1
  /\ live' = live \cup {issued + 1}
  /\ nonce' = issued + 1
  /\ IF pc = "refetch" /\ attempt = Retries
       THEN Return("gaveup") /\ UNCHANGED attempt
       ELSE /\ attempt' = IF pc = "refetch" THEN attempt + 1 ELSE attempt
            /\ pc' = "sign"
            /\ UNCHANGED <<call, result>>
  /\ UNCHANGED <<reply, delayed, performed, voids>>

\* fetch_nonce raises: no connection, an error status or no Replay-Nonce.
FetchError ==
  /\ pc \in {"first", "refetch"}
  /\ Return("error")
  /\ UNCHANGED <<attempt, nonce, reply, server, delayed>>

----------------------------------------------------------------------------
(* The server and the network (external)                                     *)

\* A response with the given status, with or without a Replay-Nonce.
Respond(status, consumed) ==
  /\ pc' = "reply"
  /\ \/ /\ reply' = [status |-> status, replay |-> 0]
        /\ live' = live \ consumed
        /\ UNCHANGED issued
     \/ /\ issued < MaxNonce
        /\ issued' = issued + 1
        /\ reply' = [status |-> status, replay |-> issued + 1]
        /\ live' = (live \ consumed) \cup {issued + 1}
  /\ UNCHANGED <<call, attempt, nonce, result, delayed, voids>>

\* A live nonce is used up, and the server performs the request; what it
\* answers may still be an error (a failing gateway, say).
Perform ==
  /\ pc = "wire"
  /\ nonce \in live
  /\ performed' = [performed EXCEPT ![call] = @ + 1]
  /\ \E status \in {"ok", "error"} : Respond(status, {nonce})

\* A live nonce is used up, and the server refuses the request.
Refuse ==
  /\ pc = "wire"
  /\ nonce \in live
  /\ Respond("error", {nonce})
  /\ UNCHANGED performed

\* The nonce is used or expired: nothing is performed.
RejectNonce ==
  /\ pc = "wire"
  /\ nonce \notin live
  /\ Respond("badNonce", {})
  /\ UNCHANGED performed

\* A request reaches the server after the client stopped waiting for it.
ServeDelayed(r) ==
  /\ r.nonce \in live
  /\ live' = live \ {r.nonce}
  /\ delayed' = delayed \ {r}
  /\ \/ performed' = [performed EXCEPT ![r.call] = @ + 1]
     \/ UNCHANGED performed
  /\ UNCHANGED <<client, reply, issued, voids>>

\* The server lets a nonce expire.
VoidNonce(n) ==
  /\ live' = live \ {n}
  /\ voids' = IF call # NoCall /\ n = nonce
                THEN [voids EXCEPT ![call] = @ + 1] ELSE voids
  /\ UNCHANGED <<client, reply, issued, delayed, performed>>

----------------------------------------------------------------------------
Serve == Perform \/ Refuse \/ RejectNonce

Client == \/ \E c \in Calls : StartCall(c)
          \/ Sign \/ HandleReply \/ FetchNonce \/ FetchError
          \/ TransportError \/ ReplyLost

Next == \/ Client
        \/ Serve
        \/ \E r \in delayed : ServeDelayed(r)
        \/ \E n \in live : VoidNonce(n)

\* The client runs on by itself, and every HTTP exchange ends within
\* timeout_seconds: with the response or with an exception (TransportError,
\* ReplyLost, FetchError are steps of Client).
Fairness == WF_vars(Client)

Spec == Init /\ [][Next]_vars /\ Fairness

----------------------------------------------------------------------------
(* Properties                                                                *)

\* A signed POST takes effect at most once, however its retries, its timeout
\* and a late arrival of the timed-out request interleave: signed_post_raw
\* repeats a request only after badNonce, which says it was not performed.
AtMostOnce == \A c \in Calls : performed[c] <= 1

\* What the caller is told is true of the server: success only of a request
\* that was performed, and "failed after badNonce retries" only of one that
\* was not and will not be, no copy of it being still on its way.
ResultsAreTrue ==
  \A c \in Calls :
    /\ result[c] = "ok" => performed[c] = 1
    /\ result[c] = "gaveup" => /\ performed[c] = 0
                               /\ \A r \in delayed : r.call # c

\* The retry budget is spent only on nonces the server let expire in between:
\* a used nonce left in self.nonce by an earlier call (lost response, missing
\* Replay-Nonce) costs the first attempt and no more.
GiveUpNeedsExpiry ==
  \A c \in Calls : result[c] = "gaveup" => voids[c] >= Retries

\* signed_post_raw returns or raises in the end, whatever the server does.
CallsReturn == \A c \in Calls : call = c ~> call # c

\* What is still ahead of the call in progress, if it ends no sooner: four steps
\* of each further attempt, and the rest of this one.
StepsLeft == 4 * (Retries - attempt) +
               CASE pc = "sign" -> IF nonce = 0 THEN 6 ELSE 4
                 [] pc = "first" -> 5
                 [] pc = "wire" -> 3
                 [] pc = "reply" -> 2
                 [] pc = "refetch" -> 1
                 [] pc = "idle" -> 0

\* CallsReturn, step by step: whatever the client does, and whatever the server
\* and the network do with its request, ends the call or brings its end nearer.
CallsAdvance ==
  [][call # NoCall => \/ UNCHANGED <<pc, call, attempt, nonce>>
                      \/ call' = NoCall
                      \/ call' = call /\ StepsLeft' < StepsLeft]_vars

\* The calls as their caller sees them implement AtMostOncePost.
Phase == [c \in Calls |->
            IF c = call THEN "open"
            ELSE CASE result[c] = "none" -> "todo"
                   [] result[c] = "ok" -> "ok"
                   [] OTHER -> "failed"]

Abstract == INSTANCE AtMostOncePost WITH phase <- Phase, effects <- performed

\* Every step of the retry loop, the server and the network is a step of
\* AtMostOncePost or changes nothing its caller can see.
ImplementsAtMostOnce == Abstract!Spec
=============================================================================
