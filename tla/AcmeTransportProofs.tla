------------------------ MODULE AcmeTransportProofs ------------------------
(* For any set of calls, any retry budget and any number of nonces: a signed *)
(* POST takes effect at most once, callers are told the truth, the retry     *)
(* budget is spent on expired nonces only, and the retry loop implements     *)
(* AtMostOncePost. All four follow from the inductive invariant IInv.        *)
EXTENDS AcmeTransport, TLAPS

\* Between calls the client is idle, and the call in progress has no result.
CallInv == /\ pc = "idle" <=> call = NoCall
           /\ call \in Calls => result[call] = "none"

\* There is a response exactly while it is being handled.
ReplyInv == /\ pc = "reply" => reply.status # "none"
            /\ pc # "reply" => reply.status = "none"

\* Every nonce in use was issued; a POST carries one.
NonceInv == /\ live \subseteq 1 .. issued
            /\ nonce <= issued
            /\ reply.replay <= issued
            /\ \A r \in delayed : r.nonce <= issued
            /\ pc = "wire" => nonce # 0

\* A request still on its way belongs to a call that failed, one per call, and
\* it has not been performed.
DelayedInv == /\ \A r \in delayed : /\ result[r.call] = "error"
                                    /\ performed[r.call] = 0
              /\ \A r, s \in delayed : r.call = s.call => r = s

\* A call without a result was performed only if that is what the response at
\* hand says or hides.
PerformedInv ==
  /\ \A c \in Calls :
       result[c] = "none" /\ performed[c] # 0 =>
         c = call /\ pc = "reply" /\ reply.status \in {"ok", "error"}
  /\ pc = "reply" /\ reply.status = "ok" => performed[call] = 1

\* A repeated attempt carries a nonce that is new to the network, and each
\* attempt but the first that failed has cost the server a nonce.
RetryInv ==
  /\ pc = "first" => attempt = 0
  /\ pc \in {"sign", "wire"} /\ attempt > 0 =>
       /\ nonce # 0
       /\ \A r \in delayed : r.nonce # nonce
       /\ \/ voids[call] >= attempt
          \/ nonce \in live /\ voids[call] >= attempt - 1
  /\ pc = "refetch" => voids[call] >= attempt
  /\ pc = "reply" /\ reply.status = "badNonce" => voids[call] >= attempt

IInv == /\ TypeOK
        /\ CallInv
        /\ ReplyInv
        /\ NonceInv
        /\ DelayedInv
        /\ PerformedInv
        /\ RetryInv
        /\ AtMostOnce
        /\ ResultsAreTrue
        /\ GiveUpNeedsExpiry

\* The invariant holds of a new client object.
LEMMA InitIInv == Init => IInv
BY RetriesAssumption, NonceAssumption, NoCallAssumption
DEF Init, IInv, TypeOK, CallInv, ReplyInv, NonceInv, DelayedInv, PerformedInv,
    RetryInv, AtMostOnce, ResultsAreTrue, GiveUpNeedsExpiry, Points, Results,
    Nonces, Replies, NoReply

\* A response carries the status asked for and, at most, the nonce issued with
\* it; the server's nonces stay numbered from 1.
LEMMA RespondFacts ==
  ASSUME TypeOK, NonceInv, NEW status \in {"ok", "error", "badNonce"},
         NEW consumed, Respond(status, consumed)
  PROVE  /\ reply' \in Replies
         /\ reply'.status = status
         /\ reply'.replay <= issued'
         /\ issued' \in Nonces
         /\ issued <= issued'
         /\ live' \subseteq 1 .. issued'
         /\ live' \in SUBSET (1 .. MaxNonce)
         /\ pc' = "reply"
         /\ UNCHANGED <<call, attempt, nonce, result, delayed, voids>>
<1>1. issued \in 0 .. MaxNonce /\ live \subseteq 1 .. issued
  BY DEF TypeOK, NonceInv, Nonces
<1>2. pc' = "reply" /\ UNCHANGED <<call, attempt, nonce, result, delayed, voids>>
  BY DEF Respond
<1>3. CASE /\ reply' = [status |-> status, replay |-> 0]
           /\ live' = live \ consumed
           /\ UNCHANGED issued
  <2>1. \A n \in live' : n \in 1 .. issued' /\ n \in 1 .. MaxNonce
    BY <1>1, <1>3, NonceAssumption
  <2>2. reply' \in Replies /\ reply'.status = status /\ reply'.replay <= issued'
    BY <1>1, <1>3, NonceAssumption DEF Replies, Nonces
  <2>3. live' \subseteq 1 .. issued' /\ live' \in SUBSET (1 .. MaxNonce)
    BY <2>1
  <2>4. QED
    BY <1>1, <1>2, <1>3, <2>2, <2>3, NonceAssumption DEF Nonces
<1>4. CASE /\ issued < MaxNonce
           /\ issued' = issued + 1
           /\ reply' = [status |-> status, replay |-> issued + 1]
           /\ live' = (live \ consumed) \cup {issued + 1}
  <2>1. issued' \in Nonces /\ issued <= issued'
    BY <1>1, <1>4, NonceAssumption DEF Nonces
  <2>2. \A n \in live' : n \in 1 .. issued'
    BY <1>1, <1>4
  <2>3. live' \subseteq 1 .. issued' /\ live' \in SUBSET (1 .. MaxNonce)
    BY <2>1, <2>2, NonceAssumption DEF Nonces
  <2>4. reply' \in Replies /\ reply'.status = status /\ reply'.replay <= issued'
    BY <1>1, <1>4, <2>1 DEF Replies, Nonces
  <2>5. QED
    BY <1>2, <2>1, <2>3, <2>4
<1>5. QED
  BY <1>3, <1>4 DEF Respond

\* Every step of the client, the server and the network preserves it.
LEMMA StepIInv == IInv /\ [Next]_vars => IInv'
<1> SUFFICES ASSUME IInv, [Next]_vars PROVE IInv'
  OBVIOUS
<1> USE RetriesAssumption, NonceAssumption, NoCallAssumption
    DEF IInv, TypeOK, CallInv, ReplyInv, NonceInv, DelayedInv, PerformedInv,
        RetryInv, AtMostOnce, ResultsAreTrue, GiveUpNeedsExpiry, Points,
        Results, Nonces, Replies, NoReply, Return, client, server
<1>1. CASE \E c \in Calls : StartCall(c)
  BY <1>1 DEF StartCall
<1>2. CASE Sign
  BY <1>2 DEF Sign
<1>3. CASE HandleReply
  BY <1>3 DEF HandleReply
<1>4. CASE FetchNonce
  BY <1>4 DEF FetchNonce
<1>5. CASE FetchError
  BY <1>5 DEF FetchError
<1>6. CASE TransportError
  BY <1>6 DEF TransportError
<1>7. CASE ReplyLost
  BY <1>7 DEF ReplyLost
<1>8. CASE Perform
  <2>1. PICK status \in {"ok", "error"} : Respond(status, {nonce})
    BY <1>8 DEF Perform
  <2>2. /\ pc = "wire"
        /\ performed' = [performed EXCEPT ![call] = @ + 1]
    BY <1>8 DEF Perform
  <2> HIDE DEF Replies
  <2>3. TypeOK' /\ CallInv' /\ ReplyInv' /\ NonceInv'
    BY <2>1, <2>2, RespondFacts
  <2>4. DelayedInv' /\ PerformedInv' /\ RetryInv'
    BY <2>1, <2>2, RespondFacts
  <2>5. AtMostOnce' /\ ResultsAreTrue' /\ GiveUpNeedsExpiry'
    BY <2>1, <2>2, RespondFacts
  <2>6. QED
    BY <2>3, <2>4, <2>5
<1>9. CASE Refuse
  <2> HIDE DEF Replies
  <2>1. TypeOK' /\ CallInv' /\ ReplyInv' /\ NonceInv'
    BY <1>9, RespondFacts DEF Refuse
  <2>2. DelayedInv' /\ PerformedInv' /\ RetryInv'
    BY <1>9, RespondFacts DEF Refuse
  <2>3. AtMostOnce' /\ ResultsAreTrue' /\ GiveUpNeedsExpiry'
    BY <1>9, RespondFacts DEF Refuse
  <2>4. QED
    BY <2>1, <2>2, <2>3
<1>10. CASE RejectNonce
  <2> HIDE DEF Replies
  <2>1. TypeOK' /\ CallInv' /\ ReplyInv' /\ NonceInv'
    BY <1>10, RespondFacts DEF RejectNonce
  <2>2. DelayedInv' /\ PerformedInv' /\ RetryInv'
    BY <1>10, RespondFacts DEF RejectNonce
  <2>3. AtMostOnce' /\ ResultsAreTrue' /\ GiveUpNeedsExpiry'
    BY <1>10, RespondFacts DEF RejectNonce
  <2>4. QED
    BY <2>1, <2>2, <2>3
<1>11. CASE \E r \in delayed : ServeDelayed(r)
  <2>1. PICK r \in delayed : ServeDelayed(r)
    BY <1>11
  <2>2. TypeOK'
    <3>1. performed' \in [Calls -> Nat] /\ delayed' \in SUBSET [call : Calls, nonce : Nonces]
      BY <2>1 DEF ServeDelayed
    <3>2. QED
      BY <2>1, <3>1 DEF ServeDelayed
  <2>3. CallInv' /\ ReplyInv' /\ NonceInv'
    BY <2>1 DEF ServeDelayed
  <2>4. DelayedInv' /\ PerformedInv' /\ RetryInv'
    BY <2>1 DEF ServeDelayed
  <2>5. AtMostOnce' /\ ResultsAreTrue' /\ GiveUpNeedsExpiry'
    BY <2>1 DEF ServeDelayed
  <2>6. QED
    BY <2>2, <2>3, <2>4, <2>5
<1>12. CASE \E n \in live : VoidNonce(n)
  BY <1>12 DEF VoidNonce
<1>13. CASE UNCHANGED vars
  BY <1>13 DEF vars
<1>14. QED
  BY <1>1, <1>2, <1>3, <1>4, <1>5, <1>6, <1>7, <1>8, <1>9, <1>10, <1>11,
     <1>12, <1>13 DEF Next, Client, Serve

\* The invariant holds throughout.
LEMMA Invariance == Spec => []IInv
<1>1. Init => IInv
  BY InitIInv
<1>2. IInv /\ [Next]_vars => IInv'
  BY StepIInv
<1>3. QED
  BY <1>1, <1>2, PTL DEF Spec

\* The type invariant of the transport.
THEOREM TypeCorrect == Spec => []TypeOK
BY Invariance, PTL DEF IInv

\* No interleaving of retries, timeouts and late arrivals performs a signed
\* POST twice, for any number of calls and any bad_nonce_retries.
THEOREM PostsTakeEffectAtMostOnce == Spec => []AtMostOnce
BY Invariance, PTL DEF IInv

\* What signed_post_raw returns or raises is true of the server.
THEOREM CallersAreToldTheTruth == Spec => []ResultsAreTrue
BY Invariance, PTL DEF IInv

\* Giving up takes as many nonces that the server let expire meanwhile as there are
\* retries: of the attempts, one more, the first may have met a stale nonce.
THEOREM RetriesSuffice == Spec => []GiveUpNeedsExpiry
BY Invariance, PTL DEF IInv

-----------------------------------------------------------------------------
(* The retry loop implements AtMostOncePost.                                 *)

\* The end of a call is, for its caller, a success or a failure.
LEMMA ReturnRefines ==
  ASSUME IInv, NEW r \in {"ok", "error", "gaveup"}, call \in Calls, Return(r),
         UNCHANGED performed, r = "ok" => performed[call] = 1
  PROVE  Abstract!Next
<1>1. Phase[call] = "open"
  BY DEF Phase
<1>2. Phase' = [Phase EXCEPT ![call] = IF r = "ok" THEN "ok" ELSE "failed"]
  BY NoCallAssumption DEF Phase, Return, IInv, TypeOK
<1>3. CASE r = "ok"
  <2>1. Abstract!Succeed(call)
    BY <1>1, <1>2, <1>3 DEF Abstract!Succeed
  <2>2. QED
    BY <2>1 DEF Abstract!Next
<1>4. CASE r # "ok"
  <2>1. Abstract!Fail(call)
    BY <1>1, <1>2, <1>4 DEF Abstract!Fail
  <2>2. QED
    BY <2>1 DEF Abstract!Next
<1>5. QED
  BY <1>3, <1>4

\* A step that moves neither the call in progress nor a result is no step.
LEMMA PhaseStutters == UNCHANGED <<call, result>> => UNCHANGED Phase
BY DEF Phase

\* No call has been made at first.
LEMMA InitRefines == Init => Abstract!Init
BY NoCallAssumption DEF Init, Abstract!Init, Phase

\* A step is a step of AtMostOncePost or invisible to the caller.
LEMMA StepRefines == IInv /\ [Next]_vars => [Abstract!Next]_(Abstract!vars)
<1> SUFFICES ASSUME IInv, [Next]_vars
             PROVE  Abstract!Next \/ UNCHANGED <<Phase, performed>>
  BY DEF Abstract!vars
<1>1. ASSUME NEW c \in Calls, StartCall(c) PROVE Abstract!Next
  <2>1. /\ Phase[c] = "todo"
        /\ Phase' = [Phase EXCEPT ![c] = "open"]
        /\ UNCHANGED performed
    BY <1>1, NoCallAssumption
    DEF StartCall, Phase, IInv, TypeOK, CallInv, server
  <2>2. Abstract!Begin(c)
    BY <2>1 DEF Abstract!Begin
  <2>3. QED
    BY <2>2 DEF Abstract!Next
<1>2. ASSUME pc # "idle" PROVE call \in Calls
  BY <1>2 DEF IInv, TypeOK, CallInv
<1>3. CASE HandleReply
  <2>1. CASE reply.status = "badNonce"
    BY <1>3, <2>1, PhaseStutters DEF HandleReply, server
  <2>2. CASE reply.status # "badNonce"
    <3>1. Return(reply.status) /\ UNCHANGED performed /\ call \in Calls
      BY <1>2, <1>3, <2>2 DEF HandleReply, server
    <3>2. reply.status \in {"ok", "error"}
      BY <1>3, <2>2 DEF HandleReply, IInv, TypeOK, ReplyInv, Replies
    <3>3. reply.status = "ok" => performed[call] = 1
      BY <1>3 DEF HandleReply, IInv, PerformedInv
    <3>4. QED
      BY <3>1, <3>2, <3>3, ReturnRefines
  <2>3. QED
    BY <2>1, <2>2
<1>4. CASE FetchNonce
  <2>1. CASE pc = "refetch" /\ attempt = Retries
    <3>1. Return("gaveup") /\ UNCHANGED performed /\ call \in Calls
      BY <1>2, <1>4, <2>1 DEF FetchNonce
    <3>2. QED
      BY <3>1, ReturnRefines
  <2>2. CASE ~(pc = "refetch" /\ attempt = Retries)
    BY <1>4, <2>2, PhaseStutters DEF FetchNonce
  <2>3. QED
    BY <2>1, <2>2
<1>5. CASE FetchError \/ TransportError \/ ReplyLost
  <2>1. Return("error") /\ UNCHANGED performed /\ call \in Calls
    BY <1>2, <1>5 DEF FetchError, TransportError, ReplyLost, server
  <2>2. QED
    BY <2>1, ReturnRefines
<1>6. CASE Perform
  <2>1. /\ call \in Calls
        /\ UNCHANGED <<call, result>>
        /\ performed' = [performed EXCEPT ![call] = @ + 1]
    BY <1>2, <1>6 DEF Perform, Respond
  <2>2. performed[call] = 0
    BY <1>6, <2>1 DEF Perform, IInv, CallInv, PerformedInv
  <2>3. Phase[call] = "open" /\ UNCHANGED Phase
    BY <2>1, PhaseStutters DEF Phase
  <2>4. Abstract!Effect(call)
    BY <2>1, <2>2, <2>3 DEF Abstract!Effect, IInv, TypeOK
  <2>5. QED
    BY <2>1, <2>4 DEF Abstract!Next
<1>7. ASSUME NEW r \in delayed, ServeDelayed(r)
      PROVE  Abstract!Next \/ UNCHANGED <<Phase, performed>>
  <2>1. /\ r.call \in Calls
        /\ performed[r.call] = 0
        /\ result[r.call] = "error"
        /\ call # r.call
    BY <1>7, NoCallAssumption DEF IInv, TypeOK, DelayedInv, CallInv
  <2>2. UNCHANGED Phase
    BY <1>7, PhaseStutters DEF ServeDelayed, client
  <2>3. Phase[r.call] = "failed"
    BY <2>1 DEF Phase
  <2>4. CASE performed' = [performed EXCEPT ![r.call] = @ + 1]
    <3>1. Abstract!Effect(r.call)
      BY <2>1, <2>2, <2>3, <2>4 DEF Abstract!Effect, IInv, TypeOK
    <3>2. QED
      BY <2>1, <3>1 DEF Abstract!Next
  <2>5. CASE UNCHANGED performed
    BY <2>2, <2>5
  <2>6. QED
    BY <1>7, <2>4, <2>5 DEF ServeDelayed
<1>8. CASE Sign \/ Refuse \/ RejectNonce \/ (\E n \in live : VoidNonce(n))
           \/ UNCHANGED vars
  BY <1>8, PhaseStutters
  DEF Sign, Refuse, RejectNonce, Respond, VoidNonce, client, server, vars
<1>9. QED
  BY <1>1, <1>3, <1>4, <1>5, <1>6, <1>7, <1>8 DEF Next, Client, Serve

\* For its callers signed_post_raw is an at-most-once POST.
THEOREM Refinement == Spec => ImplementsAtMostOnce
<1>1. Init => Abstract!Init
  BY InitRefines
<1>2. IInv /\ [Next]_vars => [Abstract!Next]_(Abstract!vars)
  BY StepRefines
<1>3. QED
  BY <1>1, <1>2, Invariance, PTL DEF Spec, ImplementsAtMostOnce, Abstract!Spec

-----------------------------------------------------------------------------
(* The end of a call, step by step                                           *)

\* What is ahead of a call is a number of steps, 4 * Retries + 6 at most.
LEMMA StepsLeftBound ==
  ASSUME TypeOK
  PROVE  StepsLeft \in 0 .. (4 * Retries + 6)
BY RetriesAssumption DEF TypeOK, Points, StepsLeft

LEMMA StepAdvances ==
  ASSUME IInv, [Next]_vars, call # NoCall
  PROVE  \/ UNCHANGED <<pc, call, attempt, nonce>>
         \/ call' = NoCall
         \/ call' = call /\ StepsLeft' < StepsLeft
<1> DEFINE Nearer == \/ UNCHANGED <<pc, call, attempt, nonce>>
                     \/ call' = NoCall
                     \/ call' = call /\ StepsLeft' < StepsLeft
<1>1. pc # "idle" /\ attempt \in 0 .. Retries /\ nonce \in Nat /\ issued \in Nat
  BY NonceAssumption DEF IInv, TypeOK, CallInv, Nonces
<1> USE RetriesAssumption DEF StepsLeft
<1>2. CASE Sign
  BY <1>1, <1>2 DEF Sign
<1>3. CASE Serve
  BY <1>1, <1>3 DEF Serve, Perform, Refuse, RejectNonce, Respond
<1>4. CASE HandleReply
  BY <1>1, <1>4 DEF HandleReply, Return
<1>5. CASE FetchNonce
  BY <1>1, <1>5 DEF FetchNonce, Return, IInv, RetryInv
<1>6. CASE FetchError \/ TransportError \/ ReplyLost
  BY <1>6 DEF FetchError, TransportError, ReplyLost, Return
<1>7. CASE \/ \E r \in delayed : ServeDelayed(r)
           \/ \E n \in live : VoidNonce(n)
           \/ UNCHANGED vars
  BY <1>7 DEF ServeDelayed, VoidNonce, client, vars
<1>8. QED
  BY <1>1, <1>2, <1>3, <1>4, <1>5, <1>6, <1>7 DEF Next, Client, StartCall

\* A signed POST takes at most 4 * Retries + 6 steps, for any retry budget and
\* whatever the server does: no reply of it makes the loop start over.
THEOREM CallsComeToAnEnd == Spec => CallsAdvance
<1>1. IInv /\ [Next]_vars =>
        [call # NoCall => \/ UNCHANGED <<pc, call, attempt, nonce>>
                          \/ call' = NoCall
                          \/ call' = call /\ StepsLeft' < StepsLeft]_vars
  BY StepAdvances
<1>2. QED
  BY <1>1, Invariance, PTL DEF Spec, CallsAdvance

=============================================================================
