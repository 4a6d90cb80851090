--------------------------- MODULE IssuanceProofs ---------------------------
(* For any timeout, interval, token lifetime, latency and number of retries: *)
(* poll_order gives up only on an order that was late, a token that expires  *)
(* before it is presented has met with rejected nonces, finalize is sent     *)
(* only to a ready order, issue keeps IssuancePromise and ends in time.      *)
EXTENDS Issuance, TLAPS

\* The answer is what was wanted, or final.
Fresh(status) == status \in {want, "invalid"}

\* The run is over exactly when it has an outcome; only then may a request of
\* its own still be under way.
EndInv == /\ pc = "ended" <=> outcome # "running"
          /\ pending # None => pc = "ended"

\* The token's life at each exchange from its check to its presentation: what
\* was asked of it less the time that has passed.
TokenInv ==
  /\ pc = "crl" => life + elapsed >= MinLifetime
  /\ pc = "order" => life + elapsed + MaxLatency + extra >= MinLifetime
  /\ pc = "authorization" => life + elapsed + 2 * MaxLatency + extra >= MinLifetime
  /\ pc = "challenge" => life + elapsed + 3 * MaxLatency + extra >= MinLifetime

\* A ready order, once seen, is ready or has failed until it is finalized.
ReadyInv ==
  /\ pc = "examine" /\ want = "ready" /\ seen = "ready"
       => order \in {"ready", "invalid"}
  /\ Reply("fetch") /\ want = "ready" /\ answer = "ready"
       => order \in {"ready", "invalid"}
  /\ pc = "finalize" /\ wire # "reply" => order \in {"ready", "invalid"}

\* After the order became what is wanted, poll_order spends at most the rest of
\* a request, an interval and another request, retries apart, before it looks.
MarginInv ==
  /\ Polling /\ margin > 0 => Fresh(order)
  /\ pc = "fetch" => left + elapsed + MaxLatency + PollInterval + extra >= margin
  /\ Reply("fetch") /\ ~Fresh(answer) => left + elapsed >= margin
  /\ pc = "examine" =>
       /\ left + 2 * MaxLatency + PollInterval + extra >= margin
       /\ ~Fresh(seen) => left + MaxLatency >= margin
  /\ pc = "sleep" => left + MaxLatency + PollInterval + extra >= margin + nap

\* Only the first nonce of all is asked for before a POST.
AttemptInv == attempt = 0 => \/ pc = "ended"
                             \/ pc = "account" /\ wire \in {"head", "get"}

\* Finalization precedes the CA's work on the order, which precedes the
\* certificate, which precedes its download.
CertificateInv ==
  /\ order = "valid" <=> certificate # None
  /\ order \in {"processing", "valid"} => asked
  /\ pc = "finalize" => asked
  /\ pending = "finalize" => asked
  /\ want = "valid" => asked
  /\ Polling /\ want = "ready" => ~asked
  /\ pc \in Plain \cup {"account", "object", "order", "authorization", "challenge"}
       => ~asked
  /\ pc = "order" /\ wire # "reply" => order = None
  /\ pc \in Plain \cup {"account", "object"} => order = None
  /\ Reply("download") => order = "valid"

IInv == /\ TypeOK
        /\ EndInv
        /\ TokenInv
        /\ ReadyInv
        /\ MarginInv
        /\ AttemptInv
        /\ CertificateInv
        /\ TimeoutMeansLate

\* The invariant holds at the start of a run.
LEMMA InitIInv == Init => IInv
<1> SUFFICES ASSUME Init PROVE IInv
  OBVIOUS
<1> USE TimeAssumption, CountAssumption, NoneAssumption DEF Init, Signed, Plain
<1>1. TypeOK
  <2>1. asked \in BOOLEAN
    BY Zenon
  <2>2. QED
    BY <2>1 DEF TypeOK, Points, Exchanges, Outcomes, OrderStatuses, Certificates
<1>2. EndInv /\ TokenInv /\ ReadyInv /\ MarginInv /\ AttemptInv /\ TimeoutMeansLate
  BY DEF EndInv, TokenInv, ReadyInv, MarginInv, AttemptInv, TimeoutMeansLate, Polling,
     Reply
<1>3. CertificateInv
  <2>1. ~asked
    BY Zenon
  <2>2. QED
    BY <2>1 DEF CertificateInv, Polling, Reply, OrderStatuses, Exchanges, Certificates
<1>4. QED
  BY <1>1, <1>2, <1>3 DEF IInv

\* Every step of the client, the servers and the clock preserves it.
LEMMA StepIInv == IInv /\ [Next]_vars => IInv'
<1> SUFFICES ASSUME IInv, [Next]_vars PROVE IInv'
  OBVIOUS
<1> USE TimeAssumption, CountAssumption, NoneAssumption
    DEF IInv, TypeOK, EndInv, TokenInv, ReadyInv, MarginInv, AttemptInv,
    CertificateInv, TimeoutMeansLate,
    Polling, Fresh, Reply, Points, Exchanges, Outcomes, OrderStatuses,
    ChallengeStatuses, Certificates, Signed, Plain, clock, server, run, poll, history,
    client, Send, Begin, Goto, End, Request, OrderBecomes
<1>1. CASE DirectoryDiscovered \/ AccountWithoutBody \/ AccountPrepared \/ LoggedIn
           \/ TokenReceived \/ CrlDownloaded \/ OrderCreated
  BY <1>1 DEF Proceed, DirectoryDiscovered, AccountWithoutBody, AccountPrepared, LoggedIn,
     TokenReceived, CrlDownloaded, OrderCreated
<1>2. CASE AcceptToken
  BY <1>2 DEF AcceptToken
<1>3. CASE RejectToken
  BY <1>3 DEF RejectToken
<1>4. CASE FindChallenge
  BY <1>4 DEF FindChallenge
<1>5. CASE ChallengeSubmitted
  BY <1>5 DEF ChallengeSubmitted, StartPoll
<1>6. CASE Fetched
  BY <1>6 DEF Fetched
<1>7. CASE PollTimesOut
  BY <1>7 DEF PollTimesOut
<1>8. CASE FinalizeReady
  BY <1>8 DEF FinalizeReady
<1>9. CASE CsrFails
  BY <1>9 DEF CsrFails
<1>10. CASE DownloadValid
  BY <1>10 DEF DownloadValid
<1>11. CASE PollFails
  BY <1>11 DEF PollFails
<1>12. CASE PollSleeps
  BY <1>12 DEF PollSleeps
<1>13. CASE Wake
  BY <1>13 DEF Wake
<1>14. CASE Diagnosed
  BY <1>14 DEF Diagnosed
<1>15. CASE OrderFinalized
  BY <1>15 DEF OrderFinalized, StartPoll
<1>16. CASE Downloaded
  BY <1>16 DEF Downloaded
<1>17. CASE ExchangeFails
  BY <1>17 DEF ExchangeFails
<1>18. CASE ServePlain
  BY <1>18 DEF ServePlain
<1>19. CASE ServeToken
  BY <1>19 DEF ServeToken
<1>20. CASE ServeNewOrder
  BY <1>20 DEF ServeNewOrder
<1>21. CASE ServeAuthorization
  BY <1>21 DEF ServeAuthorization
<1>22. CASE ServeChallenge
  BY <1>22 DEF ServeChallenge
<1>23. CASE ServeOrder
  BY <1>23 DEF ServeOrder
<1>24. CASE ServeFinalize
  BY <1>24 DEF ServeFinalize
<1>25. CASE ServeLate
  <2>1. pc = "ended"
    BY <1>25 DEF ServeLate
  <2>2. TypeOK'
    BY <1>25, <2>1 DEF ServeLate
  <2>3. CertificateInv' /\ ReadyInv'
    BY <1>25, <2>1 DEF ServeLate
  <2>4. EndInv' /\ TokenInv' /\ MarginInv' /\ AttemptInv' /\ TimeoutMeansLate'
    BY <1>25, <2>1 DEF ServeLate
  <2>5. QED
    BY <2>2, <2>3, <2>4
<1>26. CASE DecideChallenge
  BY <1>26 DEF DecideChallenge
<1>27. CASE OrderFails
  BY <1>27 DEF OrderFails
<1>28. CASE IssueCertificate
  <2>1. TypeOK'
    BY <1>28 DEF IssueCertificate
  <2>2. EndInv' /\ TokenInv' /\ ReadyInv' /\ AttemptInv' /\ CertificateInv'
    BY <1>28 DEF IssueCertificate
  <2>3. MarginInv' /\ TimeoutMeansLate'
    BY <1>28 DEF IssueCertificate
  <2>4. QED
    BY <2>1, <2>2, <2>3
<1>29. CASE Tick
  BY <1>29 DEF Tick, Minus1
<1>30. CASE Renew
  BY <1>30 DEF Renew, BadNonce, HeadRefused, NonceFetched, Repeat
<1>31. CASE UNCHANGED vars
  BY <1>31 DEF vars
<1>32. QED
  BY <1>1, <1>2, <1>3, <1>4, <1>5, <1>6, <1>7, <1>8, <1>9, <1>10, <1>11,
     <1>12, <1>13, <1>14, <1>15, <1>16, <1>17, <1>18, <1>19, <1>20, <1>21,
     <1>22, <1>23, <1>24, <1>25, <1>26, <1>27, <1>28, <1>29, <1>30, <1>31
  DEF Next, Client, Serve

\* The invariant holds throughout.
LEMMA Invariance == Spec => []IInv
<1>1. Init => IInv
  BY InitIInv
<1>2. IInv /\ [Next]_vars => IInv'
  BY StepIInv
<1>3. QED
  BY <1>1, <1>2, PTL DEF Spec

\* The type invariant of the issuance run.
THEOREM TypeCorrect == Spec => []TypeOK
BY Invariance, PTL DEF IInv

\* For every timeout, interval and latency, poll_order gives up only on an
\* order that became what was wanted too late.
THEOREM PollFindsWhatCameInTime == Spec => []TimeoutMeansLate
BY Invariance, PTL DEF IInv

\* For every minimum lifetime: a token that is presented to the ACME server after
\* it expired was held up by rejected nonces, if the minimum exceeds the four
\* requests it takes without them; how far it may exceed them the theorem says,
\* too.
THEOREM TokenIsPresentedAlive == Spec => []TokenLiveWhenPresented
<1>1. IInv => TokenLiveWhenPresented
  BY TimeAssumption DEF IInv, TypeOK, TokenInv, TokenLiveWhenPresented
<1>2. QED
  BY <1>1, Invariance, PTL

\* No finalize request is sent to an order that was not ready.
THEOREM FinalizeFollowsReady == Spec => []FinalizeOnlyWhenReady
<1>1. IInv => FinalizeOnlyWhenReady
  BY DEF IInv, ReadyInv, FinalizeOnlyWhenReady
<1>2. QED
  BY <1>1, Invariance, PTL

-----------------------------------------------------------------------------
(* issue keeps IssuancePromise.                                              *)

\* Nothing has been asked for or issued at first.
LEMMA InitRefines == Init => Promise!Init
BY DEF Init, Promise!Init, PromisedOutcome

\* Ways to end a run that is not over yet and got no certificate.
LEMMA RaiseRefines ==
  ASSUME outcome = "running", outcome' \in {"error", "timeout", "terminal"},
         UNCHANGED <<asked, certificate>>
  PROVE  Promise!Next
BY DEF Promise!Next, Promise!Raise, PromisedOutcome

\* A step of the run is a step of IssuancePromise or invisible to its caller.
LEMMA StepRefines == IInv /\ [Next]_vars => [Promise!Next]_(Promise!vars)
<1> SUFFICES ASSUME IInv, [Next]_vars
             PROVE  Promise!Next
                    \/ UNCHANGED <<PromisedOutcome, asked, certificate>>
  BY DEF Promise!vars
<1>1. CASE UNCHANGED <<outcome, asked, certificate>>
  BY <1>1 DEF PromisedOutcome
<1>2. CASE RejectToken \/ PollTimesOut \/ CsrFails \/ ExchangeFails
  <2>1. outcome = "running"
    BY <1>2 DEF RejectToken, PollTimesOut, CsrFails, ExchangeFails,
                Reply, Exchanges, Signed, Plain, IInv, TypeOK, EndInv
  <2>2. /\ outcome' \in {"error", "timeout", "terminal"}
        /\ UNCHANGED <<asked, certificate>>
    BY <1>2 DEF RejectToken, PollTimesOut, CsrFails, ExchangeFails, End, Goto, server
  <2>3. QED
    BY <2>1, <2>2, RaiseRefines
<1>3. CASE FindChallenge
  <2>1. CASE outcome' = "error"
    <3>1. outcome = "running" /\ UNCHANGED <<asked, certificate>>
      BY <1>3 DEF FindChallenge, Reply, IInv, EndInv, End, Goto, run, server
    <3>2. QED
      BY <2>1, <3>1, RaiseRefines
  <2>2. CASE outcome' # "error"
    BY <1>1, <1>3, <2>2 DEF FindChallenge, End, run, server
  <2>3. QED
    BY <2>1, <2>2
<1>4. CASE FinalizeReady
  <2>1. outcome = "running" /\ ~asked
    BY <1>4 DEF FinalizeReady, IInv, EndInv, CertificateInv, Polling
  <2>2. asked' = TRUE /\ UNCHANGED <<outcome, certificate>>
    BY <1>4 DEF FinalizeReady, server
  <2>3. Promise!Ask
    BY <2>1, <2>2 DEF Promise!Ask, PromisedOutcome
  <2>4. QED
    BY <2>3 DEF Promise!Next
<1>5. CASE Downloaded
  <2>1. outcome = "running" /\ certificate \in Certificates
    BY <1>5 DEF Downloaded, Reply, IInv, TypeOK, EndInv, CertificateInv
  <2>2. UNCHANGED <<asked, certificate>>
    BY <1>5 DEF Downloaded, End, server
  <2>3. CASE certificate = "good"
    <3>1. Promise!Succeed
      BY <1>5, <2>1, <2>2, <2>3
      DEF Downloaded, End, Promise!Succeed, PromisedOutcome
    <3>2. QED
      BY <3>1 DEF Promise!Next
  <2>4. CASE certificate = "bad"
    <3>1. Promise!Retain
      BY <1>5, <2>1, <2>2, <2>4
      DEF Downloaded, End, Promise!Retain, PromisedOutcome
    <3>2. QED
      BY <3>1 DEF Promise!Next
  <2>5. CASE certificate = "garbled"
    <3>1. outcome' = "error"
      BY <1>5, <2>5 DEF Downloaded, End
    <3>2. QED
      BY <2>1, <2>2, <3>1, RaiseRefines
  <2>6. QED
    BY <2>1, <2>3, <2>4, <2>5 DEF Certificates
<1>6. CASE IssueCertificate
  <2>1. asked /\ certificate = None
    BY <1>6 DEF IssueCertificate, IInv, CertificateInv
  <2>2. UNCHANGED <<PromisedOutcome, asked>> /\ certificate' \in Certificates
    BY <1>6 DEF IssueCertificate, run, PromisedOutcome
  <2>3. Promise!IssueCertificate
    BY <2>1, <2>2
    DEF Promise!IssueCertificate, Certificates, Promise!Certificates
  <2>4. QED
    BY <2>3 DEF Promise!Next
<1>7. CASE \/ DirectoryDiscovered \/ AccountWithoutBody \/ AccountPrepared \/ LoggedIn
           \/ TokenReceived \/ CrlDownloaded \/ OrderCreated \/ AcceptToken
           \/ ChallengeSubmitted \/ Fetched \/ DownloadValid \/ PollSleeps \/ Wake
           \/ OrderFinalized
  BY <1>1, <1>7 DEF Proceed, DirectoryDiscovered, AccountWithoutBody, AccountPrepared,
     LoggedIn, TokenReceived, CrlDownloaded, OrderCreated, AcceptToken,
     ChallengeSubmitted, Fetched, DownloadValid, PollSleeps, Wake, OrderFinalized, run,
     server
<1>8. CASE PollFails \/ Diagnosed
  <2>1. outcome = "running" /\ UNCHANGED <<asked, certificate>>
    BY <1>8 DEF PollFails, Diagnosed, IInv, EndInv, End, Goto, run, server
  <2>2. outcome' = "terminal" \/ UNCHANGED outcome
    BY <1>8 DEF PollFails, Diagnosed, End, run
  <2>3. QED
    BY <1>1, <2>1, <2>2, RaiseRefines
<1>9. CASE ServeFinalize
  <2>1. asked /\ certificate = None /\ UNCHANGED <<asked, outcome>>
    BY <1>9, NoneAssumption
    DEF ServeFinalize, Request, run, IInv, TypeOK, CertificateInv, OrderStatuses
  <2>2. CASE UNCHANGED certificate
    BY <1>1, <2>1, <2>2
  <2>3. CASE certificate' \in Certificates
    <3>1. Promise!IssueCertificate
      BY <2>1, <2>3
      DEF PromisedOutcome, Promise!IssueCertificate, Certificates, Promise!Certificates
    <3>2. QED
      BY <3>1 DEF Promise!Next
  <2>4. QED
    BY <1>9, <2>2, <2>3 DEF ServeFinalize
<1>10. CASE \/ ServePlain \/ ServeToken \/ ServeNewOrder \/ ServeAuthorization
            \/ ServeChallenge \/ ServeOrder \/ ServeLate
            \/ DecideChallenge \/ OrderFails \/ Tick \/ UNCHANGED vars
  BY <1>1, <1>10 DEF ServePlain, ServeToken, ServeNewOrder,
     ServeAuthorization, ServeChallenge, ServeOrder, ServeLate,
     Request, DecideChallenge, OrderFails, Tick, vars, run, server
<1>11. CASE Renew
  BY <1>1, <1>11 DEF Renew, BadNonce, HeadRefused, NonceFetched, Repeat, run, server
<1>12. QED
  BY <1>2, <1>3, <1>4, <1>5, <1>6, <1>7, <1>8, <1>9, <1>10, <1>11
  DEF Next, Client, Serve

\* For its callers a run of issue behaves as IssuancePromise says.
THEOREM PromiseKept == Spec => ImplementsPromise
<1>1. Init => Promise!Init
  BY InitRefines
<1>2. IInv /\ [Next]_vars => [Promise!Next]_(Promise!vars)
  BY StepRefines
<1>3. QED
  BY <1>1, <1>2, Invariance, PTL DEF Spec, ImplementsPromise, Promise!Spec

-----------------------------------------------------------------------------
(* The end of issue, step by step                                            *)

\* An interval of no length lets poll_order go round without an end.
PollsPause == PollInterval > 0

Nearer == \/ Stage' < Stage
          \/ /\ Stage' = Stage
             /\ \/ TimeLeft' < TimeLeft
                \/ TimeLeft' = TimeLeft /\ RequestsLeft' < RequestsLeft
                \/ /\ TimeLeft' = TimeLeft /\ RequestsLeft' = RequestsLeft
                   /\ Rest' < Rest

\* The requests that an exchange may still send run down with every one sent.
LEMMA RequestsLeftBound ==
  ASSUME TypeOK
  PROVE  RequestsLeft \in 0 .. (3 * Retries + 5)
<1> USE CountAssumption DEF TypeOK
<1>1. 3 * (Retries + 1 - attempt) \in 0 .. (3 * Retries + 3)
  OBVIOUS
<1>2. QED
  BY <1>1 DEF RequestsLeft, SignedRequests

\* What runs down is bounded, and has an end.
LEMMA RunsDownFromBound ==
  ASSUME TypeOK
  PROVE  /\ Stage \in 0 .. 15
         /\ TimeLeft \in 0 .. (PollTimeout + MaxListed)
         /\ RequestsLeft \in 0 .. (3 * Retries + 5)
         /\ Rest \in 0 .. (MaxLatency + PollInterval + 3)
<1> USE TimeAssumption, CountAssumption
    DEF TypeOK, Points, Exchanges, Signed, Plain, Polling
<1>1. Stage \in 0 .. 15
  BY DEF Stage
<1>2. TimeLeft \in 0 .. (PollTimeout + MaxListed)
  BY DEF TimeLeft
<1>3. Rest \in 0 .. (MaxLatency + PollInterval + 3)
  BY DEF Rest
<1>4. QED
  BY <1>1, <1>2, <1>3, RequestsLeftBound

\* No step goes back, and one that moves the client or the clock goes ahead.
LEMMA StepAdvances ==
  ASSUME PollsPause, TypeOK, [Next]_vars
  PROVE  UNCHANGED <<pc, wire, attempt, clock, want, listed>> \/ Nearer
<1> USE TimeAssumption, CountAssumption
    DEF TypeOK, PollsPause, Nearer, Exchanges, Signed, Plain, Points, Polling, Reply,
        clock, server, run, poll, client, Send, Begin, Goto, End
<1>1. CASE \/ DirectoryDiscovered \/ AccountWithoutBody \/ AccountPrepared \/ LoggedIn
           \/ TokenReceived \/ AcceptToken \/ CrlDownloaded \/ OrderCreated
           \/ FindChallenge
  BY <1>1 DEF Stage, DirectoryDiscovered, AccountWithoutBody, AccountPrepared, LoggedIn,
     TokenReceived, AcceptToken, CrlDownloaded, OrderCreated, FindChallenge, Proceed
<1>2. CASE ChallengeSubmitted \/ OrderFinalized
  BY <1>2 DEF Stage, ChallengeSubmitted, OrderFinalized, StartPoll
<1>3. CASE FinalizeReady \/ DownloadValid \/ PollFails
  BY <1>3 DEF Stage, FinalizeReady, DownloadValid, PollFails
<1>4. CASE RejectToken \/ PollTimesOut \/ CsrFails \/ Downloaded \/ ExchangeFails
  BY <1>4 DEF Stage, RejectToken, PollTimesOut, CsrFails, Downloaded, ExchangeFails
<1>5. CASE Fetched \/ PollSleeps \/ Wake
  BY <1>5 DEF Stage, TimeLeft, RequestsLeft, SignedRequests, Rest, Fetched, PollSleeps,
     Wake
<1>6. CASE Diagnosed
  BY <1>6 DEF Stage, TimeLeft, Diagnosed
<1>7. CASE Renew
  BY <1>7 DEF Stage, TimeLeft, RequestsLeft, Renew, BadNonce, HeadRefused, NonceFetched,
     Repeat
<1>8. CASE ServeLate \/ DecideChallenge \/ OrderFails \/ IssueCertificate \/ UNCHANGED vars
  BY <1>8 DEF ServeLate, DecideChallenge, OrderFails, IssueCertificate, vars
<1>9. CASE Serve /\ ~ServeLate
  <2>1. /\ pc \in Exchanges /\ wire = "request" /\ wire' = "reply"
        /\ UNCHANGED <<pc, attempt, clock, want, seen, listed>>
    BY <1>9 DEF Serve, ServePlain, ServeToken, ServeNewOrder, ServeAuthorization,
       ServeChallenge, ServeOrder, ServeFinalize, Request
  <2>2. left' = left /\ elapsed' = elapsed /\ nap' = nap
    BY <2>1
  <2>3. Stage' = Stage /\ TimeLeft' = TimeLeft
    BY <2>1, <2>2 DEF Stage, TimeLeft
  <2>4. RequestsLeft' <= RequestsLeft
    BY <2>1, <2>2 DEF RequestsLeft
  <2>5. Rest' < Rest
    BY <2>1, <2>2 DEF Rest
  <2>6. RequestsLeft \in Nat /\ RequestsLeft' \in Nat
    BY <2>1 DEF RequestsLeft, SignedRequests
  <2>7. QED
    BY <2>3, <2>4, <2>5, <2>6
<1>10. CASE Tick
  <2>1. Stage' = Stage /\ RequestsLeft' = RequestsLeft
    BY <1>10 DEF Stage, RequestsLeft, Tick
  <2>2. \/ TimeLeft' < TimeLeft
        \/ TimeLeft' = TimeLeft /\ Rest' < Rest
    BY <1>10 DEF TimeLeft, Rest, Tick, Minus1
  <2>3. QED
    BY <2>1, <2>2
<1>11. QED
  BY <1>1, <1>2, <1>3, <1>4, <1>5, <1>6, <1>7, <1>8, <1>9, <1>10
  DEF Next, Client, Serve

\* issue comes to an end, whatever the servers answer, for any timeout, latency,
\* token, number of retries and list of authorizations and any interval that is
\* not zero: its stages, the time of its polls, the requests of each exchange and
\* the time of each request or sleep only run down, and all four are bounded.
THEOREM IssueRunsDown == ASSUME PollsPause PROVE Spec => IssueAdvances
<1>1. TypeOK /\ [Next]_vars =>
        [\/ UNCHANGED <<pc, wire, attempt, clock, want, listed>>
         \/ Stage' < Stage
         \/ /\ Stage' = Stage
            /\ \/ TimeLeft' < TimeLeft
               \/ TimeLeft' = TimeLeft /\ RequestsLeft' < RequestsLeft
               \/ /\ TimeLeft' = TimeLeft /\ RequestsLeft' = RequestsLeft
                  /\ Rest' < Rest]_vars
  BY StepAdvances DEF Nearer
<1>2. QED
  BY <1>1, TypeCorrect, PTL DEF Spec, IssueAdvances

-----------------------------------------------------------------------------
(* The time that issue takes                                                 *)

ExchangesAhead == SignedAhead + ListedAhead

\* Every part of what is ahead is a number; the most that three of them can be.
Counts == /\ SignedRequests \in Nat
          /\ UnderWay \in Nat
          /\ PlainAhead \in 0 .. 6
          /\ SignedAhead \in 0 .. 9
          /\ ListedAhead \in 0 .. MaxListed
          /\ ExchangesAhead \in Nat
          /\ RequestsAhead \in Nat
          /\ ClockAhead \in 0 .. (2 * PollAtMost + MaxLatency)

LEMMA AheadCounts == IInv => Counts
<1> SUFFICES ASSUME IInv PROVE Counts
  OBVIOUS
<1> USE TimeAssumption, CountAssumption
    DEF IInv, TypeOK, Points, Exchanges, Signed, Plain, Polling
<1>1. SignedRequests \in Nat
  BY DEF SignedRequests
<1>2. UnderWay \in Nat
  BY <1>1, RequestsLeftBound DEF UnderWay
<1>3. Stage \in 0 .. 15
  BY RunsDownFromBound
<1>4. PlainAhead \in 0 .. 6 /\ SignedAhead \in 0 .. 9
  BY <1>3 DEF PlainAhead, SignedAhead
<1>5. ListedAhead \in 0 .. MaxListed
  BY DEF ListedAhead
<1>6. ExchangesAhead \in Nat
  BY <1>4, <1>5 DEF ExchangesAhead
<1>7. ClockAhead \in 0 .. (2 * PollAtMost + MaxLatency)
  <2>1. PollAtMost \in Nat
    BY DEF PollAtMost
  <2>2. PollsAhead \in {0, PollAtMost, 2 * PollAtMost}
    BY <1>3 DEF PollsAhead
  <2>3. Polling => PollsAhead \in {0, PollAtMost}
    BY DEF PollsAhead, Stage
  <2>4. CASE Polling /\ ~PastDeadline
    <3>1. ClockAhead = PollsAhead + left + PollInterval
      BY <2>1, <2>2, <2>4 DEF ClockAhead
    <3>2. QED
      BY <2>1, <2>3, <2>4, <3>1 DEF PollAtMost
  <2>5. CASE pc = "sleep" /\ PastDeadline
    <3>1. ClockAhead = PollsAhead + nap
      BY <2>1, <2>2, <2>5 DEF ClockAhead
    <3>2. QED
      BY <2>1, <2>3, <2>5, <3>1 DEF PollAtMost
  <2>6. CASE pc # "sleep" /\ (Polling => PastDeadline)
    <3>1. ClockAhead \in {PollsAhead, PollsAhead + (MaxLatency - elapsed)}
      BY <2>1, <2>2, <2>6 DEF ClockAhead
    <3>2. QED
      BY <2>1, <2>2, <3>1
  <2>7. QED
    BY <2>4, <2>5, <2>6
<1>8. RequestsAhead \in Nat
  BY <1>1, <1>2, <1>4, <1>6 DEF RequestsAhead, ExchangesAhead
<1>9. QED
  BY <1>1, <1>2, <1>4, <1>5, <1>6, <1>7, <1>8 DEF Counts

LEMMA AheadCountsNext == IInv' => Counts'
BY AheadCounts, PTL

\* Of a and b of something, the fewer take less.
LEMMA Fewer ==
  ASSUME NEW s \in Nat, NEW a \in Nat, NEW b \in Nat
  PROVE  /\ a <= b => a * s <= b * s
         /\ a < b => a * s + s <= b * s
<1>1. ASSUME a <= b PROVE a * s <= b * s
  <2>1. PICK k \in Nat : b = a + k
    BY <1>1
  <2>2. b * s = a * s + k * s /\ k * s \in Nat
    BY <2>1
  <2>3. QED
    BY <2>2
<1>2. ASSUME a < b PROVE a * s + s <= b * s
  <2> DEFINE k == b - (a + 1)
  <2>1. k \in Nat /\ b = a + 1 + k
    BY <1>2
  <2> HIDE DEF k
  <2>2. b * s = a * s + s + k * s
    BY <2>1
  <2>3. k * s \in Nat /\ a * s \in Nat
    BY <2>1
  <2>4. QED
    BY <2>2, <2>3
<1>3. QED
  BY <1>1, <1>2

\* Requests u, and s for each of n exchanges, become v and m with d dropped.
LEMMA FewerRequests ==
  ASSUME NEW s \in Nat, NEW u \in Nat, NEW v \in Nat, NEW n \in Nat, NEW m \in Nat,
         NEW d \in Nat, m <= n, v + d <= u + (IF m < n THEN s ELSE 0)
  PROVE  v + m * s + d <= u + n * s
<1>1. m * s \in Nat /\ n * s \in Nat
  OBVIOUS
<1>2. CASE m < n
  <2>1. m * s + s <= n * s
    BY <1>2, Fewer
  <2>2. QED
    BY <1>1, <1>2, <2>1
<1>3. CASE m = n
  BY <1>1, <1>3
<1>4. QED
  BY <1>2, <1>3

\* At least so many of the requests that were ahead are no longer.
Dropped(number) ==
  /\ ExchangesAhead' <= ExchangesAhead
  /\ UnderWay' + PlainAhead' + number
       <= UnderWay + PlainAhead
            + (IF ExchangesAhead' < ExchangesAhead THEN SignedRequests ELSE 0)

LEMMA DroppedRequests ==
  ASSUME IInv, IInv'
  PROVE  /\ Dropped(0) => RequestsAhead' <= RequestsAhead
         /\ Dropped(1) => RequestsAhead' + 1 <= RequestsAhead
<1> DEFINE s == SignedRequests
           u == UnderWay + PlainAhead
           v == UnderWay' + PlainAhead'
           n == ExchangesAhead
           m == ExchangesAhead'
<1>1. s \in Nat /\ u \in Nat /\ v \in Nat /\ n \in Nat /\ m \in Nat
  BY AheadCounts, AheadCountsNext DEF Counts
<1>2. RequestsAhead = u + n * s /\ RequestsAhead' = v + m * s
  BY DEF RequestsAhead, ExchangesAhead, SignedRequests
<1>3. ASSUME NEW d \in {0, 1}, Dropped(d)
      PROVE  m <= n /\ v + d <= u + (IF m < n THEN s ELSE 0)
  BY <1>3 DEF Dropped
<1> HIDE DEF s, u, v, n, m
<1>4. ASSUME NEW d \in {0, 1}, Dropped(d)
      PROVE  RequestsAhead' + d <= RequestsAhead
  <2>1. v + m * s + d <= u + n * s
    BY <1>1, <1>3, <1>4, FewerRequests
  <2>2. QED
    BY <1>2, <2>1
<1>5. RequestsAhead' \in Nat
  BY AheadCountsNext DEF Counts
<1>6. QED
  BY <1>4, <1>5

\* The clocks take over at most a request's time, and of a request dropped.
ClocksHold == \/ Dropped(0) /\ ClockAhead' <= ClockAhead
              \/ Dropped(1) /\ ClockAhead' <= ClockAhead + MaxLatency
ClocksFall == \/ Dropped(0) /\ ClockAhead' < ClockAhead
              \/ Dropped(1) /\ ClockAhead' < ClockAhead + MaxLatency

LEMMA TimeFollowsClocks ==
  ASSUME IInv, IInv'
  PROVE  /\ ClocksHold => TimeAhead' <= TimeAhead
         /\ ClocksFall => TimeAhead' < TimeAhead
         /\ TimeAhead \in Nat /\ TimeAhead' \in Nat
<1> DEFINE l == MaxLatency
           q == RequestsAhead
           r == RequestsAhead'
           c == ClockAhead
           e == ClockAhead'
           x == q * l
           y == r * l
<1>1. q \in Nat /\ r \in Nat /\ c \in Nat /\ e \in Nat /\ l \in Nat
  BY AheadCounts, AheadCountsNext, TimeAssumption DEF Counts, PollAtMost
<1>2. TimeAhead = c + x /\ TimeAhead' = e + y
  BY DEF TimeAhead
<1>3. (Dropped(0) => r <= q) /\ (Dropped(1) => r + 1 <= q)
  BY DroppedRequests
<1>4. /\ ClocksHold => \/ r <= q /\ e <= c
                       \/ r + 1 <= q /\ e <= c + l
      /\ ClocksFall => \/ r <= q /\ e < c
                       \/ r + 1 <= q /\ e < c + l
  BY <1>3 DEF ClocksHold, ClocksFall
<1> HIDE DEF l, q, r, c, e
<1>5. x \in Nat /\ y \in Nat
  BY <1>1
<1>6. (r <= q => y <= x) /\ (r + 1 <= q => y + l <= x)
  BY <1>1, Fewer
<1> HIDE DEF x, y
<1>7. QED
  BY <1>1, <1>2, <1>4, <1>5, <1>6

\* What is ahead at each point of a run: single requests, signed exchanges apart
\* from those for listed authorizations, and polls.
Place(singles, exchanges, polls) == /\ PlainAhead = singles
                                    /\ ExchangesAhead = exchanges + MaxListed
                                    /\ PollsAhead = polls * PollAtMost
Places ==
  /\ pc = "directory" => Place(6, 9, 2)
  /\ pc = "account" => Place(4, 8, 2)
  /\ pc = "object" => Place(4, 7, 2)
  /\ pc = "login" => Place(3, 7, 2)
  /\ pc = "token" => Place(2, 7, 2)
  /\ pc = "x5u" => Place(1, 7, 2)
  /\ pc = "crl" => Place(0, 7, 2)
  /\ pc = "order" => Place(0, 6, 2)
  /\ pc = "authorization" => Place(0, 5, 2)
  /\ pc = "challenge" => Place(0, 4, 2)
  /\ Polling /\ want = "ready" => Place(0, 3, 1)
  /\ pc = "finalize" => Place(0, 2, 1)
  /\ Polling /\ want = "valid" => Place(0, 1, 0)
  /\ pc = "download" => Place(0, 0, 0)
  /\ pc = "diagnose" => PlainAhead = 0 /\ ExchangesAhead = listed - 1 /\ PollsAhead = 0
  /\ pc = "ended" => PlainAhead = 0 /\ ExchangesAhead = 0 /\ PollsAhead = 0
  /\ Polling /\ ~PastDeadline => /\ UnderWay = SignedRequests
                                 /\ ClockAhead = PollsAhead + (left + PollInterval)
  /\ Polling /\ PastDeadline => UnderWay = RequestsLeft
  /\ pc = "sleep" /\ PastDeadline => ClockAhead = PollsAhead + nap
  /\ pc = "examine" /\ PastDeadline => ClockAhead = PollsAhead
  /\ pc = "fetch" /\ PastDeadline => ClockAhead = PollsAhead + (MaxLatency - elapsed)
  /\ pc \in Exchanges \ {"fetch"} => /\ UnderWay = RequestsLeft
                                     /\ ClockAhead = PollsAhead + (MaxLatency - elapsed)
  /\ pc = "ended" => UnderWay = 0 /\ ClockAhead = 0

LEMMA RunIsSomewhere == IInv => Places
<1> SUFFICES ASSUME IInv PROVE Places
  OBVIOUS
<1> USE CountAssumption DEF IInv, TypeOK, Polling
<1>1. PollAtMost \in Nat
  BY TimeAssumption DEF PollAtMost
<1> USE <1>1 DEF Place, ExchangesAhead, SignedAhead, ListedAhead, PlainAhead, PollsAhead,
        Stage
<1>2. pc = "directory" => Place(6, 9, 2)
  OBVIOUS
<1>3. pc = "account" => Place(4, 8, 2)
  OBVIOUS
<1>4. pc = "object" => Place(4, 7, 2)
  OBVIOUS
<1>5. pc = "login" => Place(3, 7, 2)
  OBVIOUS
<1>6. pc = "token" => Place(2, 7, 2)
  OBVIOUS
<1>7. pc = "x5u" => Place(1, 7, 2)
  OBVIOUS
<1>8. pc = "crl" => Place(0, 7, 2)
  OBVIOUS
<1>9. pc = "order" => Place(0, 6, 2)
  OBVIOUS
<1>10. pc = "authorization" => Place(0, 5, 2)
  OBVIOUS
<1>11. pc = "challenge" => Place(0, 4, 2)
  OBVIOUS
<1>12. Polling /\ want = "ready" => Place(0, 3, 1)
  OBVIOUS
<1>13. pc = "finalize" => Place(0, 2, 1)
  OBVIOUS
<1>14. Polling /\ want = "valid" => Place(0, 1, 0)
  OBVIOUS
<1>15. pc = "download" => Place(0, 0, 0)
  OBVIOUS
<1>16. pc = "diagnose" => PlainAhead = 0 /\ ExchangesAhead = listed - 1 /\ PollsAhead = 0
  OBVIOUS
<1>17. pc = "ended" => PlainAhead = 0 /\ ExchangesAhead = 0 /\ PollsAhead = 0
  OBVIOUS
<1> HIDE DEF Place, ExchangesAhead, SignedAhead, ListedAhead, PlainAhead, Stage
<1>18. PollsAhead \in Nat
  BY DEF PollsAhead
<1> HIDE DEF PollsAhead
<1>19. /\ Polling /\ ~PastDeadline => /\ UnderWay = SignedRequests
                                      /\ ClockAhead = PollsAhead + (left + PollInterval)
       /\ Polling /\ PastDeadline => UnderWay = RequestsLeft
  BY <1>18 DEF UnderWay, ClockAhead
<1>20. /\ pc = "sleep" /\ PastDeadline => ClockAhead = PollsAhead + nap
       /\ pc = "examine" /\ PastDeadline => ClockAhead = PollsAhead
       /\ pc = "fetch" /\ PastDeadline => ClockAhead = PollsAhead + (MaxLatency - elapsed)
  BY <1>18 DEF ClockAhead, Exchanges, Signed, Plain
<1>21. pc \in Exchanges \ {"fetch"} =>
         /\ UnderWay = RequestsLeft
         /\ ClockAhead = PollsAhead + (MaxLatency - elapsed)
  BY <1>18 DEF ClockAhead, UnderWay, Exchanges, Signed, Plain
<1>22. pc = "ended" => UnderWay = 0 /\ ClockAhead = 0
  BY <1>17 DEF ClockAhead, UnderWay, RequestsLeft, Exchanges, Signed, Plain
<1>23. QED
  BY <1>2, <1>3, <1>4, <1>5, <1>6, <1>7, <1>8, <1>9, <1>10, <1>11, <1>12, <1>13, <1>14,
     <1>15, <1>16, <1>17, <1>19, <1>20, <1>21, <1>22
  DEF Places

LEMMA RunIsSomewhereNext == IInv' => Places'
BY RunIsSomewhere, PTL

\* A run that ends has nothing ahead.
LEMMA NothingAhead ==
  ASSUME IInv, UnderWay' = 0, PlainAhead' = 0, ExchangesAhead' = 0, ClockAhead' = 0
  PROVE  ClocksHold
<1>1. /\ UnderWay \in Nat /\ PlainAhead \in Nat /\ ExchangesAhead \in Nat
      /\ ClockAhead \in Nat /\ SignedRequests \in Nat
  BY AheadCounts, TimeAssumption DEF Counts, PollAtMost
<1>2. QED
  BY <1>1 DEF ClocksHold, Dropped

\* Every step of the client but the clock's.
LEMMA ClientHolds ==
  ASSUME IInv, IInv', Client \/ Renew
  PROVE  ClocksHold
<1>0. Counts
  BY AheadCounts
<1>1. /\ Places /\ Places'
      /\ PollAtMost = PollTimeout + PollInterval
      /\ SignedRequests = 3 * Retries + 3
  BY RunIsSomewhere, RunIsSomewhereNext DEF PollAtMost, SignedRequests
<1> USE <1>1, TimeAssumption, CountAssumption
    DEF IInv, TypeOK, AttemptInv, Exchanges, Signed, Plain, Points, Polling, Reply,
        PastDeadline, Places, Place, RequestsLeft, ClocksHold, Dropped,
        clock, server, run, poll, client, Send, Begin, Goto, End
<1>2. CASE \/ DirectoryDiscovered \/ AccountWithoutBody \/ AccountPrepared \/ LoggedIn
           \/ TokenReceived \/ AcceptToken \/ CrlDownloaded \/ OrderCreated
           \/ FindChallenge
  <2> USE DEF Proceed
  <2>1. CASE DirectoryDiscovered
    BY <2>1 DEF DirectoryDiscovered
  <2>2. CASE AccountWithoutBody
    BY <2>2 DEF AccountWithoutBody
  <2>3. CASE AccountPrepared
    BY <2>3 DEF AccountPrepared
  <2>4. CASE LoggedIn \/ TokenReceived
    BY <2>4 DEF LoggedIn, TokenReceived
  <2>5. CASE AcceptToken
    BY <2>5 DEF AcceptToken
  <2>6. CASE CrlDownloaded
    BY <2>6 DEF CrlDownloaded
  <2>7. CASE OrderCreated
    BY <2>7 DEF OrderCreated
  <2>8. CASE FindChallenge
    BY <2>8, <1>0 DEF FindChallenge, Counts
  <2>9. QED
    BY <1>2, <2>1, <2>2, <2>3, <2>4, <2>5, <2>6, <2>7, <2>8
<1>3. CASE ChallengeSubmitted
  BY <1>3 DEF ChallengeSubmitted, StartPoll
<1>4. CASE OrderFinalized
  BY <1>4 DEF OrderFinalized, StartPoll
<1>5. CASE FinalizeReady \/ DownloadValid
  BY <1>5 DEF FinalizeReady, DownloadValid
<1>6. CASE PollFails
  <2>1. CASE listed' = 0
    BY <1>0, <1>6, <2>1 DEF PollFails, Counts
  <2>2. CASE listed' # 0
    BY <1>6, <2>2 DEF PollFails
  <2>3. QED
    BY <2>1, <2>2
<1>7. CASE Diagnosed
  <2>1. CASE listed = 1
    BY <1>0, <1>7, <2>1 DEF Diagnosed, Counts
  <2>2. CASE listed # 1
    BY <1>0, <1>7, <2>2 DEF Diagnosed, Counts
  <2>3. QED
    BY <2>1, <2>2
<1>8. CASE RejectToken \/ PollTimesOut \/ CsrFails \/ Downloaded \/ ExchangeFails
  <2>1. pc' = "ended"
    BY <1>8 DEF RejectToken, PollTimesOut, CsrFails, Downloaded, ExchangeFails
  <2>2. UnderWay' = 0 /\ PlainAhead' = 0 /\ ExchangesAhead' = 0 /\ ClockAhead' = 0
    BY <2>1
  <2>3. QED
    BY <2>2, NothingAhead
<1>9. CASE Fetched
  BY <1>9 DEF Fetched
<1>10. CASE PollSleeps
  BY <1>10 DEF PollSleeps
<1>11. CASE Wake
  BY <1>11 DEF Wake
<1>12. CASE Renew
  BY <1>12 DEF Renew, BadNonce, HeadRefused, NonceFetched, Repeat
<1>13. QED
  BY <1>2, <1>3, <1>4, <1>5, <1>6, <1>7, <1>8, <1>9, <1>10, <1>11, <1>12 DEF Client

\* A server that answers and one that works on the order leave the clocks alone.
LEMMA ServersHold ==
  ASSUME IInv, IInv', Serve \/ DecideChallenge \/ OrderFails \/ IssueCertificate
  PROVE  ClocksHold
<1>1. /\ Places /\ Places'
      /\ PollAtMost = PollTimeout + PollInterval
      /\ SignedRequests = 3 * Retries + 3
  BY RunIsSomewhere, RunIsSomewhereNext DEF PollAtMost, SignedRequests
<1>2. CASE Serve /\ ~ServeLate
  <2>1. /\ pc \in Exchanges /\ wire = "request" /\ wire' = "reply"
        /\ UNCHANGED <<pc, attempt, clock, want, seen, listed>>
    BY <1>2 DEF Serve, ServePlain, ServeToken, ServeNewOrder, ServeAuthorization,
       ServeChallenge, ServeOrder, ServeFinalize, Request, Exchanges, Signed, Plain
  <2>2. QED
    BY <1>1, <2>1, TimeAssumption, CountAssumption
    DEF IInv, TypeOK, Exchanges, Signed, Plain, Points, Polling, PastDeadline, clock,
        Places, Place, RequestsLeft, ClocksHold, Dropped
<1>3. CASE ServeLate \/ DecideChallenge \/ OrderFails \/ IssueCertificate
  <2>1. UNCHANGED client
    BY <1>3 DEF ServeLate, DecideChallenge, OrderFails, IssueCertificate
  <2>2. QED
    BY <1>1, <2>1, TimeAssumption, CountAssumption
    DEF IInv, TypeOK, Exchanges, Signed, Plain, Points, Polling, PastDeadline, clock,
        client, Places, Place, RequestsLeft, ClocksHold, Dropped
<1>4. QED
  BY <1>2, <1>3

\* A tick is a tick less: of a clock, or of one that a request dropped leaves.
LEMMA TicksFall ==
  ASSUME IInv, IInv', Tick
  PROVE  ClocksFall
<1>1. /\ Places /\ Places'
      /\ PollAtMost = PollTimeout + PollInterval
      /\ SignedRequests = 3 * Retries + 3
  BY RunIsSomewhere, RunIsSomewhereNext DEF PollAtMost, SignedRequests
<1> USE <1>1, TimeAssumption, CountAssumption
    DEF IInv, TypeOK, AttemptInv, Exchanges, Signed, Plain, Points, Polling,
        PastDeadline, Places, Place, RequestsLeft, ClocksFall, Dropped, Tick, Minus1
<1>2. CASE pc \in Exchanges \ {"fetch"}
  <2>1. /\ UnderWay' = UnderWay /\ PlainAhead' = PlainAhead
        /\ ExchangesAhead' = ExchangesAhead
    BY <1>2
  <2>2. ClockAhead' < ClockAhead
    BY <1>2
  <2>3. UnderWay \in Nat /\ PlainAhead \in Nat /\ ExchangesAhead \in Nat
    BY AheadCounts DEF Counts
  <2>4. QED
    BY <2>1, <2>2, <2>3
<1>3. CASE pc = "fetch"
  BY <1>3
<1>4. CASE pc = "sleep"
  BY <1>4
<1>5. QED
  BY <1>2, <1>3, <1>4

\* No step gives a run more time, and a tick takes some.
LEMMA StepInTime ==
  ASSUME IInv, IInv', [Next]_vars
  PROVE  TimeAhead' <= TimeAhead /\ (Tick => TimeAhead' < TimeAhead)
<1>1. /\ ClocksHold => TimeAhead' <= TimeAhead
      /\ ClocksFall => TimeAhead' < TimeAhead
      /\ TimeAhead \in Nat /\ TimeAhead' \in Nat
  BY TimeFollowsClocks
<1>2. CASE Tick
  BY <1>1, <1>2, TicksFall
<1>3. CASE ~Tick /\ Next
  BY <1>1, <1>3, ClientHolds, ServersHold DEF Next
<1>4. CASE UNCHANGED vars
  <2>1. UNCHANGED <<TimeAhead, pc, elapsed, nap>>
    BY <1>4 DEF vars, TimeAhead, ClockAhead, RequestsAhead, PollsAhead, Stage, Polling,
       PastDeadline, UnderWay, RequestsLeft, PlainAhead, SignedAhead, ListedAhead
  <2>2. ~Tick
    BY <2>1 DEF Tick, IInv, TypeOK
  <2>3. QED
    BY <1>1, <2>1, <2>2
<1>5. QED
  BY <1>2, <1>3, <1>4

\* At no time has a run more ahead than IssueAtMost says.
LEMMA TimeIsBounded == ASSUME IInv PROVE TimeAhead <= IssueAtMost
<1> DEFINE l == MaxLatency
           s == SignedRequests
           q == RequestsAhead
           m == 6 + (9 + MaxListed) * s
           p == 2 * PollAtMost
<1>1. Counts
  BY AheadCounts
<1>2. /\ l \in Nat /\ s \in Nat /\ q \in Nat /\ p \in Nat /\ m \in Nat
      /\ ClockAhead \in 0 .. (p + l)
  BY <1>1, TimeAssumption, CountAssumption DEF Counts, PollAtMost
<1>3. q <= m
  <2>1. Places /\ s = 3 * Retries + 3
    BY RunIsSomewhere DEF SignedRequests
  <2> DEFINE u == UnderWay + PlainAhead
             n == ExchangesAhead
             k == 9 + MaxListed
  <2>2. \/ n = k /\ u <= 6
        \/ n < k /\ u <= 6 + s
    BY <2>1, <1>1, CountAssumption
    DEF Counts, Places, Place, RequestsLeft, Polling, PastDeadline, IInv, TypeOK,
        AttemptInv, Points, Exchanges, Signed, Plain
  <2>3. q = u + n * s
    BY DEF RequestsAhead, ExchangesAhead
  <2>4. u \in Nat /\ n \in Nat /\ k \in Nat
    BY <1>1, CountAssumption DEF Counts
  <2>5. m = 6 + k * s
    OBVIOUS
  <2> HIDE DEF u, n, k, s, q, m
  <2>6. n * s \in Nat /\ k * s \in Nat
    BY <1>2, <2>4
  <2>7. n < k => n * s + s <= k * s
    BY <1>2, <2>4, Fewer
  <2>8. QED
    BY <1>2, <2>2, <2>3, <2>4, <2>5, <2>6, <2>7
<1>4. TimeAhead = ClockAhead + q * l /\ IssueAtMost = (m + 1) * l + p
  BY <1>2, TimeAssumption, CountAssumption DEF TimeAhead, IssueAtMost, PollAtMost
<1> HIDE DEF l, q, m, p, s
<1>5. q * l <= m * l
  BY <1>2, <1>3, Fewer
<1>6. (m + 1) * l = m * l + l /\ m * l \in Nat /\ q * l \in Nat
  BY <1>2
<1>7. QED
  BY <1>2, <1>4, <1>5, <1>6

\* A run takes at most as many ticks as IssueAtMost has, whatever the servers answer,
\* reject and list, and an interval of no length included: it never has more than
\* that ahead, no step adds to it, and a tick of the clock takes from it.
THEOREM IssueTakesBoundedTime == Spec => IssueInTime /\ [](TimeAhead <= IssueAtMost)
<1>1. IInv /\ IInv' /\ [Next]_vars =>
        [TimeAhead' <= TimeAhead /\ (Tick => TimeAhead' < TimeAhead)]_vars
  BY StepInTime
<1>2. IInv => TimeAhead <= IssueAtMost
  BY TimeIsBounded
<1>3. QED
  BY <1>1, <1>2, Invariance, PTL DEF Spec, IssueInTime

=============================================================================
