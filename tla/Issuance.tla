------------------------------ MODULE Issuance ------------------------------
(* One run of StirShakenIssuer.issue with its poll_order loops, against an   *)
(* ACME server whose order moves by itself, an STI-PA that issues tokens of  *)
(* limited life, and HTTP requests that take time and fail. An exchange is a *)
(* request, the server's answer and the client's handling of it, so that     *)
(* what the client handles may be out of date; a signed one is repeated when *)
(* its nonce is rejected, with a new nonce that takes requests of its own.   *)
(* (What the repetition means for the effects of a POST is AcmeTransport's   *)
(* subject, the files of prepare_account are AccountStore's.) Time passes in *)
(* ticks while the client waits for an answer or sleeps.                     *)
EXTENDS Naturals

CONSTANTS PollTimeout,      \* acme_poll_timeout_seconds, in ticks
          PollInterval,     \* acme_poll_interval_seconds, in ticks
          MinLifetime,      \* minimum_token_lifetime_seconds, in ticks
          MaxLifetime,      \* bound: longest life of a token
          MaxLatency,       \* longest time one HTTP request takes before it
                            \* fails: timeout_seconds, in ticks
          Retries,          \* bad_nonce_retries
          MaxListed,        \* bound: authorizations that a failed order lists
          None

ASSUME TimeAssumption ==
  /\ PollTimeout \in Nat /\ PollInterval \in Nat /\ MaxLatency \in Nat
  /\ MinLifetime \in Nat /\ MaxLifetime \in Nat

ASSUME CountAssumption == Retries \in Nat /\ MaxListed \in Nat

OrderStatuses == {"pending", "ready", "processing", "valid", "invalid"}
ChallengeStatuses == {"pending", "processing", "valid", "invalid"}

Certificates == {"good", "bad", "garbled"}

\* signed_post_raw, and single GETs and POSTs.
Signed == {"account", "object", "order", "authorization", "challenge", "fetch",
           "finalize", "download", "diagnose"}
Plain == {"directory", "login", "token", "x5u", "crl"}
Exchanges == Signed \cup Plain

ASSUME NoneAssumption == None \notin OrderStatuses \cup Certificates \cup Exchanges

VARIABLES pc,               \* the exchange under way, or another point of issue
          wire,             \* "request" until the server acted, then "reply";
                            \* "head" or "get" while a nonce is asked for
          attempt,          \* POSTs begun in this exchange
          elapsed,          \* ticks spent in this request
          nap,              \* ticks left of time.sleep
          left,             \* ticks left until the deadline of poll_order
          want,             \* desired_status of poll_order
          answer,           \* the status the response carries; None if empty
          seen,             \* status of `order` in poll_order
          listed,           \* authorizations still to be fetched for the error
          life,             \* ticks until the SPC token expires
          order,            \* the server's order (external)
          challenge,        \* the server's tkauth-01 challenge (external)
          certificate,      \* what the CA issued (external)
          asked,            \* finalize has been sent
          pending,          \* the request the run ended with, if it may still
                            \* reach the server
          outcome,          \* how issue ended
          margin,           \* history: `left` when the order became what was
                            \* wanted
          extra             \* history: the time that requests for rejected
                            \* nonces may have taken, since the order was
                            \* created or since margin was noted

clock == <<elapsed, nap, left>>
server == <<order, challenge, certificate>>
run == <<asked, pending, outcome>>
history == <<margin, extra>>
poll == <<left, want, seen, listed, history>>
client == <<pc, wire, attempt, clock, want, answer, seen, listed>>
vars == <<pc, wire, attempt, elapsed, nap, left, want, answer, seen, listed, life,
          order, challenge, certificate, asked, pending, outcome, margin, extra>>

Points == Exchanges \cup {"examine", "sleep", "ended"}
Outcomes == {"running", "issued", "retained", "timeout", "terminal", "error"}

TypeOK ==
  /\ pc \in Points
  /\ wire \in {"request", "reply", "head", "get"}
  /\ attempt \in 0 .. Retries + 1
  /\ elapsed \in 0 .. MaxLatency
  /\ nap \in 0 .. PollInterval
  /\ left \in 0 .. PollTimeout
  /\ want \in {"ready", "valid"}
  /\ answer \in OrderStatuses \cup {None}
  /\ seen \in OrderStatuses \cup {None}
  /\ listed \in 0 .. MaxListed /\ (listed > 0 <=> pc = "diagnose")
  /\ life \in 0 .. MaxLifetime
  /\ order \in OrderStatuses \cup {None}
  /\ challenge \in ChallengeStatuses \cup {None}
  /\ certificate \in Certificates \cup {None}
  /\ asked \in BOOLEAN
  /\ pending \in Exchanges \cup {None}
  /\ outcome \in Outcomes
  /\ margin \in 0 .. PollTimeout
  /\ extra \in Nat

Init ==
  /\ pc = "directory" /\ wire = "request" /\ attempt = 1 /\ elapsed = 0
  /\ nap = 0 /\ left = 0 /\ want = "ready"
  /\ answer = None /\ seen = None /\ listed = 0
  /\ life = 0
  /\ order = None /\ challenge = None /\ certificate = None
  /\ asked = FALSE /\ pending = None /\ outcome = "running"
  /\ margin = 0 /\ extra = 0

----------------------------------------------------------------------------
(* Control                                                                   *)

Send(exchange, method, number) == /\ pc' = exchange
                                  /\ wire' = method
                                  /\ attempt' = number
                                  /\ elapsed' = 0
                                  /\ answer' = None
Begin(exchange) == Send(exchange, "request", 1)

Goto(point) == /\ pc' = point
               /\ answer' = None
               /\ UNCHANGED <<wire, attempt, elapsed>>

End(o) == Goto("ended") /\ outcome' = o /\ UNCHANGED <<asked, pending>>

Reply(exchange) == pc = exchange /\ wire = "reply"

\* Mutant of StartPoll: one interval is added to the deadline.
StartPollLong(desired, current) ==
  /\ want' = desired
  /\ left' = PollTimeout + PollInterval
  /\ margin' = IF order = desired THEN PollTimeout ELSE 0
  /\ extra' = 0
  /\ seen' = current
  /\ UNCHANGED listed
  /\ IF current = None THEN Begin("fetch") ELSE Goto("examine")

\* deadline = time.time() + timeout; order = current or post_as_get(order_url)
StartPoll(desired, current) ==
  /\ want' = desired
  /\ left' = PollTimeout
  /\ margin' = IF order = desired THEN PollTimeout ELSE 0
  /\ extra' = 0
  /\ seen' = current
  /\ UNCHANGED listed
  /\ IF current = None THEN Begin("fetch") ELSE Goto("examine")

----------------------------------------------------------------------------
(* The client: issue and request_validated_token_package                     *)

\* An exchange whose response is only needed to go on to the next one.
Proceed(exchange, next) ==
  /\ Reply(exchange)
  /\ Begin(next)
  /\ UNCHANGED <<nap, poll, life, server, run>>

\* prepare_account asks for a nonce before the first signed request of all: to
\* verify the cached account, or newAccount.
DirectoryDiscovered ==
  /\ Reply("directory")
  /\ Send("account", "head", 0)
  /\ UNCHANGED <<nap, poll, life, server, run>>

\* newAccount answered without a body: the account object is fetched.
AccountWithoutBody == Proceed("account", "object")

\* prepare_account has returned; the identifier and the key are at hand.
AccountPrepared == Proceed("account", "login") \/ Proceed("object", "login")

\* The access token of the login goes into the token request.
LoggedIn == Proceed("login", "token")

\* The SPC token's header names the signing certificate.
TokenReceived == Proceed("token", "x5u")

\* The CRL is kept with the token, which is not checked again.
CrlDownloaded == Proceed("crl", "order")

\* The order's first authorization is fetched.
OrderCreated == Proceed("order", "authorization")

\* Mutant of AcceptToken: the remaining life is not checked.
AcceptAnyToken ==
  /\ Reply("x5u")
  /\ Begin("crl")
  /\ UNCHANGED <<nap, poll, life, server, run>>

\* The token's signature and claims are checked, its remaining life last.
AcceptToken ==
  /\ Reply("x5u")
  /\ life >= MinLifetime
  /\ Begin("crl")
  /\ UNCHANGED <<nap, poll, life, server, run>>

\* A claim is wrong, or too little life is left.
RejectToken ==
  /\ Reply("x5u")
  /\ End("error")
  /\ UNCHANGED <<nap, poll, life, server>>

\* find_tkauth_challenge: only a pending or processing challenge will do.
FindChallenge ==
  /\ Reply("authorization")
  /\ IF answer \in {"pending", "processing"}
       THEN Begin("challenge") /\ UNCHANGED run
       ELSE End("error")
  /\ UNCHANGED <<nap, poll, life, server>>

ChallengeSubmitted ==
  /\ Reply("challenge")
  /\ StartPoll("ready", None)
  /\ UNCHANGED <<nap, life, server, run>>

\* A fetched order is at hand; whether it is looked at depends on the clock.
Fetched ==
  /\ Reply("fetch")
  /\ seen' = answer
  /\ Goto("examine")
  /\ UNCHANGED <<nap, left, want, listed, history, life, server, run>>

\* while time.time() < deadline, tested with an order at hand.
PollTimesOut ==
  /\ pc = "examine"
  /\ left = 0
  /\ End("timeout")
  /\ UNCHANGED <<nap, poll, life, server>>

\* Mutant of FinalizeReady: the order is finalized without its being ready.
FinalizeAnyway ==
  /\ pc = "examine" /\ left > 0 /\ want = "ready"
  /\ seen # "invalid"
  /\ Begin("finalize")
  /\ asked' = TRUE
  /\ UNCHANGED <<nap, poll, life, server, pending, outcome>>

\* The order is ready: it is finalized.
FinalizeReady ==
  /\ pc = "examine" /\ left > 0 /\ want = "ready"
  /\ seen = "ready"
  /\ Begin("finalize")
  /\ asked' = TRUE
  /\ UNCHANGED <<nap, poll, life, server, pending, outcome>>

\* build_csr raises, of a subject that X.509 does not allow.
CsrFails ==
  /\ pc = "examine" /\ left > 0 /\ want = "ready"
  /\ seen = "ready"
  /\ End("error")
  /\ UNCHANGED <<nap, poll, life, server>>

\* The order is valid: the certificate is downloaded.
DownloadValid ==
  /\ pc = "examine" /\ left > 0 /\ want = "valid"
  /\ seen = "valid"
  /\ Begin("download")
  /\ UNCHANGED <<nap, poll, life, server, run>>

\* raise_terminal_order_status: the authorizations that the order lists are
\* fetched for the message.
PollFails ==
  /\ pc = "examine" /\ left > 0
  /\ seen = "invalid"
  /\ listed' \in 0 .. MaxListed
  /\ IF listed' = 0 THEN End("terminal") ELSE Begin("diagnose") /\ UNCHANGED run
  /\ UNCHANGED <<nap, left, want, seen, history, life, server>>

\* One of them has been fetched, or an error in doing so swallowed.
Diagnosed ==
  /\ pc = "diagnose"
  /\ listed' = listed - 1
  /\ IF listed = 1 THEN End("terminal") ELSE Begin("diagnose") /\ UNCHANGED run
  /\ UNCHANGED <<nap, left, want, seen, history, life, server>>

\* Mutant of PollSleeps: the deadline starts again when it passes.
SleepForever ==
  /\ pc = "examine"
  /\ seen \notin {want, "invalid"}
  /\ Goto("sleep")
  /\ nap' = PollInterval
  /\ left' = IF left = 0 THEN PollTimeout ELSE left
  /\ UNCHANGED <<want, seen, listed, history, life, server, run>>

PollSleeps ==
  /\ pc = "examine" /\ left > 0
  /\ seen \notin {want, "invalid"}
  /\ Goto("sleep")
  /\ nap' = PollInterval
  /\ UNCHANGED <<poll, life, server, run>>

\* Mutant of Wake: the order is not fetched again after the sleep.
WakeStale ==
  /\ pc = "sleep" /\ nap = 0
  /\ Goto("examine")
  /\ UNCHANGED <<nap, poll, life, server, run>>

\* time.sleep is over.
Wake ==
  /\ pc = "sleep" /\ nap = 0
  /\ Begin("fetch")
  /\ UNCHANGED <<nap, poll, life, server, run>>

\* poll_order(order_url, "valid", finalized_order): an empty response body is
\* falsy and the order is fetched.
OrderFinalized ==
  /\ Reply("finalize")
  /\ StartPoll("valid", answer)
  /\ UNCHANGED <<nap, life, server, run>>

\* Mutant of Downloaded: a chain without a leaf is handed over too.
RetainAll ==
  /\ Reply("download")
  /\ End(IF certificate = "good" THEN "issued" ELSE "retained")
  /\ UNCHANGED <<nap, poll, life, server>>

\* The chain is downloaded: without a leaf that parses the error carries no
\* result; a leaf that fails validation is handed over with the error.
Downloaded ==
  /\ Reply("download")
  /\ End(CASE certificate = "good" -> "issued"
           [] certificate = "bad" -> "retained"
           [] certificate = "garbled" -> "error")
  /\ UNCHANGED <<nap, poll, life, server>>

\* An exchange fails: no connection, a timeout, an HTTP error, a response that
\* lacks what is needed; on the way there, when the request may still arrive,
\* or on the way back.
ExchangeFails ==
  /\ pc \in Exchanges \ {"diagnose"}
  /\ Goto("ended")
  /\ outcome' = "error"
  /\ pending' = IF wire = "request" THEN pc ELSE None
  /\ UNCHANGED <<nap, poll, life, server, asked>>

----------------------------------------------------------------------------
(* The client: signed_post_raw and fetch_nonce                               *)

\* The requests of a retry are counted where TokenLiveWhenPresented and
\* TimeoutMeansLate need them.
Repeat(method, number) ==
  /\ pc' = pc /\ answer' = answer
  /\ wire' = method /\ attempt' = number /\ elapsed' = 0
  /\ extra' = IF \/ pc \in {"order", "authorization", "challenge"}
                 \/ pc = "fetch" /\ margin > 0
                THEN extra + MaxLatency ELSE extra
  /\ UNCHANGED <<nap, left, want, seen, listed, margin, life, server, run>>

\* The server rejects the nonce, without effect. A new one is fetched, after the
\* last attempt too, where only ExchangeFails is left then.
BadNonce == pc \in Signed /\ wire = "request" /\ Repeat("head", attempt)

\* newNonce answers HEAD with 405 and is asked with GET.
HeadRefused == wire = "head" /\ pc \in Signed /\ Repeat("get", attempt)

\* Mutant of NonceFetched: the attempts are not counted.
RetryUncounted ==
  /\ wire \in {"head", "get"} /\ pc \in Signed
  /\ attempt <= Retries
  /\ Repeat("request", IF attempt = 0 THEN 1 ELSE attempt)

\* The POST is sent with the new nonce, bad_nonce_retries + 1 times at most.
NonceFetched ==
  /\ wire \in {"head", "get"} /\ pc \in Signed
  /\ attempt <= Retries
  /\ Repeat("request", attempt + 1)

----------------------------------------------------------------------------
(* The ACME server and the STI-PA (external)                                 *)

Request(exchange) == /\ pc = exchange /\ wire = "request"
                     /\ wire' = "reply"
                     /\ UNCHANGED <<pc, attempt, clock, want, seen, listed, run>>

\* The order's status changes; margin notes how early the awaited one came.
OrderBecomes(status) ==
  /\ order' = status
  /\ IF pc \in {"fetch", "examine", "sleep"} /\ status = want
       THEN margin' = left /\ extra' = 0
       ELSE UNCHANGED history

ServePlain ==
  /\ \E exchange \in (Plain \ {"token"})
                     \cup {"account", "object", "download", "diagnose"} :
       /\ Request(exchange)
       /\ exchange = "download" => order = "valid"
  /\ UNCHANGED <<answer, life, server, history>>

ServeToken ==
  /\ Request("token")
  /\ life' \in 0 .. MaxLifetime
  /\ UNCHANGED <<answer, server, history>>

\* The authorization may be new, in use by another order, or already valid: the
\* order is then ready.
ServeNewOrder ==
  /\ Request("order")
  /\ challenge' \in {"pending", "processing", "valid"}
  /\ order' = IF challenge' = "valid" THEN "ready" ELSE "pending"
  /\ UNCHANGED <<answer, life, certificate, history>>

ServeAuthorization ==
  /\ Request("authorization")
  /\ answer' = challenge
  /\ UNCHANGED <<life, server, history>>

ServeChallenge ==
  /\ Request("challenge")
  /\ challenge' = IF challenge = "pending" THEN "processing" ELSE challenge
  /\ UNCHANGED <<answer, life, order, certificate, history>>

ServeOrder ==
  /\ Request("fetch")
  /\ answer' = order
  /\ UNCHANGED <<life, server, history>>

\* A ready order is taken on, and may be done with at once; another is refused
\* (see ExchangeFails). The answer may be of before or after, or empty.
ServeFinalize ==
  /\ Request("finalize")
  /\ order = "ready"
  /\ \E status \in {"processing", "valid", "invalid"} :
       /\ OrderBecomes(status)
       /\ IF status = "valid" THEN certificate' \in Certificates
                             ELSE UNCHANGED certificate
       /\ answer' \in {"ready", status, None}
  /\ UNCHANGED <<life, challenge>>

\* A request arrives after the run it belongs to has ended.
ServeLate ==
  /\ \/ /\ pending = "challenge" /\ challenge = "pending"
        /\ challenge' = "processing" /\ UNCHANGED <<order, history>>
     \/ /\ pending = "finalize" /\ order = "ready"
        /\ OrderBecomes("processing") /\ UNCHANGED challenge
  /\ pending' = None
  /\ UNCHANGED <<client, life, certificate, asked, outcome>>

\* The server decides on the token; it does not accept one that has expired.
DecideChallenge ==
  /\ challenge = "processing" /\ order = "pending"
  /\ \/ /\ life > 0
        /\ challenge' = "valid" /\ OrderBecomes("ready")
     \/ challenge' = "invalid" /\ OrderBecomes("invalid")
  /\ UNCHANGED <<client, life, certificate, run>>

OrderFails ==
  /\ order \in {"pending", "ready", "processing"}
  /\ OrderBecomes("invalid")
  /\ UNCHANGED <<client, life, challenge, certificate, run>>

IssueCertificate ==
  /\ order = "processing"
  /\ OrderBecomes("valid")
  /\ certificate' \in Certificates
  /\ UNCHANGED <<client, life, challenge, run>>

\* A tick of the clock while the client waits for a response or sleeps.
Minus1(t) == IF t > 0 THEN t - 1 ELSE 0
Tick ==
  /\ \/ pc \in Exchanges /\ elapsed < MaxLatency
        /\ elapsed' = elapsed + 1 /\ UNCHANGED nap
     \/ pc = "sleep" /\ nap > 0
        /\ nap' = nap - 1 /\ UNCHANGED elapsed
  /\ left' = Minus1(left)
  /\ life' = Minus1(life)
  /\ UNCHANGED <<pc, wire, attempt, want, answer, seen, listed, server, run, history>>

----------------------------------------------------------------------------
Client ==
  \/ DirectoryDiscovered \/ AccountWithoutBody \/ AccountPrepared
  \/ LoggedIn \/ TokenReceived
  \/ AcceptToken \/ RejectToken \/ CrlDownloaded
  \/ OrderCreated \/ FindChallenge \/ ChallengeSubmitted
  \/ Fetched \/ PollTimesOut
  \/ FinalizeReady \/ CsrFails \/ DownloadValid \/ PollFails
  \/ PollSleeps \/ Wake \/ Diagnosed
  \/ OrderFinalized \/ Downloaded
  \/ ExchangeFails

Renew == BadNonce \/ HeadRefused \/ NonceFetched

Serve == \/ ServePlain \/ ServeToken \/ ServeNewOrder \/ ServeAuthorization
         \/ ServeChallenge \/ ServeOrder \/ ServeFinalize
         \/ ServeLate

Next == Client \/ Renew \/ Serve \/ DecideChallenge \/ OrderFails \/ IssueCertificate
        \/ Tick

\* The client runs on, no request lasts for ever (ExchangeFails and Diagnosed are
\* steps of Client) and the clock advances while it sleeps. Nothing is asked of
\* the servers.
Fairness == WF_vars(Client) /\ WF_vars(pc = "sleep" /\ Tick)

Spec == Init /\ [][Next]_vars /\ Fairness

----------------------------------------------------------------------------
(* Properties                                                                *)

\* finalize is sent only to an order that is ready, or has failed since it was
\* seen to be: never to one still pending, and never a second time.
FinalizeOnlyWhenReady ==
  pc = "finalize" /\ wire = "request" => order \in {"ready", "invalid"}

\* A token that has expired when it is presented has lost its life to rejected
\* nonces: MinLifetime is no more than the four requests from its check to that
\* moment and the further ones that retries made of them. As long as it exceeds
\* the four, an order that meets with no rejected nonce presents a live token.
TokenLiveWhenPresented ==
  pc = "challenge" /\ wire = "request" /\ life = 0 =>
    MinLifetime <= 4 * MaxLatency + extra

\* poll_order gives up only on an order that was late: one that became what was
\* wanted more than an interval, two requests and what retries added to them
\* before the deadline is found.
TimeoutMeansLate ==
  outcome = "timeout" => margin <= PollInterval + 2 * MaxLatency + extra

\* issue returns or raises in the end, whatever the servers do.
IssueEnds == <>(pc = "ended")

\* How far off the end is: the stages still to come, the time of the polling or
\* the diagnostics under way, the requests of the exchange under way, and the
\* rest of the request or the sleep.
Polling == pc \in {"fetch", "examine", "sleep"}
Stage == CASE pc = "directory" -> 15
           [] pc = "account" -> 14
           [] pc = "object" -> 13
           [] pc = "login" -> 12
           [] pc = "token" -> 11
           [] pc = "x5u" -> 10
           [] pc = "crl" -> 9
           [] pc = "order" -> 8
           [] pc = "authorization" -> 7
           [] pc = "challenge" -> 6
           [] Polling -> IF want = "ready" THEN 5 ELSE 3
           [] pc = "finalize" -> 4
           [] pc = "download" -> 2
           [] pc = "diagnose" -> 1
           [] pc = "ended" -> 0
TimeLeft == CASE pc \in {"fetch", "examine"} -> left
              [] pc = "sleep" -> IF left > nap THEN left - nap ELSE 0
              [] pc = "diagnose" -> listed
              [] OTHER -> 0

\* A signed exchange takes a POST, a HEAD and a GET for each attempt at most, the
\* first without the nonce's; so many may follow the request under way.
SignedRequests == 3 * Retries + 3
RequestsLeft ==
  LET retries == 3 * (Retries + 1 - attempt)
  IN  CASE pc \in Signed /\ wire = "request" -> retries + 2
        [] pc \in Signed /\ wire = "head" -> retries + 1
        [] pc \in Signed /\ wire = "get" -> retries
        [] pc = "sleep" -> SignedRequests
        [] OTHER -> 0
Rest == CASE pc \in Exchanges ->
               (MaxLatency - elapsed) + (IF wire = "reply" THEN 1 ELSE 2)
          [] pc = "sleep" -> nap
          [] OTHER -> 0

\* IssueEnds, step by step: each step of the client, of a server that answers
\* it and of the clock brings the end nearer; the rest leaves it as it is.
IssueAdvances ==
  [][\/ UNCHANGED <<pc, wire, attempt, clock, want, listed>>
     \/ Stage' < Stage
     \/ /\ Stage' = Stage
        /\ \/ TimeLeft' < TimeLeft
           \/ TimeLeft' = TimeLeft /\ RequestsLeft' < RequestsLeft
           \/ /\ TimeLeft' = TimeLeft /\ RequestsLeft' = RequestsLeft
              /\ Rest' < Rest]_vars

\* The most ticks that a run may still take: those of the clocks, and MaxLatency
\* for each request that may follow. A poll may end with a sleep and an exchange
\* that begin before its deadline; past it, only what is under way is left of it.
PastDeadline == \/ pc = "sleep" /\ left <= nap
                \/ pc \in {"fetch", "examine"} /\ left = 0
PollAtMost == PollTimeout + PollInterval
PollsAhead == CASE Stage > 5 -> 2 * PollAtMost
                [] Stage \in {4, 5} -> PollAtMost
                [] OTHER -> 0
ClockAhead ==
  PollsAhead + (CASE Polling /\ ~PastDeadline -> left + PollInterval
                  [] pc = "sleep" /\ PastDeadline -> nap
                  [] pc \in Exchanges /\ (Polling => PastDeadline) -> MaxLatency - elapsed
                  [] OTHER -> 0)

\* Requests that follow: in the exchange or the poll under way, single ones, signed
\* exchanges, and those for the authorizations of a failed order.
UnderWay == IF Polling /\ ~PastDeadline THEN SignedRequests ELSE RequestsLeft
PlainAhead == CASE pc = "directory" -> 6    \* HEAD and GET of the first nonce, too
                [] pc \in {"account", "object"} -> 4
                [] Stage \in 9 .. 12 -> Stage - 9
                [] OTHER -> 0
SignedAhead == CASE Stage \in {14, 15} -> Stage - 6
                 [] Stage \in 9 .. 13 -> 7
                 [] Stage \in 2 .. 8 -> Stage - 2
                 [] OTHER -> 0
ListedAhead == CASE pc = "diagnose" -> listed - 1
                 [] pc = "ended" -> 0
                 [] OTHER -> MaxListed
RequestsAhead ==
  UnderWay + PlainAhead + (SignedAhead + ListedAhead) * SignedRequests
TimeAhead == ClockAhead + RequestsAhead * MaxLatency

\* issue ends in time: no answer of a server, no rejected nonce and no list of
\* authorizations gives it more time than it had, so that its ticks are bounded
\* by the settings, whatever the order does.
IssueInTime ==
  [][TimeAhead' <= TimeAhead /\ (Tick => TimeAhead' < TimeAhead)]_vars

\* What it has at its start: seven single requests, nine signed exchanges and one
\* for each authorization that a failed order may list, and two polls.
IssueAtMost ==
  (7 + (9 + MaxListed) * SignedRequests) * MaxLatency
    + 2 * (PollTimeout + PollInterval)

\* issuer.py:265, "Poll an ACME order until it reaches the desired status": no
\* timeout is raised with an order at hand that has that status.
NoAnswerDiscarded == outcome = "timeout" => seen # want

\* The run as its caller sees it.
PromisedOutcome == IF outcome \in {"running", "issued", "retained"}
                     THEN outcome ELSE "raised"

Promise == INSTANCE IssuancePromise WITH outcome <- PromisedOutcome

\* issue keeps IssuancePromise: a certificate is issued only after finalization,
\* success and retained artifacts stand for the certificate the CA issued, and
\* a run that raises before it finalizes leaves no certificate behind.
ImplementsPromise == Promise!Spec
=============================================================================
