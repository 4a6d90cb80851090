# Formal models of stir-shaken-toolkit

TLA+ specifications of the parts of stir-shaken-toolkit that are hard to test:
what happens to keys, accounts, orders, tokens and artifacts when requests are
lost or late, clocks run out, processes overlap, disks fill up and runs are
killed. TLC checks them on small instances; TLAPS proves every invariant, action
property and refinement that the passing runs check for all values of the constants,
and of each liveness property that every step comes nearer to what is awaited. Paths
below are relative to the repository root, with `src/` in front as in PROJECT.json.

## The system

The toolkit is a Python package in three layers.

| Part | Code | State it keeps | Operations |
| --- | --- | --- | --- |
| ACME transport | `acme_core/client.py`: `signed_post_raw`, `_signed_post_once`, `fetch_nonce` | the nonce | signed POST with bounded badNonce retries |
| ACME account | `client.py`: `prepare_account`, `create_account`, `account_object`, `save_state`, `load_state`; `keys.py`: `load_or_create` | `account.key`, `account.json` and their temporary files; key and account in memory | load or create the key, verify or create the account, save the cache |
| Orders | `client.py`: `new_order`, `submit_challenge`, `finalize_order`, `download_certificate`; `issuer.py`: `issue`, `poll_order`, `find_tkauth_challenge`, `raise_terminal_order_status` | the order as last fetched, a deadline | the issuance sequence and its two polling loops |
| STI-PA client | `stipa.py` | none between calls; the token and its expiry in a run | login, SPC token request, token checks, CRL and CA list downloads |
| Certificates | `certificates.py`, `tnauth.py`, `inspection.py` | none | key and CSR generation, validation of issued certificates, TNAuthList in DER |
| Commands | `cli.py`, `config.py`, `providers/peeringhub.py` | output files | `peeringhub-issue`, `peeringhub-account-setup`, `spc-token`, `ca-list`, `csr`, `validate-key-pair`, `fingerprint`, `inspect` |

`peeringhub-issue` claims an output directory, resolves its values and calls
`StirShakenIssuer.issue`; that prepares the ACME account, gets an SPC token
bound to the account key from the STI-PA, creates an order, answers its
`tkauth-01` challenge with the token, polls until the order is ready, finalizes
with a CSR for the account key, polls until it is valid, downloads the chain and
validates the leaf. Every ACME request goes through `signed_post_raw`. The
command then writes five artifacts. There are no threads and no daemon: all
concurrency is between processes that share directories, and between the program
and the servers, which move orders and expire nonces and tokens by themselves.
There are no tests in the repository.

What is hard in each part, and what makes it correct:

- transport: a lost answer leaves it open whether the server acted. No POST may
  take effect twice, results must agree with what happened, retries must suffice.
- account: two processes on one directory, for one environment or for both, crashes
  between any two file system steps, files that are removed. No account may lose its
  key, no key may be replaced, the cache must never contradict the key or pass the
  account of one environment off as another's, and the account must be prepared
  again once the faults stop.
- orders: answers that are out of date, deadlines, tokens that expire on the
  way. Finalization only of a ready order, no timeout for an order that was in
  time, an end to every run, and certificates only for runs that asked.
- certificates: edges of validity, comparison of identifiers as text, DER
  lengths. What passes must conform; what was asked for must pass.
- commands: files written in place one after the other, some of them over those of
  an earlier run. Outputs of different runs must not mix, incomplete ones must be
  told from complete ones, sensitive ones be there only if asked for, the exit must
  be true, and a rerun must not be refused for its subject.

The list of hazards, each with its line and the properties that would catch it
going wrong, is in PROJECT.json.

## Modules

| Module | Models | Proofs |
| --- | --- | --- |
| `AtMostOncePost` | abstract: a POST takes effect at most once and its result is honest | |
| `AcmeTransport` | `signed_post_raw` with nonces against a server and a network | `AcmeTransportProofs` |
| `AccountPromise` | abstract: what key, cache and accounts go through while runs for both environments follow each other | |
| `AccountStore` (`MCAccountStore`) | `prepare_account` by several processes, of both environments, on one directory | `AccountStoreProofs`, `AccountPromiseProofs` |
| `IssuancePromise` | abstract: what `issue` promises about the certificate | |
| `Issuance` | `StirShakenIssuer.issue` in discrete time: account and STI-PA requests, badNonce retries, both polling loops, diagnostics of a failed order | `IssuanceProofs` |
| `IssueCommand` | `peeringhub-issue`: directory, subject, artifacts, exit; `issue` by its promise | `IssueCommandProofs` |
| `IssuedCertificate` (`MCIssuedCertificate`) | environment, SPC, TNAuthList, CSR, validation of the issued certificate | `IssuedCertificateProofs` |
| `CsrCommand` (`MCCsrCommand`) | `csr` and `validate-key-pair` on shared paths | `CsrCommandProofs` |
| `SpcTokenCommand` (`MCSpcTokenCommand`) | `spc-token`: value resolution, token checks, its artifacts on a shared directory | `SpcTokenCommandProofs` |

They compose by promises. `AcmeTransport` implements `AtMostOncePost`, so
`AccountStore` and `Issuance` treat a signed POST as one exchange that is
performed at most once and may fail either way; `Issuance` counts its retries for the
time they take. `AccountStore` implements
`AccountPromise` as long as its runs follow each other. `Issuance` implements
`IssuancePromise`, so `IssueCommand` knows `issue` by the promise's steps, and in
turn implements the promise towards the shell. The verdicts of
`IssuedCertificate` ("good", "bad", "escapes") are the promise's certificates
"good", "bad" and "garbled".

### AcmeTransport

`pc` stands for the points of `signed_post_raw` between which something can
happen: signing, the POST on the wire, the reply at hand, `fetch_nonce` for want
of a nonce (`first`) and in the handler of `AcmeBadNonceError` (`refetch`).
`attempt` is the loop variable. The client keeps its nonce after an exception
(`TransportError`, `ReplyLost`), as the code does, and fetches a nonce also after
the last rejected attempt. The server performs a request whose nonce is live
(`Perform`), refuses it, voids nonces by itself (`VoidNonce`), and serves requests
that the client no longer waits for (`ServeDelayed`). `voids` is a history
variable. Calls follow each other, as in the program. `MaxNonce` bounds the nonces
the server issues; 6 lets two calls spend all three attempts of the default
retry budget of 2.

### AccountStore

A directory maps names to inodes; `os.replace` moves a name, `open(..., "w")`
truncates the inode the temporary name refers to, so two processes that use the
same temporary name do to each other what they do on a real file system. An
account is named by its server and the key it was registered with. Each process
runs `prepare_account` step by step: key (load, or generate, write, publish),
directory and nonce, cache (verify) or creation, account object, save. A process may
be killed between any two steps and be run again. An operator may deactivate
accounts and, where `Removable` allows, remove files. `calm` switches faults off for
liveness.

A record written over another one that is still in the file leaves the end of the
other behind if that was longer, and the file no longer parses: `WriteStateTmp` leaves
the record, or `Torn`. Such a file is published like any other.

Every run is for an environment (`env`), and each environment is an ACME server with
accounts and nonces of its own. Nothing in the code keeps runs for both off one
`acme_account_dir`, and `load_state` takes whatever `account.json` says, so that a
run may find the account URL of the other server in it. It then sends its first
signed request there with a nonce that its own server issued; the other server
answers badNonce, and `signed_post_raw` fetches the nonce of the retry from its own
directory again, so that no retry can succeed and the run fails (`BadNonce`). That is
why `PreparedClientIsAuthorized` holds for both environments, and why `Recovers`
leaves such a cache out: only its removal helps.

The refinement of `AccountPromise` maps `saved` to the key in `account.key`, `cached`
to the server of the account in `account.json` and `clients` to what the processes
act with whose `prepare_account` has returned. Publishing the key is the abstract
`SaveKey`, a `newAccount` that the server performs is `Register`, also when the answer
is lost, and publishing the cache is `Prepare`, since that is its last step; crashes
and failures of the steps between are stutters.

Bounds: `InodeCount` exceeds what the processes can hold at a time (a new file needs
a free inode, `NewInode`; which one does not matter): with three more than there are
processes none ever waits for one (`FilesCanBeMade`). `MaxRuns` bounds runs begun
while faults may happen (3: a run that is interrupted, one that meets what it left,
and one more); with one key more than that no run lacks one to generate
(`KeysCanBeMade`).

### Issuance

An exchange is a request, the server's step and the client's handling of the
answer, so that the answer can be out of date when it is looked at. Time passes in
ticks while the client waits or sleeps; `elapsed`, `nap`, `left` and `life` count
ticks. `MaxLatency` is the longest that one HTTP request takes: `timeout_seconds`.

A signed exchange (`Signed`) may take several requests: the server rejects the nonce
(`BadNonce`), the client asks for a new one with HEAD, and with GET if HEAD gets 405
(`HeadRefused`), and sends the POST again, `Retries` times at most (`NonceFetched`).
`prepare_account` is the directory, the first nonce, the signed request to the account
or `newAccount`, and the account object if `newAccount` answers without a body. An
order that becomes invalid has its authorizations fetched one by one for the error
message (`PollFails`, `Diagnosed`); how many there are is the server's choice, bounded
by `MaxListed`.

Values and formats are left out, control is not: the CSR is built after the order is
ready (`CsrFails`), an empty answer to finalize makes `poll_order` fetch, another one is
the first order it looks at, be it from before the finalization (`"ready"`) or from
after it (`"valid"`). `"invalid"` stands for `"revoked"` as well. `margin` and `extra` are
history variables: how much time was left when the order became what was awaited, and
the time that the requests of retries may have taken since then, or since the order was
asked for. In the runs a tick is 30 s and the settings are the defaults of the code: a
poll timeout of 180 s, a minimum token lifetime of 180 s, an HTTP timeout of 30 s, two
retries; the interval of 5 s is rounded up to a tick. `MaxListed` is 2.

The token is checked once, before four requests: the CRL, the order, the authorization
and the challenge. Four times 30 s fit in the 180 s; but one signed POST may take up to
nine requests when its nonce is rejected again and again, and then a token can expire on
the way. `TokenLiveWhenPresented` therefore says that a token that has expired when it is
presented has lost its life to rejected nonces: its minimum is at most four requests and
those that retries added, for all settings. With the defaults it takes two such requests,
that is one rejected nonce, at full length.

`TimeoutMeansLate` counts the same way: an order that is what was awaited more than an
interval, two requests and those of retries meanwhile before the deadline is found. What
the loop does with an order that comes later is `issuance_late`.

### IssueCommand

Runs choose the configured directory (one for all runs, the worst case) or a
default name made of the current second and a suffix, probe for a free name, make
the directory with `exist_ok=False`, resolve values, issue, and write the five
artifacts in their order, each in two steps (truncate, write). A write may fail and
a run may be killed at any point. The values include the subject: a given common
name, or the default one, which has the second in which the values are resolved,
later than that of the directory's name. A CA that has issued a certificate for a
subject refuses it (external; `docs/peeringhub.md` describes the restriction).
Seconds and suffixes are bounded (`MaxSuffix`); as many suffixes as there are runs are
enough, however the runs interleave (`SuffixIsFound`). Two runs with one
SPC that resolve their values in the same second do collide, and the later one is
refused: `RefusedOnlyWithinSecond` states that nothing else is.

### IssuedCertificate

The environment comes first: `peeringhub_environment`, else `stipa_environment`, else
production decides on the ACME server and on the CRL that validation asks for
(`Profile`). Bytes are numbers, texts sequences of ASCII codes, object identifiers
sequences of arcs that `Dotted` turns into text as the code compares it. A CA issues
what the CSR asks for and what validation wants of it, or departs from the request in
at most one respect besides the times and the policies. The instance has texts of
three, four and five characters with blanks, newlines and lower case, identifiers
at, below and beside the arc, the real one (`...1.10` begins with the text of
`...1.1`), and times around every edge. Five minutes and 21 days are one and two
ticks: only their order matters to the checks.

### CsrCommand

`csr` writes the key, the PEM and the DER form in place, each in two steps. What
two runs write into one file over each other is the second's; of a longer CSR that it
was written over the end stays behind (`tail`). The PEM loader reads the first CSR and
ignores what follows it, so that `validate-key-pair`, which reads the key and then the
CSR, takes such a file for the second's CSR. `last` and
`overlapped` are history variables that say which runs had the paths to
themselves. Three runs and one check are enough for a mess that two runs leave
and a third run or a check that comes upon it.

### SpcTokenCommand

A run of `spc-token` resolves its values, logs in, requests the token, fetches the
signing certificate, checks the token, downloads the CRL, and only then resolves the
output directory, from an argument, the YAML file or the environment, with what the
resolver takes for unset (an empty text) and for no path (blanks, which shadow the
later sources). It writes the summary, and with `--write-token-artifacts` the
diagnostic files and the token, in place into a directory that may exist and hold
anything; each file is truncated, then written. The token is printed last. An
exchange may fail, a check may reject with an error the command reports or with one
it does not catch (`"traceback"`: a header that is no JSON, a certificate that does
not parse), the disk may be full, the process be killed. `last` and `overlapped` are
history variables as in `CsrCommand`. The instance has three runs and two diagnostic
files for the code's eight: one between whose write and the next something happens,
and the next; the proofs hold for any number. Writers of one file overlap in it: the
second's content, or a mixture where lengths differ.

## Runs

| Run | Shows |
| --- | --- |
| `transport` | no POST takes effect twice; results are true; giving up means the nonces expired; every call returns; refinement of `AtMostOncePost` |
| `account_crash` | one process at a time with crashes, for either environment: every account's key is on disk, cache and key agree, the account is prepared once faults stop; refinement of `AccountPromise` |
| `account_concurrent` | two processes, both environments, crashes and removed files: what survives although temporary names and the cache are shared |
| `account_keyrace` (violation) | two first runs: one certifies a key that no file holds |
| `account_tornstate` (violation) | one process publishes what another has just truncated |
| `issuance` | finalize only for ready orders, tokens that expire on the way only through retries, no unjust timeout, every run ends and in bounded time; refinement of `IssuancePromise` |
| `issuance_late` (violation) | the last answer of `poll_order` is thrown away unseen |
| `issue_command` | exclusive directories, `issuance.json` vouches for the rest, true exits, stable artifacts, default subjects that are refused only within a second; refinement of `IssuancePromise` |
| `issue_garbled` (violation) | a chain whose leaf does not parse is not written |
| `issued_certificate` | what passes conforms, what was asked for passes in either environment, the SPC survives its encoding |
| `csr_command` | a run with the paths to itself leaves its pair, a check tells a pair from anything else |
| `spc_token` | no run leaves what it was not asked for, a run alone leaves all of it, summary and token of one run vouch for the files between |

The violation runs check one sentence each of a document or docstring that the
code does not keep; the findings in PROJECT.json quote it. Every property of the
other runs is also tried against a mutant of the model, a plausible mistake in the
code, which must break it; the mutants stand in the modules before the definitions
they replace.

`CHECK_DEADLOCK FALSE` is set where runs come to an end: calls and invocations are
finite in number, and a finished program does nothing more.

## Fairness

- `AcmeTransport`: the client goes on (it is sequential code) and every HTTP request
  ends, by an answer or by `timeout_seconds`. `requests` applies that time to making the
  connection and to each wait for data, and anew to each redirect: a server that sends a
  byte now and then can hold a request longer. Such a server is left out, and nothing
  else is asked of it. The same holds for `Issuance` and its `MaxLatency`.
- `AccountStore` (`FairSpec`): after `calm` a process goes on and is run again when
  it failed. `Recovers` is stated for one process.
- `Issuance`: the client goes on, requests end by the HTTP timeout, and the clock
  advances while it sleeps. `IssueEnds` therefore holds whatever the servers do.
- `IssueCommand`: a started run goes on; `issue` ends by `IssueEnds`.

## Proofs

All proofs are checked by TLAPS with no gaps. They rest only on the named assumptions
of the modules: bounds and times are natural numbers, texts and identifiers are
sequences of numbers and the arc is not empty, `None`, and the marks for what a file
holds, are none of the values they stand beside, keys are no account records,
removable files are `account.key` and `account.json`, settings are what a resolver
may find, and the sets of runs and checks are disjoint. Sets of calls, runs,
processes, checks, texts and identifiers may be of any size.

- `AcmeTransportProofs`: the inductive invariant adds to the checked properties that
  a request under way or delayed is the current attempt's or a spent one, that a
  delayed nonce is never the one held and live for another attempt, and that the
  voids of a call keep up with its attempts. `AtMostOnce` alone is not inductive:
  nothing in it says that a nonce is used up by its first use. The refinement maps
  the server's performing of a request to the abstract effect.
- `AccountStoreProofs`, for any number of processes: a file has one name and nobody
  who writes a state has a key file open (`FilesApart`), so that shared temporary
  names mix states with states only; a nonce is of the server of its run
  (`NonceInv`), so that no run gets past `BadNonce` with the other server's account;
  `account.key` is there while a process is past it, and while one is about to look
  for it `account.json` is not there without it (`KeyInv`). For one process whose
  `account.key` is kept (`Solo`), `SoloInv` follows in addition what the temporary
  files hold at each point between opening and publishing, and that the final files
  are whole and of one key, whatever the next crash leaves. The key races of
  `account_keyrace` show why that needs one process. They also show when it no longer
  does: once one key is in use (`OneKeyInUse`), as after a first run that was alone,
  overlapping runs keep it so (`OneKeyRemains`), and if `account.key` stays, what the
  race does cannot happen any more (`LaterRunsMayOverlap`).
- `AccountPromiseProofs`: the refinement of `AccountPromise`, from `SoloInv`, one lemma
  for each kind of step; and what follows from the abstract module alone: one account
  at a server, that of the saved key (`OneAccount`), clients that act as the cache says
  (`ClientsAreCached`), caches that the other environment's account does not replace
  (`CachesAreKept`).
- `IssuanceProofs`: for `TimeoutMeansLate` the invariant follows how much of the
  margin can have been spent at each point of the loop (at most the rest of a
  request, an interval and another request, and those of retries); for
  `TokenLiveWhenPresented` how much of the life at each request; for the refinement that
  nothing is issued before finalize was sent.
- `IssueCommandProofs`: who has claimed a directory, which files of it exist by the
  point its owner has reached, and that nobody else stands in it; for the subjects
  (`NameInv`) that a name is the given one or of the second its run resolved it in,
  and that a refusal has a run that was issued the same name.
- `IssuedCertificateProofs`: the longest stretch that `Strip` takes exists and does
  not end with a blank, so that the `$` of `SPC_PATTERN`, which matches before a
  newline, lets nothing longer through; bytes of a TNAuthList determine its text;
  and an identifier's text begins with that of the arc and a dot exactly if its
  numbers begin with the arc's. For the last, `Decimal` and `Dotted` are recursive
  functions: that they have solutions, that a number is determined by its digits, and
  that arcs are read off a text one by one, is shown with the least natural number
  that would be an exception (`Induction`, with the property given as a set).
- `CsrCommandProofs`: while a run is the last one started and was not overlapped, no
  other run is active, and the files are its own up to where it stands; while a
  check was not overlapped, the key it read is the one on disk.
- `SpcTokenCommandProofs`: who came last and was not overlapped is alone in the
  directory, and the files up to where it stands are its own; a run that comes after
  it takes the summary away before it touches anything else, so that summary and
  token of one run are never the frame of another's files.

Liveness (`CallsReturn`, `Recovers`, `IssueEnds`, `RunsEnd`) is checked by TLC only:
fairness and `ENABLED` are out of the prover's reach. Proved, for all values of the
constants, is the half of each that does not speak of fairness, a number that every
step of the program brings down and no step of anyone else raises:

- `CallsComeToAnEnd`: a signed POST has at most `4 * Retries + 6` steps.
- `RecoveryAdvances`: one process at a time, once faults have stopped and no foreign
  cache or deactivated account bars it, no run fails any more on what others left
  behind, and at most thirteen steps, a rerun included, lead to a prepared account.
  `RecoverInv` adds to `SoloInv` that nobody remembers as deactivated an account that
  is not.
- `IssueRunsDown`: stages of `issue`, time of the poll, requests of the exchange with its
  retries, rest of the request or sleep. It needs `PollInterval > 0`: with an interval of
  0 `poll_order` may go round without time passing. The CLI has a constant 5; a caller of
  the library may pass 0.
- `IssueTakesBoundedTime`, for intervals of 0 too: the time a run still has before it
  (`TimeAhead`) never grows, falls with every tick, and is never more than `IssueAtMost`:
  two timeouts, two intervals, seven single requests, and `3 * Retries + 3` requests for
  each of nine signed exchanges and of the authorizations a failed order lists. A poll
  takes its timeout, one interval and one exchange more. The proof counts the requests
  ahead at each point (`Places`) and shows that the clocks take over no more than one
  request's time for each request that is dropped from the count.
- `RunsRunDown`: a run of `peeringhub-issue` has at most `MaxSuffix + 16` steps, and
  other runs can only take names from it.

What is missing to liveness is that a step that is always possible is taken, which is
what the fairness of each module says.

## Not modelled

- Cryptography, JWS and base64url: taken as accepted by the servers.
- `ca-list`, `fingerprint`, `inspect`: one read, formatting, no state. Of the
  inspector only `tn_auth_list_dict` is modelled.
- Time that passes otherwise than in requests and sleeps; servers that trickle bytes.
- Argument parsing, shell completion, logging, redaction of logs.
- File modes and ownership.
- Processes that share a run's memory: the library is used by one thread.
- `request_ca_list` and the decoding of its certificates; `validate-key-pair
  --certificate`, which compares like `--csr`.
- `CliValueResolver.integer` and `mapped_url`, which no command calls, and the loading
  of the YAML file.

Worth knowing although no property forbids it: a run that fails after it made its
output directory leaves the empty directory, which blocks later runs configured with
the same one; `csr` replaces an existing key before anything else that can fail; a
`--csr-der-out` of an earlier run stays beside a newer PEM; `TnAuthList` accepts a
newline at the end when a Python caller passes one; certificates that a run asked
for and did not wait for are issued nevertheless, and nothing resumes their orders;
an account that is found by `newAccount` is used whatever its status, a cached one is
not if it was deactivated; waiting for "ready" accepts no order that is past it, and an
authorization that is already valid offers no challenge to answer, so that such runs end
with an error though the order would do; a directory of blanks hides those of later
sources and counts as none, so that nothing is written; runs of `spc-token` that overlap
on one directory both succeed whatever they leave in it; `spc-token` prints the token after
it has written its artifacts, so that a token the STI-PA has granted is shown nowhere
if they cannot be written, and without the flag it leaves the files of an earlier
token beside the newer summary.

## Plan

Done, in this order: transport, account, issuance, command, certificates and csr;
then environments in the account store, `spc-token`, the subjects of
`peeringhub-issue`, the choice of the environment, the proofs about the account store
and the certificates; then `AccountPromise` with its refinement, and the step-wise
halves of the liveness properties. What is left:

1. A composition of account and issuance in which a second process replaces the key
   between the token and the CSR.
2. `validate-key-pair --certificate` and the decoding of the CA list.
