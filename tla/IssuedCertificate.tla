-------------------------- MODULE IssuedCertificate --------------------------
(* What an issued certificate has to go through: the environment that is     *)
(* configured decides on CA and CRL (peeringhub.py), the SPC becomes a       *)
(* TNAuthList in DER (tnauth.py), the CSR asks for a certificate, the CA     *)
(* issues one, with whatever it chose, ShakenCertificateManager              *)
(* validates it some time later (certificates.py), and the inspector shows   *)
(* the SPC of it (inspection.py). Bytes are numbers, an object identifier is *)
(* the sequence of its arcs, time is in ticks from an origin in the past.    *)
EXTENDS Integers, Sequences

CONSTANTS Texts,            \* what may be configured as the SPC: ASCII codes
          Oids,             \* certificate policies a CA may put in
          Arc,              \* SHAKEN_POLICY_OID_ARC
          Slack,            \* five minutes, in ticks
          MinimumLifetime,  \* minimum_certificate_lifetime_days, in ticks
          MaxTime,          \* bound: the last tick
          Names,            \* what may be given as an environment
          None

ASSUME DataAssumption == /\ Texts \subseteq Seq(Int)
                         /\ Oids \subseteq Seq(Nat)
                         /\ Arc \in Seq(Nat) /\ Arc # <<>>
                         /\ \A policies \in SUBSET Oids : policies # None
ASSUME TimeAssumption ==
  Slack \in Nat /\ MinimumLifetime \in Nat /\ MaxTime \in Nat

VARIABLES pc,               \* where the SPC and its certificate stand
          profile,          \* the environment of each of the servers in use
          spc,              \* the SPC as resolved
          accepted,         \* accepted_shaken_policy_oids
          certificate,      \* what the CA issued
          honest,           \* history: it issued what was asked for
          now,              \* the client's clock
          verdict           \* of the validation

vars == <<pc, profile, spc, accepted, certificate, honest, now, verdict>>

----------------------------------------------------------------------------
(* The environment                                                           *)

Envs == {"staging", "production"}

\* resolve_peeringhub_environment: peeringhub_environment, stipa_environment
\* and the default, whichever comes first.
Environment(peeringhub, stipa) ==
  CASE peeringhub # None -> peeringhub
    [] peeringhub = None /\ stipa # None -> stipa
    [] OTHER -> "production"

\* PeeringhubProfile.for_environment: the URLs, as the environments they are of.
Profile(env) == [acme |-> env, crl |-> env]

----------------------------------------------------------------------------
(* The SPC and its TNAuthList                                                *)

Blanks == (9 .. 13) \cup (28 .. 32) \cup {133, 160, 5760} \cup (8192 .. 8202)
            \cup {8232, 8233, 8239, 8287, 12288}
Upper(c) == c \in 65 .. 90
Digit(c) == c \in 48 .. 57

\* str.strip: the longest stretch that neither begins nor ends with a blank.
Strip(text) ==
  LET inner == {i \in DOMAIN text : text[i] \notin Blanks}
  IN  IF inner = {} THEN <<>>
      ELSE LET first == CHOOSE i \in inner : \A j \in inner : i <= j
               final == CHOOSE i \in inner : \A j \in inner : j <= i
           IN  SubSeq(text, first, final)

\* TnAuthList.validate: ^[A-Z0-9]{4}$, where $ also matches before a newline
\* that ends the text; the tests before and after it add nothing.
ValidSpc(text) ==
  /\ Len(text) = 4 \/ (Len(text) = 5 /\ text[5] = 10)
  /\ \A i \in 1 .. 4 : Upper(text[i]) \/ Digit(text[i])

\* Mutant of Der: the outer length does not count the context tag.
DerShort(text) ==
  <<48, Len(text) + 2, 160, Len(text) + 2, 22, Len(text)>> \o text

\* SEQUENCE { [0] { IA5String } }, with lengths of one byte.
Der(text) ==
  <<48, Len(text) + 4, 160, Len(text) + 2, 22, Len(text)>> \o text

\* tn_auth_list_dict: the text of a TNAuthList that Der built, else None.
Inspected(der) ==
  IF /\ Len(der) >= 6
     /\ der[1] = 48 /\ der[3] = 160 /\ der[5] = 22
     /\ der[2] = Len(der) - 2 /\ der[4] = Len(der) - 4
     /\ der[6] = Len(der) - 6
     /\ \A i \in 7 .. Len(der) : der[i] \in 0 .. 127
    THEN SubSeq(der, 7, Len(der)) ELSE None

----------------------------------------------------------------------------
(* Validation                                                                *)

\* dotted_string: arcs in decimal with dots (46) between.
Decimal(arc) ==
  LET digits[n \in 0 .. arc] ==
        IF n < 10 THEN <<48 + n>>
                  ELSE Append(digits[n \div 10], 48 + (n % 10))
  IN  digits[arc]
Dotted(oid) ==
  LET upto[n \in 0 .. Len(oid)] ==
        CASE n = 0 -> <<>>
          [] n = 1 -> Decimal(oid[1])
          [] OTHER -> upto[n - 1] \o <<46>> \o Decimal(oid[n])
  IN  upto[Len(oid)]

StartsWith(text, start) ==
  Len(start) <= Len(text) /\ SubSeq(text, 1, Len(start)) = start

\* Mutant of IsShakenPolicyOid: the dot after the arc is forgotten.
IsShakenPolicyText(oid) == StartsWith(Dotted(oid), Dotted(Arc))

\* is_shaken_policy_oid, a comparison of texts.
IsShakenPolicyOid(oid) == StartsWith(Dotted(oid), Dotted(Arc) \o <<46>>)

\* require_shaken_policy_oid: exact identifiers if configured, else the arc
\* (require_shaken_policy is on, as it is wherever the toolkit sets a policy).
HasPolicy(policies) ==
  IF accepted # None THEN policies \cap accepted # {}
                     ELSE \E oid \in policies : IsShakenPolicyOid(oid)

\* Mutant of InTime: no tolerance of a clock that is behind the CA's.
InTimeStrictly(c) == /\ now >= c.from /\ now <= c.to
                     /\ c.to > now + MinimumLifetime

\* Five minutes of tolerance at both ends, and a minimum lifetime.
InTime(c) == /\ now + Slack >= c.from /\ now - Slack <= c.to
             /\ c.to > now + MinimumLifetime

\* require_expected_crl: some distribution point has the URL of the profile.
HasCrl(c) == profile.crl \in c.crl

\* The checks of validate_issued_certificate_policy; an extension that is
\* missing is refused like one that is wrong.
Passes(c) == /\ c.key = "own"
             /\ InTime(c)
             /\ c.subject = "own"
             /\ c.ca = "false"
             /\ c.tnAuthList = Der(spc)
             /\ HasCrl(c)
             /\ c.policies # None /\ HasPolicy(c.policies)

\* Extensions that are not DER, or there twice, raise ValueError where they are
\* read: by the checks, and by certificate_diagnostics for a refusal that came
\* before.
Raises(c) == c.extensions = "unreadable"

\* validate_issued_certificate catches a refusal and a missing extension only.
Verdict(c) == CASE Raises(c) -> "escapes"
                [] ~Raises(c) /\ Passes(c) -> "good"
                [] OTHER -> "bad"

----------------------------------------------------------------------------
Instants == 0 .. MaxTime

CertificatesOf(text) ==
  [key : {"own", "other"}, from : Instants, to : Instants,
   subject : {"own", "other"}, extensions : {"readable", "unreadable"},
   ca : {"false", "true", "missing"}, tnAuthList : {Der(text), <<>>, None},
   crl : SUBSET Envs, policies : (SUBSET Oids) \cup {None}]

TypeOK ==
  /\ pc \in {"configure", "spc", "request", "validate", "ended"}
  /\ profile \in [acme : Envs, crl : Envs] \cup {None}
  /\ spc \in Seq(Int)
  /\ accepted \in (SUBSET Oids) \cup {None}
  /\ certificate \in CertificatesOf(spc) \cup {None}
  /\ honest \in BOOLEAN
  /\ now \in Instants
  /\ verdict \in {"none", "values", "escapes", "good", "bad"}
  /\ pc = "ended" <=> verdict # "none"

Init ==
  /\ pc = "configure"
  /\ profile = None
  /\ spc = <<>>
  /\ accepted \in {None} \cup {{oid} : oid \in Oids}
  /\ certificate = None
  /\ honest = FALSE
  /\ now = 0
  /\ verdict = "none"

\* peeringhub-issue: the environment is resolved first.
ChooseEnvironment ==
  /\ pc = "configure"
  /\ \E peeringhub, stipa \in Names \cup {None} :
       LET env == Environment(peeringhub, stipa)
       IN  IF env \in Envs
             THEN profile' = Profile(env) /\ pc' = "spc" /\ UNCHANGED verdict
             ELSE pc' = "ended" /\ verdict' = "values" /\ UNCHANGED profile
  /\ UNCHANGED <<spc, accepted, certificate, honest, now>>

\* required_string strips what was configured; TnAuthList.der validates it.
Configure ==
  /\ pc = "spc"
  /\ \E text \in Texts : spc' = Strip(text)
  /\ IF ValidSpc(spc') THEN pc' = "request" /\ UNCHANGED verdict
                       ELSE pc' = "ended" /\ verdict' = "values"
  /\ UNCHANGED <<profile, accepted, certificate, honest, now>>

\* The certificate that build_csr asks for, and the CA the order went to. The
\* CSR of peeringhub-issue leaves the CRL to the CA, as the rest that is given.
Requested(from, to, policies) ==
  [key |-> "own", from |-> from, to |-> to, subject |-> "own",
   extensions |-> "readable", ca |-> "false", tnAuthList |-> Der(spc),
   crl |-> {profile.acme}, policies |-> policies]

\* An identifier below the arc, in terms of arcs.
Descends(oid) == Len(oid) > Len(Arc) /\ SubSeq(oid, 1, Len(Arc)) = Arc

Issue(c) == /\ certificate' = c
            /\ pc' = "validate"
            /\ UNCHANGED <<profile, spc, accepted, now, verdict>>

\* A CA whose clock is right within Slack issues what was asked for, with the
\* CRL of its environment and a policy that is called for (external).
IssueAsRequested ==
  /\ pc = "request"
  /\ \E from, to \in Instants, policies \in SUBSET Oids :
       /\ from <= now + Slack
       /\ IF accepted = None THEN \E oid \in policies : Descends(oid)
                             ELSE policies \cap accepted # {}
       /\ Issue(Requested(from, to, policies))
  /\ honest' = TRUE

\* A CA that decides on the times and the policies as it likes and departs from
\* the request in at most one more respect (external).
IssueOtherwise ==
  /\ pc = "request"
  /\ \E from, to \in Instants, policies \in (SUBSET Oids) \cup {None} :
       LET r == Requested(from, to, policies)
       IN  \/ Issue(r)
           \/ Issue([r EXCEPT !.key = "other"])
           \/ Issue([r EXCEPT !.subject = "other"])
           \/ Issue([r EXCEPT !.extensions = "unreadable"])
           \/ \E ca \in {"true", "missing"} : Issue([r EXCEPT !.ca = ca])
           \/ \E der \in {<<>>, None} : Issue([r EXCEPT !.tnAuthList = der])
           \/ \E crl \in SUBSET Envs :
                Issue([r EXCEPT !.crl = crl])
  /\ honest' = FALSE

\* Mutant of Validate: it may be run again.
ValidateOn ==
  /\ pc = "validate"
  /\ verdict' = Verdict(certificate)
  /\ UNCHANGED <<pc, profile, spc, accepted, certificate, honest, now>>

Validate ==
  /\ pc = "validate"
  /\ verdict' = Verdict(certificate)
  /\ pc' = "ended"
  /\ UNCHANGED <<profile, spc, accepted, certificate, honest, now>>

\* Time passes on the way to the validation.
Tick ==
  /\ pc \in {"request", "validate"}
  /\ now < MaxTime
  /\ now' = now + 1
  /\ UNCHANGED <<pc, profile, spc, accepted, certificate, honest, verdict>>

Next == \/ ChooseEnvironment \/ Configure
        \/ IssueAsRequested \/ IssueOtherwise
        \/ Validate \/ Tick

Spec == Init /\ [][Next]_vars

----------------------------------------------------------------------------
(* Properties                                                                *)

\* A certificate that passes is for the key, the subject and the SPC asked for,
\* as the inspector shows it, is no CA's, has not expired, although the test of
\* its life is a tolerant one, has the minimum lifetime left, and a policy that
\* was called for, although identifiers are compared as texts.
AcceptedIsConforming ==
  verdict = "good" =>
    /\ certificate.key = "own" /\ certificate.subject = "own"
    /\ certificate.ca = "false"
    /\ Inspected(certificate.tnAuthList) = spc
    /\ now < certificate.to /\ now + MinimumLifetime <= certificate.to
    /\ IF accepted = None THEN \E oid \in certificate.policies : Descends(oid)
                          ELSE certificate.policies \cap accepted # {}

\* What the run asks for, and of which CA, is what its validation wants: the
\* certificate of a CA that does its part passes, in either environment, as long
\* as it has the minimum lifetime left.
HonestIsAccepted ==
  honest /\ verdict # "none" /\ certificate.to > now + MinimumLifetime =>
    verdict = "good"

\* The SPC that gets into a request has four characters, the inspector reads it
\* back, and no other text that is accepted has the same TNAuthList.
TnAuthListNamesSpc ==
  pc \in {"request", "validate"} =>
    /\ Len(spc) = 4
    /\ Inspected(Der(spc)) = spc
    /\ \A text \in Texts : ValidSpc(text) /\ Der(text) = Der(spc) => text = spc
=============================================================================
