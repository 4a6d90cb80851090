--------------------------- MODULE IssuancePromise ---------------------------
(* What StirShakenIssuer.issue promises its caller about the certificate: at *)
(* most one is issued per run, none before the run asked for it, the run     *)
(* succeeds with a certificate that passed local validation, hands over one  *)
(* that was downloaded and failed it, and otherwise raises, which says       *)
(* nothing about the certificate: the CA may still issue it afterwards.      *)
CONSTANT None

VARIABLES outcome,          \* how the run ended
          asked,            \* the CA was asked for the certificate
          certificate       \* what the CA issued

vars == <<outcome, asked, certificate>>

\* "good" passes local validation, "bad" parses but fails it, "garbled" has no
\* leaf certificate that parses.
Certificates == {"good", "bad", "garbled"}
Outcomes == {"running", "issued", "retained", "raised"}

Init == /\ outcome = "running"
        /\ asked = FALSE
        /\ certificate = None

Ask == /\ outcome = "running"
       /\ ~asked
       /\ asked' = TRUE
       /\ UNCHANGED <<outcome, certificate>>

\* The CA's step: it may come after the run has ended.
IssueCertificate == /\ asked
                    /\ certificate = None
                    /\ certificate' \in Certificates
                    /\ UNCHANGED <<outcome, asked>>

Succeed == /\ outcome = "running"
           /\ certificate = "good"
           /\ outcome' = "issued"
           /\ UNCHANGED <<asked, certificate>>

Retain == /\ outcome = "running"
          /\ certificate = "bad"
          /\ outcome' = "retained"
          /\ UNCHANGED <<asked, certificate>>

Raise == /\ outcome = "running"
         /\ outcome' = "raised"
         /\ UNCHANGED <<asked, certificate>>

Next == Ask \/ IssueCertificate \/ Succeed \/ Retain \/ Raise

Spec == Init /\ [][Next]_vars
=============================================================================
