----------------------------- MODULE CsrCommand -----------------------------
(* The local commands csr and validate-key-pair on one set of paths: run_csr *)
(* of cli.py replaces the key, the PEM and the DER form of the CSR one after *)
(* the other and in place, run_validate_key_pair reads the key and the CSR   *)
(* one after the other. Runs follow each other or overlap, fail or are       *)
(* killed between any two steps.                                             *)
EXTENDS Naturals

CONSTANTS Runs,             \* invocations of csr
          Checks,           \* invocations of validate-key-pair --csr
          None

\* The outputs, in the order they are written.
Outputs == {"key", "pem", "der"}

ASSUME ProcessAssumption == Runs \cap Checks = {} /\ None \notin Runs \cup Outputs

\* What a file begins with: nothing (absent, or truncated by OpenOutput) or the
\* whole output of one run.
Nothing == "nothing"
Contents == Runs \cup {Nothing}

ASSUME ContentsAssumption == Nothing \notin Runs

VARIABLES pc,               \* pc[p]: where run or check p stands
          files,            \* files[o]: what is on disk
          tail,             \* tail[o]: and the end of a longer output after it
          fd,               \* fd[r]: the output r has opened and not written
          der,              \* der[r]: --csr-der-out is given
          exit,             \* exit[p]: how p ended
          read,             \* read[c]: the key that check c loaded
          last,             \* history: the run that was started last
          overlapped        \* history: others were running at the same time

vars == <<pc, files, tail, fd, der, exit, read, last, overlapped>>
history == <<last, overlapped>>

RunPoints == {"start", "key", "build", "pem", "der", "ended"}
CheckPoints == {"start", "csr", "ended"}
RunExits == {"none", "ok", "values", "subject", "oserror", "killed"}
CheckExits == {"none", "match", "mismatch", "error"}

TypeOK ==
  /\ \A r \in Runs : pc[r] \in RunPoints /\ exit[r] \in RunExits
  /\ \A c \in Checks : pc[c] \in CheckPoints /\ exit[c] \in CheckExits
  /\ pc \in [Runs \cup Checks -> RunPoints \cup CheckPoints]
  /\ exit \in [Runs \cup Checks -> RunExits \cup CheckExits]
  /\ \A r \in Runs : pc[r] = "der" => der[r]
  /\ files \in [Outputs -> Contents]
  /\ tail \in [Outputs -> BOOLEAN]
  /\ \A o \in Outputs : tail[o] => o # "key" /\ files[o] # Nothing
  /\ fd \in [Runs -> Outputs \cup {None}]
  /\ \A r \in Runs : fd[r] # None => fd[r] = pc[r]
  /\ der \in [Runs -> BOOLEAN]
  /\ read \in [Checks -> Contents]
  /\ last \in Runs \cup {None}
  /\ overlapped \in [Runs \cup Checks -> BOOLEAN]

Init ==
  /\ pc = [p \in Runs \cup Checks |-> "start"]
  /\ exit = [p \in Runs \cup Checks |-> "none"]
  /\ files = [o \in Outputs |-> Nothing]
  /\ tail = [o \in Outputs |-> FALSE]
  /\ fd = [r \in Runs |-> None]
  /\ der \in [Runs -> BOOLEAN]
  /\ read = [c \in Checks |-> Nothing]
  /\ last = None
  /\ overlapped = [p \in Runs \cup Checks |-> FALSE]

Goto(p, point) == pc' = [pc EXCEPT ![p] = point] /\ UNCHANGED exit
Exit(p, how) == /\ pc' = [pc EXCEPT ![p] = "ended"]
                /\ exit' = [exit EXCEPT ![p] = how]
Active(p) == pc[p] \notin {"start", "ended"}

\* p starts while those that are active go on; a check disturbs nobody.
Overlap(p) ==
  overlapped' = [q \in DOMAIN overlapped |->
                   \/ overlapped[q]
                   \/ q = p /\ \E r \in Runs : Active(r)
                   \/ p \in Runs /\ Active(q)]

----------------------------------------------------------------------------
(* run_csr                                                                   *)

\* The paths, the SPC and the subject are resolved.
Start(r) ==
  /\ pc[r] = "start"
  /\ Goto(r, "key")
  /\ last' = r
  /\ Overlap(r)
  /\ UNCHANGED <<files, tail, fd, der, read>>

\* One is missing, or the SPC is malformed.
RejectValues(r) ==
  /\ pc[r] = "start"
  /\ Exit(r, "values")
  /\ UNCHANGED <<files, tail, fd, der, read, history>>

\* Path.write_bytes opens the output of this point, and truncates it.
OpenOutput(r) ==
  /\ pc[r] \in Outputs
  /\ fd[r] = None
  /\ files' = [files EXCEPT ![pc[r]] = Nothing]
  /\ tail' = [tail EXCEPT ![pc[r]] = FALSE]
  /\ fd' = [fd EXCEPT ![r] = pc[r]]
  /\ UNCHANGED <<pc, der, exit, read, history>>

\* It writes from the start of the file. PEM keys are of one length, signatures
\* are not: what another run wrote meanwhile is covered, or its end remains.
Put(r) ==
  /\ fd[r] = pc[r]
  /\ fd' = [fd EXCEPT ![r] = None]
  /\ files' = [files EXCEPT ![pc[r]] = r]
  /\ \E remains \in BOOLEAN :
       /\ remains => files[pc[r]] # Nothing /\ pc[r] # "key"
       /\ tail' = [tail EXCEPT ![pc[r]] = remains]

\* generate_certificate_key: the new key is on disk before there is a CSR.
WriteKey(r) ==
  /\ pc[r] = "key"
  /\ Put(r)
  /\ Goto(r, "build")
  /\ UNCHANGED <<der, read, history>>

BuildCsr(r) ==
  /\ pc[r] = "build"
  /\ Goto(r, "pem")
  /\ UNCHANGED <<files, tail, fd, der, read, history>>

\* to_x509_name raises ValueError of a name that X.509 does not allow, such as
\* a country of three letters: the key has been replaced by then.
RejectSubject(r) ==
  /\ pc[r] = "build"
  /\ Exit(r, "subject")
  /\ UNCHANGED <<files, tail, fd, der, read, history>>

\* Mutant of WritePem: the DER form is forgotten.
WriteOnlyPem(r) ==
  /\ pc[r] = "pem"
  /\ Put(r)
  /\ Exit(r, "ok")
  /\ UNCHANGED <<der, read, history>>

\* Mutant of WritePem: the DER form is written unasked.
WriteBothForms(r) ==
  /\ pc[r] = "pem"
  /\ Put(r)
  /\ Goto(r, "der")
  /\ UNCHANGED <<der, read, history>>

WritePem(r) ==
  /\ pc[r] = "pem"
  /\ Put(r)
  /\ IF der[r] THEN Goto(r, "der") ELSE Exit(r, "ok")
  /\ UNCHANGED <<der, read, history>>

WriteDer(r) ==
  /\ pc[r] = "der"
  /\ Put(r)
  /\ Exit(r, "ok")
  /\ UNCHANGED <<der, read, history>>

\* A directory is missing, the disk is full; or the process is killed. Of what
\* is half written nothing can be used.
Fail(r) ==
  /\ Active(r)
  /\ \E how \in {"oserror", "killed"} :
       /\ how = "oserror" => pc[r] \in Outputs
       /\ Exit(r, how)
  /\ fd' = [fd EXCEPT ![r] = None]
  /\ UNCHANGED <<files, tail, der, read, history>>

----------------------------------------------------------------------------
(* run_validate_key_pair --csr                                               *)

\* load_certificate_key; what is no key raises.
LoadKey(c) ==
  /\ pc[c] = "start"
  /\ read' = [read EXCEPT ![c] = files["key"]]
  /\ IF files["key"] \in Runs THEN Goto(c, "csr") ELSE Exit(c, "error")
  /\ Overlap(c)
  /\ UNCHANGED <<files, tail, fd, der, last>>

\* Mutant of Compare: the public keys are not compared.
CompareNothing(key, csr) == IF csr \in Runs THEN "match" ELSE "error"

\* require_csr_private_key_match of what was read; the CSR must parse first, and
\* does so with the end of another one after it, which the PEM loader ignores.
Compare(key, csr) == CASE csr \notin Runs -> "error"
                       [] csr = key -> "match"
                       [] OTHER -> "mismatch"

CheckCsr(c) ==
  /\ pc[c] = "csr"
  /\ Exit(c, Compare(read[c], files["pem"]))
  /\ UNCHANGED <<files, tail, fd, der, read, history>>

----------------------------------------------------------------------------
Step(r) == \/ Start(r) \/ RejectValues(r) \/ OpenOutput(r) \/ WriteKey(r)
           \/ BuildCsr(r) \/ RejectSubject(r) \/ WritePem(r) \/ WriteDer(r)

Next == \/ \E r \in Runs : Step(r) \/ Fail(r)
        \/ \E c \in Checks : LoadKey(c) \/ CheckCsr(c)

Spec == Init /\ [][Next]_vars

----------------------------------------------------------------------------
(* Properties                                                                *)

\* Key and CSR on disk, as they are read, belong together.
Paired == files["key"] \in Runs /\ files["pem"] = files["key"]

\* A run that succeeded, that no other overlapped and none followed, leaves its
\* own key with its own CSR, in both forms if it was asked for both, and nothing
\* after them, whatever earlier runs that overlapped, failed or were killed had
\* left there.
SoleRunLeavesItsPair ==
  \A r \in Runs : exit[r] = "ok" /\ last = r /\ ~overlapped[r] =>
    /\ Paired
    /\ files["key"] = r
    /\ ~tail["pem"]
    /\ der[r] => files["der"] = r /\ ~tail["der"]

\* validate-key-pair, run while no csr is running, says that key and CSR match
\* exactly if they do, and that they do not exactly if both can be read and do
\* not, whatever has been left on disk.
VerdictIsTrue ==
  [][\A c \in Checks : exit[c] # exit'[c] /\ ~overlapped[c] =>
       /\ exit'[c] = "match" <=> Paired
       /\ exit'[c] = "mismatch" <=>
            {files["key"], files["pem"]} \subseteq Runs /\ ~Paired]_vars
=============================================================================
