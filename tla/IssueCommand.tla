---------------------------- MODULE IssueCommand ----------------------------
(* The command peeringhub-issue as the shell sees it: run_peeringhub_issue   *)
(* of cli.py with the choice of the output directory, write_issuance_outputs *)
(* and the exit, run several times, side by side or one after the other.     *)
(* Each run claims its directory, works through StirShakenIssuer.issue       *)
(* (known here by IssuancePromise, which Issuance implements) and writes the *)
(* five artifacts; it may be killed between any two steps.                   *)
EXTENDS Naturals

CONSTANTS Runs,             \* invocations of the command
          MaxSecond,        \* bound: the clock's last second
          MaxSuffix,        \* bound: suffixes of default directory names
          None

Certificates == {"good", "bad", "garbled"}

\* The artifacts, numbered in the order they are written: csr.pem, csr.der,
\* leaf.pem, certificate-chain.pem, issuance.json.
Index == 5
Artifacts == 1 .. Index

\* <<0, 0>> is the directory that --output-dir, the config or the environment
\* names, the same for all runs; <<t, n>> is the default name of second t with
\* suffix n, where n = 0 stands for no suffix.
ConfiguredDir == <<0, 0>>
Names == (0 .. MaxSecond) \X (0 .. MaxSuffix)
Files == [by : Runs, whole : BOOLEAN]

\* Common names of the certificate's subject: 0 is the one that an argument, the
\* config or the environment gives, the same for all runs; t > 0 stands for
\* "SHAKEN <SPC> <second t>", for the one SPC of all runs.
GivenName == 0
CommonNames == 0 .. MaxSecond

ASSUME NoneAssumption == /\ None \notin Certificates \cup Names \cup CommonNames
                         /\ None \notin Files
ASSUME BoundAssumption == MaxSecond \in Nat \ {0} /\ MaxSuffix \in Nat

VARIABLES now,              \* the second the clock shows
          pc,               \* pc[r]: where run r stands
          target,           \* target[r]: output_dir
          next,             \* next[r]: index of the artifact to be written
          exit,             \* exit[r]: how r ended: what it printed or raised
          dirs,             \* the output directories that exist
          file,             \* file[n][a]: who wrote a in n, and all of it?
          resolved,         \* resolved[r]: when r resolved its values (history)
          name,             \* name[r]: common name of the subject r asks for
          asked,            \* asked[r]: the CA was asked for a certificate
          refused,          \* refused[r]: it has one of that subject (external)
          certificate       \* certificate[r]: what it issued (external)

disk == <<dirs, file>>
order == <<resolved, name, asked, refused, certificate>>
vars == <<now, pc, target, next, exit, disk, order>>

Points == {"start", "probe", "mkdir", "values", "issue", "open", "write", "ended"}
Exits == {"none", "ok", "retained", "garbled", "values", "raised",
          "oserror", "killed"}

TypeOK ==
  /\ now \in 1 .. MaxSecond
  /\ pc \in [Runs -> Points]
  /\ target \in [Runs -> Names \cup {None}]
  /\ next \in [Runs -> Artifacts]
  /\ exit \in [Runs -> Exits]
  /\ dirs \in SUBSET Names
  /\ file \in [Names -> [Artifacts -> Files \cup {None}]]
  /\ resolved \in [Runs -> (1 .. MaxSecond) \cup {None}]
  /\ name \in [Runs -> CommonNames \cup {None}]
  /\ asked \in [Runs -> BOOLEAN]
  /\ refused \in [Runs -> BOOLEAN]
  /\ certificate \in [Runs -> Certificates \cup {None}]

Init ==
  /\ now = 1
  /\ pc = [r \in Runs |-> "start"]
  /\ target = [r \in Runs |-> None]
  /\ next = [r \in Runs |-> 1]
  /\ exit = [r \in Runs |-> "none"]
  /\ dirs = {}
  /\ file = [n \in Names |-> [a \in Artifacts |-> None]]
  /\ resolved = [r \in Runs |-> None]
  /\ name = [r \in Runs |-> None]
  /\ asked = [r \in Runs |-> FALSE]
  /\ refused = [r \in Runs |-> FALSE]
  /\ certificate = [r \in Runs |-> None]

Goto(r, point) == pc' = [pc EXCEPT ![r] = point] /\ UNCHANGED exit
Exit(r, how) == /\ pc' = [pc EXCEPT ![r] = "ended"]
                /\ exit' = [exit EXCEPT ![r] = how]
Aim(r, n) == target' = [target EXCEPT ![r] = n]

----------------------------------------------------------------------------
(* The output directory                                                      *)

ChooseConfigured(r) ==
  /\ pc[r] = "start"
  /\ Aim(r, ConfiguredDir)
  /\ Goto(r, "mkdir")
  /\ UNCHANGED <<now, next, disk, order>>

\* default_issue_output_dir: a name for this second.
ChooseDefault(r) ==
  /\ pc[r] = "start"
  /\ Aim(r, <<now, 0>>)
  /\ Goto(r, "probe")
  /\ UNCHANGED <<now, next, disk, order>>

\* Mutant of Probe: the suffix is not counted on.
ProbeAgain(r) ==
  /\ pc[r] = "probe"
  /\ Goto(r, IF target[r] \in dirs THEN "probe" ELSE "mkdir")
  /\ UNCHANGED <<now, target, next, disk, order>>

\* The loop looks for a suffix that is not taken.
Probe(r) ==
  /\ pc[r] = "probe"
  /\ IF target[r] \in dirs
       THEN /\ target[r][2] < MaxSuffix
            /\ Aim(r, <<target[r][1], target[r][2] + 1>>)
            /\ UNCHANGED <<pc, exit>>
       ELSE Goto(r, "mkdir") /\ UNCHANGED target
  /\ UNCHANGED <<now, next, disk, order>>

\* Mutant of MakeDir: exist_ok=True.
MakeDirAnyway(r) ==
  /\ pc[r] = "mkdir"
  /\ dirs' = dirs \cup {target[r]}
  /\ Goto(r, "values")
  /\ UNCHANGED <<now, target, next, file, order>>

\* output_dir.mkdir(parents=True, exist_ok=False): FileExistsError if another
\* run was faster, and other failures of the file system.
MakeDir(r) ==
  /\ pc[r] = "mkdir"
  /\ \/ /\ target[r] \notin dirs
        /\ dirs' = dirs \cup {target[r]}
        /\ Goto(r, "values")
     \/ Exit(r, "oserror") /\ UNCHANGED dirs
  /\ UNCHANGED <<now, target, next, file, order>>

\* Mutant of Subject: the default common name is "SHAKEN <SPC>".
SubjectWithoutTime(r) == \E n \in {GivenName, 1} : name' = [name EXCEPT ![r] = n]

\* shaken_subject_from_args: the common name given, else the default one.
Subject(r) == \E n \in {GivenName, now} : name' = [name EXCEPT ![r] = n]

\* The SPC, the kid, the subject and the STI-PA settings are resolved.
ResolveValues(r) ==
  /\ pc[r] = "values"
  /\ Subject(r)
  /\ resolved' = [resolved EXCEPT ![r] = now]
  /\ Goto(r, "issue")
  /\ UNCHANGED <<now, target, next, disk, asked, refused, certificate>>

\* One that is missing or malformed ends the run, and the directory stays; so
\* does, before there is one, the choice of the environment.
RejectValues(r) ==
  /\ pc[r] \in {"start", "values"}
  /\ Exit(r, "values")
  /\ UNCHANGED <<now, target, next, disk, order>>

----------------------------------------------------------------------------
(* issuer.issue, by its promise                                              *)

Ask(r) ==
  /\ pc[r] = "issue"
  /\ ~asked[r]
  /\ asked' = [asked EXCEPT ![r] = TRUE]
  /\ UNCHANGED <<now, pc, exit, target, next, disk, resolved, name, refused,
                 certificate>>

\* docs/peeringhub.md:90, "Duplicate subject": the CA has issued one to another
\* run.
Duplicate(r) == \E q \in Runs \ {r} : certificate[q] # None /\ name[q] = name[r]

RefuseDuplicate(r) ==
  /\ asked[r]
  /\ certificate[r] = None
  /\ Duplicate(r)
  /\ refused' = [refused EXCEPT ![r] = TRUE]
  /\ UNCHANGED <<now, pc, exit, target, next, disk, resolved, name, asked,
                 certificate>>

\* The CA's step; it may come when the run has ended.
IssueCertificate(r) ==
  /\ asked[r]
  /\ ~refused[r]
  /\ certificate[r] = None
  /\ ~Duplicate(r)
  /\ \E c \in Certificates : certificate' = [certificate EXCEPT ![r] = c]
  /\ UNCHANGED <<now, pc, exit, target, next, disk, resolved, name, asked,
                 refused>>

\* issue raises, for whatever reason but its own checks of the certificate.
Raise(r) ==
  /\ pc[r] = "issue"
  /\ Exit(r, "raised")
  /\ UNCHANGED <<now, target, next, disk, order>>

\* Mutant of Deliver: IssuanceValidationError is not caught.
DeliverGoodOnly(r) ==
  /\ pc[r] = "issue"
  /\ CASE certificate[r] = "good" -> Goto(r, "open")
       [] certificate[r] \in {"bad", "garbled"} -> Exit(r, "retained")
       [] OTHER -> FALSE
  /\ UNCHANGED <<now, target, next, disk, order>>

\* issue has downloaded the chain. It returns it, or raises
\* IssuanceValidationError with it, and it is written either way; without a
\* leaf that parses, issue raises before it has a result to attach.
Deliver(r) ==
  /\ pc[r] = "issue"
  /\ CASE certificate[r] \in {"good", "bad"} -> Goto(r, "open")
       [] certificate[r] = "garbled" -> Exit(r, "garbled")
       [] OTHER -> FALSE
  /\ UNCHANGED <<now, target, next, disk, order>>

----------------------------------------------------------------------------
(* write_issuance_outputs                                                    *)

\* Mutant of Put: issuance.json is written first.
PutBackwards(r, whole) ==
  file' = [file EXCEPT ![target[r]][Index + 1 - next[r]] =
             [by |-> r, whole |-> whole]]

Put(r, whole) ==
  file' = [file EXCEPT ![target[r]][next[r]] = [by |-> r, whole |-> whole]]

\* Path.write_bytes and write_text truncate the file first.
OpenArtifact(r) ==
  /\ pc[r] = "open"
  /\ Put(r, FALSE)
  /\ Goto(r, "write")
  /\ UNCHANGED <<now, target, next, dirs, order>>

\* Mutants of WriteArtifact: the exit says success of a certificate that failed
\* validation; the loop does not end with the last file.
WriteAndSucceed(r) ==
  /\ pc[r] = "write"
  /\ Put(r, TRUE)
  /\ IF next[r] < Index
       THEN Goto(r, "open") /\ next' = [next EXCEPT ![r] = @ + 1]
       ELSE UNCHANGED next /\ Exit(r, "ok")
  /\ UNCHANGED <<now, target, dirs, order>>
WriteOneTooMany(r) ==
  /\ pc[r] = "write"
  /\ Put(r, TRUE)
  /\ Goto(r, "open")
  /\ next' = [next EXCEPT ![r] = @ + 1]
  /\ UNCHANGED <<now, target, dirs, order>>

\* After the last file the command returns, or raises the validation error on.
WriteArtifact(r) ==
  /\ pc[r] = "write"
  /\ Put(r, TRUE)
  /\ IF next[r] < Index
       THEN Goto(r, "open") /\ next' = [next EXCEPT ![r] = @ + 1]
       ELSE /\ UNCHANGED next
            /\ Exit(r, IF certificate[r] = "good" THEN "ok" ELSE "retained")
  /\ UNCHANGED <<now, target, dirs, order>>

\* A write fails: the OSError is what the command ends with, also where it
\* was about to raise the validation error.
WriteFails(r) ==
  /\ pc[r] \in {"open", "write"}
  /\ Exit(r, "oserror")
  /\ UNCHANGED <<now, target, next, disk, order>>

----------------------------------------------------------------------------
Kill(r) ==
  /\ pc[r] # "ended"
  /\ Exit(r, "killed")
  /\ UNCHANGED <<now, target, next, disk, order>>

Tick == /\ now < MaxSecond
        /\ now' = now + 1
        /\ UNCHANGED <<pc, target, next, exit, disk, order>>

Step(r) == \/ ChooseConfigured(r) \/ ChooseDefault(r) \/ Probe(r) \/ MakeDir(r)
           \/ ResolveValues(r) \/ RejectValues(r) \/ Ask(r) \/ Raise(r) \/ Deliver(r)
           \/ OpenArtifact(r) \/ WriteArtifact(r) \/ WriteFails(r)

Next == \/ \E r \in Runs : \/ Step(r) \/ Kill(r)
                           \/ IssueCertificate(r) \/ RefuseDuplicate(r)
        \/ Tick

\* A started run goes on by itself; issue ends (see IssueEnds of Issuance).
Fairness == \A r \in Runs : WF_vars(pc[r] # "start" /\ Step(r))

Spec == Init /\ [][Next]_vars /\ Fairness

----------------------------------------------------------------------------
(* Properties                                                                *)

Complete(r) == \A a \in Artifacts :
                 file[target[r]][a] = [by |-> r, whole |-> TRUE]

\* No run asks the CA for a certificate before it has a directory to put it in
\* that no other such run uses, whatever names runs choose at the same time.
DirectoryClaimedFirst ==
  \A r \in Runs : asked[r] =>
    /\ target[r] \in dirs
    /\ \A q \in Runs \ {r} : asked[q] => target[q] # target[r]

\* A directory with an issuance.json, even one cut off, holds the other four
\* artifacts, whole and of the same run: a run that was killed or ran out of
\* disk is told from one that finished by the missing issuance.json.
IndexComesLast ==
  \A n \in dirs : file[n][Index] # None =>
    \A a \in Artifacts \ {Index} :
      file[n][a] = [by |-> file[n][Index].by, whole |-> TRUE]

\* The exit tells what is in the directory: success, and the validation error,
\* are reported only when all artifacts are there.
ExitMatchesArtifacts ==
  \A r \in Runs : exit[r] \in {"ok", "retained"} => Complete(r)

\* No run touches a file another one has written.
ArtifactsNeverChange ==
  [][\A n \in Names, a \in Artifacts :
        file[n][a] # None => /\ file'[n][a] # None
                             /\ file'[n][a].by = file[n][a].by
                             /\ file[n][a].whole => file'[n][a].whole]_vars

\* docs/peeringhub.md:58: the default common name avoids the duplicate-subject
\* restriction during repeated issuance. A run that uses it is refused only for a
\* run that resolved its values in the same second, whatever second their
\* directories are named after, and whether or not that run was killed, raised or
\* was overtaken by the CA.
RefusedOnlyWithinSecond ==
  \A r \in Runs : refused[r] /\ name[r] # GivenName =>
    \E q \in Runs \ {r} : certificate[q] # None /\ resolved[q] = resolved[r]

\* A run that is not killed ends: the search for a directory name does too.
RunsEnd == \A r \in Runs : pc[r] = "probe" ~> pc[r] = "ended"

\* How many steps of its own a run still has before it, names to probe included.
Ahead(r) == CASE pc[r] = "start" -> MaxSuffix + 16
              [] pc[r] = "probe" -> (MaxSuffix - target[r][2]) + 15
              [] pc[r] = "mkdir" -> 14
              [] pc[r] = "values" -> 13
              [] pc[r] = "issue" -> IF asked[r] THEN 11 ELSE 12
              [] pc[r] = "open" -> 2 * (Index - next[r]) + 2
              [] pc[r] = "write" -> 2 * (Index - next[r]) + 1
              [] pc[r] = "ended" -> 0

\* RunsEnd, step by step: what a run does brings its end nearer, and what other
\* runs, the CA and the clock do moves it no further off.
RunsAdvance ==
  [][\A r \in Runs : \/ UNCHANGED <<pc[r], target[r], next[r], asked[r]>>
                     \/ Ahead(r)' < Ahead(r)]_vars

\* docs/artifacts.md:45: "If PeeringHub issues a certificate but local
\* validation fails, the CLI still writes the downloaded certificate artifacts
\* and issuance.json".
DownloadedIsWritten ==
  \A r \in Runs : exit[r] \in {"retained", "garbled"} => Complete(r)

\* What a run's exit says about the certificate.
Outcome(r) == CASE exit[r] = "none" -> "running"
                [] exit[r] = "ok" -> "issued"
                [] exit[r] = "retained" -> "retained"
                [] OTHER -> "raised"

Promise(r) == INSTANCE IssuancePromise
                WITH outcome <- Outcome(r), asked <- asked[r],
                     certificate <- certificate[r]

\* The command keeps for its exit what issue promises for its result.
ImplementsPromise ==
  /\ \A r \in Runs : Promise(r)!Init
  /\ [][\A r \in Runs : [Promise(r)!Next]_(Promise(r)!vars)]_vars
=============================================================================
