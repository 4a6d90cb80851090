--------------------------- MODULE SpcTokenCommand ---------------------------
(* The command spc-token (run_spc_token of cli.py): values are resolved, the *)
(* STI-PA grants a token, the token is checked, and only then the directory  *)
(* is resolved and the artifacts are written into it in place, whatever it   *)
(* holds already: the summary, and with --write-token-artifacts the          *)
(* diagnostic files and the token itself. Runs follow each other or overlap  *)
(* on one directory, fail or are killed between any two steps.               *)
EXTENDS Naturals

CONSTANTS Runs,             \* invocations of spc-token
          Settings,         \* what may be given as the output directory
          Diagnostics,      \* files between summary and token: 8 in the code
          None

ASSUME NoneAssumption == None \notin Runs \cup {"empty", "blanks", "out"}
ASSUME DiagnosticsAssumption == Diagnostics \in Nat

\* The artifacts in the order they are written.
Files == 1 .. Diagnostics + 2
Summary == 1
Token == Diagnostics + 2

\* What a file holds: nothing (absent, or truncated by OpenFile), the output of
\* one run, or the end of one left behind that of another.
Nothing == "nothing"
Mixed == "mixed"
Contents == Runs \cup {Nothing, Mixed}

ASSUME ContentsAssumption == Runs \cap {Nothing, Mixed} = {}

\* The three places a value may come from.
Sources == {"args", "yaml", "env"}

ASSUME SettingsAssumption == Settings \subseteq [Sources -> {None, "empty", "blanks", "out"}]

VARIABLES pc,               \* pc[r]: where run r stands
          setting,          \* setting[r]: its --output-dir and the like
          full,             \* full[r]: --write-token-artifacts is given
          next,             \* next[r]: the artifact it writes next
          open,             \* open[r]: that artifact is open and truncated
          files,            \* files[f]: what is on disk
          exit,             \* exit[r]: how r ended
          last,             \* history: the run that came to the directory last
          overlapped        \* history: another was writing at the same time

vars == <<pc, setting, full, next, open, files, exit, last, overlapped>>
given == <<setting, full>>
disk == <<next, open, files>>
history == <<last, overlapped>>

Points == {"start", "login", "token", "signer", "crl", "mkdir", "write",
           "print", "ended"}
Exits == {"none", "ok", "values", "stipa", "traceback", "oserror", "killed"}

TypeOK ==
  /\ pc \in [Runs -> Points]
  /\ setting \in [Runs -> Settings]
  /\ full \in [Runs -> BOOLEAN]
  /\ next \in [Runs -> Files]
  /\ open \in [Runs -> BOOLEAN]
  /\ files \in [Files -> Contents]
  /\ exit \in [Runs -> Exits]
  /\ last \in Runs \cup {None}
  /\ overlapped \in [Runs -> BOOLEAN]
  /\ \A r \in Runs : /\ exit[r] # "none" => pc[r] = "ended"
                     /\ open[r] => pc[r] = "write"
                     /\ next[r] > Summary => full[r]

Init ==
  /\ pc = [r \in Runs |-> "start"]
  /\ setting \in [Runs -> Settings]
  /\ full \in [Runs -> BOOLEAN]
  /\ next = [r \in Runs |-> Summary]
  /\ open = [r \in Runs |-> FALSE]
  /\ files = [f \in Files |-> Nothing]
  /\ exit = [r \in Runs |-> "none"]
  /\ last = None
  /\ overlapped = [r \in Runs |-> FALSE]

Goto(r, point) == pc' = [pc EXCEPT ![r] = point] /\ UNCHANGED exit
Exit(r, how) == /\ pc' = [pc EXCEPT ![r] = "ended"]
                /\ exit' = [exit EXCEPT ![r] = how]

----------------------------------------------------------------------------
(* The output directory                                                      *)

\* is_blank: such a value is treated as unset.
Unset(value) == value \in {None, "empty"}

\* CliValueResolver.value: the first of arguments, YAML and environment that is
\* set; blanks are.
Value(s) == CASE ~Unset(s["args"]) -> s["args"]
              [] Unset(s["args"]) /\ ~Unset(s["yaml"]) -> s["yaml"]
              [] Unset(s["args"]) /\ Unset(s["yaml"]) /\ ~Unset(s["env"]) -> s["env"]
              [] OTHER -> None

\* Mutant of Directory: blanks fall through to the next source.
DirectoryOfAny(s) == IF \E source \in Sources : s[source] = "out" THEN "out" ELSE None

\* CliValueResolver.path: a value of blanks only is no path.
Directory(s) == IF Value(s) = "blanks" THEN None ELSE Value(s)

----------------------------------------------------------------------------
(* The token                                                                 *)

\* Environment, SPC, credentials and fingerprint are resolved.
ResolveValues(r) ==
  /\ pc[r] = "start"
  /\ Goto(r, "login")
  /\ UNCHANGED <<given, disk, history>>

\* One is missing, the environment unknown, or the SPC malformed.
RejectValues(r) ==
  /\ pc[r] = "start"
  /\ Exit(r, "values")
  /\ UNCHANGED <<given, disk, history>>

\* Login, with an access token; then the SPC token and its CRL's URL.
LogIn(r) ==
  /\ pc[r] = "login"
  /\ Goto(r, "token")
  /\ UNCHANGED <<given, disk, history>>

RequestToken(r) ==
  /\ pc[r] = "token"
  /\ Goto(r, "signer")
  /\ UNCHANGED <<given, disk, history>>

\* Header, signing certificate, signature and claims are in order; without an
\* expected_crl_url the CRL may be anywhere.
CheckToken(r) ==
  /\ pc[r] = "signer"
  /\ Goto(r, "crl")
  /\ UNCHANGED <<given, disk, history>>

\* A header that is no JSON and a certificate that does not parse raise what
\* the command does not catch; all else that is wrong is a StipaError.
RejectToken(r) ==
  /\ pc[r] = "signer"
  /\ \E how \in {"stipa", "traceback"} : Exit(r, how)
  /\ UNCHANGED <<given, disk, history>>

\* The CRL is there; the directory is resolved only now.
DownloadCrl(r) ==
  /\ pc[r] = "crl"
  /\ Goto(r, IF Directory(setting[r]) = None THEN "print" ELSE "mkdir")
  /\ UNCHANGED <<given, disk, history>>

\* No answer, an HTTP error, no JSON, no success, or what is wanted is not in it.
ExchangeFails(r) ==
  /\ pc[r] \in {"login", "token", "signer", "crl"}
  /\ Exit(r, "stipa")
  /\ UNCHANGED <<given, disk, history>>

----------------------------------------------------------------------------
(* The artifacts                                                             *)

Writing(r) == pc[r] = "write"

\* write_spc_token_artifacts: mkdir with exist_ok=True. r comes to the directory
\* while those that are writing go on.
MakeDir(r) ==
  /\ pc[r] = "mkdir"
  /\ Goto(r, "write")
  /\ last' = r
  /\ overlapped' = [q \in Runs |-> \/ overlapped[q]
                                   \/ q = r /\ \E w \in Runs : Writing(w)
                                   \/ Writing(q)]
  /\ UNCHANGED <<given, disk>>

\* Path.write_text and write_bytes open, and truncate, the next artifact.
OpenFile(r) ==
  /\ Writing(r) /\ ~open[r]
  /\ open' = [open EXCEPT ![r] = TRUE]
  /\ files' = [files EXCEPT ![next[r]] = Nothing]
  /\ UNCHANGED <<pc, given, next, exit, history>>

\* It is written from its start: what another run wrote meanwhile is covered,
\* or its end remains.
Put(r) ==
  /\ Writing(r) /\ open[r]
  /\ open' = [open EXCEPT ![r] = FALSE]
  /\ \E content \in {r} \cup IF files[next[r]] = Nothing THEN {} ELSE {Mixed} :
       files' = [files EXCEPT ![next[r]] = content]

\* Mutant of Final: the sensitive artifacts are written unasked.
FinalAlways(r) == next[r] = Token

\* Without --write-token-artifacts there is only the summary.
Final(r) == next[r] = IF full[r] THEN Token ELSE Summary

\* Mutant of WriteFile: a file that cannot be written is left out.
WriteFileOrSkip(r) ==
  /\ \/ Put(r)
     \/ Writing(r) /\ next[r] > Summary /\ UNCHANGED <<open, files>>
  /\ IF Final(r) THEN Goto(r, "print") /\ UNCHANGED next
                 ELSE /\ next' = [next EXCEPT ![r] = @ + 1]
                      /\ UNCHANGED <<pc, exit>>
  /\ UNCHANGED <<given, history>>

WriteFile(r) ==
  /\ Put(r)
  /\ IF Final(r) THEN Goto(r, "print") /\ UNCHANGED next
                 ELSE /\ next' = [next EXCEPT ![r] = @ + 1]
                      /\ UNCHANGED <<pc, exit>>
  /\ UNCHANGED <<given, history>>

\* The token is printed last of all.
PrintToken(r) ==
  /\ pc[r] = "print"
  /\ Exit(r, "ok")
  /\ UNCHANGED <<given, disk, history>>

\* The directory cannot be made, the disk is full; or the process is killed. Of
\* what is half written nothing can be used.
Fail(r) ==
  /\ pc[r] \notin {"start", "ended"}
  /\ \E how \in {"oserror", "killed"} :
       /\ how = "oserror" => pc[r] \in {"mkdir", "write"}
       /\ Exit(r, how)
  /\ open' = [open EXCEPT ![r] = FALSE]
  /\ UNCHANGED <<given, next, files, history>>

----------------------------------------------------------------------------
Step(r) == \/ ResolveValues(r) \/ RejectValues(r) \/ LogIn(r) \/ RequestToken(r)
           \/ CheckToken(r) \/ RejectToken(r) \/ DownloadCrl(r) \/ ExchangeFails(r)
           \/ MakeDir(r) \/ OpenFile(r) \/ WriteFile(r) \/ PrintToken(r)

Next == \E r \in Runs : Step(r) \/ Fail(r)

Spec == Init /\ [][Next]_vars

----------------------------------------------------------------------------
(* Properties                                                                *)

\* The documented order, "explicit command-line arguments, YAML, environment",
\* comes upon a directory.
Configured(s) ==
  \/ s["args"] = "out"
  \/ Unset(s["args"]) /\ s["yaml"] = "out"
  \/ Unset(s["args"]) /\ Unset(s["yaml"]) /\ s["env"] = "out"

\* No run leaves what it was not asked for: nothing without a directory, and no
\* sensitive file without the flag. One that succeeded, that no other overlapped
\* and none followed, leaves all it was asked for, whole and its own, whatever
\* earlier runs that overlapped, failed or were killed had left there.
FilesAreAsAsked ==
  \A r \in Runs :
    /\ \A f \in Files : files[f] = r =>
         Configured(setting[r]) /\ (full[r] \/ f = Summary)
    /\ exit[r] = "ok" /\ Configured(setting[r]) /\ last \in {None, r} /\ ~overlapped[r] =>
         /\ files[Summary] = r
         /\ full[r] => \A f \in Files : files[f] = r

\* Runs without the flag, and runs that ended early, leave files of an earlier
\* token beside a newer summary. Yet summary and token of the same run that none
\* overlapped vouch for all files between them.
TokenVouches ==
  \A r \in Runs : files[Summary] = r /\ files[Token] = r /\ ~overlapped[r] =>
    \A f \in Files : files[f] = r
=============================================================================
