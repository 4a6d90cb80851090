------------------------- MODULE IssueCommandProofs -------------------------
(* Proofs for IssueCommand, for any number of runs. A run holds its           *)
(* directory from mkdir on, and for good once it has asked the CA: no other   *)
(* run gets past mkdir with the same name, so that what a run finds in its    *)
(* directory is what it has written there itself.                             *)
EXTENDS IssueCommand, FiniteSetTheorems, TLAPS

Holds(r) == pc[r] \in {"values", "issue", "open", "write"} \/ asked[r]

\* A run that looks for a directory has not asked yet; it aims at a name from
\* then on, and one that has not ended has not exited.
ControlInv ==
  \A r \in Runs :
    /\ pc[r] \in {"start", "probe", "mkdir", "values"} => ~asked[r]
    /\ pc[r] # "start" /\ (pc[r] # "ended" \/ asked[r]) => target[r] \in Names
    /\ exit[r] # "none" <=> pc[r] = "ended"

\* The directory of a run that holds one exists and is no other such run's.
HoldInv ==
  \A r \in Runs : Holds(r) =>
    /\ target[r] \in dirs
    /\ \A q \in Runs : Holds(q) /\ q # r => target[q] # target[r]

\* A file is in the directory of the run that wrote it.
FileInv ==
  \A n \in Names, a \in Artifacts : file[n][a] # None =>
    /\ n \in dirs
    /\ asked[file[n][a].by]
    /\ target[file[n][a].by] = n

\* How far a run has got is how far its directory is filled.
Mine(r) == [by |-> r, whole |-> TRUE]
Fill(r) ==
  /\ certificate[r] # None => asked[r]
  /\ pc[r] = "issue" => \A a \in Artifacts : file[target[r]][a] = None
  /\ pc[r] \in {"open", "write"} =>
       /\ certificate[r] \in {"good", "bad"}
       /\ \A a \in 1 .. (next[r] - 1) : file[target[r]][a] = Mine(r)
       /\ \A a \in (next[r] + 1) .. Index : file[target[r]][a] = None
  /\ pc[r] = "open" => file[target[r]][next[r]] = None
  /\ pc[r] # "ended" /\ pc[r] \notin {"open", "write"} => next[r] = 1
FillInv == \A r \in Runs : Fill(r)

ExitInv ==
  \A r \in Runs : exit[r] \in {"ok", "retained"} => asked[r] /\ Complete(r)

IInv == /\ TypeOK /\ ControlInv /\ HoldInv /\ FileInv /\ FillInv
        /\ IndexComesLast /\ ExitInv

\* The invariant holds initially.
LEMMA InitIInv == Init => IInv
<1> SUFFICES ASSUME Init PROVE IInv
  OBVIOUS
<1>1. TypeOK
  BY BoundAssumption DEF Init, TypeOK, Points, Exits, Artifacts, Index
<1>2. ControlInv /\ HoldInv /\ FileInv /\ IndexComesLast /\ ExitInv
  BY BoundAssumption DEF Init, ControlInv, HoldInv, Holds, FileInv, IndexComesLast, ExitInv,
       Names, Artifacts, Index
<1>3. FillInv
  BY NoneAssumption DEF Init, FillInv, Fill
<1> QED
  BY <1>1, <1>2, <1>3 DEF IInv

\* A step that leaves a run and its directory alone keeps its fill.
LEMMA FillStays ==
  ASSUME NEW q \in Runs, Fill(q),
         pc'[q] = pc[q], next'[q] = next[q], target'[q] = target[q],
         asked'[q] = asked[q], certificate'[q] = certificate[q],
         pc[q] \in {"issue", "open", "write"} => file'[target[q]] = file[target[q]]
  PROVE  Fill(q)'
BY DEF Fill, Mine

\* Every step of a run, of the CA and of the clock preserves it.
LEMMA StepIInv == IInv /\ [Next]_vars => IInv'
<1> SUFFICES ASSUME IInv, [Next]_vars PROVE IInv'
  OBVIOUS
<1> USE DEF IInv
<1> USE NoneAssumption, BoundAssumption DEF Points, Exits, Artifacts, Index
<1>1. ASSUME NEW r \in Runs, ChooseConfigured(r) PROVE IInv'
  <2> USE <1>1 DEF ChooseConfigured, Goto, Exit, Aim, Put, disk, order
  <2>1. TypeOK'
    BY DEF TypeOK, Names, Files, Certificates, ConfiguredDir, Subject, CommonNames,
       GivenName
  <2>2. ControlInv'
    BY DEF TypeOK, ControlInv, Names, ConfiguredDir
  <2>3. HoldInv'
    BY <2>1 DEF TypeOK, ControlInv, HoldInv, Holds
  <2>4. FileInv'
    BY <2>1 DEF TypeOK, FileInv, ControlInv, HoldInv, Holds, FillInv, Fill
  <2>5. FillInv'
    BY <2>1 DEF TypeOK, FileInv, ControlInv, HoldInv, Holds, FillInv, Fill, Mine
  <2>6. IndexComesLast'
    BY <2>1 DEF TypeOK, FileInv, ControlInv, HoldInv, Holds, FillInv, Fill, Mine, IndexComesLast
  <2>7. ExitInv'
    BY DEF TypeOK, ControlInv, ExitInv, Complete
  <2> QED
    BY <2>1, <2>2, <2>3, <2>4, <2>5, <2>6, <2>7
<1>2. ASSUME NEW r \in Runs, ChooseDefault(r) PROVE IInv'
  <2> USE <1>2 DEF ChooseDefault, Goto, Exit, Aim, Put, disk, order
  <2>1. TypeOK'
    BY DEF TypeOK, Names, Files, Certificates, ConfiguredDir, Subject, CommonNames,
       GivenName
  <2>2. ControlInv'
    BY DEF TypeOK, ControlInv, Names, ConfiguredDir
  <2>3. HoldInv'
    BY <2>1 DEF TypeOK, ControlInv, HoldInv, Holds
  <2>4. FileInv'
    BY <2>1 DEF TypeOK, FileInv, ControlInv, HoldInv, Holds, FillInv, Fill
  <2>5. FillInv'
    BY <2>1 DEF TypeOK, FileInv, ControlInv, HoldInv, Holds, FillInv, Fill, Mine
  <2>6. IndexComesLast'
    BY <2>1 DEF TypeOK, FileInv, ControlInv, HoldInv, Holds, FillInv, Fill, Mine, IndexComesLast
  <2>7. ExitInv'
    BY DEF TypeOK, ControlInv, ExitInv, Complete
  <2> QED
    BY <2>1, <2>2, <2>3, <2>4, <2>5, <2>6, <2>7
<1>3. ASSUME NEW r \in Runs, Probe(r) PROVE IInv'
  <2> USE <1>3 DEF Probe, Goto, Exit, Aim, Put, disk, order
  <2>1. TypeOK'
    BY DEF TypeOK, Names, Files, Certificates, ConfiguredDir, Subject, CommonNames,
       GivenName
  <2>2. ControlInv'
    BY DEF TypeOK, ControlInv, Names, ConfiguredDir
  <2>3. HoldInv'
    BY <2>1 DEF TypeOK, ControlInv, HoldInv, Holds
  <2>4. FileInv'
    BY DEF TypeOK, Files, FileInv, ControlInv
  <2>5. FillInv'
    <3>1. UNCHANGED <<file, next, asked, certificate>> /\ pc[r] = "probe"
      OBVIOUS
    <3>2. /\ pc'[r] \in {"probe", "mkdir"}
          /\ \A q \in Runs \ {r} : pc'[q] = pc[q] /\ target'[q] = target[q]
      BY DEF TypeOK
    <3>3. Fill(r)'
      BY <3>1, <3>2 DEF FillInv, Fill
    <3>4. ASSUME NEW q \in Runs \ {r} PROVE Fill(q)'
      BY <3>1, <3>2, <3>4 DEF FillInv, Fill, Mine
    <3> QED
      BY <3>3, <3>4 DEF FillInv
  <2>6. IndexComesLast'
    BY <2>1 DEF TypeOK, FileInv, ControlInv, HoldInv, Holds, FillInv, Fill, Mine, IndexComesLast
  <2>7. ExitInv'
    BY DEF TypeOK, ControlInv, ExitInv, Complete
  <2> QED
    BY <2>1, <2>2, <2>3, <2>4, <2>5, <2>6, <2>7
<1>4. ASSUME NEW r \in Runs, MakeDir(r) PROVE IInv'
  <2> USE <1>4 DEF MakeDir, Goto, Exit, Aim, Put, disk, order
  <2>1. TypeOK'
    <3>1. target[r] \in Names
      BY DEF TypeOK, ControlInv
    <3>2. dirs' \in SUBSET Names
      BY <3>1 DEF TypeOK
    <3>3. pc' \in [Runs -> Points] /\ exit' \in [Runs -> Exits]
      BY DEF TypeOK
    <3> QED
      BY <3>2, <3>3 DEF TypeOK
  <2>2. ControlInv'
    BY <2>1 DEF TypeOK, ControlInv
  <2>3. HoldInv'
    BY <2>1 DEF TypeOK, ControlInv, HoldInv, Holds
  <2>4. FileInv'
    BY <2>1 DEF TypeOK, FileInv, ControlInv, HoldInv, Holds, FillInv, Fill
  <2>5. FillInv'
    BY <2>1 DEF TypeOK, FileInv, ControlInv, HoldInv, Holds, FillInv, Fill, Mine
  <2>6. IndexComesLast'
    BY <2>1 DEF TypeOK, FileInv, ControlInv, HoldInv, Holds, FillInv, Fill, Mine, IndexComesLast
  <2>7. ExitInv'
    BY DEF TypeOK, ControlInv, ExitInv, Complete
  <2> QED
    BY <2>1, <2>2, <2>3, <2>4, <2>5, <2>6, <2>7
<1>5. ASSUME NEW r \in Runs, ResolveValues(r) PROVE IInv'
  <2> USE <1>5 DEF ResolveValues, Goto, Exit, Aim, Put, disk, order
  <2>1. TypeOK'
    BY DEF TypeOK, Names, Files, Certificates, ConfiguredDir, Subject, CommonNames,
       GivenName
  <2>2. ControlInv'
    BY <2>1 DEF TypeOK, ControlInv
  <2>3. HoldInv'
    BY <2>1 DEF TypeOK, ControlInv, HoldInv, Holds
  <2>4. FileInv'
    BY <2>1 DEF TypeOK, FileInv, ControlInv, HoldInv, Holds, FillInv, Fill
  <2>5. FillInv'
    <3>1. \A a \in Artifacts : file[target[r]][a] = None
      BY DEF TypeOK, Files, ControlInv, HoldInv, Holds, FileInv
    <3> QED
      BY <3>1, <2>1 DEF TypeOK, ControlInv, FillInv, Fill
  <2>6. IndexComesLast'
    BY <2>1 DEF TypeOK, FileInv, ControlInv, HoldInv, Holds, FillInv, Fill, Mine, IndexComesLast
  <2>7. ExitInv'
    BY DEF TypeOK, ControlInv, ExitInv, Complete
  <2> QED
    BY <2>1, <2>2, <2>3, <2>4, <2>5, <2>6, <2>7
<1>6. ASSUME NEW r \in Runs, RejectValues(r) PROVE IInv'
  <2> USE <1>6 DEF RejectValues, Goto, Exit, Aim, Put, disk, order
  <2>1. TypeOK'
    BY DEF TypeOK, Names, Files, Certificates, ConfiguredDir, Subject, CommonNames,
       GivenName
  <2>2. ControlInv'
    BY <2>1 DEF TypeOK, ControlInv
  <2>3. HoldInv'
    BY <2>1 DEF TypeOK, ControlInv, HoldInv, Holds
  <2>4. FileInv'
    BY <2>1 DEF TypeOK, FileInv, ControlInv, HoldInv, Holds, FillInv, Fill
  <2>5. FillInv'
    BY <2>1 DEF TypeOK, ControlInv, FillInv, Fill, Mine
  <2>6. IndexComesLast'
    BY <2>1 DEF TypeOK, FileInv, ControlInv, HoldInv, Holds, FillInv, Fill, Mine, IndexComesLast
  <2>7. ExitInv'
    BY DEF TypeOK, ControlInv, ExitInv, Complete
  <2> QED
    BY <2>1, <2>2, <2>3, <2>4, <2>5, <2>6, <2>7
<1>7. ASSUME NEW r \in Runs, Ask(r) PROVE IInv'
  <2> USE <1>7 DEF Ask, Goto, Exit, Aim, Put, disk, order
  <2>1. TypeOK'
    BY DEF TypeOK, Names, Files, Certificates, ConfiguredDir, Subject, CommonNames,
       GivenName
  <2>2. ControlInv'
    BY <2>1 DEF TypeOK, ControlInv
  <2>3. HoldInv'
    BY <2>1 DEF TypeOK, ControlInv, HoldInv, Holds
  <2>4. FileInv'
    BY <2>1 DEF TypeOK, FileInv, ControlInv, HoldInv, Holds, FillInv, Fill
  <2>5. FillInv'
    BY <2>1 DEF TypeOK, ControlInv, FillInv, Fill, Mine
  <2>6. IndexComesLast'
    BY <2>1 DEF TypeOK, FileInv, ControlInv, HoldInv, Holds, FillInv, Fill, Mine, IndexComesLast
  <2>7. ExitInv'
    BY DEF TypeOK, ControlInv, ExitInv, Complete
  <2> QED
    BY <2>1, <2>2, <2>3, <2>4, <2>5, <2>6, <2>7
<1>8. ASSUME NEW r \in Runs, Raise(r) PROVE IInv'
  <2> USE <1>8 DEF Raise, Goto, Exit, Aim, Put, disk, order
  <2>1. TypeOK'
    BY DEF TypeOK, Names, Files, Certificates, ConfiguredDir, Subject, CommonNames,
       GivenName
  <2>2. ControlInv'
    BY <2>1 DEF TypeOK, ControlInv
  <2>3. HoldInv'
    BY <2>1 DEF TypeOK, ControlInv, HoldInv, Holds
  <2>4. FileInv'
    BY <2>1 DEF TypeOK, FileInv, ControlInv, HoldInv, Holds, FillInv, Fill
  <2>5. FillInv'
    BY <2>1 DEF TypeOK, FileInv, ControlInv, HoldInv, Holds, FillInv, Fill, Mine
  <2>6. IndexComesLast'
    BY <2>1 DEF TypeOK, FileInv, ControlInv, HoldInv, Holds, FillInv, Fill, Mine, IndexComesLast
  <2>7. ExitInv'
    BY DEF TypeOK, ControlInv, ExitInv, Complete
  <2> QED
    BY <2>1, <2>2, <2>3, <2>4, <2>5, <2>6, <2>7
<1>9. ASSUME NEW r \in Runs, Deliver(r) PROVE IInv'
  <2> USE <1>9 DEF Deliver, Goto, Exit, Aim, Put, disk, order
  <2>1. TypeOK'
    BY DEF TypeOK, Names, Files, Certificates, ConfiguredDir, Subject, CommonNames,
       GivenName
  <2>2. ControlInv'
    BY <2>1 DEF TypeOK, ControlInv
  <2>3. HoldInv'
    BY <2>1 DEF TypeOK, ControlInv, HoldInv, Holds
  <2>4. FileInv'
    BY <2>1 DEF TypeOK, FileInv, ControlInv, HoldInv, Holds, FillInv, Fill
  <2>5. FillInv'
    <3>1. pc'[r] = "open" \/ pc'[r] = "ended"
      BY DEF TypeOK
    <3>2. CASE pc'[r] = "ended"
      BY <3>2, <2>1 DEF TypeOK, FillInv, Fill, Mine
    <3>3. CASE pc'[r] = "open"
      <4>1. /\ next[r] = 1 /\ certificate[r] \in {"good", "bad"}
            /\ \A a \in Artifacts : file[target[r]][a] = None
        BY <3>3 DEF TypeOK, Certificates, FillInv, Fill
      <4>2. Fill(r)'
        BY <3>3, <4>1, <2>1 DEF TypeOK, FillInv, Fill
      <4>3. ASSUME NEW q \in Runs, q # r PROVE Fill(q)'
        BY <4>3 DEF TypeOK, FillInv, Fill, Mine
      <4> QED
        BY <4>2, <4>3 DEF FillInv
    <3> QED
      BY <3>1, <3>2, <3>3
  <2>6. IndexComesLast'
    BY <2>1 DEF TypeOK, FileInv, ControlInv, HoldInv, Holds, FillInv, Fill, Mine, IndexComesLast
  <2>7. ExitInv'
    BY DEF TypeOK, ControlInv, ExitInv, Complete
  <2> QED
    BY <2>1, <2>2, <2>3, <2>4, <2>5, <2>6, <2>7
<1>10. ASSUME NEW r \in Runs, OpenArtifact(r) PROVE IInv'
  <2> USE <1>10 DEF OpenArtifact, Goto, Exit, Aim, Put, disk, order
  <2>1. TypeOK'
    BY DEF TypeOK, Names, Files, Certificates, ConfiguredDir, Subject, CommonNames,
       GivenName
  <2>2. ControlInv'
    BY <2>1 DEF TypeOK, ControlInv
  <2>3. HoldInv'
    BY <2>1 DEF TypeOK, ControlInv, HoldInv, Holds
  <2>4. FileInv'
    <3>1. target[r] \in Names /\ target[r] \in dirs /\ asked[r]
      BY DEF TypeOK, ControlInv, HoldInv, Holds, FillInv, Fill, Certificates
    <3> QED
      BY <3>1, <2>1 DEF TypeOK, FileInv
  <2>5. FillInv'
    <3>1. target[r] \in Names /\ next[r] \in Artifacts
      BY DEF TypeOK, ControlInv
    <3>2. \A q \in Runs : q # r /\ Holds(q) => target[q] # target[r] /\ target[q] \in Names
      BY DEF TypeOK, ControlInv, HoldInv, Holds
    <3> QED
      BY <3>1, <3>2, <2>1 DEF TypeOK, ControlInv, FillInv, Fill, Mine, Holds
  <2>6. IndexComesLast'
    <3>1. target[r] \in Names /\ next[r] \in Artifacts
      BY DEF TypeOK, ControlInv
    <3>2. \A n \in Names : n # target[r] => file'[n] = file[n]
      BY <3>1 DEF TypeOK
    <3>3. \A a \in 1 .. (next[r] - 1) : file'[target[r]][a] = Mine(r)
      BY <3>1 DEF TypeOK, FillInv, Fill
    <3>4. \A a \in (next[r] + 1) .. Index : file'[target[r]][a] = None
      BY <3>1 DEF TypeOK, FillInv, Fill
    <3>5. file'[target[r]][next[r]].by = r
      BY <3>1 DEF TypeOK
    <3>6. file'[target[r]][Index] # None => next[r] = Index
      BY <3>1, <3>4
    <3>7. ASSUME NEW n \in dirs, n # target[r], file'[n][Index] # None,
                 NEW a \in Artifacts \ {Index}
          PROVE  file'[n][a] = [by |-> file'[n][Index].by, whole |-> TRUE]
      BY <3>2, <3>7 DEF TypeOK, IndexComesLast
    <3>8. ASSUME file'[target[r]][Index] # None, NEW a \in Artifacts \ {Index}
          PROVE  file'[target[r]][a] =
                   [by |-> file'[target[r]][Index].by, whole |-> TRUE]
      <4>1. next[r] = Index
        BY <3>6, <3>8
      <4>2. a \in 1 .. (next[r] - 1)
        BY <4>1
      <4>3. file'[target[r]][a] = Mine(r)
        BY <3>3, <4>2
      <4>4. file'[target[r]][Index].by = r
        BY <3>5, <4>1
      <4> QED
        BY <4>3, <4>4 DEF Mine
    <3>9. dirs' = dirs
      OBVIOUS
    <3> QED
      BY <3>7, <3>8, <3>9 DEF IndexComesLast
  <2>7. ExitInv'
    <3>1. target[r] \in Names /\ next[r] \in Artifacts /\ asked[r]
      BY DEF TypeOK, ControlInv, FillInv, Fill, Certificates
    <3>2. \A q \in Runs : q # r /\ exit'[q] \in {"ok", "retained"} =>
            /\ asked[q] /\ Complete(q)
            /\ target[q] # target[r] /\ target[q] \in Names
      BY <3>1 DEF TypeOK, ControlInv, HoldInv, Holds, ExitInv
    <3>3. \A q \in Runs : q # r /\ exit'[q] \in {"ok", "retained"} => Complete(q)'
      BY <3>1, <3>2 DEF TypeOK, Complete
    <3>4. exit'[r] \in {"ok", "retained"} => Complete(r)'
      BY <3>1 DEF TypeOK, ControlInv, FillInv, Fill, Mine, Complete
    <3> QED
      BY <3>1, <3>2, <3>3, <3>4 DEF ExitInv
  <2> QED
    BY <2>1, <2>2, <2>3, <2>4, <2>5, <2>6, <2>7
<1>11. ASSUME NEW r \in Runs, WriteArtifact(r) PROVE IInv'
  <2> USE <1>11 DEF WriteArtifact, Goto, Exit, Aim, Put, disk, order
  <2>1. TypeOK'
    <3>1. target[r] \in Names /\ next[r] \in Artifacts
      BY DEF TypeOK, ControlInv
    <3>2. file' \in [Names -> [Artifacts -> Files \cup {None}]]
      BY <3>1 DEF TypeOK, Files
    <3>3. next' \in [Runs -> Artifacts]
      BY <3>1 DEF TypeOK
    <3> QED
      BY <3>2, <3>3 DEF TypeOK
  <2>2. ControlInv'
    BY <2>1 DEF TypeOK, ControlInv
  <2>3. HoldInv'
    BY <2>1 DEF TypeOK, ControlInv, HoldInv, Holds
  <2>4. FileInv'
    <3>1. target[r] \in Names /\ target[r] \in dirs /\ asked[r]
      BY DEF TypeOK, ControlInv, HoldInv, Holds, FillInv, Fill, Certificates
    <3> QED
      BY <3>1, <2>1 DEF TypeOK, FileInv
  <2>5. FillInv'
    <3>1. target[r] \in Names /\ next[r] \in Artifacts
      BY DEF TypeOK, ControlInv
    <3>2. ASSUME NEW q \in Runs, q # r
          PROVE  /\ pc'[q] = pc[q] /\ next'[q] = next[q]
                 /\ Holds(q) => file'[target[q]] = file[target[q]]
      BY <3>1, <3>2 DEF TypeOK, ControlInv, HoldInv, Holds
    <3>3. /\ certificate[r] \in {"good", "bad"}
          /\ \A a \in 1 .. next[r] : file'[target[r]][a] = Mine(r)
          /\ \A a \in (next[r] + 1) .. Index : file'[target[r]][a] = None
      BY <3>1 DEF TypeOK, FillInv, Fill, Mine
    <3>4. /\ pc'[r] = "open" => next'[r] = next[r] + 1
          /\ pc'[r] \in {"open", "ended"}
      BY <3>1 DEF TypeOK
    <3>5. Fill(r)'
      BY <3>1, <3>3, <3>4, <2>1 DEF TypeOK, FillInv, Fill, Mine
    <3>6. ASSUME NEW q \in Runs, q # r PROVE Fill(q)'
      <4>1. UNCHANGED <<target, asked, certificate>>
        OBVIOUS
      <4>2. Fill(q) /\ pc[q] \in Points
        BY DEF FillInv, TypeOK
      <4>3. pc[q] \in {"issue", "open", "write"} => file'[target[q]] = file[target[q]]
        BY <3>2, <3>6 DEF Holds
      <4> QED
        BY <3>2, <3>6, <4>1, <4>2, <4>3, FillStays
    <3> QED
      BY <3>5, <3>6 DEF FillInv
  <2>6. IndexComesLast'
    <3>1. target[r] \in Names /\ next[r] \in Artifacts
      BY DEF TypeOK, ControlInv
    <3>2. \A n \in Names : n # target[r] => file'[n] = file[n]
      BY <3>1 DEF TypeOK
    <3>3. \A a \in 1 .. (next[r] - 1) : file'[target[r]][a] = Mine(r)
      BY <3>1 DEF TypeOK, FillInv, Fill
    <3>4. \A a \in (next[r] + 1) .. Index : file'[target[r]][a] = None
      BY <3>1 DEF TypeOK, FillInv, Fill
    <3>5. file'[target[r]][next[r]].by = r
      BY <3>1 DEF TypeOK
    <3>6. file'[target[r]][Index] # None => next[r] = Index
      BY <3>1, <3>4
    <3>7. ASSUME NEW n \in dirs, n # target[r], file'[n][Index] # None,
                 NEW a \in Artifacts \ {Index}
          PROVE  file'[n][a] = [by |-> file'[n][Index].by, whole |-> TRUE]
      BY <3>2, <3>7 DEF TypeOK, IndexComesLast
    <3>8. ASSUME file'[target[r]][Index] # None, NEW a \in Artifacts \ {Index}
          PROVE  file'[target[r]][a] =
                   [by |-> file'[target[r]][Index].by, whole |-> TRUE]
      <4>1. next[r] = Index
        BY <3>6, <3>8
      <4>2. a \in 1 .. (next[r] - 1)
        BY <4>1
      <4>3. file'[target[r]][a] = Mine(r)
        BY <3>3, <4>2
      <4>4. file'[target[r]][Index].by = r
        BY <3>5, <4>1
      <4> QED
        BY <4>3, <4>4 DEF Mine
    <3>9. dirs' = dirs
      OBVIOUS
    <3> QED
      BY <3>7, <3>8, <3>9 DEF IndexComesLast
  <2>7. ExitInv'
    <3>1. target[r] \in Names /\ next[r] \in Artifacts /\ asked[r]
      BY DEF TypeOK, ControlInv, FillInv, Fill, Certificates
    <3>2. \A q \in Runs : q # r /\ exit'[q] \in {"ok", "retained"} =>
            /\ asked[q] /\ Complete(q)
            /\ target[q] # target[r] /\ target[q] \in Names
      BY <3>1 DEF TypeOK, ControlInv, HoldInv, Holds, ExitInv
    <3>3. \A q \in Runs : q # r /\ exit'[q] \in {"ok", "retained"} => Complete(q)'
      BY <3>1, <3>2 DEF TypeOK, Complete
    <3>4. exit'[r] \in {"ok", "retained"} => Complete(r)'
      BY <3>1 DEF TypeOK, ControlInv, FillInv, Fill, Mine, Complete
    <3> QED
      BY <3>1, <3>2, <3>3, <3>4 DEF ExitInv
  <2> QED
    BY <2>1, <2>2, <2>3, <2>4, <2>5, <2>6, <2>7
<1>12. ASSUME NEW r \in Runs, WriteFails(r) PROVE IInv'
  <2> USE <1>12 DEF WriteFails, Goto, Exit, Aim, Put, disk, order
  <2>1. TypeOK'
    BY DEF TypeOK, Names, Files, Certificates, ConfiguredDir, Subject, CommonNames,
       GivenName
  <2>2. ControlInv'
    BY <2>1 DEF TypeOK, ControlInv
  <2>3. HoldInv'
    BY <2>1 DEF TypeOK, ControlInv, HoldInv, Holds
  <2>4. FileInv'
    BY <2>1 DEF TypeOK, FileInv, ControlInv, HoldInv, Holds, FillInv, Fill
  <2>5. FillInv'
    BY <2>1 DEF TypeOK, FileInv, ControlInv, HoldInv, Holds, FillInv, Fill, Mine
  <2>6. IndexComesLast'
    BY <2>1 DEF TypeOK, FileInv, ControlInv, HoldInv, Holds, FillInv, Fill, Mine, IndexComesLast
  <2>7. ExitInv'
    BY DEF TypeOK, ControlInv, ExitInv, Complete
  <2> QED
    BY <2>1, <2>2, <2>3, <2>4, <2>5, <2>6, <2>7
<1>13. ASSUME NEW r \in Runs, IssueCertificate(r) PROVE IInv'
  <2> USE <1>13 DEF IssueCertificate, Goto, Exit, Aim, Put, disk, order
  <2>1. TypeOK'
    BY DEF TypeOK, Names, Files, Certificates, ConfiguredDir, Subject, CommonNames,
       GivenName
  <2>2. ControlInv'
    BY <2>1 DEF TypeOK, ControlInv
  <2>3. HoldInv'
    BY <2>1 DEF TypeOK, ControlInv, HoldInv, Holds
  <2>4. FileInv'
    BY <2>1 DEF TypeOK, FileInv, ControlInv, HoldInv, Holds, FillInv, Fill
  <2>5. FillInv'
    <3>1. UNCHANGED <<pc, target, next, file, asked>> /\ asked[r]
      OBVIOUS
    <3>2. /\ certificate'[r] \in Certificates /\ certificate[r] = None
          /\ \A q \in Runs \ {r} : certificate'[q] = certificate[q]
      BY DEF TypeOK
    <3>3. Fill(r)'
      BY <3>1, <3>2 DEF Certificates, FillInv, Fill, Mine
    <3>4. ASSUME NEW q \in Runs \ {r} PROVE Fill(q)'
      BY <3>1, <3>2, <3>4 DEF FillInv, Fill, Mine
    <3> QED
      BY <3>3, <3>4 DEF FillInv
  <2>6. IndexComesLast'
    BY <2>1 DEF TypeOK, FileInv, ControlInv, HoldInv, Holds, FillInv, Fill, Mine, IndexComesLast
  <2>7. ExitInv'
    BY DEF TypeOK, ControlInv, ExitInv, Complete
  <2> QED
    BY <2>1, <2>2, <2>3, <2>4, <2>5, <2>6, <2>7
<1>14. ASSUME NEW r \in Runs, Kill(r) PROVE IInv'
  <2> USE <1>14 DEF Kill, Goto, Exit, Aim, Put, disk, order
  <2>1. TypeOK'
    BY DEF TypeOK, Names, Files, Certificates, ConfiguredDir, Subject, CommonNames,
       GivenName
  <2>2. ControlInv'
    BY <2>1 DEF TypeOK, ControlInv
  <2>3. HoldInv'
    BY <2>1 DEF TypeOK, ControlInv, HoldInv, Holds
  <2>4. FileInv'
    BY <2>1 DEF TypeOK, FileInv, ControlInv, HoldInv, Holds, FillInv, Fill
  <2>5. FillInv'
    BY <2>1 DEF TypeOK, ControlInv, FillInv, Fill, Mine
  <2>6. IndexComesLast'
    BY <2>1 DEF TypeOK, FileInv, ControlInv, HoldInv, Holds, FillInv, Fill, Mine, IndexComesLast
  <2>7. ExitInv'
    BY DEF TypeOK, ControlInv, ExitInv, Complete
  <2> QED
    BY <2>1, <2>2, <2>3, <2>4, <2>5, <2>6, <2>7
<1>16. ASSUME NEW r \in Runs, RefuseDuplicate(r) PROVE IInv'
  <2> USE <1>16 DEF RefuseDuplicate, Goto, Exit, Aim, Put, disk, order
  <2>1. TypeOK'
    BY DEF TypeOK, Names, Files, Certificates, ConfiguredDir, Subject, CommonNames,
       GivenName
  <2>2. ControlInv'
    BY <2>1 DEF TypeOK, ControlInv
  <2>3. HoldInv'
    BY <2>1 DEF TypeOK, ControlInv, HoldInv, Holds
  <2>4. FileInv'
    BY <2>1 DEF TypeOK, FileInv, ControlInv, HoldInv, Holds, FillInv, Fill
  <2>5. FillInv'
    BY <2>1 DEF TypeOK, ControlInv, FillInv, Fill, Mine
  <2>6. IndexComesLast'
    BY <2>1 DEF TypeOK, FileInv, ControlInv, HoldInv, Holds, FillInv, Fill, Mine, IndexComesLast
  <2>7. ExitInv'
    BY DEF TypeOK, ControlInv, ExitInv, Complete
  <2> QED
    BY <2>1, <2>2, <2>3, <2>4, <2>5, <2>6, <2>7
<1>15. CASE Tick \/ UNCHANGED vars
  BY <1>15 DEF Tick, vars, disk, order, TypeOK, ControlInv, HoldInv, Holds, FileInv,
       FillInv, Fill, Mine, IndexComesLast, ExitInv, Complete
<1> QED
  BY <1>1, <1>2, <1>3, <1>4, <1>5, <1>6, <1>7, <1>8, <1>9, <1>10, <1>11, <1>12, <1>13, <1>14, <1>15, <1>16 DEF Next, Step

\* A run's common name is the given one or the second it was resolved in, and the
\* CA refuses only a name for which another run has a certificate.
Named(r) == resolved[r] # None /\ name[r] \in {GivenName, resolved[r]}
NameInv ==
  \A r \in Runs :
    /\ pc[r] = "issue" \/ asked[r] => Named(r)
    /\ refused[r] => /\ asked[r]
                     /\ \E q \in Runs \ {r} :
                           certificate[q] # None /\ name[q] = name[r]

\* Names and certificates stay, once the CA was asked.
LEMMA StepNameInv == IInv /\ NameInv /\ [Next]_vars => NameInv'
<1> SUFFICES ASSUME IInv, NameInv, [Next]_vars PROVE NameInv'
  OBVIOUS
<1> USE NoneAssumption, BoundAssumption
    DEF IInv, TypeOK, ControlInv, FillInv, Fill, NameInv, Named
<1>1. ASSUME NEW r \in Runs, ResolveValues(r) PROVE NameInv'
  <2>1. certificate[r] = None /\ ~asked[r]
    BY <1>1 DEF ResolveValues
  <2>2. resolved'[r] = now /\ name'[r] \in {GivenName, now} /\ now # None
    BY <1>1 DEF ResolveValues, Subject, GivenName, CommonNames
  <2>3. \A q \in Runs \ {r} : resolved'[q] = resolved[q] /\ name'[q] = name[q]
    BY <1>1 DEF ResolveValues, Subject
  <2>4. UNCHANGED <<asked, refused, certificate>>
    BY <1>1 DEF ResolveValues
  <2>5. \A q \in Runs \ {r} : pc'[q] = pc[q]
    BY <1>1 DEF ResolveValues, Goto
  <2>6. ASSUME NEW q \in Runs, refused[q]
        PROVE  \E o \in Runs \ {q} : certificate[o] # None /\ name'[o] = name'[q]
    <3>1. asked[q] /\ q # r
      BY <2>1, <2>6
    <3>2. PICK o \in Runs \ {q} : certificate[o] # None /\ name[o] = name[q]
      BY <2>6
    <3> QED
      BY <2>1, <2>3, <3>1, <3>2
  <2> QED
    BY <2>1, <2>2, <2>3, <2>4, <2>5, <2>6
<1>2. ASSUME NEW r \in Runs, Ask(r) PROVE NameInv'
  BY <1>2 DEF Ask
<1>3. ASSUME NEW r \in Runs, IssueCertificate(r) PROVE NameInv'
  BY <1>3 DEF IssueCertificate
<1>4. ASSUME NEW r \in Runs, RefuseDuplicate(r) PROVE NameInv'
  BY <1>4 DEF RefuseDuplicate, Duplicate
<1>5. ASSUME UNCHANGED order, \A r \in Runs : pc'[r] = "issue" => pc[r] = "issue"
      PROVE  NameInv'
  BY <1>5 DEF order
<1>6. \/ \E r \in Runs : \/ ResolveValues(r) \/ Ask(r)
                        \/ IssueCertificate(r) \/ RefuseDuplicate(r)
      \/ UNCHANGED order /\ \A r \in Runs : pc'[r] = "issue" => pc[r] = "issue"
  <2>1. ASSUME NEW r \in Runs, Step(r) \/ Kill(r), ~ResolveValues(r), ~Ask(r)
        PROVE  UNCHANGED order /\ \A q \in Runs : pc'[q] = "issue" => pc[q] = "issue"
    <3>1. UNCHANGED order
      BY <2>1 DEF Step, ChooseConfigured, ChooseDefault, Probe, MakeDir, RejectValues,
         Raise, Deliver, OpenArtifact, WriteArtifact, WriteFails, Kill
    <3>2. \/ UNCHANGED pc
          \/ \E point \in Points \ {"issue"} : pc' = [pc EXCEPT ![r] = point]
      BY <2>1 DEF Step, ChooseConfigured, ChooseDefault, Probe, MakeDir, RejectValues,
         Raise, Deliver, OpenArtifact, WriteArtifact, WriteFails, Kill, Goto, Exit,
         Points
    <3> QED
      BY <3>1, <3>2 DEF Points
  <2>2. ASSUME Tick \/ UNCHANGED vars
        PROVE  UNCHANGED order /\ UNCHANGED pc
    BY <2>2 DEF Tick, vars, order
  <2> QED
    BY <2>1, <2>2 DEF Next
<1> QED
  BY <1>1, <1>2, <1>3, <1>4, <1>5, <1>6

\* The invariant holds throughout.
LEMMA Invariance == Spec => []IInv
<1>1. Init => IInv
  BY InitIInv
<1>2. IInv /\ [Next]_vars => IInv'
  BY StepIInv
<1> QED
  BY <1>1, <1>2, PTL DEF Spec

\* The type invariant of the command.
THEOREM TypeCorrect == Spec => []TypeOK
BY Invariance, PTL DEF IInv

\* No two runs that ask the CA share a directory, however many run at once.
THEOREM DirectoriesAreExclusive == Spec => []DirectoryClaimedFirst
<1>1. IInv => DirectoryClaimedFirst
  BY DEF IInv, HoldInv, Holds, DirectoryClaimedFirst
<1> QED
  BY <1>1, Invariance, PTL

\* Wherever a run is killed or fails, issuance.json vouches for the rest.
THEOREM IndexVouches == Spec => []IndexComesLast
BY Invariance, PTL DEF IInv

\* A run that reports an issued certificate, valid or not, has written it all.
THEOREM ExitIsTrue == Spec => []ExitMatchesArtifacts
<1>1. IInv => ExitMatchesArtifacts
  BY DEF IInv, ExitInv, ExitMatchesArtifacts
<1> QED
  BY <1>1, Invariance, PTL

\* Only a run that resolved its values in the same second takes a default name
\* away, for any number of runs.
THEOREM RerunsAreNotRefused == Spec => []RefusedOnlyWithinSecond
<1>1. Init => NameInv
  BY DEF Init, NameInv, Named
<1>2. IInv /\ NameInv /\ [Next]_vars => NameInv'
  BY StepNameInv
<1>3. IInv /\ NameInv => RefusedOnlyWithinSecond
  BY DEF IInv, FillInv, Fill, NameInv, Named, RefusedOnlyWithinSecond
<1> QED
  BY <1>1, <1>2, <1>3, Invariance, PTL DEF Spec

\* What one run has written no other run overwrites or truncates.
THEOREM ArtifactsAreStable == Spec => ArtifactsNeverChange
<1> DEFINE Kept == \A n \in Names, a \in Artifacts :
                     file[n][a] # None => /\ file'[n][a] # None
                                          /\ file'[n][a].by = file[n][a].by
                                          /\ file[n][a].whole => file'[n][a].whole
<1>1. ASSUME IInv, NEW r \in Runs, OpenArtifact(r) PROVE Kept
  <2>1. target[r] \in Names /\ next[r] \in Artifacts
    BY <1>1 DEF IInv, TypeOK, ControlInv, OpenArtifact, Points
  <2>2. file[target[r]][next[r]] = None
    BY <1>1 DEF IInv, FillInv, Fill, OpenArtifact
  <2> QED
    BY <1>1, <2>1, <2>2 DEF OpenArtifact, Put, IInv, TypeOK
<1>2. ASSUME IInv, NEW r \in Runs, WriteArtifact(r) PROVE Kept
  <2>1. target[r] \in Names /\ next[r] \in Artifacts /\ asked[r]
    BY <1>2, NoneAssumption
    DEF IInv, TypeOK, ControlInv, FillInv, Fill, WriteArtifact, Points, Certificates
  <2>2. file[target[r]][next[r]] # None => file[target[r]][next[r]].by = r
    BY <1>2, <2>1 DEF IInv, TypeOK, Files, FileInv, HoldInv, Holds
  <2>3. Mine(r) # None
    <3>1. Mine(r) \in Files
      BY <1>2 DEF Mine, Files
    <3> QED
      BY <3>1, NoneAssumption
  <2> QED
    BY <1>2, <2>1, <2>2, <2>3 DEF WriteArtifact, Put, Mine, IInv, TypeOK
<1>3. ASSUME [Next]_vars,
             \A r \in Runs : ~OpenArtifact(r) /\ ~WriteArtifact(r)
      PROVE  file' = file
  BY <1>3 DEF Next, Step, vars, disk, ChooseConfigured, ChooseDefault, Probe,
     MakeDir, ResolveValues, RejectValues, Ask, Raise, Deliver, WriteFails,
     IssueCertificate, RefuseDuplicate, Kill, Tick
<1>4. IInv /\ [Next]_vars => [Kept]_vars
  BY <1>1, <1>2, <1>3
<1> QED
  BY <1>4, Invariance, PTL DEF Spec, ArtifactsNeverChange

----------------------------------------------------------------------------
(* The command's exit keeps IssuancePromise.                                 *)

\* A run that has not ended runs on for its caller too.
LEMMA InitRefines == Init => \A r \in Runs : Promise(r)!Init
BY DEF Init, Promise!Init, Outcome

\* What a step does to one run is a step of its promise, and nothing to others.
LEMMA StepRefines ==
  IInv /\ [Next]_vars => \A q \in Runs : [Promise(q)!Next]_(Promise(q)!vars)
<1> SUFFICES ASSUME IInv, [Next]_vars, NEW q \in Runs
             PROVE  Promise(q)!Next
                    \/ UNCHANGED <<Outcome(q), asked[q], certificate[q]>>
  BY DEF Promise!vars
<1>1. CASE UNCHANGED <<exit[q], asked[q], certificate[q]>>
  BY <1>1 DEF Outcome
<1>2. CASE Ask(q)
  <2>1. exit[q] = "none" /\ ~asked[q]
    BY <1>2 DEF Ask, IInv, TypeOK, ControlInv
  <2>2. asked'[q] = TRUE /\ UNCHANGED <<exit, certificate>>
    BY <1>2 DEF Ask, IInv, TypeOK
  <2>3. Promise(q)!Ask
    BY <2>1, <2>2 DEF Promise!Ask, Outcome
  <2> QED
    BY <2>3 DEF Promise!Next
<1>3. CASE IssueCertificate(q)
  <2>1. /\ certificate'[q] \in Certificates
        /\ UNCHANGED <<exit, asked>>
    BY <1>3 DEF IssueCertificate, IInv, TypeOK
  <2>2. Promise(q)!IssueCertificate
    BY <1>3, <2>1 DEF IssueCertificate, Promise!IssueCertificate, Outcome,
       Certificates, Promise!Certificates
  <2> QED
    BY <2>2 DEF Promise!Next
<1>4. CASE exit[q] = "none" /\ exit'[q] = "ok" /\ UNCHANGED <<asked, certificate>>
  <2>1. WriteArtifact(q)
    BY <1>4 DEF Next, Step, vars, ChooseConfigured, ChooseDefault, Probe, MakeDir,
       ResolveValues, RejectValues, Ask, Raise, Deliver, OpenArtifact,
       WriteArtifact, WriteFails, IssueCertificate, RefuseDuplicate, Kill, Tick, Goto, Exit, IInv, TypeOK
  <2>2. certificate[q] = "good"
    BY <1>4, <2>1 DEF WriteArtifact, Goto, Exit, IInv, TypeOK
  <2>3. Promise(q)!Succeed
    BY <1>4, <2>2 DEF Promise!Succeed, Outcome
  <2> QED
    BY <2>3 DEF Promise!Next
<1>5. CASE exit[q] = "none" /\ exit'[q] = "retained" /\ UNCHANGED <<asked, certificate>>
  <2>1. WriteArtifact(q)
    BY <1>5 DEF Next, Step, vars, ChooseConfigured, ChooseDefault, Probe, MakeDir,
       ResolveValues, RejectValues, Ask, Raise, Deliver, OpenArtifact,
       WriteArtifact, WriteFails, IssueCertificate, RefuseDuplicate, Kill, Tick, Goto, Exit, IInv, TypeOK
  <2>2. certificate[q] = "bad"
    BY <1>5, <2>1 DEF WriteArtifact, Goto, Exit, IInv, TypeOK, FillInv, Fill
  <2>3. Promise(q)!Retain
    BY <1>5, <2>2 DEF Promise!Retain, Outcome
  <2> QED
    BY <2>3 DEF Promise!Next
<1>6. CASE /\ exit[q] = "none" /\ exit'[q] \notin {"none", "ok", "retained"}
           /\ UNCHANGED <<asked, certificate>>
  <2>1. Promise(q)!Raise
    BY <1>6 DEF Promise!Raise, Outcome
  <2> QED
    BY <2>1 DEF Promise!Next
<1>7. \/ UNCHANGED <<exit[q], asked[q], certificate[q]>>
      \/ Ask(q) \/ IssueCertificate(q)
      \/ exit[q] = "none" /\ exit'[q] # "none" /\ UNCHANGED <<asked, certificate>>
  <2>1. ASSUME NEW r \in Runs, Step(r) \/ Kill(r), ~Ask(r) PROVE
          /\ UNCHANGED <<asked, certificate>>
          /\ \/ UNCHANGED exit
             \/ \E how \in Exits : pc[r] # "ended" /\ Exit(r, how)
    BY <2>1 DEF order, Step, ChooseConfigured, ChooseDefault, Probe, MakeDir,
       ResolveValues, RejectValues, Raise, Deliver, OpenArtifact,
       WriteArtifact, WriteFails, Kill, Goto, Exits
  <2>2. ASSUME NEW r \in Runs, NEW how \in Exits, pc[r] # "ended", Exit(r, how)
        PROVE  exit'[q] = exit[q] \/ exit[q] = "none"
    BY <2>2 DEF Exit, IInv, TypeOK, ControlInv
  <2>3. ASSUME NEW r \in Runs, Ask(r) \/ IssueCertificate(r), r # q
        PROVE  UNCHANGED <<exit[q], asked[q], certificate[q]>>
    BY <2>3 DEF Ask, IssueCertificate, IInv, TypeOK
  <2>4. CASE Tick \/ UNCHANGED vars \/ \E r \in Runs : RefuseDuplicate(r)
    BY <2>4 DEF Tick, vars, order, RefuseDuplicate
  <2>5. CASE \E r \in Runs : Step(r) \/ IssueCertificate(r) \/ Kill(r)
    <3>1. PICK r \in Runs : Step(r) \/ IssueCertificate(r) \/ Kill(r)
      BY <2>5
    <3>2. CASE Ask(r) \/ IssueCertificate(r)
      BY <2>3, <3>2
    <3>3. CASE (Step(r) \/ Kill(r)) /\ ~Ask(r)
      <4>1. UNCHANGED <<asked, certificate>> /\ (UNCHANGED exit \/ exit'[q] = exit[q] \/ exit[q] = "none")
        BY <2>1, <2>2, <3>3
      <4> QED
        BY <4>1
    <3> QED
      BY <3>1, <3>2, <3>3
  <2> QED
    BY <2>4, <2>5 DEF Next
<1> QED
  BY <1>1, <1>2, <1>3, <1>4, <1>5, <1>6, <1>7

\* Every run of the command keeps the promise of issue.
THEOREM PromiseKept == Spec => ImplementsPromise
<1>1. Init => \A r \in Runs : Promise(r)!Init
  BY InitRefines
<1>2. IInv /\ [Next]_vars => [\A r \in Runs : [Promise(r)!Next]_(Promise(r)!vars)]_vars
  BY StepRefines
<1> QED
  BY <1>1, <1>2, Invariance, PTL DEF Spec, ImplementsPromise

----------------------------------------------------------------------------
(* The search for a directory ends, for want of competitors.                 *)

Searching(r) == pc[r] \in {"start", "probe", "mkdir"}

\* Each directory is a run's that no longer searches, and a run that probes has
\* passed over every lower suffix because it was taken.
SearchInv ==
  /\ \A n \in dirs : \E q \in Runs : target[q] = n /\ ~Searching(q)
  /\ \A r \in Runs : pc[r] = "probe" =>
       \A m \in 0 .. MaxSuffix : m < target[r][2] => <<target[r][1], m>> \in dirs

LEMMA StepSearchInv == IInv /\ SearchInv /\ [Next]_vars => SearchInv'
<1> SUFFICES ASSUME IInv, SearchInv, [Next]_vars PROVE SearchInv'
  OBVIOUS
<1>1. dirs \subseteq dirs'
  BY DEF Next, Step, vars, disk, ChooseConfigured, ChooseDefault, Probe, MakeDir,
     ResolveValues, RejectValues, Ask, Raise, Deliver, OpenArtifact, WriteArtifact,
     WriteFails, IssueCertificate, RefuseDuplicate, Kill, Tick
<1>2. \A q \in Runs : ~Searching(q) => target'[q] = target[q] /\ ~Searching(q)'
  <2> USE DEF IInv, TypeOK, Searching, Goto, Exit, Aim, Points
  <2>1. ASSUME NEW r \in Runs, \/ ChooseConfigured(r) \/ ChooseDefault(r) \/ Probe(r)
                              \/ MakeDir(r)
        PROVE  \A q \in Runs : ~Searching(q) => target'[q] = target[q] /\ ~Searching(q)'
    BY <2>1 DEF ChooseConfigured, ChooseDefault, Probe, MakeDir
  <2>2. ASSUME NEW r \in Runs, \/ ResolveValues(r) \/ RejectValues(r) \/ Ask(r)
                              \/ Raise(r) \/ Deliver(r)
        PROVE  \A q \in Runs : ~Searching(q) => target'[q] = target[q] /\ ~Searching(q)'
    BY <2>2 DEF ResolveValues, RejectValues, Ask, Raise, Deliver
  <2>3. ASSUME NEW r \in Runs, \/ OpenArtifact(r) \/ WriteArtifact(r) \/ WriteFails(r)
                              \/ Kill(r)
        PROVE  \A q \in Runs : ~Searching(q) => target'[q] = target[q] /\ ~Searching(q)'
    BY <2>3 DEF OpenArtifact, WriteArtifact, WriteFails, Kill
  <2>4. CASE UNCHANGED <<pc, target>>
    BY <2>4
  <2>5. QED
    BY <2>1, <2>2, <2>3, <2>4 DEF Next, Step, vars, IssueCertificate, RefuseDuplicate,
       Tick
<1>3. \A n \in dirs' \ dirs : \E q \in Runs : target'[q] = n /\ ~Searching(q)'
  BY DEF IInv, TypeOK, Next, Step, vars, disk, order, Searching, ChooseConfigured,
     ChooseDefault, Probe, MakeDir, ResolveValues, RejectValues, Ask, Raise, Deliver,
     OpenArtifact, WriteArtifact, WriteFails, IssueCertificate, RefuseDuplicate, Kill,
     Tick, Goto, Exit, Aim
<1>4. \A r \in Runs : pc'[r] = "probe" =>
        \/ pc[r] = "probe" /\ target'[r] = target[r]
        \/ target'[r][2] = 0
        \/ /\ pc[r] = "probe" /\ target[r] \in dirs
           /\ target'[r] = <<target[r][1], target[r][2] + 1>>
  <2> DEFINE Moves(r) == pc'[r] = "probe" =>
               \/ pc[r] = "probe" /\ target'[r] = target[r]
               \/ target'[r][2] = 0
               \/ /\ pc[r] = "probe" /\ target[r] \in dirs
                  /\ target'[r] = <<target[r][1], target[r][2] + 1>>
  <2> USE DEF IInv, TypeOK, Goto, Exit, Aim, Points
  <2>1. ASSUME NEW r \in Runs, ChooseConfigured(r) \/ ChooseDefault(r)
        PROVE  \A q \in Runs : Moves(q)
    BY <2>1 DEF ChooseConfigured, ChooseDefault
  <2>2. ASSUME NEW r \in Runs, Probe(r) \/ MakeDir(r)
        PROVE  \A q \in Runs : Moves(q)
    BY <2>2 DEF Probe, MakeDir
  <2>3. ASSUME NEW r \in Runs, \/ ResolveValues(r) \/ RejectValues(r) \/ Ask(r)
                              \/ Raise(r) \/ Deliver(r)
        PROVE  \A q \in Runs : Moves(q)
    BY <2>3 DEF ResolveValues, RejectValues, Ask, Raise, Deliver
  <2>4. ASSUME NEW r \in Runs, \/ OpenArtifact(r) \/ WriteArtifact(r) \/ WriteFails(r)
                              \/ Kill(r)
        PROVE  \A q \in Runs : Moves(q)
    BY <2>4 DEF OpenArtifact, WriteArtifact, WriteFails, Kill
  <2>5. CASE UNCHANGED <<pc, target>>
    BY <2>5
  <2>6. QED
    BY <2>1, <2>2, <2>3, <2>4, <2>5 DEF Next, Step, vars, IssueCertificate,
       RefuseDuplicate, Tick
<1>5. ASSUME NEW r \in Runs, pc'[r] = "probe",
             NEW m \in 0 .. MaxSuffix, m < target'[r][2]
      PROVE  <<target'[r][1], m>> \in dirs'
  <2>1. CASE pc[r] = "probe" /\ target'[r] = target[r]
    BY <1>1, <1>5, <2>1 DEF SearchInv
  <2>2. CASE target'[r][2] = 0
    BY <1>5, <2>2
  <2>3. CASE /\ pc[r] = "probe" /\ target[r] \in dirs
             /\ target'[r] = <<target[r][1], target[r][2] + 1>>
    <3>1. target[r] = <<target[r][1], target[r][2]>> /\ target[r][2] \in 0 .. MaxSuffix
      BY <2>3 DEF IInv, TypeOK, Names
    <3>2. m < target[r][2] \/ m = target[r][2]
      BY <1>5, <2>3, <3>1, BoundAssumption
    <3>3. QED
      BY <1>1, <2>3, <3>1, <3>2 DEF SearchInv
  <2>4. QED
    BY <1>4, <1>5, <2>1, <2>2, <2>3
<1>6. QED
  BY <1>1, <1>2, <1>3, <1>5 DEF SearchInv

\* With a suffix for each competitor a run never wants one.
SuffixesSuffice == IsFiniteSet(Runs) /\ MaxSuffix + 1 >= Cardinality(Runs)

\* The runs that hold the names a run has found taken are others, one for each.
LEMMA SuffixIsFree ==
  ASSUME SuffixesSuffice, IInv, SearchInv, NEW r \in Runs, pc[r] = "probe",
         target[r] \in dirs
  PROVE  target[r][2] < MaxSuffix
<1> DEFINE Taken == 0 .. target[r][2]
           Others == Runs \ {r}
           Holder(m) == CHOOSE q \in Others : target[q] = <<target[r][1], m>>
           f == [m \in Taken |-> Holder(m)]
<1>1. target[r] = <<target[r][1], target[r][2]>> /\ target[r][2] \in 0 .. MaxSuffix
  BY DEF IInv, TypeOK, Names
<1>2. ASSUME NEW m \in Taken
      PROVE  \E q \in Others : target[q] = <<target[r][1], m>>
  <2>1. m < target[r][2] \/ m = target[r][2]
    BY <1>1, BoundAssumption
  <2>2. <<target[r][1], m>> \in dirs
    BY <1>1, <2>1, BoundAssumption DEF SearchInv
  <2>3. PICK q \in Runs : target[q] = <<target[r][1], m>> /\ ~Searching(q)
    BY <2>2 DEF SearchInv
  <2>4. QED
    BY <2>3 DEF Searching
<1>3. \A m \in Taken : f[m] \in Others /\ target[f[m]] = <<target[r][1], m>>
  BY <1>2
<1>4. f \in Injection(Taken, Others)
  <2>1. f \in [Taken -> Others]
    BY <1>3
  <2>2. ASSUME NEW m \in Taken, NEW n \in Taken, f[m] = f[n]
        PROVE  m = n
    <3>1. <<target[r][1], m>> = <<target[r][1], n>>
      <4> HIDE DEF f, Taken, Others
      <4>1. QED
        BY <1>3, <2>2
    <3>2. QED
      BY <3>1
  <2>3. QED
    BY <2>1, <2>2 DEF Injection, IsInjective
<1>5. IsFiniteSet(Others) /\ Cardinality(Others) = Cardinality(Runs) - 1
  BY FS_RemoveElement DEF SuffixesSuffice
<1>6. Cardinality(Taken) = target[r][2] + 1
  BY <1>1, FS_Interval
<1>7. Cardinality(Taken) <= Cardinality(Others)
  <2> HIDE DEF f, Taken, Others
  <2>1. QED
    BY <1>4, <1>5, FS_Injection
<1>8. Cardinality(Runs) \in Nat
  BY FS_CardinalityType DEF SuffixesSuffice
<1>9. QED
  BY <1>1, <1>5, <1>6, <1>7, <1>8, BoundAssumption DEF SuffixesSuffice

\* The bound on suffixes hides no step: of any number of runs, no one passes over
\* more names than there are others, so the search of default_issue_output_dir
\* ends whatever the others do.
THEOREM SuffixIsFound ==
  ASSUME SuffixesSuffice
  PROVE  Spec => [](\A r \in Runs :
                      pc[r] = "probe" /\ target[r] \in dirs => target[r][2] < MaxSuffix)
<1>1. Init => SearchInv
  BY DEF Init, SearchInv
<1>2. IInv /\ SearchInv =>
        \A r \in Runs :
          pc[r] = "probe" /\ target[r] \in dirs => target[r][2] < MaxSuffix
  BY SuffixIsFree
<1>3. QED
  BY <1>1, <1>2, StepSearchInv, Invariance, PTL DEF Spec

\* Whatever a step does, it leaves a run where it is or brings its end nearer.
LEMMA StepAdvances ==
  ASSUME IInv, [Next]_vars, NEW r \in Runs
  PROVE  \/ UNCHANGED <<pc[r], target[r], next[r], asked[r]>>
         \/ Ahead(r)' < Ahead(r)
<1> DEFINE Still(q) == UNCHANGED <<pc[q], target[q], next[q], asked[q]>>
<1> USE BoundAssumption DEF Goto, Exit, Aim, Artifacts, Index
<1>1. /\ pc \in [Runs -> Points] /\ next[r] \in Artifacts /\ asked[r] \in BOOLEAN
      /\ next \in [Runs -> Artifacts] /\ target \in [Runs -> Names \cup {None}]
      /\ asked \in [Runs -> BOOLEAN] /\ now \in 1 .. MaxSecond
      /\ pc[r] = "probe" => target[r][2] \in 0 .. MaxSuffix
  BY DEF IInv, TypeOK, ControlInv, Names, Points
<1>2. CASE \E q \in Runs \ {r} : \/ Step(q) \/ Kill(q)
                                 \/ IssueCertificate(q) \/ RefuseDuplicate(q)
  BY <1>1, <1>2 DEF Step, order, disk, ChooseConfigured, ChooseDefault, Probe, MakeDir,
     ResolveValues, RejectValues, Ask, Raise, Deliver, OpenArtifact, WriteArtifact,
     WriteFails, IssueCertificate, RefuseDuplicate, Kill
<1>3. CASE IssueCertificate(r) \/ RefuseDuplicate(r) \/ Tick \/ UNCHANGED vars
  BY <1>3 DEF IssueCertificate, RefuseDuplicate, Tick, order, vars
<1>4. CASE ChooseConfigured(r) \/ ChooseDefault(r) \/ Probe(r) \/ MakeDir(r)
  BY <1>1, <1>4 DEF ChooseConfigured, ChooseDefault, Probe, MakeDir, Ahead
<1>5. CASE ResolveValues(r) \/ RejectValues(r) \/ Ask(r) \/ Raise(r) \/ Deliver(r)
  BY <1>1, <1>5 DEF ResolveValues, RejectValues, Ask, Raise, Deliver, Ahead, order
<1>6. CASE OpenArtifact(r)
  <2>1. pc[r] = "open" /\ Ahead(r) = 2 * (5 - next[r]) + 2
    BY <1>6 DEF OpenArtifact, Ahead
  <2>2. Ahead(r)' = 2 * (5 - next[r]) + 1
    BY <1>1, <1>6 DEF OpenArtifact, Ahead
  <2>3. QED
    BY <1>1, <2>1, <2>2
<1>7. CASE WriteArtifact(r)
  <2>1. pc[r] = "write" /\ Ahead(r) = 2 * (5 - next[r]) + 1
    BY <1>7 DEF WriteArtifact, Ahead
  <2>2. \/ pc'[r] = "open" /\ next'[r] = next[r] + 1
        \/ pc'[r] = "ended"
    BY <1>1, <1>7 DEF WriteArtifact
  <2>3. QED
    BY <1>1, <2>1, <2>2 DEF Ahead
<1>8. CASE WriteFails(r) \/ Kill(r)
  <2>1. pc'[r] = "ended" /\ Ahead(r)' = 0
    BY <1>1, <1>8 DEF WriteFails, Kill, Ahead
  <2>2. Ahead(r) > 0
    BY <1>1, <1>8 DEF WriteFails, Kill, Ahead, Points
  <2>3. QED
    BY <2>1, <2>2
<1>9. QED
  BY <1>2, <1>3, <1>4, <1>5, <1>6, <1>7, <1>8 DEF Next, Step

\* A run takes a bounded number of steps, for any number of runs, and no other
\* run, however it interferes, makes it go back.
THEOREM RunsRunDown == Spec => RunsAdvance
<1>1. IInv /\ [Next]_vars =>
        [\A r \in Runs : \/ UNCHANGED <<pc[r], target[r], next[r], asked[r]>>
                         \/ Ahead(r)' < Ahead(r)]_vars
  BY StepAdvances
<1>2. QED
  BY <1>1, Invariance, PTL DEF Spec, RunsAdvance

=============================================================================
