-------------------------- MODULE CsrCommandProofs --------------------------
(* For any number of runs and checks: a run that had the paths to itself     *)
(* leaves its own pair, and the verdict of a check that no run overlapped is *)
(* true.                                                                     *)
EXTENDS CsrCommand, TLAPS

\* r was started last and has had the paths to itself.
Sole(r) == last = r /\ ~overlapped[r]

\* The files of a run that has the paths to itself, by where it stands.
SoleInv ==
  \A r \in Runs : Sole(r) =>
    /\ pc[r] # "start"
    /\ \A q \in Runs \ {r} : ~Active(q)
    /\ pc[r] \in {"build", "pem", "der"} => files["key"] = r
    /\ pc[r] = "der" => files["pem"] = r /\ ~tail["pem"]
    /\ fd[r] # None => files[fd[r]] = Nothing
    /\ exit[r] = "ok" => /\ files["key"] = r
                         /\ files["pem"] = r /\ ~tail["pem"]
                         /\ der[r] => files["der"] = r /\ ~tail["der"]
    /\ files["pem"] = r => files["key"] = r

\* A run writes nothing before its key, and has no exit before it ended.
StartedInv ==
  /\ \A r \in Runs : pc[r] = "start" => last # r
  /\ \A r \in Runs : pc[r] \in {"start", "key"} =>
       \A o \in Outputs : files[o] # r
  /\ \A p \in Runs \cup Checks : exit[p] # "none" => pc[p] = "ended"

\* A check that no run has overlapped holds the key that is on disk.
CheckInv ==
  \A c \in Checks : pc[c] = "csr" /\ ~overlapped[c] =>
    /\ \A r \in Runs : ~Active(r)
    /\ read[c] = files["key"]
    /\ files["key"] \in Runs

IInv == TypeOK /\ SoleInv /\ StartedInv /\ CheckInv

-----------------------------------------------------------------------------
\* The invariant holds at the start.
LEMMA InitIInv == Init => IInv
<1> SUFFICES ASSUME Init PROVE IInv
  OBVIOUS
<1> USE ProcessAssumption, ContentsAssumption DEF Init
<1>1. TypeOK
  BY DEF TypeOK, RunPoints, CheckPoints, RunExits, CheckExits, Contents, Outputs
<1>2. SoleInv /\ StartedInv /\ CheckInv
  BY DEF SoleInv, StartedInv, CheckInv, Sole, Outputs
<1>3. QED
  BY <1>1, <1>2 DEF IInv

\* Every step of a run and of a check preserves it.
LEMMA StepIInv == IInv /\ [Next]_vars => IInv'
<1> SUFFICES ASSUME IInv, [Next]_vars PROVE IInv'
  OBVIOUS
<1> USE ProcessAssumption, ContentsAssumption
    DEF IInv, TypeOK, StartedInv, RunPoints, CheckPoints, RunExits, CheckExits,
        Contents, Outputs, Goto, Exit, history
<1>1. ASSUME NEW r \in Runs, Start(r) PROVE IInv'
  <2> USE <1>1 DEF Start, Overlap
  <2>1. TypeOK'
    OBVIOUS
  <2>2. StartedInv'
    BY DEF Active
  <2>3. SoleInv'
    BY DEF SoleInv, Sole, Active
  <2>4. CheckInv'
    BY DEF CheckInv, Active
  <2>5. QED
    BY <2>1, <2>2, <2>3, <2>4
<1>2. ASSUME NEW r \in Runs, RejectValues(r) PROVE IInv'
  <2> USE <1>2 DEF RejectValues
  <2>1. TypeOK'
    OBVIOUS
  <2>2. StartedInv'
    BY DEF Active
  <2>3. SoleInv'
    BY DEF SoleInv, Sole, Active
  <2>4. CheckInv'
    BY DEF CheckInv, Active
  <2>5. QED
    BY <2>1, <2>2, <2>3, <2>4
<1>3. ASSUME NEW r \in Runs, OpenOutput(r) PROVE IInv'
  <2> USE <1>3 DEF OpenOutput
  <2>1. TypeOK'
    OBVIOUS
  <2>2. StartedInv'
    BY DEF Active
  <2>3. SoleInv'
    BY DEF SoleInv, Sole, Active
  <2>4. CheckInv'
    BY DEF CheckInv, Active
  <2>5. QED
    BY <2>1, <2>2, <2>3, <2>4
<1>4. ASSUME NEW r \in Runs, WriteKey(r) PROVE IInv'
  <2> USE <1>4 DEF WriteKey, Put
  <2>1. TypeOK'
    OBVIOUS
  <2>2. StartedInv'
    BY DEF Active
  <2>3. SoleInv'
    BY DEF SoleInv, Sole, Active
  <2>4. CheckInv'
    BY DEF CheckInv, Active
  <2>5. QED
    BY <2>1, <2>2, <2>3, <2>4
<1>5. ASSUME NEW r \in Runs, BuildCsr(r) PROVE IInv'
  <2> USE <1>5 DEF BuildCsr
  <2>1. TypeOK'
    OBVIOUS
  <2>2. StartedInv'
    BY DEF Active
  <2>3. SoleInv'
    BY DEF SoleInv, Sole, Active
  <2>4. CheckInv'
    BY DEF CheckInv, Active
  <2>5. QED
    BY <2>1, <2>2, <2>3, <2>4
<1>6. ASSUME NEW r \in Runs, RejectSubject(r) PROVE IInv'
  <2> USE <1>6 DEF RejectSubject
  <2>1. TypeOK'
    OBVIOUS
  <2>2. StartedInv'
    BY DEF Active
  <2>3. SoleInv'
    BY DEF SoleInv, Sole, Active
  <2>4. CheckInv'
    BY DEF CheckInv, Active
  <2>5. QED
    BY <2>1, <2>2, <2>3, <2>4
<1>7. ASSUME NEW r \in Runs, WritePem(r) PROVE IInv'
  <2> USE <1>7 DEF WritePem, Put
  <2>1. TypeOK'
    OBVIOUS
  <2>2. StartedInv'
    BY DEF Active
  <2>3. SoleInv'
    <3>1. \A q \in Runs : Sole(q)' => q = r /\ Sole(r)
      BY DEF SoleInv, Sole, Active
    <3>2. CASE Sole(r)
      <4>1. files["pem"] = Nothing /\ files["key"] = r
        BY <3>2 DEF SoleInv
      <4>2. files' = [files EXCEPT !["pem"] = r] /\ tail' = [tail EXCEPT !["pem"] = FALSE]
        BY <4>1
      <4>3. \A q \in Runs \ {r} : pc[q] \in {"start", "ended"}
        BY <3>2 DEF SoleInv, Active
      <4>4. QED
        BY <3>1, <3>2, <4>1, <4>2, <4>3 DEF SoleInv, Sole, Active
    <3>3. CASE ~Sole(r)
      BY <3>1, <3>3 DEF SoleInv
    <3>4. QED
      BY <3>2, <3>3
  <2>4. CheckInv'
    BY DEF CheckInv, Active
  <2>5. QED
    BY <2>1, <2>2, <2>3, <2>4
<1>8. ASSUME NEW r \in Runs, WriteDer(r) PROVE IInv'
  <2> USE <1>8 DEF WriteDer, Put
  <2>1. TypeOK'
    OBVIOUS
  <2>2. StartedInv'
    BY DEF Active
  <2>3. SoleInv'
    <3>1. \A q \in Runs : Sole(q)' => q = r /\ Sole(r)
      BY DEF SoleInv, Sole, Active
    <3>2. CASE Sole(r)
      <4>1. files["der"] = Nothing /\ files["key"] = r /\ files["pem"] = r
        BY <3>2 DEF SoleInv
      <4>2. files' = [files EXCEPT !["der"] = r] /\ tail' = [tail EXCEPT !["der"] = FALSE]
        BY <4>1
      <4>3. \A q \in Runs \ {r} : pc[q] \in {"start", "ended"}
        BY <3>2 DEF SoleInv, Active
      <4>4. QED
        BY <3>1, <3>2, <4>1, <4>2, <4>3 DEF SoleInv, Sole, Active
    <3>3. CASE ~Sole(r)
      BY <3>1, <3>3 DEF SoleInv
    <3>4. QED
      BY <3>2, <3>3
  <2>4. CheckInv'
    BY DEF CheckInv, Active
  <2>5. QED
    BY <2>1, <2>2, <2>3, <2>4
<1>9. ASSUME NEW r \in Runs, Fail(r) PROVE IInv'
  <2> USE <1>9 DEF Fail
  <2>1. TypeOK'
    OBVIOUS
  <2>2. StartedInv'
    BY DEF Active
  <2>3. SoleInv'
    BY DEF SoleInv, Sole, Active
  <2>4. CheckInv'
    BY DEF CheckInv, Active
  <2>5. QED
    BY <2>1, <2>2, <2>3, <2>4
<1>10. ASSUME NEW c \in Checks, LoadKey(c) PROVE IInv'
  <2> USE <1>10 DEF LoadKey, Overlap
  <2>1. TypeOK'
    OBVIOUS
  <2>2. StartedInv'
    BY DEF Active
  <2>3. SoleInv'
    BY DEF SoleInv, Sole, Active
  <2>4. CheckInv'
    BY DEF CheckInv, Active
  <2>5. QED
    BY <2>1, <2>2, <2>3, <2>4
<1>11. ASSUME NEW c \in Checks, CheckCsr(c) PROVE IInv'
  <2> USE <1>11 DEF CheckCsr, Compare
  <2>1. TypeOK'
    OBVIOUS
  <2>2. StartedInv'
    BY DEF Active
  <2>3. SoleInv'
    BY DEF SoleInv, Sole, Active
  <2>4. CheckInv'
    BY DEF CheckInv, Active
  <2>5. QED
    BY <2>1, <2>2, <2>3, <2>4
<1>12. CASE UNCHANGED vars
  BY <1>12 DEF vars, SoleInv, Sole, CheckInv, Active
<1>13. QED
  BY <1>1, <1>2, <1>3, <1>4, <1>5, <1>6, <1>7, <1>8, <1>9, <1>10, <1>11, <1>12 DEF Next, Step

\* The invariant holds throughout.
LEMMA Invariance == Spec => []IInv
BY InitIInv, StepIInv, PTL DEF Spec

\* Type correctness: among others, no run is at the DER form that was not asked
\* for it, and the key is never followed by the end of another.
THEOREM TypeCorrect == Spec => []TypeOK
BY Invariance, PTL DEF IInv

\* However many runs came before and whatever they left, a run that succeeded
\* with the paths to itself leaves its own key and CSR.
THEOREM SoleRunsSucceed == Spec => []SoleRunLeavesItsPair
<1>1. IInv => SoleRunLeavesItsPair
  BY DEF IInv, SoleInv, Sole, SoleRunLeavesItsPair, Paired
<1>2. QED
  BY <1>1, Invariance, PTL

\* What check c says of the disk.
Verdict(c) == /\ exit'[c] = "match" <=> Paired
              /\ exit'[c] = "mismatch" <=>
                   {files["key"], files["pem"]} \subseteq Runs /\ ~Paired

\* The verdict of a check that no run overlapped is true of the disk.
THEOREM VerdictsAreTrue == Spec => VerdictIsTrue
<1>1. ASSUME IInv, [Next]_vars, NEW c \in Checks, exit[c] # exit'[c], ~overlapped[c]
      PROVE  Verdict(c)
  <2> USE <1>1, ProcessAssumption, ContentsAssumption DEF IInv, TypeOK, Goto, Exit
  <2>1. ASSUME NEW r \in Runs, Step(r) \/ Fail(r) PROVE FALSE
    <3>1. exit' = exit \/ \E how \in RunExits : exit' = [exit EXCEPT ![r] = how]
      BY <2>1 DEF Step, Start, RejectValues, OpenOutput, WriteKey, BuildCsr,
         RejectSubject, WritePem, WriteDer, Fail, RunExits
    <3>2. c # r
      OBVIOUS
    <3>3. QED
      BY <3>1, <3>2
  <2>2. ASSUME NEW d \in Checks, LoadKey(d) PROVE Verdict(c)
    BY <2>2 DEF LoadKey, Paired, Verdict
  <2>3. ASSUME NEW d \in Checks, CheckCsr(d) PROVE Verdict(c)
    <3>1. d = c /\ pc[c] = "csr"
      BY <2>3 DEF CheckCsr
    <3>2. exit'[c] = Compare(read[c], files["pem"])
      BY <2>3, <3>1 DEF CheckCsr
    <3>3. read[c] = files["key"] /\ files["key"] \in Runs
      BY <3>1 DEF CheckInv
    <3>4. QED
      BY <3>2, <3>3 DEF Compare, Paired, Verdict
  <2>4. CASE UNCHANGED vars
    BY <2>4 DEF vars
  <2>5. QED
    BY <2>1, <2>2, <2>3, <2>4 DEF Next
<1>2. IInv /\ [Next]_vars =>
        [\A c \in Checks : exit[c] # exit'[c] /\ ~overlapped[c] =>
           /\ exit'[c] = "match" <=> Paired
           /\ exit'[c] = "mismatch" <=>
                {files["key"], files["pem"]} \subseteq Runs /\ ~Paired]_vars
  BY <1>1 DEF Verdict
<1>3. QED
  BY <1>2, Invariance, PTL DEF Spec, VerdictIsTrue
=============================================================================
