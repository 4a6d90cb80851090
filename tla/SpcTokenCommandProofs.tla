------------------------ MODULE SpcTokenCommandProofs ------------------------
(* For any number of runs, settings and artifacts: no run leaves what it was *)
(* not asked for, one that had the directory to itself leaves all it was     *)
(* asked for, and the token vouches for the files written before it.         *)
EXTENDS SpcTokenCommand, TLAPS

\* r came to the directory last, and has had it to itself.
Sole(r) == last = r /\ ~overlapped[r]

\* All artifacts of r have been written.
Done(r) == pc[r] = "print" \/ exit[r] = "ok"

\* A run comes to the directory if it has one, and leaves no file before that.
ArrivedInv ==
  \A r \in Runs :
    /\ pc[r] \notin {"write", "print", "ended"} =>
         next[r] = Summary /\ \A f \in Files : files[f] # r
    /\ pc[r] \in {"mkdir", "write"} => Directory(setting[r]) # None
    /\ Writing(r) \/ (Done(r) /\ Directory(setting[r]) # None) => last # None
    /\ last = r => pc[r] \in {"write", "print", "ended"}
    /\ \A f \in Files : files[f] = r =>
         Directory(setting[r]) # None /\ (full[r] \/ f = Summary)

\* What a run that came last and alone has written.
SoleInv ==
  \A r \in Runs : Sole(r) =>
    /\ \A q \in Runs \ {r} : ~Writing(q)
    /\ Writing(r) => \A f \in Files : f < next[r] => files[f] = r
    /\ open[r] => files[next[r]] = Nothing
    /\ Done(r) /\ Directory(setting[r]) # None =>
         /\ files[Summary] = r
         /\ full[r] => \A f \in Files : files[f] = r

\* A run that another follows without an overlap is not writing any more, and
\* the first thing the other does is to take its summary away.
VouchInv ==
  \A r \in Runs :
    /\ Writing(r) => \A f \in Files : f >= next[r] => files[f] # r
    /\ ~overlapped[r] =>
         /\ Writing(r) => last = r
         /\ \A q \in Runs \ {r} :
              Writing(q) /\ (open[q] \/ next[q] > Summary) => files[Summary] # r
         /\ files[Summary] = r /\ files[Token] = r => \A f \in Files : files[f] = r

IInv == TypeOK /\ ArrivedInv /\ SoleInv /\ VouchInv

-----------------------------------------------------------------------------
\* Summary and token are the first and the last of at least two artifacts.
LEMMA FileFacts ==
  /\ Summary \in Files /\ Token \in Files /\ Summary # Token
  /\ \A f \in Files : f \in Nat
  /\ \A f \in Files : Summary <= f /\ f <= Token
  /\ \A f \in Files : f # Token => f + 1 \in Files
BY DiagnosticsAssumption DEF Files, Summary, Token

\* The code's precedence is the documented one.
LEMMA DirectoryIsConfigured ==
  ASSUME NEW s \in Settings PROVE Directory(s) # None <=> Configured(s)
<1>1. None # "out" /\ \A source \in Sources : s[source] \in {None, "empty", "blanks", "out"}
  BY SettingsAssumption, NoneAssumption DEF Sources
<1>2. QED
  BY <1>1 DEF Directory, Value, Unset, Configured, Sources

\* The invariant holds at the start.
LEMMA InitIInv == Init => IInv
<1> SUFFICES ASSUME Init PROVE IInv
  OBVIOUS
<1> USE NoneAssumption, ContentsAssumption DEF Init
<1>1. TypeOK
  <2>1. Summary \in Files
    BY FileFacts
  <2>2. ~(Summary > Summary)
    BY DEF Summary
  <2>3. QED
    BY <2>1, <2>2 DEF TypeOK, Points, Exits, Contents
<1>2. ArrivedInv
  BY DEF ArrivedInv, Done, Writing
<1>3. SoleInv
  BY DEF SoleInv, Sole
<1>4. VouchInv
  BY FileFacts DEF VouchInv, Writing
<1>5. QED
  BY <1>1, <1>2, <1>3, <1>4 DEF IInv

\* A step that leaves the files alone, and after which no run is writing, has a
\* file open or has written all that was not or had not before, disturbs nothing.
LEMMA QuietStep ==
  ASSUME IInv, UNCHANGED <<given, next, files, history>>,
         \A q \in Runs : Writing(q)' => Writing(q),
         \A q \in Runs : open'[q] => open[q],
         \A q \in Runs : Done(q)' => Done(q) \/ Directory(setting[q]) = None
  PROVE  SoleInv' /\ VouchInv'
<1> USE DEF IInv, given, history
<1>1. SoleInv'
  <2> SUFFICES ASSUME NEW r \in Runs, Sole(r)'
               PROVE  /\ \A q \in Runs \ {r} : ~Writing(q)'
                      /\ Writing(r)' => \A f \in Files : f < next[r] => files[f] = r
                      /\ open'[r] => files[next[r]] = Nothing
                      /\ Done(r)' /\ Directory(setting[r]) # None =>
                           /\ files[Summary] = r
                           /\ full[r] => \A f \in Files : files[f] = r
    BY DEF SoleInv
  <2>1. Sole(r)
    BY DEF Sole
  <2>2. QED
    BY <2>1 DEF SoleInv
<1>2. VouchInv'
  <2> SUFFICES ASSUME NEW r \in Runs
               PROVE  /\ Writing(r)' => \A f \in Files : f >= next[r] => files[f] # r
                      /\ ~overlapped[r] =>
                           /\ Writing(r)' => last = r
                           /\ \A q \in Runs \ {r} :
                                Writing(q)' /\ (open'[q] \/ next[q] > Summary) =>
                                  files[Summary] # r
                           /\ files[Summary] = r /\ files[Token] = r =>
                                \A f \in Files : files[f] = r
    BY DEF VouchInv
  <2>1. QED
    BY DEF VouchInv
<1>3. QED
  BY <1>1, <1>2

\* A run that ends without success need not have written anything.
LEMMA EndedBadly ==
  ASSUME ArrivedInv, NEW r \in Runs, pc'[r] = "ended", exit'[r] # "ok",
         \A q \in Runs \ {r} : pc'[q] = pc[q] /\ exit'[q] = exit[q],
         UNCHANGED <<setting, full, next, files, last>>
  PROVE  ArrivedInv'
BY DEF ArrivedInv, Done, Writing

\* A run that comes to the directory has written nothing yet. Those that are
\* writing are overlapped from now on.
LEMMA MakeDirStep ==
  ASSUME IInv, NEW r \in Runs, MakeDir(r)
  PROVE  SoleInv' /\ VouchInv'
<1> USE DEF IInv, MakeDir, Goto, given, disk
<1>1. /\ next[r] = Summary /\ ~open[r]
      /\ \A f \in Files : files[f] # r
      /\ pc[r] = "mkdir" /\ ~Done(r)'
      /\ \A q \in Runs \ {r} : pc'[q] = pc[q]
      /\ pc'[r] = "write"
  BY DEF TypeOK, ArrivedInv, Done
<1>2. \A q \in Runs : ~overlapped'[q] =>
        /\ ~overlapped[q] /\ ~Writing(q)
        /\ q = r => \A w \in Runs : ~Writing(w)
  BY DEF TypeOK
<1>3. SoleInv'
  <2> SUFFICES ASSUME NEW q \in Runs, Sole(q)'
               PROVE  /\ \A w \in Runs \ {q} : ~Writing(w)'
                      /\ Writing(q)' => \A f \in Files : f < next[q] => files[f] = q
                      /\ open[q] => files[next[q]] = Nothing
                      /\ ~Done(q)'
    BY DEF SoleInv
  <2>1. q = r /\ \A w \in Runs : ~Writing(w)
    BY <1>2 DEF Sole
  <2>2. \A f \in Files : ~(f < Summary)
    BY FileFacts DEF Summary
  <2>3. QED
    BY <1>1, <2>1, <2>2 DEF Writing
<1>4. VouchInv'
  <2> SUFFICES ASSUME NEW q \in Runs
               PROVE  /\ Writing(q)' => \A f \in Files : f >= next[q] => files[f] # q
                      /\ ~overlapped'[q] =>
                           /\ Writing(q)' => r = q
                           /\ \A w \in Runs \ {q} :
                                Writing(w)' /\ (open[w] \/ next[w] > Summary) =>
                                  files[Summary] # q
                           /\ files[Summary] = q /\ files[Token] = q =>
                                \A f \in Files : files[f] = q
    BY DEF VouchInv
  <2>1. \A w \in Runs \ {r} : Writing(w)' <=> Writing(w)
    BY <1>1 DEF Writing
  <2>2. ~(next[r] > Summary)
    BY <1>1 DEF Summary
  <2>3. QED
    BY <1>1, <1>2, <2>1, <2>2 DEF VouchInv
<1>5. QED
  BY <1>3, <1>4

\* A run that opens its next artifact takes nothing of its own away, and the
\* summary of another one before anything else.
LEMMA OpenFileStep ==
  ASSUME IInv, NEW r \in Runs, OpenFile(r)
  PROVE  SoleInv' /\ VouchInv'
<1> USE ContentsAssumption DEF IInv, OpenFile, given, history
<1>1. /\ Writing(r) /\ next[r] \in Files
      /\ \A f \in Files : files'[f] = IF f = next[r] THEN Nothing ELSE files[f]
      /\ \A q \in Runs : open'[q] <=> q = r \/ open[q]
      /\ \A q \in Runs : (Writing(q)' <=> Writing(q)) /\ (Done(q)' <=> Done(q))
      /\ ~Done(r)
  BY DEF TypeOK, Writing, Done
<1>2. \A q \in Runs : q # Nothing
  OBVIOUS
<1>3. SoleInv'
  <2> SUFFICES ASSUME NEW q \in Runs, Sole(q)
               PROVE  /\ \A w \in Runs \ {q} : ~Writing(w)
                      /\ Writing(q) => \A f \in Files : f < next[q] => files'[f] = q
                      /\ open'[q] => files'[next[q]] = Nothing
                      /\ Done(q) /\ Directory(setting[q]) # None =>
                           /\ files'[Summary] = q
                           /\ full[q] => \A f \in Files : files'[f] = q
    BY <1>1 DEF SoleInv, Sole
  <2>1. q = r
    BY <1>1 DEF SoleInv
  <2>2. \A f \in Files : f < next[r] => f # next[r]
    BY <1>1, FileFacts
  <2>3. QED
    BY <1>1, <2>1, <2>2 DEF SoleInv
<1>4. VouchInv'
  <2> SUFFICES ASSUME NEW q \in Runs
               PROVE  /\ Writing(q) => \A f \in Files : f >= next[q] => files'[f] # q
                      /\ ~overlapped[q] =>
                           /\ Writing(q) => last = q
                           /\ \A w \in Runs \ {q} :
                                Writing(w) /\ (open'[w] \/ next[w] > Summary) =>
                                  files'[Summary] # q
                           /\ files'[Summary] = q /\ files'[Token] = q =>
                                \A f \in Files : files'[f] = q
    BY <1>1 DEF VouchInv
  <2>1. Writing(q) => \A f \in Files : f >= next[q] => files'[f] # q
    BY <1>1, <1>2 DEF VouchInv
  <2>2. ASSUME ~overlapped[q], q # r
        PROVE  files'[Summary] # q
    BY <1>1, <1>2, <2>2, FileFacts DEF VouchInv
  <2>3. ASSUME ~overlapped[q], q = r
        PROVE  /\ \A w \in Runs \ {q} : ~Writing(w)
               /\ files'[Token] # q
    <3>1. Sole(q)
      BY <1>1, <2>3 DEF VouchInv, Sole
    <3>2. QED
      BY <1>1, <2>1, <2>3, <3>1, FileFacts DEF SoleInv
  <2>4. QED
    BY <2>1, <2>2, <2>3 DEF VouchInv
<1>5. QED
  BY <1>3, <1>4

\* A run that had the directory to itself finds what it has truncated empty, so
\* it writes its own; any other leaves nothing of a run that was not overlapped.
LEMMA WriteFileStep ==
  ASSUME IInv, NEW r \in Runs, WriteFile(r)
  PROVE  SoleInv' /\ VouchInv'
<1> USE ContentsAssumption DEF IInv, given, history
<1>1. PICK content \in {r, Mixed} :
        /\ files' = [files EXCEPT ![next[r]] = content]
        /\ files[next[r]] = Nothing => content = r
  BY DEF WriteFile, Put
<1>2. /\ Writing(r) /\ open[r] /\ next[r] \in Files
      /\ \A f \in Files : files'[f] = IF f = next[r] THEN content ELSE files[f]
      /\ \A q \in Runs : open'[q] <=> q # r /\ open[q]
      /\ UNCHANGED <<setting, full, last, overlapped>>
  BY <1>1 DEF WriteFile, Put, TypeOK
<1>3. \A q \in Runs \ {r} :
        (Writing(q)' <=> Writing(q)) /\ (Done(q)' <=> Done(q)) /\ next'[q] = next[q]
  BY DEF WriteFile, Goto, Writing, Done, TypeOK
<1>4. \/ Final(r) /\ ~Writing(r)' /\ Done(r)' /\ next' = next
      \/ ~Final(r) /\ Writing(r)' /\ ~Done(r)' /\ next'[r] = next[r] + 1
  BY <1>2 DEF WriteFile, Goto, Writing, Done, TypeOK
<1>5. \A q \in Runs : q # Mixed /\ q # Nothing
  OBVIOUS
<1>6. Sole(r) => content = r /\ \A f \in Files : f <= next[r] => files'[f] = r
  <2> SUFFICES ASSUME Sole(r) PROVE content = r /\ \A f \in Files : f <= next[r] => files'[f] = r
    OBVIOUS
  <2>1. content = r
    BY <1>1, <1>2 DEF SoleInv
  <2>2. \A f \in Files : f < next[r] => files[f] = r
    BY <1>2 DEF SoleInv
  <2>3. \A f \in Files : f <= next[r] => f < next[r] \/ f = next[r]
    BY <1>2, FileFacts
  <2>4. QED
    BY <1>2, <2>1, <2>2, <2>3
<1>7. SoleInv'
  <2> SUFFICES ASSUME NEW q \in Runs, Sole(q)
               PROVE  /\ \A w \in Runs \ {q} : ~Writing(w)'
                      /\ Writing(q)' => \A f \in Files : f < next'[q] => files'[f] = q
                      /\ open'[q] => files'[next'[q]] = Nothing
                      /\ Done(q)' /\ Directory(setting[q]) # None =>
                           /\ files'[Summary] = q
                           /\ full[q] => \A f \in Files : files'[f] = q
    BY <1>2 DEF SoleInv, Sole
  <2>1. q = r /\ \A w \in Runs \ {q} : ~Writing(w)'
    BY <1>2, <1>3 DEF SoleInv
  <2>2. Writing(r)' => \A f \in Files : f < next'[r] => f <= next[r]
    BY <1>2, <1>4, FileFacts
  <2>3. Done(r)' => Summary <= next[r] /\ (full[r] => \A f \in Files : f <= next[r])
    BY <1>2, <1>4, FileFacts DEF Final, Summary
  <2>4. QED
    BY <1>2, <1>6, <2>1, <2>2, <2>3, FileFacts
<1>8. VouchInv'
  <2> SUFFICES ASSUME NEW q \in Runs
               PROVE  /\ Writing(q)' => \A f \in Files : f >= next'[q] => files'[f] # q
                      /\ ~overlapped[q] =>
                           /\ Writing(q)' => last = q
                           /\ \A w \in Runs \ {q} :
                                Writing(w)' /\ (open'[w] \/ next'[w] > Summary) =>
                                  files'[Summary] # q
                           /\ files'[Summary] = q /\ files'[Token] = q =>
                                \A f \in Files : files'[f] = q
    BY <1>2 DEF VouchInv
  <2>1. Writing(q)' => \A f \in Files : f >= next'[q] => files'[f] # q
    <3>1. CASE q = r
      <4>1. \A f \in Files : f >= next[r] + 1 => f >= next[r] /\ f # next[r]
        BY <1>2, FileFacts
      <4>2. QED
        BY <1>2, <1>4, <3>1, <4>1 DEF VouchInv
    <3>2. CASE q # r
      BY <1>2, <1>3, <1>5, <3>2 DEF VouchInv
    <3>3. QED
      BY <3>1, <3>2
  <2>2. ASSUME ~overlapped[q], q # r
        PROVE  files'[Summary] # q /\ (Writing(q)' => last = q)
    BY <1>2, <1>3, <1>5, <2>2, FileFacts DEF VouchInv
  <2>3. ASSUME ~overlapped[q], q = r
        PROVE  /\ last = q
               /\ \A w \in Runs \ {q} : ~Writing(w)'
               /\ files'[Token] = q => \A f \in Files : files'[f] = q
    <3>1. last = r /\ Sole(r)
      BY <1>2, <2>3 DEF VouchInv, Sole
    <3>2. \A w \in Runs \ {r} : ~Writing(w)'
      BY <1>3, <3>1 DEF SoleInv
    <3>3. CASE next[r] = Token
      BY <1>6, <2>3, <3>1, <3>2, <3>3, FileFacts
    <3>4. CASE next[r] # Token
      <4>1. Token >= next[r]
        BY <1>2, FileFacts
      <4>2. files'[Token] # r
        BY <1>2, <3>4, <4>1, FileFacts DEF VouchInv
      <4>3. QED
        BY <2>3, <3>1, <3>2, <4>2
    <3>5. QED
      BY <3>3, <3>4
  <2>4. QED
    BY <2>1, <2>2, <2>3
<1>9. QED
  BY <1>7, <1>8

\* Every step of a run preserves the invariant.
LEMMA StepIInv == IInv /\ [Next]_vars => IInv'
<1> SUFFICES ASSUME IInv, [Next]_vars PROVE IInv'
  OBVIOUS
<1> USE NoneAssumption, ContentsAssumption
    DEF IInv, TypeOK, Points, Exits, Contents, Goto, Exit, given, disk, history
<1>1. ASSUME NEW r \in Runs, ResolveValues(r) PROVE IInv'
  <2> USE <1>1 DEF ResolveValues
  <2>1. TypeOK'
    BY FileFacts DEF Writing
  <2>2. ArrivedInv'
    BY FileFacts DEF ArrivedInv, Done, Writing
  <2>3. SoleInv' /\ VouchInv'
    BY QuietStep DEF Writing, Done
  <2>4. QED
    BY <2>1, <2>2, <2>3
<1>2. ASSUME NEW r \in Runs, RejectValues(r) PROVE IInv'
  <2> USE <1>2 DEF RejectValues
  <2>1. TypeOK'
    BY FileFacts DEF Writing
  <2>2. ArrivedInv'
    BY FileFacts DEF ArrivedInv, Done, Writing
  <2>3. SoleInv' /\ VouchInv'
    BY QuietStep DEF Writing, Done
  <2>4. QED
    BY <2>1, <2>2, <2>3
<1>3. ASSUME NEW r \in Runs, LogIn(r) PROVE IInv'
  <2> USE <1>3 DEF LogIn
  <2>1. TypeOK'
    BY FileFacts DEF Writing
  <2>2. ArrivedInv'
    BY FileFacts DEF ArrivedInv, Done, Writing
  <2>3. SoleInv' /\ VouchInv'
    BY QuietStep DEF Writing, Done
  <2>4. QED
    BY <2>1, <2>2, <2>3
<1>4. ASSUME NEW r \in Runs, RequestToken(r) PROVE IInv'
  <2> USE <1>4 DEF RequestToken
  <2>1. TypeOK'
    BY FileFacts DEF Writing
  <2>2. ArrivedInv'
    BY FileFacts DEF ArrivedInv, Done, Writing
  <2>3. SoleInv' /\ VouchInv'
    BY QuietStep DEF Writing, Done
  <2>4. QED
    BY <2>1, <2>2, <2>3
<1>5. ASSUME NEW r \in Runs, CheckToken(r) PROVE IInv'
  <2> USE <1>5 DEF CheckToken
  <2>1. TypeOK'
    BY FileFacts DEF Writing
  <2>2. ArrivedInv'
    BY FileFacts DEF ArrivedInv, Done, Writing
  <2>3. SoleInv' /\ VouchInv'
    BY QuietStep DEF Writing, Done
  <2>4. QED
    BY <2>1, <2>2, <2>3
<1>6. ASSUME NEW r \in Runs, RejectToken(r) PROVE IInv'
  <2> USE <1>6 DEF RejectToken
  <2>1. TypeOK'
    BY FileFacts DEF Writing
  <2>2. ArrivedInv'
    <3>1. /\ pc'[r] = "ended" /\ exit'[r] # "ok" /\ pc[r] # "ended"
          /\ \A q \in Runs \ {r} : pc'[q] = pc[q] /\ exit'[q] = exit[q]
          /\ UNCHANGED <<setting, full, next, files, last>>
      OBVIOUS
    <3>2. QED
      BY <3>1, EndedBadly
  <2>3. SoleInv' /\ VouchInv'
    BY QuietStep DEF Writing, Done
  <2>4. QED
    BY <2>1, <2>2, <2>3
<1>7. ASSUME NEW r \in Runs, DownloadCrl(r) PROVE IInv'
  <2> USE <1>7 DEF DownloadCrl
  <2>1. TypeOK'
    BY FileFacts DEF Writing
  <2>2. ArrivedInv'
    BY FileFacts DEF ArrivedInv, Done, Writing
  <2>3. SoleInv' /\ VouchInv'
    BY QuietStep DEF Writing, Done
  <2>4. QED
    BY <2>1, <2>2, <2>3
<1>8. ASSUME NEW r \in Runs, ExchangeFails(r) PROVE IInv'
  <2> USE <1>8 DEF ExchangeFails
  <2>1. TypeOK'
    BY FileFacts DEF Writing
  <2>2. ArrivedInv'
    BY FileFacts DEF ArrivedInv, Done, Writing
  <2>3. SoleInv' /\ VouchInv'
    BY QuietStep DEF Writing, Done
  <2>4. QED
    BY <2>1, <2>2, <2>3
<1>9. ASSUME NEW r \in Runs, MakeDir(r) PROVE IInv'
  <2> USE <1>9 DEF MakeDir
  <2>1. TypeOK'
    BY FileFacts DEF Writing
  <2>2. ArrivedInv'
    BY FileFacts DEF ArrivedInv, Done, Writing
  <2>3. SoleInv' /\ VouchInv'
    BY MakeDirStep
  <2>4. QED
    BY <2>1, <2>2, <2>3
<1>10. ASSUME NEW r \in Runs, OpenFile(r) PROVE IInv'
  <2> USE <1>10 DEF OpenFile
  <2>1. TypeOK'
    BY FileFacts DEF Writing
  <2>2. ArrivedInv'
    BY FileFacts DEF ArrivedInv, Done, Writing
  <2>3. SoleInv' /\ VouchInv'
    BY OpenFileStep
  <2>4. QED
    BY <2>1, <2>2, <2>3
<1>11. ASSUME NEW r \in Runs, WriteFile(r) PROVE IInv'
  <2> USE <1>11
  <2>1. /\ Writing(r) /\ next[r] \in Files
        /\ \E content \in {r, Mixed} : files' = [files EXCEPT ![next[r]] = content]
        /\ open' = [open EXCEPT ![r] = FALSE]
        /\ UNCHANGED <<setting, full, last, overlapped>>
    BY DEF WriteFile, Put
  <2>2. \/ /\ pc' = [pc EXCEPT ![r] = "print"]
           /\ UNCHANGED <<next, exit>>
        \/ /\ next' = [next EXCEPT ![r] = next[r] + 1]
           /\ full[r] /\ next[r] # Token
           /\ UNCHANGED <<pc, exit>>
    <3>1. CASE Final(r)
      BY <3>1 DEF WriteFile
    <3>2. CASE ~Final(r)
      <4>1. next[r] >= Summary /\ (next[r] > Summary => full[r])
        BY <2>1, FileFacts
      <4>2. full[r] /\ next[r] # Token
        BY <2>1, <3>2, <4>1, FileFacts DEF Final
      <4>3. QED
        BY <3>2, <4>2 DEF WriteFile
    <3>3. QED
      BY <3>1, <3>2
  <2>3. TypeOK'
    BY <2>1, <2>2, FileFacts DEF Writing
  <2>4. ArrivedInv'
    <3>1. \A q \in Runs, f \in Files :
            files'[f] = q => files[f] = q \/ (q = r /\ f = next[r])
      <4> SUFFICES ASSUME NEW q \in Runs, NEW f \in Files, files'[f] = q, f = next[r]
                   PROVE  files[f] = q \/ q = r
        BY <2>1
      <4>1. q # Mixed
        OBVIOUS
      <4>2. PICK content \in {r, Mixed} : files' = [files EXCEPT ![next[r]] = content]
        BY <2>1
      <4>3. files'[f] = content
        BY <4>2
      <4>4. QED
        BY <4>1, <4>3
    <3>2. /\ last # None /\ Directory(setting[r]) # None
          /\ next[r] # Summary => full[r]
      <4>1. next[r] # Summary => next[r] > Summary
        BY <2>1, FileFacts
      <4>2. Directory(setting[r]) # None
        BY <2>1 DEF ArrivedInv, Writing
      <4>3. last # None
        BY <2>1 DEF ArrivedInv, Writing
      <4>4. QED
        BY <2>1, <4>1, <4>2, <4>3
    <3>3. QED
      BY <2>1, <2>2, <3>1, <3>2 DEF ArrivedInv, Done, Writing
  <2>5. SoleInv' /\ VouchInv'
    BY WriteFileStep
  <2>6. QED
    BY <2>3, <2>4, <2>5
<1>12. ASSUME NEW r \in Runs, PrintToken(r) PROVE IInv'
  <2> USE <1>12 DEF PrintToken
  <2>1. TypeOK'
    BY FileFacts DEF Writing
  <2>2. ArrivedInv'
    BY FileFacts DEF ArrivedInv, Done, Writing
  <2>3. SoleInv' /\ VouchInv'
    BY QuietStep DEF Writing, Done
  <2>4. QED
    BY <2>1, <2>2, <2>3
<1>13. ASSUME NEW r \in Runs, Fail(r) PROVE IInv'
  <2> USE <1>13 DEF Fail
  <2>1. TypeOK'
    BY FileFacts DEF Writing
  <2>2. ArrivedInv'
    <3>1. /\ pc'[r] = "ended" /\ exit'[r] # "ok" /\ pc[r] # "ended"
          /\ \A q \in Runs \ {r} : pc'[q] = pc[q] /\ exit'[q] = exit[q]
          /\ UNCHANGED <<setting, full, next, files, last>>
      OBVIOUS
    <3>2. QED
      BY <3>1, EndedBadly
  <2>3. SoleInv' /\ VouchInv'
    BY QuietStep DEF Writing, Done
  <2>4. QED
    BY <2>1, <2>2, <2>3
<1>14. CASE UNCHANGED vars
  <2> USE <1>14 DEF vars
  <2>1. TypeOK' /\ ArrivedInv'
    BY DEF ArrivedInv, Done, Writing
  <2>2. SoleInv' /\ VouchInv'
    BY QuietStep DEF Writing, Done
  <2>3. QED
    BY <2>1, <2>2
<1>15. QED
  BY <1>1, <1>2, <1>3, <1>4, <1>5, <1>6, <1>7, <1>8, <1>9, <1>10, <1>11, <1>12, <1>13, <1>14 DEF Next, Step

\* The invariant holds throughout.
LEMMA Invariance == Spec => []IInv
BY InitIInv, StepIInv, PTL DEF Spec

\* Type correctness; no file stays open after its run, and only runs with the
\* flag get beyond the summary.
THEOREM TypeCorrect == Spec => []TypeOK
BY Invariance, PTL DEF IInv

\* However many runs and artifacts there are, no run leaves what it was not asked
\* for, and a run that succeeded with the directory to itself leaves the rest.
THEOREM FilesAsAsked == Spec => []FilesAreAsAsked
<1>1. IInv => FilesAreAsAsked
  <2> SUFFICES ASSUME IInv, NEW r \in Runs
               PROVE  /\ \A f \in Files : files[f] = r =>
                           Configured(setting[r]) /\ (full[r] \/ f = Summary)
                      /\ exit[r] = "ok" /\ Configured(setting[r])
                         /\ last \in {None, r} /\ ~overlapped[r] =>
                           /\ files[Summary] = r
                           /\ full[r] => \A f \in Files : files[f] = r
    BY DEF FilesAreAsAsked
  <2>1. Directory(setting[r]) # None <=> Configured(setting[r])
    BY DirectoryIsConfigured DEF IInv, TypeOK
  <2>2. QED
    BY <2>1 DEF IInv, ArrivedInv, SoleInv, Sole, Done
<1>2. QED
  BY <1>1, Invariance, PTL

\* Summary and token of one run that none overlapped vouch for the rest.
THEOREM TokenVouchesForFiles == Spec => []TokenVouches
<1>1. IInv => TokenVouches
  BY DEF IInv, VouchInv, TokenVouches
<1>2. QED
  BY <1>1, Invariance, PTL
=============================================================================
