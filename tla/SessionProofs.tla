---------------------------- MODULE SessionProofs ----------------------------
(***************************************************************************)
(* Proofs about Session, for any number of workers, requests, descriptors  *)
(* and seconds.                                                            *)
(*                                                                         *)
(* The argument: two requests served at the same time know each other      *)
(* through overlap (Known); whoever writes to a scratch, media or result   *)
(* file is being served, so all writers since a request truncated the file *)
(* are in that request's overlap (Fresh); and the places where handles are *)
(* held are tied to the control state (Handles), which gives the count of  *)
(* lost ones.                                                              *)
(***************************************************************************)
EXTENDS Session, TLAPS

USE DEF Emptied, ClearTags, CloseMedia, SlicesFromStart, NextSuffix, replyVars

\* Control states between the opening of the media file and the cleanup.
WithMedia == {"download", "parse", "slice", "report", "text", "readback"}

\* Every request being served has a number of its own, and any two of them
\* are in each other's overlap.
Known == \A w \in Active :
    /\ req[w] < nextReq
    /\ req[w] \in overlap[w]
    /\ \A v \in Active \ {w} : req[v] # req[w] /\ req[v] \in overlap[w]

\* Which handles, names and locals are there in which control state.
Handles == \A w \in Workers :
    /\ pc[w] \in Prepared => h264[w] # None
    /\ pc[w] \in {"open264", "exit"} => h264[w] = None
    /\ pc[w] \in Prepared \ {"name"} => stamp[w] # None
    /\ pc[w] \in WithMedia => media[w] # None
    /\ pc[w] = "exit" => media[w] = None
    /\ pc[w] \in {"idle", "exit"} => nalu[w] = {} /\ text[w] = {}
    /\ pc[w] = "cleanup" /\ ask[w][1] = "download" => media[w] # None
    /\ pc[w] = "openExisting" => ask[w][1] = "existing"
    /\ pc[w] \in {"openMedia", "download"} => ask[w][1] = "download"

\* The open scratch file and the open result file hold data of overlapping
\* requests only.
ScratchFresh == \A w \in Workers :
    pc[w] \in Prepared => inode[h264[w]] \subseteq overlap[w]

ResultFresh == \A w \in Workers :
    pc[w] \in {"text", "readback"} => result[stamp[w]] \subseteq overlap[w]

\* Slices that were written are still there if nobody overlaps.
Kept == \A w \in Workers :
    /\ wrote[w] => pc[w] \in {"slice", "report", "text", "readback", "cleanup"}
    /\ pc[w] = "slice" /\ wrote[w] /\ overlap[w] = {req[w]} =>
            req[w] \in inode[h264[w]]

\* A reply given up has closed stdout, and so does the text report that
\* opens it again.
StdoutFreed == \A w \in Workers :
    stdout[w] => lost[w] = 0 \/ pc[w] = "text"

IInv ==
    /\ TypeOK
    /\ Known
    /\ Handles
    /\ FreshTags
    /\ ScratchFresh /\ FreshSlices
    /\ FreshMedia
    /\ ResultFresh /\ FreshText
    /\ Kept /\ NothingLost
    /\ LeakAccounting
    /\ ScratchClosed
    /\ StdoutFreed

-----------------------------------------------------------------------------
\* The values of a request being served.
LEMMA ServedReq ==
    ASSUME TypeOK, Known, NEW w \in Active
    PROVE  req[w] \in Reqs
  BY DEF TypeOK, Known, Active

\* The next suffix is a name like the one before.
LEMMA RetryStamp ==
    ASSUME TypeOK, Handles, NEW w \in Workers, OpenMediaRetry(w)
    PROVE  /\ stamp' \in [Workers -> Stamps \cup {None}]
           /\ stamp'[w] \in Stamps
           /\ \A v \in Workers \ {w} : stamp'[v] = stamp[v]
<1> USE SessionAssumption
<1>1. stamp[w] \in Stamps
  BY DEF OpenMediaRetry, Handles, Prepared, Labels, TypeOK
<1>2. PICK s \in Seconds, n \in 0..MaxRetry : stamp[w] = <<s, n>>
  BY <1>1 DEF Stamps
<1>3. [stamp[w] EXCEPT ![2] = IF @ < MaxRetry THEN @ + 1 ELSE @]
        = <<s, IF n < MaxRetry THEN n + 1 ELSE n>>
  BY <1>2
<1>4. (IF n < MaxRetry THEN n + 1 ELSE n) \in 0..MaxRetry
  OBVIOUS
<1>. QED
  <2>1. stamp'[w] = <<s, IF n < MaxRetry THEN n + 1 ELSE n>>
    BY <1>3 DEF OpenMediaRetry, TypeOK
  <2>2. stamp'[w] \in Stamps
    BY <1>4, <2>1 DEF Stamps
  <2>3. /\ stamp' = [stamp EXCEPT ![w] = stamp'[w]]
        /\ \A v \in Workers \ {w} : stamp'[v] = stamp[v]
    BY <2>1 DEF OpenMediaRetry, TypeOK
  <2>. QED
    BY <2>2, <2>3 DEF TypeOK

LEMMA TypeStep ==
    ASSUME TypeOK, Known, Handles, NEW w \in Workers,
           Accept(w) \/ Exit(w) \/ Restart(w) \/ Serve(w)
    PROVE  TypeOK'
<1> USE SessionAssumption
<1>1. CASE Accept(w)
  <2>1. nextReq \in Reqs
    BY <1>1 DEF Accept, TypeOK, Reqs
  <2>2. \A u \in Active : req[u] \in Reqs
    BY ServedReq
  <2>3. overlap' \in [Workers -> SUBSET Reqs]
    BY <1>1, <2>1, <2>2 DEF Accept, TypeOK
  <2>. QED
    BY <1>1, <2>1, <2>3 DEF Accept, TypeOK, Goto, Reqs, Labels, Modes, Forms,
       scratchVars, mediaVars
<1>2. CASE Exit(w)
  BY <1>2 DEF Exit, Leave, Goto, TypeOK, Labels, Modes, Forms
<1>3. CASE Restart(w)
  BY <1>3 DEF Restart, Goto, TypeOK, Labels, localVars, scratchVars, mediaVars
<1>4. CASE InitialiseReuse(w)
  BY <1>4 DEF InitialiseReuse, CloseTemp, Goto, TypeOK, Labels, localVars, mediaVars
<1>5. CASE InitialiseFails(w)
  BY <1>5 DEF InitialiseFails, CloseTemp, Leave, Goto, TypeOK, Labels, Modes,
     Forms, mediaVars
<1>6. CASE InitialiseFresh(w)
  BY <1>6 DEF InitialiseFresh, Goto, TypeOK, Labels, localVars, scratchVars, mediaVars
<1>7. CASE OpenTemp(w)
  BY <1>7 DEF OpenTemp, LinkTemp, Goto, TypeOK, Labels, localVars, mediaVars
<1>8. CASE OpenTempFails(w)
  BY <1>8 DEF OpenTempFails, Leave, Goto, TypeOK, Labels, Modes, Forms, scratchVars, mediaVars
<1>9. CASE NameFiles(w)
  BY <1>9 DEF NameFiles, Goto, TypeOK, Labels, Stamps, scratchVars, mediaVars
<1>10. CASE OpenMedia(w)
  <2>1. stamp[w] \in Stamps
    BY <1>10 DEF OpenMedia, Handles, Prepared, Labels, TypeOK
  <2>2. leaked' \in [Workers -> Nat]
    BY <1>10 DEF OpenMedia, DropMedia, Held, TypeOK
  <2>. QED
    BY <1>10, <2>1, <2>2 DEF OpenMedia, Goto, TypeOK, Labels, localVars,
       scratchVars
<1>11. CASE OpenMediaRetry(w)
  <2>1. stamp' \in [Workers -> Stamps \cup {None}]
    BY <1>11, RetryStamp
  <2>2. leaked' \in [Workers -> Nat]
    BY <1>11 DEF OpenMediaRetry, DropMedia, Held, TypeOK
  <2>. QED
    BY <1>11, <2>1, <2>2 DEF OpenMediaRetry, TypeOK, scratchVars
<1>12. CASE OpenExisting(w)
  BY <1>12 DEF OpenExisting, DropMedia, Held, Goto, TypeOK, Labels, localVars, scratchVars
<1>13. CASE OpenExistingFails(w)
  BY <1>13 DEF OpenExistingFails, DropMedia, Held, Goto, TypeOK, Labels, localVars, scratchVars
<1>14. CASE Download(w)
  <2>1. req[w] \in Reqs
    BY <1>14, ServedReq DEF Download, Active
  <2>2. disk' \in [Stamps -> SUBSET Reqs]
    BY <1>14, <2>1 DEF Download, TypeOK
  <2>. QED
    BY <1>14, <2>2 DEF Download, Goto, TypeOK, Labels, localVars, scratchVars
<1>15. CASE DownloadEnd(w)
  BY <1>15 DEF DownloadEnd, Goto, TypeOK, Labels, scratchVars, mediaVars
<1>16. CASE ParseMediaPackage(w)
  <2>1. req[w] \in Reqs
    BY <1>16, ServedReq DEF ParseMediaPackage, Active
  <2>2. /\ tags' \in [Workers -> SUBSET Reqs]
        /\ inode' \in [Inodes -> SUBSET Reqs]
        /\ wrote' \in [Workers -> BOOLEAN]
    <3>1. PICK T \in SUBSET {req[w]}, S \in SUBSET {req[w]} :
            /\ tags' = [tags EXCEPT ![w] = @ \cup T]
            /\ inode' = [inode EXCEPT ![h264[w]] = @ \cup S]
            /\ wrote' = [wrote EXCEPT ![w] = S # {}]
      BY <1>16 DEF ParseMediaPackage
    <3>2. T \subseteq Reqs /\ S \subseteq Reqs
      BY <2>1
    <3>3. tags' \in [Workers -> SUBSET Reqs]
      BY <3>1, <3>2 DEF TypeOK
    <3>4. inode' \in [Inodes -> SUBSET Reqs]
      BY <3>1, <3>2 DEF TypeOK
    <3>5. wrote' \in [Workers -> BOOLEAN]
      BY <3>1, Zenon DEF TypeOK
    <3>. QED
      BY <3>3, <3>4, <3>5
  <2>. QED
    BY <1>16, <2>2 DEF ParseMediaPackage, Goto, TypeOK, Labels, mediaVars
<1>17. CASE SkipParse(w)
  BY <1>17 DEF SkipParse, Goto, TypeOK, Labels, localVars, scratchVars, mediaVars
<1>18. CASE ParseMediaSlice(w)
  BY <1>18 DEF ParseMediaSlice, Goto, TypeOK, Labels, Handles, Prepared, scratchVars, mediaVars
<1>19. CASE ReportJson(w)
  BY <1>19 DEF ReportJson, Goto, TypeOK, Labels, localVars, scratchVars, mediaVars
<1>20. CASE OpenResult(w)
  BY <1>20 DEF OpenResult, Goto, TypeOK, Labels, localVars, scratchVars, mediaVars
<1>21. CASE OpenResultFails(w)
  BY <1>21 DEF OpenResultFails, Leave, Goto, TypeOK, Labels, Modes, Forms, scratchVars, mediaVars
<1>22. CASE Format2Text(w)
  <2>1. req[w] \in Reqs
    BY <1>22, ServedReq DEF Format2Text, Active
  <2>2. result' \in [Stamps -> SUBSET Reqs]
    BY <1>22, <2>1 DEF Format2Text, TypeOK
  <2>. QED
    BY <1>22, <2>2 DEF Format2Text, Goto, TypeOK, Labels, localVars, scratchVars, mediaVars
<1>23. CASE ReadBack(w)
  <2>1. stamp[w] \in Stamps
    BY <1>23 DEF ReadBack, Handles, Prepared, Labels, TypeOK
  <2>2. text' \in [Workers -> SUBSET Reqs]
    BY <1>23, <2>1 DEF ReadBack, TypeOK
  <2>. QED
    BY <1>23, <2>2 DEF ReadBack, Goto, TypeOK, Labels, scratchVars, mediaVars
<1>24. CASE Cleanup(w)
  BY <1>24 DEF Cleanup, CloseTemp, Leave, Goto, TypeOK, Labels, Modes, Forms
<1>. QED
  BY <1>1, <1>2, <1>3, <1>4, <1>5, <1>6, <1>7, <1>8, <1>9, <1>10, <1>11,
     <1>12, <1>13, <1>14, <1>15, <1>16, <1>17, <1>18, <1>19, <1>20, <1>21,
     <1>22, <1>23, <1>24 DEF Serve, OwnStep

-----------------------------------------------------------------------------
\* The steps that end a request, and those that neither begin nor end one.
Ends(w) ==
    /\ \E label \in {"idle", "exit"} : Leave(w, label)
    /\ nextReq' = nextReq

Goes(w) ==
    /\ Active' = Active
    /\ UNCHANGED <<nextReq, req, ask, overlap>>

LEMMA StepKinds ==
    ASSUME TypeOK, NEW w \in Workers, Exit(w) \/ Restart(w) \/ Serve(w)
    PROVE  Ends(w) \/ Goes(w)
<1>1. CASE Exit(w)
  BY <1>1 DEF Exit, Ends
<1>2. CASE InitialiseFails(w) \/ OpenTempFails(w) \/ OpenResultFails(w) \/ Cleanup(w)
  BY <1>2 DEF InitialiseFails, OpenTempFails, OpenResultFails, Cleanup, Ends
<1>3. CASE Restart(w)
  BY <1>3 DEF Restart, Goes, Goto, Active, TypeOK, localVars
<1>4. CASE InitialiseReuse(w) \/ InitialiseFresh(w) \/ OpenTemp(w)
           \/ OpenMedia(w) \/ OpenExisting(w) \/ OpenExistingFails(w)
  BY <1>4 DEF InitialiseReuse, InitialiseFresh, OpenTemp, OpenMedia,
     OpenExisting, OpenExistingFails, Goes, Goto, Active, TypeOK, localVars
<1>5. CASE NameFiles(w) \/ OpenMediaRetry(w) \/ Download(w) \/ DownloadEnd(w)
  BY <1>5 DEF NameFiles, OpenMediaRetry, Download, DownloadEnd, Goes, Goto,
     Active, TypeOK, localVars
<1>6. CASE ParseMediaPackage(w) \/ SkipParse(w) \/ ParseMediaSlice(w)
  BY <1>6 DEF ParseMediaPackage, SkipParse, ParseMediaSlice, Goes, Goto,
     Active, TypeOK, localVars
<1>7. CASE ReportJson(w) \/ OpenResult(w) \/ Format2Text(w) \/ ReadBack(w)
  BY <1>7 DEF ReportJson, OpenResult, Format2Text, ReadBack, Goes, Goto,
     Active, TypeOK, localVars
<1>. QED
  BY <1>1, <1>2, <1>3, <1>4, <1>5, <1>6, <1>7 DEF Serve, OwnStep

LEMMA KnownStep ==
    ASSUME TypeOK, Known, NEW w \in Workers,
           Accept(w) \/ Exit(w) \/ Restart(w) \/ Serve(w)
    PROVE  Known'
<1>1. CASE Accept(w)
  <2>1. Active' = Active \cup {w} /\ w \notin Active
    BY <1>1 DEF Accept, Goto, Active, TypeOK
  <2>2. req'[w] = nextReq /\ \A v \in Workers \ {w} : req'[v] = req[v]
    BY <1>1 DEF Accept, TypeOK
  <2>3. overlap'[w] = {nextReq} \cup {req[u] : u \in Active}
    BY <1>1 DEF Accept, TypeOK
  <2>4. \A v \in Active : overlap'[v] = overlap[v] \cup {nextReq}
    BY <1>1, <2>1 DEF Accept, TypeOK, Active
  <2>5. nextReq' = nextReq + 1 /\ nextReq \in Nat
    BY <1>1 DEF Accept, TypeOK
  <2>6. \A v \in Active : v \in Workers /\ req[v] \in Nat /\ req[v] < nextReq
    BY DEF Known, TypeOK, Active
  <2>7. SUFFICES ASSUME NEW u \in Active'
                 PROVE  /\ req'[u] < nextReq'
                        /\ req'[u] \in overlap'[u]
                        /\ \A v \in Active' \ {u} :
                              req'[v] # req'[u] /\ req'[v] \in overlap'[u]
    BY DEF Known
  <2>8. CASE u = w
    BY <2>1, <2>2, <2>3, <2>5, <2>6, <2>8
  <2>9. CASE u # w
    <3>1. u \in Active /\ req'[u] = req[u]
      BY <2>1, <2>2, <2>6, <2>9
    <3>2. req[u] < nextReq + 1 /\ req[u] # nextReq
      BY <2>5, <2>6, <3>1
    <3>3. \A v \in Active \ {u} : req'[v] = req[v] /\ req[v] # req[u]
                                    /\ req[v] \in overlap[u]
      BY <2>1, <2>2, <2>6, <3>1 DEF Known
    <3>. QED
      BY <2>1, <2>2, <2>4, <2>5, <3>1, <3>2, <3>3 DEF Known
  <2>. QED
    BY <2>8, <2>9
<1>2. CASE Exit(w) \/ Restart(w) \/ Serve(w)
  <2>1. CASE Ends(w)
    BY <2>1 DEF Ends, Leave, Goto, Known, Active, TypeOK
  <2>2. CASE Goes(w)
    BY <2>2 DEF Goes, Known
  <2>. QED
    BY <1>2, <2>1, <2>2, StepKinds
<1>. QED
  BY <1>1, <1>2

LEMMA HandlesStep ==
    ASSUME TypeOK, Handles, NEW w \in Workers,
           Accept(w) \/ Exit(w) \/ Restart(w) \/ Serve(w)
    PROVE  Handles'
<1> USE SessionAssumption DEF Handles, TypeOK, Goto, Labels, Prepared, WithMedia
<1>1. CASE Accept(w)
  BY <1>1 DEF Accept, scratchVars, mediaVars
<1>2. CASE Exit(w)
  BY <1>2 DEF Exit, Leave
<1>3. CASE Restart(w)
  BY <1>3 DEF Restart, localVars, scratchVars, mediaVars
<1>4. CASE InitialiseReuse(w) \/ InitialiseFresh(w)
  BY <1>4 DEF InitialiseReuse, InitialiseFresh, CloseTemp, localVars,
     scratchVars, mediaVars
<1>5. CASE InitialiseFails(w) \/ OpenTempFails(w) \/ OpenResultFails(w)
  <2>1. CASE InitialiseFails(w)
    BY <2>1 DEF InitialiseFails, CloseTemp, Leave, mediaVars
  <2>2. CASE OpenTempFails(w)
    BY <2>2 DEF OpenTempFails, Leave, scratchVars, mediaVars
  <2>3. CASE OpenResultFails(w)
    BY <2>3 DEF OpenResultFails, Leave, scratchVars, mediaVars
  <2>. QED
    BY <1>5, <2>1, <2>2, <2>3
<1>6. CASE OpenTemp(w)
  BY <1>6 DEF OpenTemp, LinkTemp, localVars, mediaVars
<1>7. CASE NameFiles(w)
  BY <1>7 DEF NameFiles, Stamps, Modes, scratchVars, mediaVars
<1>8. CASE OpenMedia(w)
  BY <1>8 DEF OpenMedia, localVars, scratchVars
<1>9. CASE OpenMediaRetry(w)
  <2>1. stamp'[w] # None /\ \A v \in Workers \ {w} : stamp'[v] = stamp[v]
    BY <1>9, RetryStamp DEF Stamps
  <2>. QED
    BY <1>9, <2>1 DEF OpenMediaRetry, scratchVars
<1>10. CASE OpenExisting(w) \/ OpenExistingFails(w)
  BY <1>10 DEF OpenExisting, OpenExistingFails, Stamps, localVars, scratchVars
<1>11. CASE Download(w) \/ DownloadEnd(w)
  BY <1>11 DEF Download, DownloadEnd, localVars, scratchVars, mediaVars
<1>12. CASE ParseMediaPackage(w) \/ SkipParse(w) \/ ParseMediaSlice(w)
  <2>1. CASE ParseMediaPackage(w)
    BY <2>1 DEF ParseMediaPackage, mediaVars
  <2>2. CASE SkipParse(w) \/ ParseMediaSlice(w)
    BY <2>2 DEF SkipParse, ParseMediaSlice, localVars, scratchVars, mediaVars
  <2>. QED
    BY <1>12, <2>1, <2>2
<1>13. CASE ReportJson(w) \/ OpenResult(w) \/ Format2Text(w) \/ ReadBack(w)
  BY <1>13 DEF ReportJson, OpenResult, Format2Text, ReadBack, localVars,
     scratchVars, mediaVars
<1>14. CASE Cleanup(w)
  BY <1>14 DEF Cleanup, CloseTemp, Leave
<1>. QED
  BY <1>1, <1>2, <1>3, <1>4, <1>5, <1>6, <1>7, <1>8, <1>9, <1>10, <1>11,
     <1>12, <1>13, <1>14 DEF Serve, OwnStep

-----------------------------------------------------------------------------
(* What a step of w leaves alone in the other workers, and what it may add *)
(* to the files they share.                                                *)

Same(v) ==
    /\ pc'[v] = pc[v] /\ req'[v] = req[v] /\ ask'[v] = ask[v]
    /\ stamp'[v] = stamp[v] /\ h264'[v] = h264[v] /\ media'[v] = media[v]
    /\ tags'[v] = tags[v] /\ nalu'[v] = nalu[v] /\ text'[v] = text[v]
    /\ wrote'[v] = wrote[v] /\ leaked'[v] = leaked[v] /\ lost'[v] = lost[v]
    /\ stdout'[v] = stdout[v]
    /\ overlap[v] \subseteq overlap'[v]

LEMMA OthersStay ==
    ASSUME TypeOK, Handles, NEW w \in Workers, NEW v \in Workers \ {w},
           Accept(w) \/ Exit(w) \/ Restart(w) \/ Serve(w)
    PROVE  Same(v)
<1> USE DEF TypeOK, Goto, Same
<1>1. CASE Accept(w)
  BY <1>1 DEF Accept, scratchVars, mediaVars
<1>2. CASE Exit(w)
  BY <1>2 DEF Exit, Leave
<1>3. CASE Restart(w)
  BY <1>3 DEF Restart, localVars, scratchVars, mediaVars
<1>4. CASE InitialiseReuse(w) \/ InitialiseFresh(w)
  BY <1>4 DEF InitialiseReuse, InitialiseFresh, CloseTemp, localVars,
     scratchVars, mediaVars
<1>5. CASE InitialiseFails(w) \/ OpenTempFails(w) \/ OpenResultFails(w)
  BY <1>5 DEF InitialiseFails, OpenTempFails, OpenResultFails, CloseTemp,
     Leave, scratchVars, mediaVars
<1>6. CASE OpenTemp(w)
  BY <1>6 DEF OpenTemp, LinkTemp, localVars, mediaVars
<1>7. CASE NameFiles(w)
  BY <1>7 DEF NameFiles, scratchVars, mediaVars
<1>8. CASE OpenMedia(w)
  BY <1>8 DEF OpenMedia, DropMedia, localVars, scratchVars
<1>9. CASE OpenMediaRetry(w)
  BY <1>9, RetryStamp DEF OpenMediaRetry, DropMedia, scratchVars
<1>10. CASE OpenExisting(w) \/ OpenExistingFails(w)
  BY <1>10 DEF OpenExisting, OpenExistingFails, DropMedia, localVars,
     scratchVars
<1>11. CASE Download(w) \/ DownloadEnd(w)
  BY <1>11 DEF Download, DownloadEnd, localVars, scratchVars, mediaVars
<1>12. CASE ParseMediaPackage(w)
  <2>1. PICK T \in SUBSET {req[w]}, S \in SUBSET {req[w]} :
            /\ tags' = [tags EXCEPT ![w] = @ \cup T]
            /\ wrote' = [wrote EXCEPT ![w] = S # {}]
    BY <1>12 DEF ParseMediaPackage
  <2>2. tags'[v] = tags[v]
    BY <2>1
  <2>3. wrote'[v] = wrote[v]
    BY <2>1, Zenon
  <2>. QED
    BY <1>12, <2>2, <2>3 DEF ParseMediaPackage, mediaVars
<1>13. CASE SkipParse(w) \/ ParseMediaSlice(w)
  BY <1>13 DEF SkipParse, ParseMediaSlice, localVars, scratchVars, mediaVars
<1>14. CASE ReportJson(w) \/ OpenResult(w) \/ Format2Text(w) \/ ReadBack(w)
  BY <1>14 DEF ReportJson, OpenResult, Format2Text, ReadBack, localVars,
     scratchVars, mediaVars
<1>15. CASE Cleanup(w)
  BY <1>15 DEF Cleanup, CloseTemp, Leave
<1>. QED
  BY <1>1, <1>2, <1>3, <1>4, <1>5, <1>6, <1>7, <1>8, <1>9, <1>10, <1>11,
     <1>12, <1>13, <1>14, <1>15 DEF Serve, OwnStep

Writes(w) == IF w \in Active THEN {req[w]} ELSE {}

LEMMA OnlyOwnWrites ==
    ASSUME TypeOK, NEW w \in Workers,
           Accept(w) \/ Exit(w) \/ Restart(w) \/ Serve(w)
    PROVE  /\ \A i \in Inodes : inode'[i] \subseteq inode[i] \cup Writes(w)
           /\ \A s \in Stamps : disk'[s] \subseteq disk[s] \cup Writes(w)
           /\ \A s \in Stamps : result'[s] \subseteq result[s] \cup Writes(w)
<1> USE DEF TypeOK, Active, Writes
<1>1. CASE OpenTemp(w)
  BY <1>1 DEF OpenTemp, LinkTemp, localVars, mediaVars
<1>2. CASE OpenMedia(w) \/ Download(w)
  BY <1>2 DEF OpenMedia, Download, localVars, scratchVars
<1>3. CASE ParseMediaPackage(w)
  <2>1. PICK S \in SUBSET {req[w]} :
            inode' = [inode EXCEPT ![h264[w]] = @ \cup S]
    BY <1>3 DEF ParseMediaPackage
  <2>2. w \in Active /\ disk' = disk /\ result' = result
    BY <1>3 DEF ParseMediaPackage, mediaVars
  <2>. QED
    BY <2>1, <2>2
<1>4. CASE OpenResult(w) \/ Format2Text(w)
  BY <1>4 DEF OpenResult, Format2Text, scratchVars, mediaVars
<1>5. CASE Accept(w) \/ Exit(w) \/ Restart(w)
  BY <1>5 DEF Accept, Exit, Restart, scratchVars, mediaVars
<1>6. CASE InitialiseReuse(w) \/ InitialiseFails(w) \/ InitialiseFresh(w)
           \/ OpenTempFails(w) \/ OpenResultFails(w) \/ Cleanup(w)
  BY <1>6 DEF InitialiseReuse, InitialiseFails, InitialiseFresh,
     OpenTempFails, OpenResultFails, Cleanup, CloseTemp, scratchVars,
     mediaVars
<1>7. CASE NameFiles(w) \/ OpenMediaRetry(w) \/ OpenExisting(w)
           \/ OpenExistingFails(w) \/ DownloadEnd(w)
  BY <1>7 DEF NameFiles, OpenMediaRetry, OpenExisting, OpenExistingFails,
     DownloadEnd, scratchVars, mediaVars
<1>8. CASE SkipParse(w) \/ ParseMediaSlice(w) \/ ReportJson(w) \/ ReadBack(w)
  BY <1>8 DEF SkipParse, ParseMediaSlice, ReportJson, ReadBack, scratchVars,
     mediaVars
<1>. QED
  BY <1>1, <1>2, <1>3, <1>4, <1>5, <1>6, <1>7, <1>8 DEF Serve, OwnStep

\* So a file another worker v has open stays within what v knows of.
LEMMA OthersFresh ==
    ASSUME TypeOK, Known, Handles, NEW w \in Workers, NEW v \in Active \ {w},
           Accept(w) \/ Exit(w) \/ Restart(w) \/ Serve(w)
    PROVE  /\ Same(v)
           /\ \A i \in Inodes :
                inode[i] \subseteq overlap[v] => inode'[i] \subseteq overlap'[v]
           /\ \A s \in Stamps :
                disk[s] \subseteq overlap[v] => disk'[s] \subseteq overlap'[v]
           /\ \A s \in Stamps :
                result[s] \subseteq overlap[v] => result'[s] \subseteq overlap'[v]
<1>1. v \in Workers /\ Same(v)
  BY OthersStay DEF Active
<1>2. Writes(w) \subseteq overlap[v]
  BY DEF Known, Writes
<1>3. overlap[v] \subseteq overlap'[v]
  BY <1>1 DEF Same
<1>. QED
  BY <1>1, <1>2, <1>3, OnlyOwnWrites

-----------------------------------------------------------------------------
(* One lemma per part of the invariant: the other workers by OthersFresh,  *)
(* the worker that steps by its action.                                    *)

LEMMA TagsStep ==
    ASSUME TypeOK, Handles, FreshTags, NEW w \in Workers,
           Accept(w) \/ Exit(w) \/ Restart(w) \/ Serve(w)
    PROVE  FreshTags'
<1>1. ASSUME NEW v \in Workers \ {w}, pc'[v] \in Prepared \cup {"open264"}
      PROVE  tags'[v] \subseteq {req'[v]}
  BY <1>1, OthersStay DEF Same, FreshTags
<1>2. ASSUME pc'[w] \in Prepared \cup {"open264"}
      PROVE  tags'[w] \subseteq {req'[w]}
  <2> USE <1>2 DEF FreshTags, TypeOK, Goto, Prepared, Labels
  <2>1. CASE Accept(w) \/ Exit(w) \/ Restart(w)
    BY <2>1 DEF Accept, Exit, Leave, Restart
  <2>2. CASE InitialiseReuse(w) \/ InitialiseFails(w) \/ InitialiseFresh(w)
             \/ OpenTempFails(w) \/ OpenResultFails(w) \/ Cleanup(w)
    BY <2>2 DEF InitialiseReuse, InitialiseFails, InitialiseFresh,
       OpenTempFails, OpenResultFails, Cleanup, Leave
  <2>3. CASE OpenTemp(w) \/ NameFiles(w) \/ OpenMedia(w) \/ OpenMediaRetry(w)
             \/ OpenExisting(w) \/ OpenExistingFails(w) \/ Download(w)
             \/ DownloadEnd(w)
    BY <2>3 DEF OpenTemp, NameFiles, OpenMedia, OpenMediaRetry, OpenExisting,
       OpenExistingFails, Download, DownloadEnd, localVars
  <2>4. CASE SkipParse(w) \/ ParseMediaSlice(w) \/ ReportJson(w)
             \/ OpenResult(w) \/ Format2Text(w) \/ ReadBack(w)
    BY <2>4 DEF SkipParse, ParseMediaSlice, ReportJson, OpenResult,
       Format2Text, ReadBack, localVars
  <2>5. CASE ParseMediaPackage(w)
    <3>1. PICK T \in SUBSET {req[w]} : tags' = [tags EXCEPT ![w] = @ \cup T]
      BY <2>5 DEF ParseMediaPackage
    <3>. QED
      BY <2>5, <3>1 DEF ParseMediaPackage
  <2>. QED
    BY <2>1, <2>2, <2>3, <2>4, <2>5 DEF Serve, OwnStep
<1>. QED
  BY <1>1, <1>2 DEF FreshTags

LEMMA ScratchStep ==
    ASSUME TypeOK, Known, Handles, ScratchFresh, FreshSlices,
           NEW w \in Workers, Accept(w) \/ Exit(w) \/ Restart(w) \/ Serve(w)
    PROVE  ScratchFresh' /\ FreshSlices'
<1> USE SessionAssumption
<1>1. ASSUME NEW v \in Workers \ {w}
      PROVE  /\ pc'[v] \in Prepared => inode'[h264'[v]] \subseteq overlap'[v]
             /\ v \in Active' => nalu'[v] \subseteq overlap'[v]
  <2>1. CASE v \in Active
    <3>1. pc[v] \in Prepared => h264[v] \in Inodes
      BY DEF Handles, TypeOK
    <3>. QED
      BY <2>1, <3>1, OthersFresh DEF Same, ScratchFresh, FreshSlices
  <2>2. CASE v \notin Active
    BY <2>2, OthersStay DEF Same, Active, Prepared, Labels
  <2>. QED
    BY <2>1, <2>2
<1>2. /\ pc'[w] \in Prepared => inode'[h264'[w]] \subseteq overlap'[w]
      /\ w \in Active' => nalu'[w] \subseteq overlap'[w]
  <2> USE DEF ScratchFresh, FreshSlices, TypeOK, Goto, Prepared, Labels, Active
  <2>1. CASE Accept(w)
    BY <2>1 DEF Accept, Handles
  <2>2. CASE Exit(w) \/ Restart(w)
    BY <2>2 DEF Exit, Leave, Restart
  <2>3. CASE InitialiseFails(w) \/ OpenTempFails(w) \/ OpenResultFails(w)
             \/ Cleanup(w)
    BY <2>3 DEF InitialiseFails, OpenTempFails, OpenResultFails, Cleanup, Leave
  <2>4. CASE InitialiseReuse(w) \/ InitialiseFresh(w)
    BY <2>4 DEF InitialiseReuse, InitialiseFresh, localVars
  <2>5. CASE OpenTemp(w)
    <3>1. PICK i \in Inodes : LinkTemp(w, i)
      BY <2>5 DEF OpenTemp
    <3>2. inode'[h264'[w]] = {} /\ nalu' = nalu /\ overlap' = overlap
      BY <2>5, <3>1 DEF OpenTemp, LinkTemp, localVars
    <3>3. nalu[w] \subseteq overlap[w]
      BY <2>5 DEF OpenTemp
    <3>. QED
      BY <3>2, <3>3
  <2>6. CASE NameFiles(w) \/ OpenMedia(w) \/ OpenMediaRetry(w)
             \/ OpenExisting(w) \/ OpenExistingFails(w)
    BY <2>6 DEF NameFiles, OpenMedia, OpenMediaRetry, OpenExisting,
       OpenExistingFails, localVars, scratchVars
  <2>7. CASE Download(w) \/ DownloadEnd(w)
    BY <2>7 DEF Download, DownloadEnd, localVars, scratchVars
  <2>8. CASE ParseMediaPackage(w)
    <3>1. PICK S \in SUBSET {req[w]} :
              inode' = [inode EXCEPT ![h264[w]] = @ \cup S]
      BY <2>8 DEF ParseMediaPackage
    <3>2. req[w] \in overlap[w]
      BY <2>8 DEF ParseMediaPackage, Known
    <3>3. h264[w] \in Inodes /\ h264'[w] = h264[w]
      BY <2>8 DEF ParseMediaPackage, Handles
    <3>4. inode'[h264[w]] \subseteq inode[h264[w]] \cup {req[w]}
      BY <3>1, <3>3
    <3>5. overlap' = overlap /\ nalu' = nalu /\ pc[w] = "parse"
      BY <2>8 DEF ParseMediaPackage
    <3>. QED
      BY <3>2, <3>3, <3>4, <3>5
  <2>9. CASE ParseMediaSlice(w)
    BY <2>9 DEF ParseMediaSlice, scratchVars
  <2>10. CASE SkipParse(w) \/ ReportJson(w) \/ OpenResult(w)
              \/ Format2Text(w) \/ ReadBack(w)
    BY <2>10 DEF SkipParse, ReportJson, OpenResult, Format2Text, ReadBack,
       localVars, scratchVars
  <2>. QED
    BY <2>1, <2>2, <2>3, <2>4, <2>5, <2>6, <2>7, <2>8, <2>9, <2>10 DEF Serve, OwnStep
<1>. QED
  BY <1>1, <1>2 DEF ScratchFresh, FreshSlices, Active

LEMMA MediaStep ==
    ASSUME TypeOK, Known, Handles, FreshMedia,
           NEW w \in Workers, Accept(w) \/ Exit(w) \/ Restart(w) \/ Serve(w)
    PROVE  FreshMedia'
<1> USE SessionAssumption DEF FreshMedia, TypeOK, Active, BeforeMedia
<1>1. ASSUME NEW v \in Active' \ {w},
             ask'[v][1] = "download", pc'[v] \notin BeforeMedia
      PROVE  disk'[media'[v]] \subseteq overlap'[v]
  <2>1. v \in Active /\ ask[v][1] = "download" /\ pc[v] \notin BeforeMedia
    BY <1>1, OthersStay DEF Same
  <2>2. media[v] \in Stamps
    BY <2>1 DEF Handles, WithMedia, Labels
  <2>3. disk[media[v]] \subseteq overlap[v]
    BY <2>1
  <2>. QED
    BY <2>1, <2>2, <2>3, OthersFresh DEF Same
<1>2. ASSUME w \in Active', ask'[w][1] = "download", pc'[w] \notin BeforeMedia
      PROVE  disk'[media'[w]] \subseteq overlap'[w]
  <2> USE <1>2 DEF Goto
  <2>1. CASE Accept(w) \/ Exit(w) \/ Restart(w)
    BY <2>1 DEF Accept, Exit, Leave, Restart
  <2>2. CASE InitialiseFails(w) \/ OpenTempFails(w) \/ OpenResultFails(w)
             \/ Cleanup(w) \/ InitialiseReuse(w) \/ InitialiseFresh(w)
             \/ OpenTemp(w) \/ NameFiles(w) \/ OpenMediaRetry(w)
    BY <2>2 DEF InitialiseFails, OpenTempFails, OpenResultFails, Cleanup,
       Leave, InitialiseReuse, InitialiseFresh, OpenTemp, NameFiles,
       OpenMediaRetry
  <2>3. CASE OpenExisting(w) \/ OpenExistingFails(w)
    BY <2>3 DEF OpenExisting, OpenExistingFails, Handles, localVars
  <2>4. CASE OpenMedia(w)
    <3>1. stamp[w] \in Stamps
      BY <2>4 DEF OpenMedia, Handles, Prepared, Labels
    <3>. QED
      BY <2>4, <3>1 DEF OpenMedia
  <2>5. CASE Download(w)
    <3>1. media[w] \in Stamps
      BY <2>5 DEF Download, Handles, WithMedia
    <3>2. disk[media[w]] \subseteq overlap[w] /\ req[w] \in overlap[w]
      BY <2>5 DEF Download, localVars, Known
    <3>. QED
      BY <2>5, <3>1, <3>2 DEF Download, localVars
  <2>6. CASE DownloadEnd(w) \/ ParseMediaPackage(w) \/ SkipParse(w)
             \/ ParseMediaSlice(w) \/ ReportJson(w) \/ OpenResult(w)
             \/ Format2Text(w) \/ ReadBack(w)
    BY <2>6 DEF DownloadEnd, ParseMediaPackage, SkipParse, ParseMediaSlice,
       ReportJson, OpenResult, Format2Text, ReadBack, localVars, mediaVars
  <2>. QED
    BY <2>1, <2>2, <2>3, <2>4, <2>5, <2>6 DEF Serve, OwnStep
<1>. QED
  BY <1>1, <1>2

LEMMA ResultStep ==
    ASSUME TypeOK, Known, Handles, ResultFresh, FreshText,
           NEW w \in Workers, Accept(w) \/ Exit(w) \/ Restart(w) \/ Serve(w)
    PROVE  ResultFresh' /\ FreshText'
<1> USE SessionAssumption
<1>1. ASSUME NEW v \in Workers \ {w}
      PROVE  /\ pc'[v] \in {"text", "readback"} =>
                    result'[stamp'[v]] \subseteq overlap'[v]
             /\ v \in Active' => text'[v] \subseteq overlap'[v]
  <2>1. CASE v \in Active
    <3>1. pc[v] \in {"text", "readback"} => stamp[v] \in Stamps
      BY DEF Handles, TypeOK, Prepared, Labels
    <3>. QED
      BY <2>1, <3>1, OthersFresh DEF Same, ResultFresh, FreshText
  <2>2. CASE v \notin Active
    BY <2>2, OthersStay DEF Same, Active
  <2>. QED
    BY <2>1, <2>2
<1>2. /\ pc'[w] \in {"text", "readback"} =>
                    result'[stamp'[w]] \subseteq overlap'[w]
      /\ w \in Active' => text'[w] \subseteq overlap'[w]
  <2> USE DEF ResultFresh, FreshText, TypeOK, Goto, Active
  <2>1. CASE Accept(w) \/ Exit(w) \/ Restart(w)
    BY <2>1 DEF Accept, Exit, Leave, Restart, Handles
  <2>2. CASE InitialiseFails(w) \/ OpenTempFails(w) \/ OpenResultFails(w)
             \/ Cleanup(w)
    BY <2>2 DEF InitialiseFails, OpenTempFails, OpenResultFails, Cleanup, Leave
  <2>3. CASE InitialiseReuse(w) \/ InitialiseFresh(w) \/ OpenTemp(w)
             \/ NameFiles(w) \/ OpenMedia(w) \/ OpenMediaRetry(w)
             \/ OpenExisting(w) \/ OpenExistingFails(w)
    BY <2>3 DEF InitialiseReuse, InitialiseFresh, OpenTemp, NameFiles,
       OpenMedia, OpenMediaRetry, OpenExisting, OpenExistingFails, localVars
  <2>4. CASE Download(w) \/ DownloadEnd(w) \/ ParseMediaPackage(w)
             \/ SkipParse(w) \/ ParseMediaSlice(w) \/ ReportJson(w)
    BY <2>4 DEF Download, DownloadEnd, ParseMediaPackage, SkipParse,
       ParseMediaSlice, ReportJson, localVars
  <2>5. CASE OpenResult(w) \/ Format2Text(w)
    <3>1. pc[w] \in {"report", "text"}
      BY <2>5 DEF OpenResult, Format2Text
    <3>2. stamp[w] \in Stamps
      BY <3>1 DEF Handles, Prepared, Labels
    <3>3. req[w] \in overlap[w]
      BY <3>1 DEF Known
    <3>4. CASE OpenResult(w)
      BY <3>2, <3>4 DEF OpenResult, localVars
    <3>5. CASE Format2Text(w)
      <4>1. result[stamp[w]] \subseteq overlap[w] /\ text[w] \subseteq overlap[w]
        BY <3>5 DEF Format2Text
      <4>2. result'[stamp[w]] = result[stamp[w]] \cup {req[w]}
        BY <3>2, <3>5 DEF Format2Text
      <4>. QED
        BY <3>3, <3>5, <4>1, <4>2 DEF Format2Text, localVars
    <3>. QED
      BY <2>5, <3>4, <3>5
  <2>6. CASE ReadBack(w)
    BY <2>6 DEF ReadBack
  <2>. QED
    BY <2>1, <2>2, <2>3, <2>4, <2>5, <2>6 DEF Serve, OwnStep
<1>. QED
  BY <1>1, <1>2 DEF ResultFresh, FreshText, Active

LEMMA KeptStep ==
    ASSUME TypeOK, Known, Handles, ScratchFresh, Kept, NothingLost,
           NEW w \in Workers, Accept(w) \/ Exit(w) \/ Restart(w) \/ Serve(w)
    PROVE  Kept' /\ NothingLost'
<1> DEFINE After == {"report", "text", "readback", "cleanup"}
           KeptFor(v) ==
             /\ wrote[v] => pc[v] \in After \cup {"slice"}
             /\ pc[v] = "slice" /\ wrote[v] /\ overlap[v] = {req[v]} =>
                    req[v] \in inode[h264[v]]
             /\ pc[v] \in After /\ wrote[v] /\ overlap[v] = {req[v]} =>
                    nalu[v] = {req[v]}
<1> USE SessionAssumption
<1>1. \A v \in Workers : KeptFor(v)
  BY DEF Kept, NothingLost, Active
<1>2. ASSUME NEW v \in Workers \ {w}
      PROVE  KeptFor(v)'
  <2>1. Same(v) /\ KeptFor(v)
    BY <1>1, OthersStay
  <2>2. CASE v \notin Active
    BY <2>1, <2>2 DEF Same, Active
  <2>3. CASE v \in Active
    <3>1. overlap'[v] = {req'[v]} => overlap[v] = {req[v]}
      BY <2>1, <2>3 DEF Same, Known
    <3>2. overlap[v] = {req[v]} => w \notin Active
      BY <2>3 DEF Known
    <3>3. w \notin Active => inode' = inode
      <4>1. CASE Accept(w) \/ Exit(w) \/ Restart(w)
        BY <4>1 DEF Accept, Exit, Restart, scratchVars
      <4>2. Serve(w) => w \in Active
        BY DEF Active, Serve, OwnStep, InitialiseReuse, InitialiseFails,
           InitialiseFresh, OpenTemp, OpenTempFails, NameFiles, OpenMedia,
           OpenMediaRetry, OpenExisting, OpenExistingFails, Download,
           DownloadEnd, ParseMediaPackage, SkipParse, ParseMediaSlice,
           ReportJson, OpenResult, OpenResultFails, Format2Text, ReadBack,
           Cleanup
      <4>. QED
        BY <4>1, <4>2
    <3>. QED
      BY <2>1, <3>1, <3>2, <3>3 DEF Same
  <2>. QED
    BY <2>2, <2>3
<1>3. KeptFor(w)'
  <2> USE <1>1 DEF TypeOK, Goto
  <2>1. CASE Accept(w)
    BY <2>1 DEF Accept
  <2>2. CASE Exit(w) \/ Restart(w)
    BY <2>2 DEF Exit, Leave, Restart, localVars
  <2>3. CASE InitialiseFails(w) \/ OpenTempFails(w) \/ OpenResultFails(w)
             \/ Cleanup(w)
    <3>1. wrote'[w] = FALSE
      BY <2>3 DEF InitialiseFails, OpenTempFails, OpenResultFails, Cleanup, Leave
    <3>. QED
      BY <3>1
  <2>4. CASE InitialiseReuse(w) \/ InitialiseFresh(w) \/ OpenTemp(w)
             \/ NameFiles(w) \/ OpenMedia(w) \/ OpenMediaRetry(w)
    BY <2>4 DEF InitialiseReuse, InitialiseFresh, OpenTemp, NameFiles,
       OpenMedia, OpenMediaRetry, localVars
  <2>5. CASE OpenExisting(w) \/ OpenExistingFails(w) \/ Download(w)
             \/ DownloadEnd(w) \/ SkipParse(w)
    BY <2>5 DEF OpenExisting, OpenExistingFails, Download, DownloadEnd,
       SkipParse, localVars
  <2>6. CASE ParseMediaPackage(w)
    <3>1. PICK S \in SUBSET {req[w]} :
              /\ inode' = [inode EXCEPT ![h264[w]] = @ \cup S]
              /\ wrote' = [wrote EXCEPT ![w] = S # {}]
      BY <2>6, Zenon DEF ParseMediaPackage
    <3>2. wrote'[w] = (S # {})
      BY <3>1, Zenon
    <3>3. h264[w] \in Inodes
      <4>1. pc[w] = "parse"
        BY <2>6 DEF ParseMediaPackage
      <4>2. h264[w] # None /\ h264[w] \in Inodes \cup {None}
        BY <4>1 DEF Handles, Prepared, Labels
      <4>. QED
        BY <4>2
    <3>4. S # {} => req[w] \in inode'[h264[w]]
      <4>1. S # {} => req[w] \in S
        OBVIOUS
      <4>2. inode'[h264[w]] = inode[h264[w]] \cup S
        BY <3>1, <3>3
      <4>. QED
        BY <4>1, <4>2
    <3>5. pc'[w] = "slice" /\ req'[w] = req[w] /\ h264'[w] = h264[w]
      BY <2>6 DEF ParseMediaPackage
    <3>. QED
      BY <3>2, <3>4, <3>5
  <2>7. CASE ParseMediaSlice(w)
    <3>1. inode[h264[w]] \subseteq overlap[w] /\ nalu'[w] = inode[h264[w]]
      BY <2>7 DEF ParseMediaSlice, ScratchFresh, Prepared, Labels
    <3>. QED
      BY <2>7, <3>1 DEF ParseMediaSlice
  <2>8. CASE ReportJson(w) \/ OpenResult(w) \/ Format2Text(w) \/ ReadBack(w)
    BY <2>8 DEF ReportJson, OpenResult, Format2Text, ReadBack, localVars
  <2>. QED
    BY <2>1, <2>2, <2>3, <2>4, <2>5, <2>6, <2>7, <2>8 DEF Serve, OwnStep
<1>4. \A v \in Workers : KeptFor(v)'
  BY <1>2, <1>3
<1>. QED
  BY <1>4 DEF Kept, NothingLost, Active

LEMMA LeakStep ==
    ASSUME TypeOK, Handles, LeakAccounting, ScratchClosed, NEW w \in Workers,
           Accept(w) \/ Exit(w) \/ Restart(w) \/ Serve(w)
    PROVE  LeakAccounting' /\ ScratchClosed'
<1> DEFINE Counted(v) ==
             lost[v] = leaked[v] + IF pc[v] \in BeforeMedia THEN Held(media, v) ELSE 0
           Closed(v) == pc[v] = "idle" /\ lost[v] = 0 => h264[v] = None
<1> USE SessionAssumption DEF Held
<1>1. ASSUME NEW v \in Workers \ {w}
      PROVE  Counted(v)' /\ Closed(v)'
  BY OthersStay DEF Same, LeakAccounting, ScratchClosed
<1>2. Counted(w)' /\ Closed(w)'
  <2> USE DEF LeakAccounting, ScratchClosed, TypeOK, Goto, BeforeMedia
  <2>1. CASE Accept(w) \/ Exit(w)
    BY <2>1 DEF Accept, Exit, Leave, mediaVars
  <2>2. CASE Restart(w)
    BY <2>2 DEF Restart, Handles, scratchVars, mediaVars
  <2>3. CASE InitialiseReuse(w) \/ InitialiseFresh(w) \/ InitialiseFails(w)
    BY <2>3 DEF InitialiseReuse, InitialiseFresh, InitialiseFails, Leave,
       CloseTemp, mediaVars
  <2>4. CASE OpenTemp(w) \/ OpenTempFails(w)
    BY <2>4 DEF OpenTemp, OpenTempFails, Leave, Handles, scratchVars, mediaVars
  <2>5. CASE NameFiles(w)
    BY <2>5 DEF NameFiles, mediaVars
  <2>6. CASE OpenMedia(w) \/ OpenMediaRetry(w)
    BY <2>6 DEF OpenMedia, OpenMediaRetry, DropMedia
  <2>7. CASE OpenExisting(w) \/ OpenExistingFails(w)
    BY <2>7 DEF OpenExisting, OpenExistingFails, DropMedia
  <2>8. CASE OpenResultFails(w)
    <3>1. lost'[w] = lost[w] + 1 /\ leaked'[w] = leaked[w]
      BY <2>8 DEF OpenResultFails, mediaVars
    <3>2. media'[w] = media[w] /\ media[w] # None
      BY <2>8 DEF OpenResultFails, Handles, WithMedia, mediaVars
    <3>3. pc[w] = "report" /\ pc'[w] = "idle"
      BY <2>8 DEF OpenResultFails, Leave
    <3>4. lost[w] \in Nat /\ leaked[w] \in Nat
      OBVIOUS
    <3>5. lost[w] = leaked[w] + 0
      <4> HIDE DEF TypeOK, Goto, ScratchClosed
      <4>. QED
        BY <3>3
    <3>. QED
      <4> HIDE DEF LeakAccounting, ScratchClosed, TypeOK, Goto
      <4>. QED
        BY <3>1, <3>2, <3>3, <3>4, <3>5
  <2>9. CASE Cleanup(w)
    BY <2>9 DEF Cleanup, CloseTemp, Leave
  <2>10. CASE Download(w) \/ DownloadEnd(w) \/ ParseMediaPackage(w)
             \/ SkipParse(w) \/ ParseMediaSlice(w)
    BY <2>10 DEF Download, DownloadEnd, ParseMediaPackage, SkipParse,
       ParseMediaSlice, mediaVars
  <2>11. CASE ReportJson(w) \/ OpenResult(w) \/ Format2Text(w) \/ ReadBack(w)
    BY <2>11 DEF ReportJson, OpenResult, Format2Text, ReadBack, mediaVars
  <2>. QED
    BY <2>1, <2>2, <2>3, <2>4, <2>5, <2>6, <2>7, <2>8, <2>9, <2>10, <2>11
       DEF Serve, OwnStep
<1>3. \A v \in Workers : Counted(v)' /\ Closed(v)'
  BY <1>1, <1>2
<1>. QED
  BY <1>3 DEF LeakAccounting, ScratchClosed

LEMMA StdoutStep ==
    ASSUME TypeOK, Handles, StdoutFreed, NEW w \in Workers,
           Accept(w) \/ Exit(w) \/ Restart(w) \/ Serve(w)
    PROVE  StdoutFreed'
<1>1. ASSUME NEW v \in Workers \ {w}
      PROVE  stdout'[v] => lost'[v] = 0 \/ pc'[v] = "text"
  BY OthersStay DEF Same, StdoutFreed
<1>2. stdout'[w] => lost'[w] = 0 \/ pc'[w] = "text"
  <2> USE DEF StdoutFreed, TypeOK, Goto
  <2>1. CASE Accept(w) \/ Exit(w) \/ Restart(w)
    BY <2>1 DEF Accept, Exit, Leave, Restart
  <2>2. CASE InitialiseReuse(w) \/ InitialiseFresh(w) \/ InitialiseFails(w)
             \/ OpenTemp(w) \/ OpenTempFails(w) \/ NameFiles(w)
    BY <2>2 DEF InitialiseReuse, InitialiseFresh, InitialiseFails, Leave,
       OpenTemp, OpenTempFails, NameFiles
  <2>3. CASE OpenMedia(w) \/ OpenMediaRetry(w) \/ OpenExisting(w)
             \/ OpenExistingFails(w) \/ Download(w) \/ DownloadEnd(w)
    BY <2>3 DEF OpenMedia, OpenMediaRetry, OpenExisting, OpenExistingFails,
       Download, DownloadEnd
  <2>4. CASE ParseMediaPackage(w) \/ SkipParse(w) \/ ParseMediaSlice(w)
             \/ ReportJson(w) \/ ReadBack(w) \/ Cleanup(w)
    BY <2>4 DEF ParseMediaPackage, SkipParse, ParseMediaSlice, ReportJson,
       ReadBack, Cleanup, Leave
  <2>5. CASE OpenResult(w)
    BY <2>5 DEF OpenResult
  <2>6. CASE OpenResultFails(w) \/ Format2Text(w)
    BY <2>6 DEF OpenResultFails, Format2Text
  <2>. QED
    BY <2>1, <2>2, <2>3, <2>4, <2>5, <2>6 DEF Serve, OwnStep
<1>. QED
  BY <1>1, <1>2 DEF StdoutFreed

-----------------------------------------------------------------------------
\* IInv holds of the initial state and of every step.
LEMMA InitIInv == Init => IInv
<1> SUFFICES ASSUME Init PROVE IInv
  OBVIOUS
<1> USE SessionAssumption
<1>1. TypeOK
  BY DEF Init, TypeOK, Labels, Modes, Forms, Reqs
<1>2. Active = {} /\ \A w \in Workers : pc[w] = "idle"
  BY DEF Init, Active
<1>3. Known /\ FreshMedia /\ NothingLost
  BY <1>2 DEF Known, FreshMedia, NothingLost
<1>4. FreshSlices /\ FreshText
  BY <1>2 DEF FreshSlices, FreshText
<1>5. Handles /\ FreshTags /\ ScratchFresh /\ ResultFresh /\ Kept
  BY <1>2 DEF Init, Handles, FreshTags, ScratchFresh, ResultFresh, Kept,
     Prepared, Labels, WithMedia
<1>6. LeakAccounting /\ ScratchClosed /\ StdoutFreed
  BY DEF Init, LeakAccounting, ScratchClosed, StdoutFreed, Held
<1>. QED
  BY <1>1, <1>3, <1>4, <1>5, <1>6 DEF IInv

LEMMA NextIInv == IInv /\ [Next]_vars => IInv'
<1> SUFFICES ASSUME IInv, [Next]_vars PROVE IInv'
  OBVIOUS
<1>1. ASSUME NEW w \in Workers, Accept(w) \/ Exit(w) \/ Restart(w) \/ Serve(w)
      PROVE  IInv'
  BY <1>1, TypeStep, KnownStep, HandlesStep, TagsStep, ScratchStep, MediaStep,
     ResultStep, KeptStep, LeakStep, StdoutStep DEF IInv
<1>2. CASE UNCHANGED vars
  <2> USE <1>2 DEF vars, localVars, scratchVars, mediaVars
  <2>1. TypeOK' /\ Active' = Active
    BY DEF IInv, TypeOK, Active
  <2>2. Known' /\ Handles' /\ FreshTags' /\ ScratchFresh' /\ FreshSlices'
    BY <2>1 DEF IInv, Known, Handles, FreshTags, ScratchFresh, FreshSlices
  <2>3. FreshMedia' /\ ResultFresh' /\ FreshText' /\ Kept' /\ NothingLost'
    BY <2>1 DEF IInv, FreshMedia, ResultFresh, FreshText, Kept, NothingLost
  <2>4. LeakAccounting' /\ ScratchClosed' /\ StdoutFreed'
    BY DEF IInv, LeakAccounting, ScratchClosed, StdoutFreed, Held
  <2>. QED
    BY <2>1, <2>2, <2>3, <2>4 DEF IInv
<1>. QED
  BY <1>1, <1>2 DEF Next

\* The invariant the other theorems rest on.
THEOREM Invariance == Spec => []IInv
  BY InitIInv, NextIInv, PTL DEF Spec

\* Type correctness.
THEOREM TypeCorrect == Spec => []TypeOK
  BY Invariance, PTL DEF IInv

\* No report is made of what an earlier request left in the tag vector, the
\* scratch file, the media file or the result file, whichever path through
\* main() that request took and however many processes there are.
THEOREM NothingStale ==
    Spec => []FreshReports
  BY Invariance, PTL DEF IInv, FreshReports

\* What a request's parse wrote reaches its report unless another request
\* overlapped it.
THEOREM NothingLostAlone == Spec => []NothingLost
  BY Invariance, PTL DEF IInv

\* The media handles a process has lost are its replies given up at freopen,
\* and without such a loss the scratch handle is closed between requests.
THEOREM HandlesAccounted == Spec => []HandlesKept
  BY Invariance, PTL DEF IInv, HandlesKept

\* However many processes and descriptors there are, the opens of a request
\* lack a descriptor only if enough earlier replies were given up at freopen.
THEOREM GivenUpFirst == Spec => []DescriptorsLast
<1>1. IInv => DescriptorsLast
  <2> SUFFICES ASSUME IInv, NEW w \in Workers
               PROVE  /\ pc[w] \in {"open264", "openMedia", "openExisting"} =>
                              CanOpen(w) \/ lost[w] + 2 > MaxFds
                      /\ pc[w] = "report" => CanReopen(w) \/ lost[w] + 3 > MaxFds
    BY DEF DescriptorsLast
  <2> USE SessionAssumption
  <2> DEFINE Out == IF stdout[w] THEN 1 ELSE 0
             Scratch == Held(h264, w)
             Media == Held(media, w)
  <2>1. lost[w] \in Nat /\ leaked[w] \in Nat
    BY DEF IInv, TypeOK
  <2>2. Scratch \in 0..1 /\ Media \in 0..1 /\ Out \in 0..1
    BY DEF Held
  <2>3. pc[w] # "text" /\ Out = 1 => lost[w] = 0
    BY DEF IInv, StdoutFreed
  <2>4. Fds(w) = leaked[w] + Scratch + Media + Out
    BY DEF Fds, Files
  <2>5. Files(w) = leaked[w] + Scratch + Media
    BY DEF Files
  <2>6. ASSUME pc[w] \in {"open264", "openMedia", "openExisting"}
        PROVE  CanOpen(w) \/ lost[w] + 2 > MaxFds
    <3>1. lost[w] = leaked[w] + Media
      BY <2>6 DEF IInv, LeakAccounting, BeforeMedia
    <3>2. pc[w] # "text"
      BY <2>6
    <3> HIDE DEF Out, Scratch, Media
    <3>. QED
      BY <2>1, <2>2, <2>3, <2>4, <3>1, <3>2 DEF CanOpen
  <2>7. ASSUME pc[w] = "report"
        PROVE  CanReopen(w) \/ lost[w] + 3 > MaxFds
    <3>1. lost[w] = leaked[w]
      BY <2>1, <2>7 DEF IInv, LeakAccounting, BeforeMedia
    <3> HIDE DEF Out, Scratch, Media
    <3>. QED
      BY <2>1, <2>2, <2>5, <3>1 DEF CanReopen
  <2>. QED
    BY <2>6, <2>7
<1>. QED
  BY <1>1, Invariance, PTL

\* A single process never mixes two requests.
THEOREM OneProcess ==
    ASSUME NEW p, Workers = {p}
    PROVE  Spec => []OwnReport
<1> DEFINE Alone == \A w \in Active : overlap[w] = {req[w]}
<1>1. Init => Alone
  BY DEF Init, Active
<1>2. IInv /\ Alone /\ [Next]_vars => Alone'
  <2> SUFFICES ASSUME IInv, Alone, [Next]_vars PROVE Alone'
    OBVIOUS
  <2>1. CASE UNCHANGED vars
    BY <2>1 DEF vars, localVars, Active
  <2>2. ASSUME Accept(p) PROVE Alone'
    <3>1. Active = {} /\ Active' = {p}
      BY <2>2 DEF Accept, Active, Goto, IInv, TypeOK
    <3>2. overlap'[p] = {nextReq} /\ req'[p] = nextReq
      BY <2>2, <3>1 DEF Accept, IInv, TypeOK
    <3>. QED
      BY <3>1, <3>2
  <2>3. ASSUME Exit(p) \/ Restart(p) \/ Serve(p) PROVE Alone'
    <3>1. CASE Ends(p)
      BY <3>1 DEF Ends, Leave, Goto, Active, IInv, TypeOK
    <3>2. CASE Goes(p)
      BY <3>2 DEF Goes
    <3>. QED
      BY <2>3, <3>1, <3>2, StepKinds DEF IInv
  <2>. QED
    BY <2>1, <2>2, <2>3 DEF Next
<1>3. IInv /\ Alone => OwnReport
  <2> SUFFICES ASSUME IInv, Alone, NEW w \in Active, pc[w] # "init"
               PROVE  tags[w] \cup nalu[w] \cup text[w] \subseteq {req[w]}
    BY DEF OwnReport
  <2>1. tags[w] \subseteq {req[w]}
    BY DEF IInv, TypeOK, FreshTags, Active, Prepared, Labels
  <2>. QED
    BY <2>1 DEF IInv, FreshSlices, FreshText
<1>. QED
  BY <1>1, <1>2, <1>3, Invariance, PTL DEF Spec
=============================================================================
