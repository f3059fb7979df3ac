------------------------------- MODULE Session -------------------------------
(***************************************************************************)
(* The FastCGI request loop of main.cpp together with the process-wide     *)
(* state it drives in StreamEval.cpp: the tag vector s_vTagsInfo and the   *)
(* handle s_H264File of the scratch file H264_FILE_NAME.                   *)
(*                                                                         *)
(* A worker is one process running main(); it serves its requests one      *)
(* after the other.  Workers share nothing but the directory: the scratch  *)
(* file has one fixed name, and the media and result files are named by    *)
(* the second in which the request arrived.  File contents are abstracted  *)
(* to their provenance, the set of requests that wrote into them since the *)
(* last truncation.                                                        *)
(***************************************************************************)
EXTENDS Naturals, FiniteSets

CONSTANTS
    Workers,    \* the server processes
    Inodes,     \* identities of scratch files, linked or unlinked
    Seconds,    \* readings of the wall clock, at file-name resolution
    MaxRetry,   \* bound on the suffix the fopen loop appends to a name
    MaxReq,     \* bound on the requests served in a behaviour
    MaxFds,     \* the descriptors a process may hold for stdout and files
    None

ASSUME SessionAssumption ==
    /\ MaxReq \in Nat
    /\ MaxRetry \in Nat
    /\ MaxFds \in Nat
    /\ MaxFds >= 3                    \* stdout, scratch and media file
    /\ None \notin Inodes
    /\ None \notin Seconds \X (0..MaxRetry)

Reqs   == 1..MaxReq
Stamps == Seconds \X (0..MaxRetry)
Modes  == {"download", "existing"}     \* model 0, 1 and default, or model 2
Forms  == {"json", "text"}

VARIABLES
    pc,         \* where each worker is in main()
    req,        \* the request it serves
    ask,        \* that request's mode and form, as a pair
    stamp,      \* the file names generated for it: second and retry suffix
    h264,       \* s_H264File: the inode it has open, or None
    media,      \* mediaFile: the name of the file it has open, or None
    uiRet,      \* the outcome of the download: "ok" or "error"
    tags,       \* s_vTagsInfo: the requests whose tags are in the vector
    nalu,       \* vNalu: the requests whose slices were found
    wrote,      \* history: the parse put slices in the scratch file
    text,       \* the text report read back: the requests that wrote it
    leaked,     \* media handles no variable refers to any more
    stdout,     \* whether the stream stdout has a descriptor
    lost,       \* history: replies given up because freopen failed
    overlap,    \* history: the requests active at some time during req
    temp,       \* the inode H264_FILE_NAME is linked to, or None
    inode,      \* the contents of the scratch files
    onDisk,     \* the media files that exist
    disk,       \* the contents of the media files
    result,     \* the contents of the result files
    nextReq     \* the next request to arrive

localVars   == <<req, ask, overlap, stamp, uiRet, nalu, wrote, text>>
scratchVars == <<h264, temp, inode>>
mediaVars   == <<media, leaked, onDisk, disk>>
replyVars   == <<result, stdout, lost>>
vars == <<pc, nextReq, localVars, scratchVars, mediaVars, tags, replyVars>>

Active == {w \in Workers : pc[w] \notin {"idle", "exit"}}

Goto(w, label) == pc' = [pc EXCEPT ![w] = label]

Init ==
    /\ pc = [w \in Workers |-> "idle"]
    /\ req = [w \in Workers |-> 0]
    /\ ask = [w \in Workers |-> <<"download", "json">>]
    /\ stamp = [w \in Workers |-> None]
    /\ h264 = [w \in Workers |-> None]
    /\ media = [w \in Workers |-> None]
    /\ uiRet = [w \in Workers |-> "ok"]
    /\ tags = [w \in Workers |-> {}]
    /\ nalu = [w \in Workers |-> {}]
    /\ wrote = [w \in Workers |-> FALSE]
    /\ text = [w \in Workers |-> {}]
    /\ leaked = [w \in Workers |-> 0]
    /\ stdout = [w \in Workers |-> TRUE]
    /\ lost = [w \in Workers |-> 0]
    /\ overlap = [w \in Workers |-> {}]
    /\ temp = None
    /\ inode = [i \in Inodes |-> {}]
    /\ onDisk = {}
    /\ disk = [s \in Stamps |-> {}]
    /\ result = [s \in Stamps |-> {}]
    /\ nextReq = 1

-----------------------------------------------------------------------------
(* Descriptors.  fopen fails for want of a descriptor or for any reason of *)
(* the file system; it succeeds only when a descriptor is left.            *)

Held(f, w) == IF f[w] = None THEN 0 ELSE 1

Files(w) == leaked[w] + Held(h264, w) + Held(media, w)
Fds(w) == Files(w) + IF stdout[w] THEN 1 ELSE 0

CanOpen(w) == Fds(w) < MaxFds

\* freopen closes stdout before it opens the file.
CanReopen(w) == Files(w) < MaxFds

\* Opening for "wb+" or "w+" empties the file.
Emptied(f, name) == [f EXCEPT ![name] = {}]

\* The memory and the handles of a request.
KeepTags(w) == tags' = tags
ClearTags(w) == tags' = [tags EXCEPT ![w] = {}]

KeepMedia(w) == media' = media
CloseMedia(w) == media' = [media EXCEPT ![w] = None]

\* mediaFile is declared outside the loop: assigning it drops what it held.
DropMedia(w) == leaked' = [leaked EXCEPT ![w] = @ + Held(media, w)]

\* An inode that no name and no open handle refers to.
Unused(i) == i # temp /\ \A v \in Workers : h264[v] # i

\* fopen(H264_FILE_NAME, "wb+"): truncate the linked inode or link a new one.
LinkTemp(w, i) ==
    /\ i = temp \/ (temp = None /\ Unused(i))
    /\ temp' = i
    /\ inode' = Emptied(inode, i)
    /\ h264' = [h264 EXCEPT ![w] = i]

\* fclose followed by remove(H264_FILE_NAME), which takes whatever inode the
\* name has by now, and fails when there is none or the system refuses.
CloseTemp(w, removed) ==
    /\ removed => temp # None
    /\ temp' = IF removed THEN None ELSE temp
    /\ h264' = [h264 EXCEPT ![w] = None]
    /\ UNCHANGED inode

-----------------------------------------------------------------------------
(* FCGI_Accept.  The requests served at the same time as this one are      *)
(* remembered, on both sides, in overlap.                                  *)

Accept(w) ==
    /\ pc[w] = "idle"
    /\ nextReq <= MaxReq
    /\ Goto(w, "init")
    /\ nextReq' = nextReq + 1
    /\ req' = [req EXCEPT ![w] = nextReq]
    /\ \E m \in Modes, f \in Forms : ask' = [ask EXCEPT ![w] = <<m, f>>]
    /\ overlap' = [v \in Workers |->
            IF v = w THEN {nextReq} \cup {req[u] : u \in Active}
            ELSE IF v \in Active THEN overlap[v] \cup {nextReq}
            ELSE overlap[v]]
    /\ UNCHANGED <<stamp, uiRet, nalu, wrote, text, scratchVars, mediaVars,
                   tags, replyVars>>

\* The end of the loop body, by a continue or not: its locals go.
Leave(w, label) ==
    /\ Goto(w, label)
    /\ req' = [req EXCEPT ![w] = 0]
    /\ ask' = [ask EXCEPT ![w] = <<"download", "json">>]
    /\ overlap' = [overlap EXCEPT ![w] = {}]
    /\ stamp' = [stamp EXCEPT ![w] = None]
    /\ uiRet' = [uiRet EXCEPT ![w] = "ok"]
    /\ nalu' = [nalu EXCEPT ![w] = {}]
    /\ wrote' = [wrote EXCEPT ![w] = FALSE]
    /\ text' = [text EXCEPT ![w] = {}]

\* The process ends, between requests when FCGI_Accept returns a negative
\* number, or at any time by a signal: its memory and its handles go, the
\* files stay as they are.
Exit(w) ==
    /\ pc[w] # "exit"
    /\ Leave(w, "exit")
    /\ h264' = [h264 EXCEPT ![w] = None]
    /\ media' = [media EXCEPT ![w] = None]
    /\ ClearTags(w)
    /\ leaked' = [leaked EXCEPT ![w] = 0]
    /\ lost' = [lost EXCEPT ![w] = 0]
    /\ stdout' = [stdout EXCEPT ![w] = TRUE]
    /\ UNCHANGED <<nextReq, temp, inode, onDisk, disk, result>>

\* "Please inform chenyu to restart".
Restart(w) ==
    /\ pc[w] = "exit"
    /\ Goto(w, "idle")
    /\ UNCHANGED <<nextReq, localVars, scratchVars, mediaVars, tags, replyVars>>

-----------------------------------------------------------------------------
(* Init(), called Initialise here, and the continue when it fails.         *)

\* A handle left open by an earlier request is closed and its name removed.
InitialiseReuse(w) ==
    /\ pc[w] = "init"
    /\ h264[w] # None
    /\ ClearTags(w)
    /\ CloseTemp(w, TRUE)
    /\ Goto(w, "open264")
    /\ UNCHANGED <<nextReq, localVars, mediaVars, replyVars>>

InitialiseFails(w) ==
    /\ pc[w] = "init"
    /\ h264[w] # None
    /\ ClearTags(w)
    /\ CloseTemp(w, FALSE)
    /\ Leave(w, "idle")
    /\ UNCHANGED <<nextReq, mediaVars, replyVars>>

InitialiseFresh(w) ==
    /\ pc[w] = "init"
    /\ h264[w] = None
    /\ ClearTags(w)
    /\ Goto(w, "open264")
    /\ UNCHANGED <<nextReq, localVars, scratchVars, mediaVars, replyVars>>

OpenTemp(w) ==
    /\ pc[w] = "open264"
    /\ CanOpen(w)
    /\ \E i \in Inodes : LinkTemp(w, i)
    /\ Goto(w, "name")
    /\ UNCHANGED <<nextReq, localVars, mediaVars, tags, replyVars>>

OpenTempFails(w) ==
    /\ pc[w] = "open264"
    /\ Leave(w, "idle")
    /\ UNCHANGED <<nextReq, scratchVars, mediaVars, tags, replyVars>>

-----------------------------------------------------------------------------
(* The media file.                                                         *)

\* Both names are made from the second in which the request is handled.
NameFiles(w) ==
    /\ pc[w] = "name"
    /\ \E s \in Seconds : stamp' = [stamp EXCEPT ![w] = <<s, 0>>]
    /\ Goto(w, IF ask[w][1] = "download" THEN "openMedia" ELSE "openExisting")
    /\ UNCHANGED <<nextReq, req, ask, overlap, uiRet, nalu, wrote, text,
                   scratchVars, mediaVars, tags, replyVars>>

\* fopen(mediaFileName, "wb+"): creates the file or truncates the one there.
OpenMedia(w) ==
    /\ pc[w] = "openMedia"
    /\ CanOpen(w)
    /\ DropMedia(w)
    /\ media' = [media EXCEPT ![w] = stamp[w]]
    /\ onDisk' = onDisk \cup {stamp[w]}
    /\ disk' = Emptied(disk, stamp[w])
    /\ Goto(w, "download")
    /\ UNCHANGED <<nextReq, localVars, scratchVars, tags, replyVars>>

\* The loop tries again under the next suffix, for as long as fopen fails.
NextSuffix(n) == IF n < MaxRetry THEN n + 1 ELSE n

OpenMediaRetry(w) ==
    /\ pc[w] = "openMedia"
    /\ DropMedia(w)
    /\ media' = [media EXCEPT ![w] = None]
    /\ stamp' = [stamp EXCEPT ![w][2] = NextSuffix(@)]
    /\ UNCHANGED <<pc, nextReq, req, ask, overlap, uiRet, nalu, wrote, text,
                   scratchVars, onDisk, disk, tags, replyVars>>

\* Model 2 evaluates a file that is already there.
OpenExisting(w) ==
    /\ pc[w] = "openExisting"
    /\ CanOpen(w)
    /\ DropMedia(w)
    /\ \E name \in onDisk : media' = [media EXCEPT ![w] = name]
    /\ Goto(w, "parse")
    /\ UNCHANGED <<nextReq, localVars, scratchVars, onDisk, disk, tags, replyVars>>

OpenExistingFails(w) ==
    /\ pc[w] = "openExisting"
    /\ DropMedia(w)
    /\ media' = [media EXCEPT ![w] = None]
    /\ Goto(w, "cleanup")
    /\ UNCHANGED <<nextReq, localVars, scratchVars, onDisk, disk, tags, replyVars>>

\* Stream2File writes as the stream arrives, and returns.
Download(w) ==
    /\ pc[w] = "download"
    /\ disk' = [disk EXCEPT ![media[w]] = @ \cup {req[w]}]
    /\ UNCHANGED <<pc, nextReq, localVars, scratchVars, media, leaked, onDisk,
                   tags, replyVars>>

DownloadEnd(w) ==
    /\ pc[w] = "download"
    /\ \E r \in {"ok", "error"} : uiRet' = [uiRet EXCEPT ![w] = r]
    /\ Goto(w, "parse")
    /\ UNCHANGED <<nextReq, req, ask, overlap, stamp, nalu, wrote, text,
                   scratchVars, mediaVars, tags, replyVars>>

-----------------------------------------------------------------------------
(* ParseMediaPackage, ParseMediaSlice and the report.                      *)

\* The tags go into the vector and the NAL units into the scratch file.  A
\* file may have none of either.
ParseMediaPackage(w) ==
    /\ pc[w] = "parse"
    /\ uiRet[w] = "ok"
    /\ \E T \in SUBSET {req[w]}, S \in SUBSET {req[w]} :
        /\ tags' = [tags EXCEPT ![w] = @ \cup T]
        /\ inode' = [inode EXCEPT ![h264[w]] = @ \cup S]
        /\ wrote' = [wrote EXCEPT ![w] = S # {}]
    /\ Goto(w, "slice")
    /\ UNCHANGED <<nextReq, req, ask, overlap, stamp, uiRet, nalu, text, h264,
                   temp, mediaVars, replyVars>>

SkipParse(w) ==
    /\ pc[w] = "parse"
    /\ uiRet[w] = "error"
    /\ Goto(w, "report")
    /\ UNCHANGED <<nextReq, localVars, scratchVars, mediaVars, tags, replyVars>>

\* It rewinds the scratch file first.
SlicesAtEnd(w) == {}
SlicesFromStart(w) == inode[h264[w]]

ParseMediaSlice(w) ==
    /\ pc[w] = "slice"
    /\ nalu' = [nalu EXCEPT ![w] = SlicesFromStart(w)]
    /\ Goto(w, "report")
    /\ UNCHANGED <<nextReq, req, ask, overlap, stamp, uiRet, wrote, text,
                   scratchVars, mediaVars, tags, replyVars>>

ReportJson(w) ==
    /\ pc[w] = "report"
    /\ ask[w][2] = "json"
    /\ Goto(w, "cleanup")
    /\ UNCHANGED <<nextReq, localVars, scratchVars, mediaVars, tags, replyVars>>

\* freopen(resultFileName, "w+", stdout): truncates the result file.  When it
\* fails, stdout is closed.
OpenResult(w) ==
    /\ pc[w] = "report"
    /\ ask[w][2] = "text"
    /\ CanReopen(w)
    /\ stdout' = [stdout EXCEPT ![w] = TRUE]
    /\ result' = Emptied(result, stamp[w])
    /\ Goto(w, "text")
    /\ UNCHANGED <<nextReq, localVars, scratchVars, mediaVars, tags, lost>>

\* The continue that skips fclose(mediaFile) and UnInit().
OpenResultFails(w) ==
    /\ pc[w] = "report"
    /\ ask[w][2] = "text"
    /\ stdout' = [stdout EXCEPT ![w] = FALSE]
    /\ lost' = [lost EXCEPT ![w] = @ + 1]
    /\ Leave(w, "idle")
    /\ UNCHANGED <<nextReq, scratchVars, mediaVars, tags, result>>

\* Format2Text and fclose(resultFile), which is stdout.
Format2Text(w) ==
    /\ pc[w] = "text"
    /\ stdout' = [stdout EXCEPT ![w] = FALSE]
    /\ result' = [result EXCEPT ![stamp[w]] = @ \cup {req[w]}]
    /\ Goto(w, "readback")
    /\ UNCHANGED <<nextReq, localVars, scratchVars, mediaVars, tags, lost>>

\* The fstream over the result file, if it can be opened.
ReadBack(w) ==
    /\ pc[w] = "readback"
    /\ \/ CanOpen(w) /\ text' = [text EXCEPT ![w] = result[stamp[w]]]
       \/ text' = text
    /\ Goto(w, "cleanup")
    /\ UNCHANGED <<nextReq, req, ask, overlap, stamp, uiRet, nalu, wrote,
                   scratchVars, mediaVars, tags, replyVars>>

\* fclose(mediaFile) and UnInit(), whose result main() ignores.
Cleanup(w) ==
    /\ pc[w] = "cleanup"
    /\ CloseMedia(w)
    /\ ClearTags(w)
    /\ \E removed \in BOOLEAN : CloseTemp(w, removed)
    /\ Leave(w, "idle")
    /\ UNCHANGED <<nextReq, leaked, onDisk, disk, replyVars>>

-----------------------------------------------------------------------------
\* What main() does by itself, whatever the network and the file system do: a
\* transfer may last for ever, and so may the loop around fopen.
OwnStep(w) ==
    \/ InitialiseReuse(w) \/ InitialiseFails(w) \/ InitialiseFresh(w)
    \/ OpenTemp(w) \/ OpenTempFails(w)
    \/ NameFiles(w)
    \/ OpenExisting(w) \/ OpenExistingFails(w)
    \/ ParseMediaPackage(w) \/ SkipParse(w) \/ ParseMediaSlice(w)
    \/ ReportJson(w)
    \/ OpenResult(w) \/ OpenResultFails(w) \/ Format2Text(w) \/ ReadBack(w)
    \/ Cleanup(w)

Serve(w) ==
    \/ OwnStep(w)
    \/ OpenMedia(w) \/ OpenMediaRetry(w)
    \/ Download(w) \/ DownloadEnd(w)

Next == \E w \in Workers :
    Accept(w) \/ Exit(w) \/ Restart(w) \/ Serve(w)

Spec == Init /\ [][Next]_vars

\* The process keeps running.
Fairness == \A w \in Workers : WF_vars(OwnStep(w))

FairSpec == Spec /\ Fairness

-----------------------------------------------------------------------------
Labels == {"idle", "exit", "init", "open264", "name", "openMedia",
           "openExisting", "download", "parse", "slice", "report", "text",
           "readback", "cleanup"}

\* mediaFile still holds what the previous request left in it, if anything.
BeforeMedia == {"idle", "init", "open264", "name", "openMedia",
                "openExisting"}

\* The states in which Init() has succeeded for this request.
Prepared == Labels \ {"idle", "exit", "init", "open264"}

\* Type correctness.
TypeOK ==
    /\ pc \in [Workers -> Labels]
    /\ req \in [Workers -> 0..MaxReq]
    /\ ask \in [Workers -> Modes \X Forms]
    /\ stamp \in [Workers -> Stamps \cup {None}]
    /\ h264 \in [Workers -> Inodes \cup {None}]
    /\ media \in [Workers -> Stamps \cup {None}]
    /\ uiRet \in [Workers -> {"ok", "error"}]
    /\ tags \in [Workers -> SUBSET Reqs]
    /\ nalu \in [Workers -> SUBSET Reqs]
    /\ wrote \in [Workers -> BOOLEAN]
    /\ text \in [Workers -> SUBSET Reqs]
    /\ leaked \in [Workers -> Nat]
    /\ stdout \in [Workers -> BOOLEAN]
    /\ lost \in [Workers -> Nat]
    /\ overlap \in [Workers -> SUBSET Reqs]
    /\ temp \in Inodes \cup {None}
    /\ inode \in [Inodes -> SUBSET Reqs]
    /\ onDisk \in SUBSET Stamps
    /\ disk \in [Stamps -> SUBSET Reqs]
    /\ result \in [Stamps -> SUBSET Reqs]
    /\ nextReq \in 1..(MaxReq + 1)

\* The tag vector outlives a request that left by a continue; once Init() has
\* cleared it, it holds nothing but tags of the request being served.
FreshTags == \A w \in Workers :
    pc[w] \in Prepared \cup {"open264"} => tags[w] \subseteq {req[w]}

\* What ParseMediaSlice finds in the scratch file, which every process opens
\* by the same name, was put there by this request or by one served at the
\* same time: never by an earlier one, whatever path that one left by.
FreshSlices == \A w \in Active : nalu[w] \subseteq overlap[w]

\* The media file a request downloads into, whose name an earlier request of
\* the same second may have used, holds no older data.
FreshMedia == \A w \in Active :
    ask[w][1] = "download" /\ pc[w] \notin BeforeMedia =>
        disk[media[w]] \subseteq overlap[w]

\* The text report sent back was written by this request or by one served at
\* the same time under the same name.
FreshText == \A w \in Active : text[w] \subseteq overlap[w]

\* Nothing an earlier request left in the tag vector, the scratch file, a media
\* file or a result file reaches a report, whichever of main()'s paths it left
\* by: only requests served at the same time can.
FreshReports == FreshTags /\ FreshSlices /\ FreshMedia /\ FreshText

\* A request that no other request overlaps evaluates all the slices its parse
\* wrote: the processes' shared scratch name costs nothing when they do not
\* overlap, even if one of them died with the file open.
NothingLost == \A w \in Active :
    /\ pc[w] \in {"report", "text", "readback", "cleanup"}
    /\ wrote[w]
    /\ overlap[w] = {req[w]}
    => nalu[w] = {req[w]}

\* With one process a report is made of this request's data alone.
OwnReport == \A w \in Active :
    tags[w] \cup nalu[w] \cup text[w] \subseteq {req[w]} \/ pc[w] = "init"

\* Media handles are lost one for each reply given up at freopen, the first of
\* them while mediaFile still refers to it, and in no other way.
LeakAccounting == \A w \in Workers :
    lost[w] = leaked[w] + IF pc[w] \in BeforeMedia THEN Held(media, w) ELSE 0

\* The scratch handle survives a request only if its reply was given up.
ScratchClosed == \A w \in Workers :
    pc[w] = "idle" /\ lost[w] = 0 => h264[w] = None

\* Every handle main() opens is closed, given up with a reply at freopen, or
\* still in mediaFile or s_H264File.
HandlesKept == LeakAccounting /\ ScratchClosed

\* A process runs out of descriptors only through replies given up at freopen:
\* the opens of the next request, the one of the endless loop among them, find
\* a descriptor as long as MaxFds - 2 of them have not been, and freopen itself
\* as long as MaxFds - 3 have not.  Stdout, closed by the first text report,
\* leaves its descriptor to the files.
DescriptorsLast == \A w \in Workers :
    /\ pc[w] \in {"open264", "openMedia", "openExisting"} =>
            CanOpen(w) \/ lost[w] + 2 > MaxFds
    /\ pc[w] = "report" => CanReopen(w) \/ lost[w] + 3 > MaxFds

\* Short of that, every request is answered or dies with its process, unless
\* its transfer never ends or fopen refuses the media file for ever although a
\* descriptor is left.
Answered == \A w \in Workers :
    (w \in Active /\ lost[w] + 2 <= MaxFds) ~>
        \/ w \notin Active
        \/ [](pc[w] = "download")
        \/ [](pc[w] = "openMedia" /\ CanOpen(w))

=============================================================================
