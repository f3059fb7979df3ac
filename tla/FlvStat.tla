------------------------------- MODULE FlvStat -------------------------------
(***************************************************************************)
(* CheckFlvData (FlvCheck.cpp), model 0: one pass over the tags of a       *)
(* recording that measures its length, its stutters and how far audio and  *)
(* video are apart, and the part of Format2Json (StreamEval.cpp) that      *)
(* divides by the length.                                                  *)
(*                                                                         *)
(* The branches for audio and for video tags differ in constants and in    *)
(* the names of what they update, so they are one action here:             *)
(*     last     audioLastTimeStamp, videoLastTimeStamp                     *)
(*     first    bFirstAudioTag, bFirstVideoTag                             *)
(*     length   mediaLength, videoLength                                   *)
(*     lags     videoOnly (counted at audio tags), audioOnly               *)
(*     abnormal, transmit, invalid   the sizes of [av]Abnormal, ...        *)
(* Times are unsigned and wrap at Modulus, 2^32 in the code.               *)
(***************************************************************************)
EXTENDS Integers, FiniteSets

CONSTANTS
    Modulus,        \* uint32_t arithmetic is modulo this
    Times,          \* the timestamps a tag may carry
    Stutter,        \* AUDIO_STUTTER_NUM and VIDEO_STUTTER_NUM
    StutterTime,    \* STUTTER_TIME
    StutterFps,     \* STUTTER_FPS
    Second,         \* 1000, the milliseconds of a second
    MaxTags         \* bound on the tags of a recording

Kinds == {"audio", "video"}

ASSUME FlvStatAssumption ==
    /\ Modulus \in Nat \ {0}
    /\ Times \subseteq 0..(Modulus - 1)
    /\ Stutter \in [Kinds -> Nat \ {0}]
    /\ StutterTime \in Nat \ {0}
    /\ StutterFps \in Nat \ {0}
    /\ Second \in Nat \ {0}
    /\ MaxTags \in Nat

VARIABLES
    status,     \* "tags", then "checked", then "sent" or "trap"
    seen,       \* how many tags the loop has passed
    last, first, num, length, abnormal, transmit, lags, invalid,
    scriptLast, \* scriptLastTimeStamp
    unknown,    \* whether FLV_VIDEOTAG_UNKNOWN is set
    fps,        \* avFPS
    flags,      \* the flags CheckFlvData returns
    anchor,     \* history: the timestamp the current segment began with
    closed      \* history: what the segments before it amount to

counters == <<num, length, abnormal, transmit, lags, invalid>>
vars == <<status, seen, last, first, counters, scriptLast, unknown, fps, flags,
          anchor, closed>>

Other(k) == CHOOSE o \in Kinds : o # k

Zero == [k \in Kinds |-> 0]
Bump(f, k, b) == IF b THEN [f EXCEPT ![k] = @ + 1] ELSE f

Init ==
    /\ status = "tags"
    /\ seen = 0
    /\ last = Zero
    /\ first = [k \in Kinds |-> TRUE]
    /\ num = Zero /\ length = Zero /\ abnormal = Zero /\ transmit = Zero
    /\ lags = Zero /\ invalid = Zero
    /\ scriptLast = 0
    /\ unknown = FALSE
    /\ fps = 0
    /\ flags = {}
    /\ anchor = Zero
    /\ closed = Zero

\* (int32_t)(a - b) of two uint32_t.
Sub(a, b) ==
    LET d == (a - b) % Modulus IN IF 2 * d < Modulus THEN d ELSE d - Modulus

\* uint32_t addition of an int32_t.
Add(a, d) == (a + d) % Modulus

\* What the current segment of k amounts to.
Span(k) == IF first[k] THEN 0 ELSE last[k] - anchor[k]

ReadTag == status = "tags" /\ seen < MaxTags /\ seen' = seen + 1

\* uint32_t subtraction.
USub(a, b) == (a - b) % Modulus

\* A tag is behind the other kind's last one by StutterTime or more.
BehindUnguarded(k, time) ==
    time # 0 /\ time <= USub(last[Other(k)], StutterTime)

Behind(k, time) ==
    /\ time # 0
    /\ last[Other(k)] > StutterTime
    /\ time <= USub(last[Other(k)], StutterTime)

IsStutterStrict(k, d) == Stutter[k] < d
IsStutter(k, d) == Stutter[k] <= d

\* A tag that carries an action begins new segments of both kinds.
MediaTag(k, time, small, action) ==
    LET isFirst == first[k] \/ action
        begins  == isFirst /\ ~small /\ time >= scriptLast
        d       == Sub(time, last[k])
    IN
    /\ ReadTag
    /\ num' = [num EXCEPT ![k] = @ + 1]
    /\ first' = [j \in Kinds |-> (first[j] \/ action) /\ ~(j = k /\ begins)]
    /\ last' = IF begins \/ ~isFirst THEN [last EXCEPT ![k] = time] ELSE last
    /\ length' = IF isFirst THEN length
                 ELSE [length EXCEPT ![k] = Add(@, d)]
    /\ abnormal' = Bump(abnormal, k, ~isFirst /\ IsStutter(k, d))
    /\ transmit' = Bump(transmit, k, ~isFirst /\ ~IsStutter(k, d) /\ d < 0)
    /\ lags' = Bump(lags, k, ~isFirst /\ Behind(k, time))
    /\ invalid' = Bump(invalid, k, ~isFirst /\ small)
    /\ anchor' = IF begins THEN [anchor EXCEPT ![k] = time] ELSE anchor
    /\ closed' = IF action THEN [j \in Kinds |-> closed[j] + Span(j)]
                 ELSE closed
    /\ UNCHANGED <<status, scriptLast, unknown, fps, flags>>

\* A script tag, onMetaData, begins new segments too.
NoReset == [k \in Kinds |-> first[k]]
Reset == [k \in Kinds |-> TRUE]

ScriptTag(time) ==
    /\ ReadTag
    /\ scriptLast' = time
    /\ first' = Reset
    /\ closed' = [k \in Kinds |-> closed[k] + Span(k)]
    /\ UNCHANGED <<status, last, counters, unknown, fps, flags, anchor>>

UnknownTag(action) ==
    /\ ReadTag
    /\ unknown' = TRUE
    /\ first' = IF action THEN Reset ELSE first
    /\ closed' = IF action THEN [k \in Kinds |-> closed[k] + Span(k)]
                 ELSE closed
    /\ UNCHANGED <<status, last, counters, scriptLast, fps, flags, anchor>>

\* After the loop: the frame rate over the length, and the flags.
Played == IF length["audio"] # 0 THEN length["audio"] ELSE length["video"]

Fps(tags) ==
    IF Played = 0 THEN 0 ELSE (tags * Second) \div Played

Verdict ==
    {f \in {"VIDEO_ONLY", "AUDIO_ONLY", "VIDEOSTAMP", "AUDIOSTAMP",
            "FPS_TOOLOW", "UNKNOWN"} :
        \/ f = "VIDEO_ONLY" /\ lags["audio"] > 0
        \/ f = "AUDIO_ONLY" /\ lags["video"] > 0
        \/ f = "VIDEOSTAMP" /\ abnormal["video"] > 0
        \/ f = "AUDIOSTAMP" /\ abnormal["audio"] > 0
        \/ f = "FPS_TOOLOW" /\ Fps(num["video"]) < StutterFps
        \/ f = "UNKNOWN" /\ unknown}

Check ==
    /\ status = "tags"
    /\ status' = "checked"
    /\ fps' = Fps(num["video"])
    /\ flags' = Verdict
    /\ length' = [length EXCEPT !["audio"] = Played]
    /\ UNCHANGED <<seen, last, first, num, abnormal, transmit, lags, invalid,
                   scriptLast, unknown, anchor, closed>>

\* The bit rate divides by whole seconds, guarded by the milliseconds.
Format2Json ==
    /\ status = "checked"
    /\ status' = IF length["audio"] # 0 /\ length["audio"] \div Second = 0
                 THEN "trap" ELSE "sent"
    /\ UNCHANGED <<seen, last, first, counters, scriptLast, unknown, fps,
                   flags, anchor, closed>>

Next ==
    \/ \E k \in Kinds, time \in Times, small, action \in BOOLEAN :
            MediaTag(k, time, small, action)
    \/ \E time \in Times : ScriptTag(time)
    \/ \E action \in BOOLEAN : UnknownTag(action)
    \/ Check
    \/ Format2Json

Spec == Init /\ [][Next]_vars

-----------------------------------------------------------------------------
\* Type correctness.
TypeOK ==
    /\ status \in {"tags", "checked", "sent", "trap"}
    /\ seen \in 0..MaxTags
    /\ last \in [Kinds -> 0..(Modulus - 1)]
    /\ first \in [Kinds -> BOOLEAN]
    /\ num \in [Kinds -> Nat] /\ abnormal \in [Kinds -> Nat]
    /\ transmit \in [Kinds -> Nat] /\ lags \in [Kinds -> Nat]
    /\ invalid \in [Kinds -> Nat]
    /\ length \in [Kinds -> 0..(Modulus - 1)]
    /\ scriptLast \in 0..(Modulus - 1)
    /\ unknown \in BOOLEAN
    /\ fps \in Nat
    /\ flags \subseteq {"VIDEO_ONLY", "AUDIO_ONLY", "VIDEOSTAMP",
                        "AUDIOSTAMP", "FPS_TOOLOW", "UNKNOWN"}
    /\ anchor \in [Kinds -> 0..(Modulus - 1)]
    /\ closed \in [Kinds -> Int]

\* The running sums of wrapped differences are the spans of the segments: each
\* segment counts from its first effective tag to its last, whatever jumps and
\* wraps there are in between, and nothing is counted across a reset.
LengthTelescopes == status = "tags" => \A k \in Kinds :
    length[k] = (closed[k] + Span(k)) % Modulus

\* A segment never begins before the script tag that opened it.
SegmentsFollowScript == \A k \in Kinds : ~first[k] => anchor[k] >= scriptLast

\* A recording in which no stutter and no disorder of one kind is reported is
\* no longer than its tags of that kind account for; in particular its length
\* has not wrapped.
SmoothBound == status = "tags" => \A k \in Kinds :
    abnormal[k] = 0 /\ transmit[k] = 0 /\ num[k] > 0 =>
        length[k] <= (Stutter[k] - 1) * (num[k] - 1)

\* A tag counted as out of sync really is StutterTime behind the other kind's
\* last one: the unsigned subtraction it is judged by (FlvCheck.cpp:610) never
\* wraps, not even while the other kind has only begun.
LagsAreReal == [][\A k \in Kinds :
    lags'[k] > lags[k] => last'[k] + StutterTime <= last[Other(k)]]_vars

\* The doc of Format2Json (StreamEval.cpp:189): the result of a check is
\* formatted as JSON.
AlwaysFormatted == status # "trap"
=============================================================================
