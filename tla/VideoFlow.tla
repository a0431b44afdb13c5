----------------------------- MODULE VideoFlow -----------------------------
(* A request for a video: a post, a chat whose stream names the video, the   *)
(* polls for its upscaled form, the copy into the file cache, and the charge *)
(* of the token.  The copy runs in two goroutines: a download that writes    *)
(* into a pipe and the request, which saves what it reads from the pipe and  *)
(* then waits for the end of the download.  An administrator may delete or   *)
(* clear the cached files at any time.                                       *)
(* A file is the number of its blocks; names, prompts and types are left out.*)
EXTENDS Integers

CONSTANTS
    MaxPolls,   \* maxPollAttempts
    Limit,      \* maxAssetDownloadSize, in blocks
    MaxSize     \* bound: blocks of a video

ASSUME VideoAssumption ==
    MaxPolls \in Nat /\ Limit \in Nat \ {0} /\ MaxSize \in Nat \ {0}

VARIABLES
    video,      \* where the request stands
    upscales,   \* it wants a quality its pool has only by upscaling
    polls,      \* made so far
    url,        \* what it would answer: "none", "original", "upscaled", "cached"
    size,       \* of the video
    download,   \* the goroutine of the download
    doneCh,     \* its result: "empty", "ok", "error", "taken"
    pipe,       \* "open", or how the writer closed it
    saver,      \* SaveStream
    written,    \* blocks that went through the pipe
    file,       \* the directory entry: "absent", "present", "deleted"
    expired,    \* the context's timeout passed or the client left
    penalty     \* what was reported of the token

copyVars == <<download, doneCh, pipe, saver, written>>
videoVars == <<video, upscales, polls, url, size, copyVars, file, expired, penalty>>

VideoInit ==
    /\ video = "pick" /\ upscales \in BOOLEAN /\ polls = 0 /\ url = "none"
    /\ size \in 1..MaxSize
    /\ download = "idle" /\ doneCh = "empty" /\ pipe = "open" /\ saver = "idle" /\ written = 0
    /\ file = "absent" /\ expired = FALSE /\ penalty = "none"

Min2(a, b) == IF a < b THEN a ELSE b

---------------------------------------------------------------------------
(* reportTokenError *)
Penalty(err) ==
    CASE err = "transport" -> "none" [] err = "limited" -> "cooling" [] err = "other" -> "failure"

Fails(err) ==
    /\ video' = "failed" /\ penalty' = Penalty(err)
    /\ UNCHANGED <<upscales, polls, url, size, copyVars, file, expired>>

Goes(from, to) ==
    /\ video = from /\ video' = to
    /\ UNCHANGED <<upscales, polls, size, copyVars, file, expired, penalty>>

PickVideoToken ==
    \/ Goes("pick", "seed") /\ UNCHANGED url
    \/ Goes("pick", "refused") /\ UNCHANGED url

(* The reference image is uploaded, the post made, the chat started and its  *)
(* stream read; each may fail, and a stream may end without a video.         *)
SeedPost == Goes("seed", "chat") /\ UNCHANGED url
SeedFails(err) == video \in {"seed", "chat"} /\ Fails(err)

StreamEnds ==
    Goes("chat", IF upscales THEN "upscale" ELSE "cache") /\ url' = "original"

(* Polls go on after a transient error and end with the original at the      *)
(* last attempt, a fatal error or the end of the context.                    *)
Poll ==
    /\ video = "upscale" /\ polls < MaxPolls /\ polls' = polls + 1
    /\ \/ UNCHANGED <<video, url>>
       \/ video' = "cache" /\ url' \in {"original", "upscaled"}
    /\ UNCHANGED <<upscales, size, copyVars, file, expired, penalty>>
PollsEnd ==
    /\ polls = MaxPolls \/ expired
    /\ Goes("upscale", "cache") /\ UNCHANGED url

(* Without a file cache the answer is the url. *)
CacheOff == Goes("cache", "charge") /\ UNCHANGED url

CacheStarts ==
    /\ video = "cache" /\ video' = "save"
    /\ download' = "reading" /\ saver' = "opening"
    /\ UNCHANGED <<upscales, polls, url, size, doneCh, pipe, written, file, expired, penalty>>

(* First the download, then the save; either failing leaves the url.         *)
SaveReturns ==
    /\ video = "save" /\ saver \in {"saved", "failed"} /\ doneCh \in {"ok", "error"}
    /\ doneCh' = "taken" /\ video' = "charge"
    /\ url' = IF doneCh = "ok" /\ saver = "saved" THEN "cached" ELSE url
    /\ UNCHANGED <<upscales, polls, size, download, pipe, saver, written, file, expired, penalty>>

(* Without quota the video is lost. *)
ChargeVideo == Goes("charge", "answered") /\ UNCHANGED url
ChargeFails == Goes("charge", "refused") /\ UNCHANGED url

RequestStays == UNCHANGED <<video, upscales, polls, url, size, expired, penalty>>

---------------------------------------------------------------------------
(* DownloadTo: a write into the pipe ends when it was read, whatever becomes *)
(* of the context.                                                           *)
Downloaded == written = Min2(size, Limit)

ReadBlock ==
    /\ download = "reading" /\ ~Downloaded /\ download' = "writing"
    /\ UNCHANGED <<doneCh, pipe, saver, written, file>> /\ RequestStays

PipeWrite ==
    /\ download = "writing" /\ saver = "copying"
    /\ written' = written + 1 /\ download' = "reading"
    /\ UNCHANGED <<doneCh, pipe, saver, file>> /\ RequestStays

Reports(result) ==
    /\ doneCh = "empty" /\ doneCh' = result
    /\ download' = IF result = "ok" THEN "closing" ELSE "closingError"
    /\ UNCHANGED <<pipe, saver, written, file>> /\ RequestStays

(* Mutant of DownloadEnds: a video cut at the limit counts as complete. *)
DownloadEndsCut == download = "reading" /\ Downloaded /\ Reports("ok")

DownloadEnds ==
    /\ download = "reading" /\ Downloaded
    /\ Reports(IF written >= Limit THEN "error" ELSE "ok")

(* The request is not made, refused or broken off. *)
DownloadFails == download = "reading" /\ Reports("error")

(* Mutant of WriterCloses: the result is handed over before the pipe is closed. *)
WriterClosesLate ==
    /\ download \in {"closing", "closingError"} /\ doneCh = "taken"
    /\ pipe' = IF download = "closing" THEN "eof" ELSE "broken"
    /\ download' = "over"
    /\ UNCHANGED <<doneCh, saver, written, file>> /\ RequestStays

WriterCloses ==
    /\ download \in {"closing", "closingError"}
    /\ pipe' = IF download = "closing" THEN "eof" ELSE "broken"
    /\ download' = "over"
    /\ UNCHANGED <<doneCh, saver, written, file>> /\ RequestStays

(* SaveStream: the directory or the file cannot be made, or the copy ends.   *)
(* What was copied stays, and the pipe is not closed.                        *)
SaveOpens ==
    /\ saver = "opening"
    /\ \/ saver' = "copying" /\ file' = "present"
       \/ saver' = "failed" /\ UNCHANGED file
    /\ UNCHANGED <<download, doneCh, pipe, written>> /\ RequestStays

SaveEnds ==
    /\ saver = "copying" /\ pipe # "open"
    /\ saver' = IF pipe = "eof" THEN "saved" ELSE "failed"
    /\ UNCHANGED <<download, doneCh, pipe, written, file>> /\ RequestStays

DiskFull ==
    /\ saver = "copying" /\ saver' = "failed"
    /\ UNCHANGED <<download, doneCh, pipe, written, file>> /\ RequestStays

(* DeleteFiles or Clear, also of a file that is still written. *)
DeleteFile ==
    /\ file = "present" /\ file' = "deleted"
    /\ UNCHANGED copyVars /\ RequestStays

Expire ==
    /\ ~expired /\ expired' = TRUE
    /\ UNCHANGED <<video, upscales, polls, url, size, copyVars, file, penalty>>

---------------------------------------------------------------------------
VideoStep ==
    \/ PickVideoToken \/ SeedPost \/ StreamEnds \/ Poll \/ PollsEnd \/ CacheOff \/ CacheStarts
    \/ SaveReturns \/ ChargeVideo \/ ChargeFails
    \/ \E err \in {"transport", "limited", "other"} : SeedFails(err)
DownloadStep == ReadBlock \/ PipeWrite \/ DownloadEnds \/ DownloadFails \/ WriterCloses
SaverStep == SaveOpens \/ SaveEnds

VideoNext == VideoStep \/ DownloadStep \/ SaverStep \/ DiskFull \/ DeleteFile \/ Expire

VideoFairness == WF_videoVars(VideoStep) /\ WF_videoVars(DownloadStep) /\ WF_videoVars(SaverStep)
VideoSpec == VideoInit /\ [][VideoNext]_videoVars /\ VideoFairness

---------------------------------------------------------------------------
VideoTypeOK ==
    /\ video \in {"pick", "seed", "chat", "upscale", "cache", "save", "charge", "answered",
                 "refused", "failed"}
    /\ upscales \in BOOLEAN /\ polls \in 0..MaxPolls
    /\ url \in {"none", "original", "upscaled", "cached"} /\ size \in 1..MaxSize
    /\ download \in {"idle", "reading", "writing", "closing", "closingError", "over"}
    /\ doneCh \in {"empty", "ok", "error", "taken"} /\ pipe \in {"open", "eof", "broken"}
    /\ saver \in {"idle", "opening", "copying", "saved", "failed"} /\ written \in 0..Limit
    /\ file \in {"absent", "present", "deleted"} /\ expired \in BOOLEAN
    /\ penalty \in {"none", "cooling", "failure"}

(* A link into the cache is only given to a video that is there as a whole,  *)
(* as long as no administrator deleted it: not to one that was cut by the    *)
(* limit, by upstream or by the disk.                                        *)
CachedWhole == url = "cached" => written = size /\ file # "absent"

(* The request ends, except when the file cannot be written while the        *)
(* download waits for its reader: nothing closes the pipe then.              *)
HangsOnPipe == saver = "failed" /\ download = "writing"
VideoEnds ==
    video = "seed" ~> (video \in {"answered", "refused", "failed"} \/ HangsOnPipe)
=============================================================================
