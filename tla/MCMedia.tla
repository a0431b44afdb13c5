------------------------------ MODULE MCMedia ------------------------------
(* The websocket of an image, the stream of a chat, the image and video      *)
(* requests and the text of an answer in one run.  They share no variable,   *)
(* so that interleaving them adds nothing: a behaviour is one of one module. *)
EXTENDS ImagineStream, UpstreamChat, ImageFlow, VideoFlow, MCTextStream

CONSTANTS t1, t2, t3

MCTokens == {t1, t2, t3}

VARIABLE focus

allVars == <<streamVars, upstreamVars, imageVars, videoVars, textVars, focus>>

MCInit ==
    /\ focus \in {"stream", "upstream", "image", "video", "text"}
    /\ StreamInit
    /\ UpstreamInit /\ (focus # "upstream" => watches)
    /\ ImageInit /\ (focus # "image" => ~edit /\ \A t \in Tokens : quota[t] = 0)
    /\ VideoInit /\ (focus # "video" => ~upscales /\ size = 1)
    /\ IF focus = "text" THEN TextInit
       ELSE /\ kind = "tool" /\ text = << >> /\ toolsOn = FALSE /\ rewrites = FALSE
            /\ broken = FALSE /\ pos = 0
            /\ parser = Parser /\ streamed = Writer /\ blocking = Writer

InStream(A) ==
    focus = "stream" /\ A /\ UNCHANGED <<upstreamVars, imageVars, videoVars, textVars, focus>>
InUpstream(A) ==
    focus = "upstream" /\ A /\ UNCHANGED <<streamVars, imageVars, videoVars, textVars, focus>>
InImage(A) ==
    focus = "image" /\ A /\ UNCHANGED <<streamVars, upstreamVars, videoVars, textVars, focus>>
InVideo(A) ==
    focus = "video" /\ A /\ UNCHANGED <<streamVars, upstreamVars, imageVars, textVars, focus>>
InText(A) ==
    focus = "text" /\ A /\ UNCHANGED <<streamVars, upstreamVars, imageVars, videoVars, focus>>

MCNext ==
    \/ InStream(StreamNext) \/ InUpstream(UpstreamNext) \/ InImage(ImageNext)
    \/ InVideo(VideoNext) \/ InText(TextNext)

(* The fairness of the modules. *)
MCFairness ==
    /\ WF_allVars(InStream(Alive /\ StreamerStep)) /\ WF_allVars(InStream(Alive /\ TimerStep))
    /\ WF_allVars(InStream(Alive /\ ReaderStep)) /\ WF_allVars(InStream(Alive /\ ContextEnds))
    /\ WF_allVars(InUpstream(UpstreamRuns)) /\ WF_allVars(InUpstream(TakerRuns))
    /\ WF_allVars(InImage(RequestStep))
    /\ \A t \in Tokens : WF_allVars(InImage(WorkerStep(t)))
    /\ WF_allVars(InVideo(VideoStep)) /\ WF_allVars(InVideo(DownloadStep))
    /\ WF_allVars(InVideo(SaverStep))

MCSpec == MCInit /\ [][MCNext]_allVars /\ MCFairness
=============================================================================
