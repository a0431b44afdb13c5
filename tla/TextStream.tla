----------------------------- MODULE TextStream -----------------------------
(* The text of an answer on its way to the client.  Upstream sends it in     *)
(* pieces cut anywhere; parsers on the way drop tagged passages              *)
(* (dropTagParser), turn tool usage cards into lines (toolUsageCardParser)   *)
(* and collect tool calls (streamToolCallParser); at the end the adapter of  *)
(* a streamed answer and the collector of a blocking one parse the calls     *)
(* again and put reasoning between think tags.  Links to images of upstream  *)
(* are rewritten to the images: event by event, before the adapter, in a     *)
(* streamed answer, and in the finished text of a blocking one.              *)
(* A text is a sequence of symbols.  Of them only ">" and "/", which close a *)
(* start tag, "x", which is text of a card, "r", which begins reasoning, and *)
(* the two halves of a link have a meaning of their own.  The line breaks    *)
(* around the line of a card are left out.                                   *)
EXTENDS Integers, Sequences, FiniteSetsExt, SequencesExt

CONSTANTS
    Kinds,              \* the parsers to look at: "drop", "card", "tool", "answer"
    Symbols,
    StartTag, EndTag,
    ValidCalls,         \* the blocks that are a tool call
    LinkHead, Link,     \* the halves of a link to an image: "![id](" and "users/...)"
    Image,              \* what stands for Link when the image was downloaded
    Texts               \* the answers of upstream, for each kind

ASSUME TextAssumption ==
    /\ Kinds \subseteq {"drop", "card", "tool", "answer"}
    /\ {">", "/", "x", "r", "(", ")", "line"} \subseteq Symbols
    /\ {StartTag, EndTag} \subseteq Seq(Symbols) \ {<< >>}
    /\ ValidCalls \subseteq Seq(Symbols)
    /\ {LinkHead, Link, Image} \subseteq Symbols /\ Link # Image
    /\ \A tag \in {StartTag, EndTag} : \A i \in DOMAIN tag : tag[i] \notin {Link, Image}
    /\ DOMAIN Texts = Kinds /\ \A k \in Kinds : Texts[k] \subseteq Seq(Symbols)

VARIABLES
    kind, text,
    pos,        \* symbols that have arrived
    parser,     \* the parser in the flow
    toolsOn,    \* the request offers tools
    rewrites,   \* links are rewritten, and the downloads succeed
    streamed,   \* the adapter of a streamed answer
    blocking,   \* the collector of a blocking one
    broken      \* history: a link was in no single content of an event

textVars == <<kind, text, pos, parser, toolsOn, rewrites, streamed, blocking, broken>>

Parser == [inside |-> FALSE, partial |-> << >>, buffer |-> << >>, out |-> << >>, calls |-> << >>]
Writer == [parser |-> Parser, open |-> FALSE, out |-> << >>, calls |-> << >>]

TextInit ==
    /\ kind \in Kinds /\ text \in Texts[kind]
    /\ toolsOn \in IF kind = "answer" THEN BOOLEAN ELSE {FALSE}
    /\ rewrites \in IF kind = "answer" THEN BOOLEAN ELSE {FALSE}
    /\ broken = FALSE
    /\ pos = 0 /\ parser = Parser /\ streamed = Writer /\ blocking = Writer

---------------------------------------------------------------------------
From(data, i) == SubSeq(data, i, Len(data))
IsAt(data, tag, i) == SubSeq(data, i, i + Len(tag) - 1) = tag

\* 0 when the tag does not occur, else its first place.
Index(data, tag) ==
    LET places == {i \in 1..(Len(data) - Len(tag) + 1) : IsAt(data, tag, i)} IN
    IF places = {} THEN 0 ELSE Min(places)

SuffixPrefixLength(data, tag) ==
    Max({0} \cup {k \in 1..(Len(tag) - 1) :
                     k <= Len(data) /\ From(data, Len(data) - k + 1) = SubSeq(tag, 1, k)})

\* SplitByTagPrefix: what can be passed on, and what may be the begin of the tag.
Clean(data, tag) == SubSeq(data, 1, Len(data) - SuffixPrefixLength(data, tag))
Carry(data, tag) == From(data, Len(data) - SuffixPrefixLength(data, tag) + 1)

---------------------------------------------------------------------------
(* A turn of the loop of a parser: the parser, and the data that is left. *)
Turned(p, rest) == [parser |-> p, rest |-> rest]
Ended(p) == Turned(p, << >>)

\* What may be the begin of a start tag waits, the rest is passed on.
PassOn(p, data) ==
    Ended([p EXCEPT !.out = @ \o Clean(data, StartTag), !.partial = Carry(data, StartTag)])

(* consumePlainText and consumeTagContent of dropTagParser. *)
Drop(p, data) ==
    LET end == Index(data, EndTag)
        start == Index(data, StartTag)
        tag == From(data, start)
        close == Index(tag, <<">">>)
        q == [p EXCEPT !.out = @ \o SubSeq(data, 1, start - 1)]
    IN
    CASE p.inside /\ end = 0 -> Ended([p EXCEPT !.partial = Carry(data, EndTag)])
      [] p.inside /\ end > 0 ->
            Turned([p EXCEPT !.inside = FALSE], From(data, end + Len(EndTag)))
      [] ~p.inside /\ start = 0 -> PassOn(p, data)
      [] ~p.inside /\ start > 0 /\ close = 0 -> Ended([q EXCEPT !.partial = tag])
      [] ~p.inside /\ start > 0 /\ close > 0 ->
            Turned([q EXCEPT !.inside = ~IsSuffix(<<"/", ">">>, SubSeq(tag, 1, close))],
                   From(tag, close + 1))

DropFlush(p) == IF p.inside THEN p.out ELSE p.out \o p.partial

(* The same of toolUsageCardParser; it looks for the end tag in what follows *)
(* the start tag, but keeps no begin of it.  A card without content has no   *)
(* line.                                                                     *)
Line(raw) == IF Contains(raw, "x") THEN <<"line">> ELSE << >>

Card(p, data) ==
    LET end == Index(data, EndTag)
        start == Index(data, StartTag)
        card == From(data, start)
        close == Index(card, EndTag)
        q == [p EXCEPT !.out = @ \o SubSeq(data, 1, start - 1)]
    IN
    CASE p.inside /\ end = 0 ->
            Ended([p EXCEPT !.buffer = @ \o Clean(data, EndTag), !.partial = Carry(data, EndTag)])
      [] p.inside /\ end > 0 ->
            Turned([p EXCEPT !.inside = FALSE, !.buffer = << >>,
                             !.out = @ \o Line(p.buffer \o SubSeq(data, 1, end - 1))],
                   From(data, end + Len(EndTag)))
      [] ~p.inside /\ start = 0 -> PassOn(p, data)
      [] ~p.inside /\ start > 0 /\ close = 0 -> Ended([q EXCEPT !.inside = TRUE, !.buffer = card])
      [] ~p.inside /\ start > 0 /\ close > 0 ->
            Turned([q EXCEPT !.out = @ \o Line(SubSeq(card, 1, close - 1))],
                   From(card, close + Len(EndTag)))

CardFlush(p) == DropFlush(p)

(* A text with the links that its images stand for. *)
Plain(t) == [i \in DOMAIN t |-> IF t[i] = Image THEN Link ELSE t[i]]

(* ParseToolCallBlock of a block that is not blank; an image in it is as good *)
(* as a link, both are characters of a JSON string.                           *)
IsCall(raw) == Plain(raw) \in ValidCalls

(* Mutant of ToolContent: the begin of an end tag is not kept. *)
ToolContentUnkept(p, data) ==
    [p EXCEPT !.buffer = @ \o data, !.partial = << >>]

ToolContent(p, data) ==
    [p EXCEPT !.buffer = @ \o Clean(data, EndTag), !.partial = Carry(data, EndTag)]

(* streamToolCallParser, and toolCallStreamParser of the HTTP adapter. *)
Tool(p, data) ==
    LET end == Index(data, EndTag)
        start == Index(data, StartTag)
        raw == p.buffer \o SubSeq(data, 1, end - 1)
    IN
    CASE p.inside /\ end = 0 -> Ended(ToolContent(p, data))
      [] p.inside /\ end > 0 ->
            Turned([p EXCEPT !.inside = FALSE, !.buffer = << >>,
                             !.calls = IF IsCall(raw) THEN Append(@, raw) ELSE @,
                             !.out = IF IsCall(raw) \/ raw = << >> THEN @
                                     ELSE @ \o StartTag \o raw \o EndTag],
                   From(data, end + Len(EndTag)))
      [] ~p.inside /\ start = 0 -> PassOn(p, data)
      [] ~p.inside /\ start > 0 ->
            Turned([p EXCEPT !.inside = TRUE, !.out = @ \o SubSeq(data, 1, start - 1)],
                   From(data, start + Len(StartTag)))

\* The rest of a call is tried too, and is text when it is none.
ToolFlush(p) ==
    LET raw == p.buffer \o p.partial IN
    [Parser EXCEPT
        !.calls = IF p.inside /\ IsCall(raw) THEN Append(p.calls, raw) ELSE p.calls,
        !.out = CASE ~p.inside -> p.out \o p.partial
                  [] p.inside /\ (raw = << >> \/ IsCall(raw)) -> p.out
                  [] p.inside /\ raw # << >> /\ ~IsCall(raw) -> p.out \o StartTag \o raw]

(* The loop of a parser, as long as there is data; every turn takes some. *)
Turn(k, s) ==
    CASE s.rest = << >> -> s
      [] s.rest # << >> /\ k = "drop" -> Drop(s.parser, s.rest)
      [] s.rest # << >> /\ k = "card" -> Card(s.parser, s.rest)
      [] s.rest # << >> /\ k \in {"tool", "answer"} -> Tool(s.parser, s.rest)

Loop(k, p, data) ==
    LET after[n \in Nat] == IF n = 0 THEN Turned(p, data) ELSE Turn(k, after[n - 1])
    IN after

\* The code returns at once when the piece is empty; what waits would wait again.
Feed(k, p, chunk) ==
    LET data == p.partial \o chunk
    IN Loop(k, [p EXCEPT !.partial = << >>], data)[Len(data)].parser

Flush(k, p) ==
    CASE k = "drop" -> <<DropFlush(p), << >> >>
      [] k = "card" -> <<CardFlush(p), << >> >>
      [] k \in {"tool", "answer"} -> <<ToolFlush(p).out, ToolFlush(p).calls>>

---------------------------------------------------------------------------
(* The HTTP adapters.  Push returns what a piece added. *)
Fresh(p) == [p EXCEPT !.out = << >>, !.calls = << >>]
Push(p, chunk) == Feed("tool", Fresh(p), chunk)

Reasoning(w, t) ==
    [w EXCEPT !.out = @ \o (IF w.open THEN << >> ELSE <<"(">>) \o t, !.open = TRUE]

Content(w, t) ==
    IF t = << >> THEN w
    ELSE [w EXCEPT !.out = @ \o (IF w.open THEN <<")">> ELSE << >>) \o t, !.open = FALSE]

\* formatToolCallsAsText
CallsAsText(calls) == FlattenSeq([i \in DOMAIN calls |-> StartTag \o calls[i] \o EndTag])

(* rewriteContent: whole links become images, a failed download leaves one.  *)
Rewrite(t) ==
    [i \in DOMAIN t |-> IF rewrites /\ i > 1 /\ t[i] = Link /\ t[i - 1] = LinkHead
                        THEN Image ELSE t[i]]

(* An event with text t and some calls; without tools the calls are text.    *)
Event(w, t, calls) ==
    IF ~toolsOn THEN Content(Content(w, t), CallsAsText(calls))
    ELSE LET p == Push(w.parser, t) IN
         [Content(w, p.out) EXCEPT !.parser = p, !.calls = @ \o p.calls \o calls]

(* FinishChunks closes the think tag. *)
FinishChunks(w) == [w EXCEPT !.open = FALSE, !.out = @ \o (IF w.open THEN <<")">> ELSE << >>)]

(* Build also flushes its parser, before Finalize. *)
Finalize(w) == [w EXCEPT !.open = FALSE, !.out = @ \o (IF w.open THEN <<")">> ELSE << >>)]
Build(w) ==
    LET p == ToolFlush(Fresh(w.parser))
        v == [Content(w, p.out) EXCEPT !.calls = @ \o p.calls]
    IN Finalize(IF toolsOn THEN v ELSE w)

---------------------------------------------------------------------------
(* An event of upstream is reasoning or content; the links to images that    *)
(* parseEvent adds are content that is not cut.                              *)
Thinks(chunk) ==
    chunk[1] = "r" /\ \A i \in DOMAIN chunk \ {1} : chunk[i] \in {LinkHead, Link}

HasLink(t) == Contains(t, LinkHead)

(* An event ends within a link, or has one in a call that becomes text.      *)
BreaksLink(p) ==
    \/ p.out # << >> /\ Last(p.out) = LinkHead
    \/ ~toolsOn /\ \E i \in DOMAIN p.calls : HasLink(p.calls[i])

(* Mutant of Emitted: the stream does not rewrite. *)
EmittedRaw(p) ==
    /\ streamed' = Event(streamed, p.out, p.calls)
    /\ blocking' = Event(blocking, p.out, p.calls)
    /\ broken' = (broken \/ BreaksLink(p))

(* An event of content, streamed (each alone is rewritten) and blocking.     *)
Emitted(p) ==
    /\ streamed' = Event(streamed, Rewrite(p.out), p.calls)
    /\ blocking' = Event(blocking, p.out, p.calls)
    /\ broken' = (broken \/ BreaksLink(p))

(* An event of reasoning, which the stream does not rewrite.                 *)
Thought(chunk) ==
    /\ streamed' = Reasoning(streamed, chunk)
    /\ blocking' = Reasoning(blocking, chunk)
    /\ broken' = (broken \/ HasLink(chunk))

(* The next piece, of n symbols; reasoning comes in pieces of its own.       *)
Arrives(n) ==
    LET chunk == SubSeq(text, pos + 1, pos + n)
        thinks == Thinks(chunk)
        p == Push(parser, chunk)
    IN
    /\ pos + n <= Len(text) /\ pos' = pos + n
    /\ Contains(chunk, "r") => thinks
    /\ IF kind # "answer"
       THEN parser' = Feed(kind, parser, chunk) /\ UNCHANGED <<streamed, blocking, broken>>
       ELSE IF thinks THEN Thought(chunk) /\ UNCHANGED parser
            ELSE parser' = p /\ Emitted(p)
    /\ UNCHANGED <<kind, text, toolsOn, rewrites>>

(* The stream is over: the flow flushes its parser and the adapters end.     *)
Ends ==
    /\ kind = "answer" /\ pos = Len(text) /\ pos' = pos + 1
    /\ Emitted(ToolFlush(Fresh(parser)))
    /\ UNCHANGED <<kind, text, toolsOn, rewrites, parser>>

TextNext == Ends \/ \E n \in 1..Len(text) : Arrives(n)
TextSpec == TextInit /\ [][TextNext]_textVars

---------------------------------------------------------------------------
Uncut(k) == Flush(k, Feed(k, Parser, text))

(* However upstream cuts a text, the parsers make the same of it: a tag that *)
(* is cut is neither shown, nor missed, nor does it take other text along.   *)
SplitIndependent ==
    pos = Len(text) /\ kind \in {"drop", "tool"} => Flush(kind, parser) = Uncut(kind)

(* The same of tool usage cards: the text around a card remains. *)
CardsSurviveCuts ==
    pos = Len(text) /\ kind = "card" => Flush(kind, parser) = Uncut(kind)

Holds(w) == toolsOn /\ (w.parser.inside \/ w.parser.partial # << >>)

(* What the client gets. *)
Streamed == FinishChunks(streamed)
Blocking == LET b == Build(blocking) IN [b EXCEPT !.out = Rewrite(@)]

PlainCalls(calls) == [i \in DOMAIN calls |-> Plain(calls[i])]

(* A streamed answer says what a blocking one does, with the same calls and  *)
(* the same think tags, up to links that only one of them shows as images;   *)
(* only what its parser still holds at the end, behind an unfinished tag, is *)
(* missing.                                                                  *)
SameWords ==
    pos > Len(text) =>
        /\ IsPrefix(Plain(Streamed.out), Plain(Blocking.out))
        /\ ~Holds(streamed) => /\ Plain(Streamed.out) = Plain(Blocking.out)
                               /\ PlainCalls(Streamed.calls) = PlainCalls(Blocking.calls)

(* That is so, and the links are images in both, but for the links that the  *)
(* stream passes on in halves, as reasoning or in a call.                    *)
StreamMatchesBlocking ==
    /\ SameWords
    /\ pos > Len(text) /\ ~broken => IsPrefix(Streamed.out, Blocking.out)
=============================================================================
