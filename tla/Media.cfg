SPECIFICATION MCSpec
CONSTANTS
    t1 = t1
    t2 = t2
    t3 = t3
    NoToken = NoToken
    Tokens <- MCTokens
    Cap = 2
    MaxMessages = 5
    N = 2
    Attempts = 2
    BatchSize = 1
    MaxUrls = 2
    MaxQuota = 2
    MaxPolls = 2
    Limit = 2
    MaxSize = 3
    Kinds = {"drop", "tool", "answer"}
    MaxParts = 4
    Symbols <- MCSymbols
    StartTag <- MCStartTag
    EndTag <- MCEndTag
    ValidCalls <- MCValidCalls
    LinkHead = "!["
    Link = "link"
    Image = "image"
    Texts <- MCTexts
    MaxRetry = 2
    Buffer = 2
    MaxLines = 4
INVARIANTS FinalWins Paid InnocentSpared CachedWhole SplitIndependent StreamMatchesBlocking
PROPERTIES AnswerSpec AskerEnds StreamerEnds ImageRequestEnds VideoEnds
CHECK_DEADLOCK FALSE
