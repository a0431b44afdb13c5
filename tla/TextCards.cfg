SPECIFICATION TextSpec
CONSTANTS
    Kinds = {"card"}
    MaxParts = 4
    Symbols <- MCSymbols
    StartTag <- MCStartTag
    EndTag <- MCEndTag
    ValidCalls <- MCValidCalls
    LinkHead = "!["
    Link = "link"
    Image = "image"
    Texts <- MCTexts
INVARIANT CardsSurviveCuts
CHECK_DEADLOCK FALSE
