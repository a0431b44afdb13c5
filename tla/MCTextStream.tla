---------------------------- MODULE MCTextStream ----------------------------
(* Short texts of whole and cut tags, alone and around other text: "<" begins *)
(* a tag, "s" completes a start tag and "e" an end tag, "v" is the payload of  *)
(* a valid call, alone or before a link.                                      *)
EXTENDS TextStream

CONSTANT MaxParts   \* bound: parts of a text

MCSymbols == {"<", "s", "e", ">", "/", "v", "r", "x", "(", ")", "line",
              "![", "link", "image"}
MCStartTag == <<"<", "s">>
MCEndTag == <<"<", "e">>
MCValidCalls == {<<"v">>, <<"v", "![", "link">>}

Parts(k) ==
    {<<"<">>, StartTag, EndTag}
    \cup CASE k = "drop" -> {<<"x">>, <<">">>, <<"/", ">">>}
           [] k = "card" -> {<<"x">>}
           [] k = "tool" -> {<<"x">>, <<"v">>}
           [] k = "answer" -> {<<LinkHead, Link>>, <<"v">>, <<"r">>}

MCTexts ==
    [k \in Kinds |-> {FlattenSeq(parts) : parts \in UNION {[1..n -> Parts(k)] : n \in 0..MaxParts}}]
=============================================================================
