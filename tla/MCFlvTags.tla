------------------------------ MODULE MCFlvTags ------------------------------
(* Tags and streams for TLC: every pair of tags, and triples of regular    *)
(* ones behind each kind of tag that is left in a way of its own.          *)
EXTENDS FlvFormat

T(kind, units) == [kind |-> kind, units |-> units]

RegularTags ==
    {T("audio", <<2>>), T("script", <<1>>), T("nalus", <<>>), T("nalus", <<1, 2>>),
     T("nalus", <<0, 3>>), T("config", <<2, 1>>), T("command", <<1>>)}

IrregularTags ==
    {T("audio", <<0>>), T("other", <<1>>), T("filtered", <<1>>), T("badsize", <<1>>),
     T("config_high", <<1, 1>>), T("longset", <<1, 1>>), T("overlong", <<2>>),
     T("h263", <<>>), T("h263", <<0>>), T("h263", <<7, 7, 7, 7, 7, 7>>),
     T("command", <<0>>), T("command", <<2>>)}

\* A payload that begins with the size behind the tag, alone and with a script tag
\* behind it that passes over the rest; lengths around 2^30, which stands for 2^32.
MisleadingTags ==
    {T("h263", <<0, 0, 0, 20>>), T("h263", <<0, 0, 0, 31>> \o <<18, 0, 0, 0>> \o Bytes(7)),
     T("claiming", <<1>>), T("claiming", <<30>>), T("claiming", <<1073741819>>),
     T("claiming", <<1073741820>>), T("claiming", <<1073741823>>)}

Leading == {T("script", <<1>>), T("nalus", <<1, 2>>), T("config", <<2, 1>>)}

RegularStreams ==
    {<<>>} \cup {<<a, b>> : a, b \in RegularTags}
        \cup {<<a, b, c>> : a \in Leading, b, c \in RegularTags}

OddTags == RegularTags \cup IrregularTags \cup MisleadingTags
Streams == RegularStreams \cup {<<a, b>> : a, b \in OddTags}
=============================================================================
