------------------------------ MODULE MCTools ------------------------------
(* Instance of Tools for TLC: inputs of a few characters, and for bgrep, bhxx *)
(* and exe a few longer ones where only a longer one can show something.     *)
EXTENDS Tools

Texts(n, chars) == UNION {[1 .. k -> chars] : k \in 0 .. n}

MCJobs ==
  [file : {0, 3}, size : {1, 2}, prefix : ChunkPrefixes, pad : {1, 2}]
    \cup [file : {11}, size : {1}, prefix : {"chunk"}, pad : {1}]

MCBuniqInputs == Texts(4, {"a", "A", "nl"}) \cup Texts(3, {"a", "A", "sp", "nl"})
                   \cup [1 .. 5 -> {"a", "nl"}]
MCBuniqKeys ==
  {[i |-> FALSE, f |-> 0, s |-> 0, w |-> 9], [i |-> TRUE, f |-> 0, s |-> 0, w |-> 1],
   [i |-> FALSE, f |-> 1, s |-> 0, w |-> 9], [i |-> TRUE, f |-> 0, s |-> 1, w |-> 9]}

MCFillValues == {<<<<"x">>>>, <<<<"x">>, <<"x", "x">>>>, <<<<"x">>, <<"y">>, <<"x">>>>,
                 <<<<>>, <<"n">>>>}
MCTemplates == {<<"x">>, <<"n">>, <<"n", "m">>, <<"n", "x", "n">>, <<"m", "n", "m">>}

MCKpInputs == Texts(3, {"a", "A", ".", "$", "nl"})
MCKpTexts == {<<<<"a">>, <<"$", "$">>>>, <<<<"a", "a">>, <<"a">>>>, <<<<".">>, <<>>>>,
              <<<<"a", ".">>, <<"$", "a">>>>}
MCKpRanges ==
  {[kind |-> "all", from |-> 1, to |-> 0], [kind |-> "range", from |-> 2, to |-> 2],
   [kind |-> "first", from |-> 1, to |-> 1], [kind |-> "last", from |-> 1, to |-> 0]}

MCBhxxInputs == Texts(2, Bytes) \cup [1 .. 5 -> {<<"0", "0">>, <<"7", "a">>}]
                  \cup {[i \in 1 .. 17 |-> IF i = 17 THEN b ELSE <<"7", "a">>] : b \in Bytes}
MCBhxxLayouts == [cols : {0, 2, 3, 16}, group : {0, 2}] \cup {[cols |-> 2, group |-> 1]}

MCPatchFiles == Texts(3, {<<"char", "a">>, <<"char", "b">>})
MCPatchTexts ==
  {<<>>, <<"1">>, <<"\\", "x", "1", "2">>, <<"\\", "x", "1", "g">>, <<"\\", "x", "g", "1">>,
   <<"1", "\\", "x", "2">>, <<"\\", "x", "1", "2", "2">>}

MCGrepFiles == Texts(3, {"a", "A", "b"}) \cup Texts(6, {"a", "b"})
MCGrepPatterns == {<<>>, <<"a">>, <<"A", "a">>, <<"a", "b", "a">>}
MCGrepContexts == {0, 1, 8, 9}

Letter == 104
Digit(n) == 48 + n
H == <<Letter>>
MCFurlQueries ==
  {<<>>} \cup {<<Param(n, TRUE, v)>> : n \in Texts(1, {Ampersand, Percent, Digit(6)}),
                                      v \in Texts(2, {Ampersand, Equals, Percent, Digit(2)})}
    \cup {<<Param(n, FALSE, <<>>), Param(H, TRUE, <<Equals, 32, 255>>)>> :
            n \in Texts(1, {Ampersand, Percent, Digit(6)})}
MCFurlParts ==
  [protocol : {<<>>, H},
   host : {<<>>, H, <<Letter, Colon, Digit(2)>>, <<OpenBracket, Letter, Colon, CloseBracket>>, <<Letter, AtSign>>},
   path : {<<>>, H, <<Slash>>, <<Slash, Letter, Slash>>, <<Slash, Question>>},
   port : {-1, 0, 26, 65535}, query : MCFurlQueries]
MCFurlTexts ==
  LET start == H \o <<Colon, Slash, Slash>>
  IN  Texts(4, {Letter, Digit(2), Digit(6), 102, Percent, Ampersand})
        \cup {start \o t : t \in Texts(4, {Letter, Colon, AtSign, OpenBracket, CloseBracket, Slash, Digit(6)})}
        \cup {start \o H \o t : t \in Texts(3, {Question, Ampersand, Equals, Percent, Digit(2), Hash})}
        \cup {start \o H \o <<Colon, Digit(6), Digit(5), Digit(5), Digit(3), Digit(d)>> : d \in {5, 6}}
MCFurlNames == {H}

MCExeFiles == [1 .. 6 -> {"p", "q", "x"}] \cup [1 .. 9 -> {"p", "0"}]
                \cup [1 .. 10 -> {"p", "0"}] \cup {<<>>}
MCExeKinds == {{}, {"strings"}, {"info", "strings", "disassembly"}}
=============================================================================
