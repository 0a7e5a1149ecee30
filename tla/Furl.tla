-------------------------------- MODULE Furl --------------------------------
(***************************************************************************)
(* inetin's furl (furl.cpp): URLs are constructed from their parts, and    *)
(* their parts extracted again, by separate calls.  A text is a sequence   *)
(* of bytes, so that every delimiter, digit and percent code is there.     *)
(***************************************************************************)
EXTENDS Walk, SequencesExt, FiniteSetsExt

CONSTANTS
  FurlParts,   \* what -C is given: records [protocol, host, path, port, query]
  FurlTexts,   \* what the other options are given
  FurlNames    \* names of parameters asked for

VARIABLE furl   \* two calls, one after the other: see FurlStart

-----------------------------------------------------------------------------
(* Characters.                                                             *)

FurlChars == 0 .. 255

Hash == 35
Percent == 37
Ampersand == 38
Slash == 47
Colon == 58
Equals == 61
Question == 63
AtSign == 64
OpenBracket == 91
CloseBracket == 93

IsDigit(c) == c \in 48 .. 57
IsAlpha(c) == c \in 65 .. 90 \/ c \in 97 .. 122

\* is_unreserved: "-", ".", "_" and "~", too.
IsUnreserved(c) == IsDigit(c) \/ IsAlpha(c) \/ c \in {45, 46, 95, 126}

\* is_path_reserved.
IsPathReserved(c) == c \in {33, 36, 58, 59, 61, 64} \cup 38 .. 44 \cup {47}

\* hex, and hex_value: -1 for what is no digit.
HexDigit(v) == IF v < 10 THEN 48 + v ELSE 55 + v
HexOf(c) == CASE IsDigit(c) -> c - 48 [] c \in 65 .. 70 -> c - 55
                 [] c \in 97 .. 102 -> c - 87 [] OTHER -> -1

PercentCode(c) == <<Percent, HexDigit(c \div 16), HexDigit(c % 16)>>

\* Mutant: what a path may contain is not encoded in a parameter either.
UrlEncodePathMode(s) ==
  FlattenSeq([i \in DOMAIN s |-> IF IsUnreserved(s[i]) \/ IsPathReserved(s[i])
                                 THEN <<s[i]>> ELSE PercentCode(s[i])])

\* url_encode.
UrlEncode(s) ==
  FlattenSeq([i \in DOMAIN s |-> IF IsUnreserved(s[i]) THEN <<s[i]>> ELSE PercentCode(s[i])])

\* url_decode's loop: the text so far, how many digits of a code are to come (-1: there
\* was something else), the value of the first.
Decodings == [text : Seq(FurlChars), left : -1 .. 2, high : 0 .. 15]

DecodeChar(a, c) ==
  CASE a.left = -1 -> a
    [] a.left = 0 /\ c # Percent -> [a EXCEPT !.text = Append(@, c)]
    [] a.left = 0 /\ c = Percent -> [a EXCEPT !.left = 2]
    [] a.left > 0 /\ HexOf(c) < 0 -> [a EXCEPT !.left = -1]
    [] a.left = 2 /\ HexOf(c) >= 0 -> [a EXCEPT !.left = 1, !.high = HexOf(c)]
    [] a.left = 1 /\ HexOf(c) >= 0 ->
         [a EXCEPT !.left = 0, !.high = 0, !.text = Append(@, 16 * a.high + HexOf(c))]

DecodeStep == [p \in Decodings \X FurlChars |-> DecodeChar(p[1], p[2])]
DecodeStart == [text |-> <<>>, left |-> 0, high |-> 0]

\* url_decode: [ok, text].  A code that the text ends in is an error.
UrlDecode(s) ==
  LET last == Through(DecodeStep, DecodeStart, s)
  IN  [ok |-> last.left = 0, text |-> last.text]

Occurs(c, s) == \E i \in DOMAIN s : s[i] = c

\* The first and the last position of c in s, those of "://".
FirstAt(c, s) == Min({i \in DOMAIN s : s[i] = c})
FinalAt(c, s) == Max({i \in DOMAIN s : s[i] = c})
SchemeEnds(s) ==
  {i \in 1 .. Len(s) - 2 : s[i] = Colon /\ s[i + 1] = Slash /\ s[i + 2] = Slash}

Before(i, s) == SubSeq(s, 1, i - 1)
After(i, s) == SubSeq(s, i + 1, Len(s))

-----------------------------------------------------------------------------
(* Ports.                                                                  *)

MaxPort == 65535
Ports == 0 .. MaxPort
Tens == <<1, 10, 100, 1000, 10000, 100000>>

\* std::to_string.
PortText(port) ==
  LET length == Min({n \in 1 .. 5 : port < Tens[n + 1]})
  IN  [i \in 1 .. length |-> 48 + ((port \div Tens[length - i + 1]) % 10)]

PortStep == [p \in Nat \X FurlChars |-> IF IsDigit(p[2]) THEN 10 * p[1] + (p[2] - 48) ELSE p[1]]

\* parse_port: -1 if it is none.
ParsePort(s) ==
  LET value == Through(PortStep, 0, s)
  IN  IF s # <<>> /\ (\A i \in DOMAIN s : IsDigit(s[i])) /\ value \in Ports THEN value ELSE -1

-----------------------------------------------------------------------------
(* Queries.                                                                *)

Param(name, equal, value) == [name |-> name, equal |-> equal, value |-> value]

\* A parameter NAME=VALUE, split at the first "=", or NAME; decoded.
SplitParam(item) ==
  LET name == UrlDecode(Before(FirstAt(Equals, item), item))
      value == UrlDecode(After(FirstAt(Equals, item), item))
      only == UrlDecode(item)
  IN  IF Occurs(Equals, item)
      THEN [ok |-> name.ok /\ value.ok, param |-> Param(name.text, TRUE, value.text)]
      ELSE [ok |-> only.ok, param |-> Param(only.text, FALSE, <<>>)]

\* The parts between "&"s, without the empty ones, and the part that is being read.
Itemizings == [items : Seq(Seq(FurlChars)), item : Seq(FurlChars)]

KeepItem(a) == IF a.item = <<>> THEN a.items ELSE Append(a.items, a.item)

ItemChar(a, c) == IF c = Ampersand THEN [items |-> KeepItem(a), item |-> <<>>]
                  ELSE [items |-> a.items, item |-> Append(a.item, c)]

ItemStep == [p \in Itemizings \X FurlChars |-> ItemChar(p[1], p[2])]
ItemStart == [items |-> <<>>, item |-> <<>>]

QueryItems(s) == KeepItem(Through(ItemStep, ItemStart, s))

\* parse_query: [ok, query].
ParseQuery(s) ==
  LET items == QueryItems(s)
  IN  IF \A i \in DOMAIN items : SplitParam(items[i]).ok
      THEN [ok |-> TRUE, query |-> [i \in DOMAIN items |-> SplitParam(items[i]).param]]
      ELSE [ok |-> FALSE, query |-> <<>>]

\* A parameter as url_build writes it, and all of them.
ParamText(p) ==
  UrlEncode(p.name) \o (IF p.equal THEN <<Equals>> \o UrlEncode(p.value) ELSE <<>>)

QueryText(query) ==
  FlattenSeq([i \in DOMAIN query |->
    (IF i > 1 THEN <<Ampersand>> ELSE <<>>) \o ParamText(query[i])])

-----------------------------------------------------------------------------
(* URLs.                                                                   *)

\* valid_scheme: letters, digits, "+", "-" and ".", a letter first.
ValidScheme(s) ==
  /\ s # <<>> /\ IsAlpha(s[1])
  /\ \A i \in DOMAIN s : IsAlpha(s[i]) \/ IsDigit(s[i]) \/ s[i] \in {43, 45, 46}

NoHost == [ok |-> FALSE, host |-> <<>>, port |-> -1]

\* A host and what follows it: nothing, or ":" and a port.
HostAndPort(host, rest) ==
  IF rest = <<>> THEN [ok |-> host # <<>>, host |-> host, port |-> -1]
  ELSE IF rest[1] # Colon \/ ParsePort(Tail(rest)) = -1 THEN NoHost
  ELSE [ok |-> host # <<>>, host |-> host, port |-> ParsePort(Tail(rest))]

\* [HOST] or HOST.
ParseHost(s) ==
  CASE s = <<>> -> NoHost
    [] s # <<>> /\ s[1] = OpenBracket ->
         IF ~Occurs(CloseBracket, s) THEN NoHost
         ELSE HostAndPort(SubSeq(s, 2, FirstAt(CloseBracket, s) - 1),
                          After(FirstAt(CloseBracket, s), s))
    [] s # <<>> /\ s[1] # OpenBracket ->
         IF ~Occurs(Colon, s) THEN HostAndPort(s, <<>>)
         ELSE IF FirstAt(Colon, s) # FinalAt(Colon, s) THEN NoHost
         ELSE HostAndPort(Before(FirstAt(Colon, s), s), SubSeq(s, FirstAt(Colon, s), Len(s)))

\* parse_authority: what stands before the last "@" is the user part, which no option
\* prints.
ParseAuthority(s) == ParseHost(IF Occurs(AtSign, s) THEN After(FinalAt(AtSign, s), s) ELSE s)

\* What stands before the query: scheme, authority, path.
ParseMain(main, query) ==
  LET colon == Min(SchemeEnds(main))
      rest == After(colon + 2, main)
      host == ParseAuthority(IF Occurs(Slash, rest) THEN Before(FirstAt(Slash, rest), rest)
                             ELSE rest)
  IN  IF SchemeEnds(main) = {}
      THEN [ok |-> query.ok, protocol |-> <<>>, host |-> <<>>, port |-> -1, path |-> main,
            query |-> query.query]
      ELSE [ok |-> query.ok /\ ValidScheme(Before(colon, main)) /\ host.ok,
            protocol |-> Before(colon, main), host |-> host.host, port |-> host.port,
            path |-> IF Occurs(Slash, rest) THEN SubSeq(rest, FirstAt(Slash, rest), Len(rest))
                     ELSE <<Slash>>,
            query |-> query.query]

\* url_parse.
UrlParse(s) ==
  LET bare == IF Occurs(Hash, s) THEN Before(FirstAt(Hash, s), s) ELSE s
      mark == FirstAt(Question, bare)
  IN  IF Occurs(Question, bare) THEN ParseMain(Before(mark, bare), ParseQuery(After(mark, bare)))
      ELSE ParseMain(bare, [ok |-> TRUE, query |-> <<>>])

\* url_build: what stands before the path, and all of it.
Authority(url) ==
  (IF Occurs(Colon, url.host) THEN <<OpenBracket>> \o url.host \o <<CloseBracket>> ELSE url.host)
    \o (IF url.port >= 0 THEN <<Colon>> \o PortText(url.port) ELSE <<>>)

UrlBuild(url) ==
  (IF url.protocol # <<>> THEN url.protocol \o <<Colon, Slash, Slash>> ELSE <<>>)
    \o Authority(url) \o url.path
    \o (IF url.query # <<>> THEN <<Question>> \o QueryText(url.query) ELSE <<>>)

-----------------------------------------------------------------------------
(* main().                                                                 *)

\* A parameter is split at its first "=", so that no name has one.
Params == {p \in [name : Seq(FurlChars), equal : BOOLEAN, value : Seq(FurlChars)] :
             ~Occurs(Equals, p.name) /\ (~p.equal => p.value = <<>>)}

ASSUME FurlAssumption ==
  /\ FurlParts \subseteq [protocol : Seq(FurlChars), host : Seq(FurlChars),
                          path : Seq(FurlChars), port : Ports \cup {-1}, query : Seq(Params)]
  /\ FurlTexts \cup FurlNames \subseteq Seq(FurlChars)

\* What an extraction is asked for: a part of the URL, or its parameters, all of them or
\* those of one name.
Questions == [part : {"host", "port", "protocol", "path"}, names : {{}}]
               \cup [part : {"query"}, names : {{}} \cup {{n} : n \in FurlNames}]

\* The parts -C was given or the text of the first call, pc, what the first call prints,
\* what a second one is asked for and makes of it, the status of the last call.
FurlStart(op, parts, text) ==
  [op |-> op, parts |-> parts, text |-> text, pc |-> "first", printed |-> <<>>,
   asked |-> [part |-> "path", names |-> {}], answer |-> [ok |-> FALSE], exit |-> -1]

SomeParts == [protocol |-> <<>>, host |-> <<>>, path |-> <<>>, port |-> -1, query |-> <<>>]

FurlInit ==
  \/ \E parts \in FurlParts : furl = FurlStart("construct", parts, <<>>)
  \/ \E op \in {"encode", "parse"}, text \in FurlTexts : furl = FurlStart(op, SomeParts, text)

\* Brackets around a host are taken off.
Unbracketed(h) ==
  IF Len(h) >= 2 /\ h[1] = OpenBracket /\ h[Len(h)] = CloseBracket
  THEN SubSeq(h, 2, Len(h) - 1) ELSE h

\* -C: an empty path becomes "/".
Construct ==
  LET p == furl.parts
      host == Unbracketed(p.host)
      path == IF p.path = <<>> /\ p.host # <<>> THEN <<Slash>> ELSE p.path
      refused == (p.protocol # <<>> /\ ~ValidScheme(p.protocol)) \/ host = <<>>
  IN  /\ furl.op = "construct" /\ furl.pc = "first"
      /\ furl' = IF refused THEN [furl EXCEPT !.pc = "done", !.exit = 2]
                 ELSE [furl EXCEPT !.pc = "second", !.exit = 0,
                         !.printed = UrlBuild([p EXCEPT !.host = host, !.path = path])]

Encode ==
  /\ furl.op = "encode" /\ furl.pc = "first"
  /\ furl' = [furl EXCEPT !.pc = "second", !.exit = 0, !.printed = UrlEncode(furl.text)]

\* A URL or an encoded text from elsewhere.
Given ==
  /\ furl.op = "parse" /\ furl.pc = "first"
  /\ furl' = [furl EXCEPT !.pc = "second", !.printed = furl.text]

\* -d of what was printed: 2 if that fails.
Decode ==
  /\ furl.op = "encode" /\ furl.pc = "second"
  /\ furl' = [furl EXCEPT !.pc = "done", !.answer = UrlDecode(furl.printed),
                          !.exit = IF UrlDecode(furl.printed).ok THEN 0 ELSE 2]

\* Whether a URL has what is asked for, and what is printed of it then.
Present(url, asked) ==
  CASE asked.part = "host" -> url.host # <<>>
    [] asked.part = "port" -> url.port >= 0
    [] asked.part = "protocol" -> url.protocol # <<>>
    [] asked.part = "path" -> TRUE
    [] asked.part = "query" ->
         asked.names = {} \/ \E i \in DOMAIN url.query : url.query[i].name \in asked.names

PartOf(url, asked) ==
  IF asked.part # "query" THEN url[asked.part]
  ELSE SelectSeq(url.query, LAMBDA p : asked.names = {} \/ p.name \in asked.names)

Reply(url, asked) ==
  IF url.ok /\ Present(url, asked) THEN [ok |-> TRUE, part |-> PartOf(url, asked)]
  ELSE [ok |-> FALSE]

ExtractStatus(url, asked) == IF ~url.ok THEN 2 ELSE IF Present(url, asked) THEN 0 ELSE 1

\* An extraction from what was printed, or from the URL from elsewhere: it is parsed
\* whole whatever is asked for.
Extract ==
  LET url == UrlParse(furl.printed)
  IN  /\ furl.op # "encode" /\ furl.pc = "second"
      /\ \E asked \in Questions :
           furl' = [furl EXCEPT !.pc = "done", !.asked = asked, !.answer = Reply(url, asked),
                                !.exit = ExtractStatus(url, asked)]

FurlStep == Construct \/ Encode \/ Given \/ Decode \/ Extract

-----------------------------------------------------------------------------
\* Parts that belong where they are given: a protocol; a host without the delimiters of
\* a URL but ":"; a path that begins with "/" and has none of the characters that end
\* it; no parameter without a name.
Delimiters == {Hash, Question, Slash, AtSign, OpenBracket, CloseBracket}

WellPlaced(p) ==
  /\ p.protocol # <<>>
  /\ \A c \in Delimiters : ~Occurs(c, Unbracketed(p.host))
  /\ p.path # <<>> => p.path[1] = Slash /\ ~Occurs(Question, p.path) /\ ~Occurs(Hash, p.path)
  /\ \A i \in DOMAIN p.query : p.query[i].name # <<>> \/ p.query[i].equal

\* The URL -C was given.
GivenUrl(p) ==
  [ok |-> TRUE, protocol |-> p.protocol, host |-> Unbracketed(p.host), port |-> p.port,
   path |-> IF p.path = <<>> THEN <<Slash>> ELSE p.path, query |-> p.query]

\* What -e encodes, -d gives back.  Of a URL that -C has constructed the extractions give
\* back every part: protocol, host, port, path, and the parameters, all or those of one
\* name, with their order, names and values, whatever delimiters, percent signs and codes
\* these contain; and the status is 1 exactly when the part was not given.  Of a URL from
\* elsewhere that is accepted only one without a protocol has no host, and a port is in
\* range.
FurlRoundTrip ==
  /\ furl.pc = "done" /\ furl.op = "encode" => furl.answer = [ok |-> TRUE, text |-> furl.text]
  /\ furl.pc = "done" /\ furl.op = "construct" /\ furl.printed # <<>> /\ WellPlaced(furl.parts) =>
       /\ furl.answer = Reply(GivenUrl(furl.parts), furl.asked)
       /\ furl.exit = IF Present(GivenUrl(furl.parts), furl.asked) THEN 0 ELSE 1
  /\ furl.pc = "done" /\ furl.op = "parse" =>
       /\ furl.asked.part = "host" /\ furl.exit = 1 => UrlParse(furl.printed).protocol = <<>>
       /\ furl.asked.part = "port" /\ furl.exit = 0 => furl.answer.part \in Ports
=============================================================================
