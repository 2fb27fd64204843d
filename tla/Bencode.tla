-------------------------------- MODULE Bencode --------------------------------
(***************************************************************************)
(* What the bytes of a torrent mean: a grammar over spans of the input     *)
(* that knows neither a position nor a stack, against which the decoder of *)
(* TorrentMeta is checked and proved.                                      *)
(***************************************************************************)
EXTENDS TorrentMeta

Bracketed(byte, from, to) == from + 1 < to /\ At(from) = byte /\ At(to - 1) = "e"

Number(from, to) == Atoi(Bytes(from, to))

\* The text of a span that is a length, a colon and as many bytes.
Texts(from, to) ==
    {Bytes(sep + 1, to) :
        sep \in {k \in from..(to - 1) : At(k) = ":" /\ to - (k + 1) \in Number(from, k)}}

\* A later binding of a key wins.
With(map, key, v) ==
    [k \in DOMAIN map \cup {key} |-> IF k = key THEN v ELSE map[k]]

\* What spans are asked for, with the depth that is left: their value, the
\* values of a list without its brackets, the entries of such a dictionary.
Span == {"value", "items", "entries"} \X Nat \X Nat \X Nat

ValueOf(meant, from, to, depth) ==
    IF Bracketed("i", from, to) THEN
        {[kind |-> "int", int |-> n] : n \in Number(from + 1, to - 1)}
    ELSE IF depth > 0 /\ Bracketed("l", from, to) THEN
        {[kind |-> "list", items |-> s] : s \in meant[<<"items", from + 1, to - 1, depth - 1>>]}
    ELSE IF depth > 0 /\ Bracketed("d", from, to) THEN
        {[kind |-> "dict", map |-> m] : m \in meant[<<"entries", from + 1, to - 1, depth - 1>>]}
    ELSE IF from < to /\ At(from) \in DOMAIN Digit THEN
        {[kind |-> "str", str |-> s] : s \in Texts(from, to)}
    ELSE {}

\* By the last value.
ItemsOf(meant, from, to, depth) ==
    IF from = to THEN {<<>>}
    ELSE UNION {{Append(s, v) : s \in meant[<<"items", from, cut, depth>>],
                                v \in meant[<<"value", cut, to, depth>>]} :
                    cut \in {k \in from..(to - 1) : meant[<<"value", k, to, depth>>] # {}}}

\* By the last entry.
EntriesOf(meant, from, to, depth) ==
    IF from = to THEN {EmptyMap}
    ELSE UNION {{With(m, key, v) : m \in meant[<<"entries", from, k[1], depth>>],
                                   key \in Texts(k[1], k[2]),
                                   v \in meant[<<"value", k[2], to, depth>>]} :
                    k \in {c \in (from..(to - 1)) \X (from..(to - 1)) :
                              c[1] < c[2] /\ Texts(c[1], c[2]) # {}
                                 /\ meant[<<"value", c[2], to, depth>>] # {}}}

SpanOf(meant, kind, from, to, depth) ==
    IF kind = "value" THEN ValueOf(meant, from, to, depth)
    ELSE IF kind = "items" THEN ItemsOf(meant, from, to, depth)
    ELSE EntriesOf(meant, from, to, depth)

\* The data a span denotes, from those of shorter spans and of its own parts.
denoted[q \in Span] == SpanOf(denoted, q[1], q[2], q[3], q[4])

Denotes(kind, depth, from, to, datum) == datum \in denoted[<<kind, from, to, depth>>]

Meaning == denoted[<<"value", 0, Len(data), MaxDepth>>]

(***************************************************************************)
(* Properties                                                              *)
(***************************************************************************)
\* The decoder accepts exactly the byte strings that are one bencoded value
\* nested at most maxDepth deep, and returns that value: nothing is left over,
\* a truncated torrent is refused, a repeated key has its last value.
DecodesTheGrammar ==
    mode = "done" =>
        /\ result \in {"syntax", "trailing"} => Meaning = {}
        /\ result \notin {"syntax", "trailing"} => Meaning = {root}

\* The bytes that are hashed are the encoding of the very dictionary that name
\* and files are taken from, whatever keys are nested in it or repeated.
HashCoversMeta ==
    result = "ok" =>
        \E info \in denoted[<<"value", infoStart, infoEnd, MaxDepth - 1>>] :
            /\ info = root.map[InfoKey]
            /\ meta = MetaOf(info)
=============================================================================
