--------------------------- MODULE MCTorrentMeta ---------------------------
(***************************************************************************)
(* TorrentMeta, with the meaning of its input, on a set of small torrents  *)
(* and of their corruptions.                                               *)
(***************************************************************************)
EXTENDS Bencode, SequencesExt

(***************************************************************************)
(* The inputs                                                              *)
(***************************************************************************)
Str(byte) == <<"1", ":", byte>>
List(items) == <<"l">> \o FlattenSeq(items) \o <<"e">>
Dict(entries) == <<"d">> \o FlattenSeq(entries) \o <<"e">>
Entry(key, value) == Str(key) \o value
Num(digits) == <<"i">> \o digits \o <<"e">>

Name == Entry("N", Str("x"))
File(size) == Dict(<<Entry("L", Num(size)), Entry("P", List(<<Str("x")>>))>>)

\* Well-formed and odd torrents: single and several files, malformed entries,
\* keys that are repeated or nested, roots that are no dictionary, numbers and
\* lengths at the limits, and nesting at and beyond a depth of five.
Torrent == {
    Dict(<<Entry("I", Dict(<<Entry("L", Num(<<"9">>)), Name>>))>>),
    Dict(<<Entry("I", Dict(<<Name, Entry("F", List(<<File(<<"9", "9">>), File(<<"9">>)>>))>>))>>),
    Dict(<<Entry("I", Dict(<<Name, Entry("F", List(<<Str("x"), Dict(<<Entry("P", Str("x"))>>)>>))>>))>>),
    Dict(<<Entry("I", Dict(<<Name>>)), Entry("I", Dict(<<Entry("N", Str("e"))>>))>>),
    Dict(<<Entry("I", Dict(<<Name, Entry("I", Dict(<<>>))>>)), Entry("x", Dict(<<Entry("I", Str("I"))>>))>>),
    Dict(<<Entry("I", Str("d")), Entry("N", Dict(<<Entry("I", Dict(<<Name>>))>>))>>),
    Dict(<<Entry("I", Dict(<<Entry("N", <<"0", ":">>), Entry("L", Num(<<"-", "1">>))>>))>>),
    List(<<Dict(<<Entry("I", Dict(<<Name>>))>>)>>),
    List(<<List(<<List(<<List(<<List(<<>>), Num(<<"1", "0", "0">>)>>)>>)>>)>>),
    List(<<List(<<List(<<List(<<List(<<List(<<>>)>>)>>)>>)>>)>>),
    Dict(<<Entry("I", <<"9", "9", ":", "x">>)>>),
    Dict(<<<<"-", "1", ":", "I">>, <<"+", "1", ":", "I">>, Dict(<<Name>>)>>),
    Dict(<<<<"+", "1", ":", "I">>, Dict(<<Name>>)>>) }

Byte == {"d", "l", "i", "e", ":", "0", "1", "9", "-", "I", "x"}

Truncated(s) == {SubSeq(s, 1, k) : k \in 0..(Len(s) - 1)}
Substituted(s) == {[s EXCEPT ![k] = byte] : k \in 1..Len(s), byte \in Byte}
Dropped(s) == {RemoveAt(s, k) : k \in 1..Len(s)}
Inserted(s) == {InsertAt(s, k, byte) : k \in 1..(Len(s) + 1), byte \in {"e", "1"}}

MCInput ==
    UNION {{s} \cup Truncated(s) \cup Substituted(s) \cup Dropped(s) \cup Inserted(s) : s \in Torrent}
=============================================================================
