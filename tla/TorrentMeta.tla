---------------------------- MODULE TorrentMeta ----------------------------
(***************************************************************************)
(* The decoder of .torrent files (internal/torrentmeta): a recursive       *)
(* descent over untrusted bytes that bounds its nesting and remembers      *)
(* which bytes the info-hash is computed from, and Parse, which turns the  *)
(* decoded value into metadata.  The Go call stack is the variable stack,  *)
(* one frame for each list or dictionary that is open; d.depth is its      *)
(* length.  Positions count from 0, as in the code.                        *)
(***************************************************************************)
EXTENDS Integers, Sequences

CONSTANTS
    Input,     \* the byte strings that Parse is given
    MaxDepth,  \* maxDepth
    MaxInt     \* bound: math.MaxInt, small enough to be written in a few digits

ASSUME TorrentAssumption ==
    /\ \A d \in Input : d \in Seq(STRING)
    /\ MaxDepth \in Nat
    /\ MaxInt \in Nat
    /\ \A d \in Input : Len(d) <= MaxInt

VARIABLES
    data,       \* d.data: one string of length one for each byte
    pos,        \* d.pos
    stack,      \* the calls of decodeList and decodeDict under way
    mode,       \* "value": decode is called, "loop": head of the top frame's
                \* loop, "root": the root is decoded, "done"
    root,       \* the root value
    infoStart,  \* d.infoStart
    infoEnd,    \* d.infoEnd
    meta,       \* name, files and total size of Meta
    result      \* "none", the error of Parse, "ok", or "panic"

span == <<infoStart, infoEnd>>
vars == <<data, pos, stack, mode, root, span, meta, result>>

Digit == [d \in {"0", "1", "2", "3", "4", "5", "6", "7", "8", "9"} |->
            CASE d = "0" -> 0 [] d = "1" -> 1 [] d = "2" -> 2 [] d = "3" -> 3 [] d = "4" -> 4
              [] d = "5" -> 5 [] d = "6" -> 6 [] d = "7" -> 7 [] d = "8" -> 8 [] d = "9" -> 9]

\* The keys "info", "name", "files", "path" and "length", one byte each.
InfoKey == <<"I">>
NameKey == <<"N">>
FilesKey == <<"F">>
PathKey == <<"P">>
LengthKey == <<"L">>

EmptyMap == [key \in {} |-> "nil"]
Nothing == [kind |-> "nil"]

(***************************************************************************)
(* Reading bytes                                                           *)
(***************************************************************************)
At(p) == data[p + 1]

\* The slice data[from:to].
Bytes(from, to) == SubSeq(data, from + 1, to)

More == pos < Len(data)

\* indexOf: the first occurrence at or after a position, if there is one.
IndexOf(byte, from) ==
    {p \in from..(Len(data) - 1) : At(p) = byte /\ \A q \in from..(p - 1) : At(q) # byte}

\* Two's complement.
Wrap(n) == IF n > MaxInt THEN n - 2 * (MaxInt + 1) ELSE n

\* The number that digits stand for.
Decimal(digits) ==
    LET upTo[k \in 0..Len(digits)] ==
          IF k = 0 THEN 0 ELSE 10 * upTo[k - 1] + Digit[digits[k]]
    IN upTo[Len(digits)]

\* strconv.ParseInt and Atoi: the number, or nothing on a syntax or range error.
Atoi(s) ==
    LET signed == s # <<>> /\ s[1] \in {"+", "-"}
        digits == IF signed THEN Tail(s) ELSE s
        sign == IF signed /\ s[1] = "-" THEN -1 ELSE 1
    IN IF digits # <<>> /\ \A k \in 1..Len(digits) : digits[k] \in DOMAIN Digit
          THEN {sign * Decimal(digits)} \cap ((-MaxInt - 1)..MaxInt)
          ELSE {}

\* Mutant: the end is computed before it is compared with the input.
LengthsAdded(sep) ==
    {n \in Atoi(Bytes(pos, sep)) : 0 <= n /\ Wrap(sep + 1 + n) <= Len(data)}

\* The length before a separator, if it is a number the rest of the input has.
Lengths(sep) ==
    {n \in Atoi(Bytes(pos, sep)) : 0 <= n /\ n <= Len(data) - (sep + 1)}

\* decodeString: the slice it takes, or nothing on an error.
Slices ==
    UNION {{[start |-> sep + 1, end |-> Wrap(sep + 1 + n)] : n \in Lengths(sep)} :
              sep \in IndexOf(":", pos)}

\* A slice expression out of range stops the process.
InRange(s) == s.start <= s.end /\ s.end <= Len(data)

(***************************************************************************)
(* The decoder                                                             *)
(***************************************************************************)
Finish(outcome) ==
    /\ result' = outcome
    /\ mode' = "done"
    /\ UNCHANGED <<data, pos, stack, root, span, meta>>

\* Mutant: the outermost dictionary is taken to be at depth 0.
RecordInfoAtZero(frames, upTo) ==
    IF Len(frames) = 0 /\ frames[Len(frames)].key = InfoKey
       THEN infoStart' = frames[Len(frames)].start /\ infoEnd' = upTo
       ELSE UNCHANGED span

\* Mutant: the depth is not asked for, so a nested key moves the span.
RecordAnyInfo(frames, upTo) ==
    IF frames[Len(frames)].key = InfoKey
       THEN infoStart' = frames[Len(frames)].start /\ infoEnd' = upTo
       ELSE UNCHANGED span

\* decodeDict: a value of the outermost dictionary under "info" leaves its span.
RecordInfo(frames, upTo) ==
    IF Len(frames) = 1 /\ frames[Len(frames)].key = InfoKey
       THEN infoStart' = frames[Len(frames)].start /\ infoEnd' = upTo
       ELSE UNCHANGED span

\* Mutant: the first of two values under one key is kept.
BindFirst(frame, v) ==
    [key \in DOMAIN frame.map \cup {frame.key} |->
        IF key \in DOMAIN frame.map THEN frame.map[key] ELSE v]

\* The map of a dictionary once its pending key has the value v.
Bind(frame, v) ==
    [key \in DOMAIN frame.map \cup {frame.key} |->
        IF key = frame.key THEN v ELSE frame.map[key]]

\* decode returns v, read up to a position, to the innermost of the frames.
Return(v, upTo, frames) ==
    /\ pos' = upTo
    /\ \/ /\ frames = <<>>
          /\ mode' = "root" /\ root' = v
          /\ stack' = frames
          /\ UNCHANGED span
       \/ /\ frames # <<>> /\ frames[Len(frames)].kind = "list"
          /\ mode' = "loop"
          /\ stack' = [frames EXCEPT ![Len(frames)].items = Append(@, v)]
          /\ UNCHANGED <<root, span>>
       \/ /\ frames # <<>> /\ frames[Len(frames)].kind = "dict"
          /\ mode' = "loop"
          /\ stack' = [frames EXCEPT ![Len(frames)].map = Bind(frames[Len(frames)], v)]
          /\ RecordInfo(frames, upTo)
          /\ UNCHANGED root
    /\ UNCHANGED <<data, meta, result>>

Below == SubSeq(stack, 1, Len(stack) - 1)
Top == stack[Len(stack)]

DecodeInt ==
    /\ mode = "value" /\ More /\ At(pos) = "i"
    /\ LET numbers == UNION {{[end |-> end, int |-> n] : n \in Atoi(Bytes(pos + 1, end))} :
                                end \in IndexOf("e", pos + 1)}
       IN \/ \E n \in numbers : Return([kind |-> "int", int |-> n.int], n.end + 1, stack)
          \/ numbers = {} /\ Finish("syntax")

DecodeString ==
    /\ mode = "value" /\ More /\ At(pos) \in DOMAIN Digit
    /\ \/ \E s \in Slices :
            IF InRange(s)
               THEN Return([kind |-> "str", str |-> Bytes(s.start, s.end)], s.end, stack)
               ELSE Finish("panic")
       \/ Slices = {} /\ Finish("syntax")

\* Mutant: the depth is compared before it is counted.
EnterUncounted(frame) ==
    IF Len(stack) > MaxDepth
       THEN Finish("syntax")
       ELSE /\ pos' = pos + 1
            /\ stack' = Append(stack, frame)
            /\ mode' = "loop"
            /\ UNCHANGED <<data, root, span, meta, result>>

\* depth is incremented, compared with maxDepth, and the opening byte consumed.
Enter(frame) ==
    IF Len(stack) + 1 > MaxDepth
       THEN Finish("syntax")
       ELSE /\ pos' = pos + 1
            /\ stack' = Append(stack, frame)
            /\ mode' = "loop"
            /\ UNCHANGED <<data, root, span, meta, result>>

OpenList ==
    /\ mode = "value" /\ More /\ At(pos) = "l"
    /\ Enter([kind |-> "list", items |-> <<>>])

OpenDict ==
    /\ mode = "value" /\ More /\ At(pos) = "d"
    /\ Enter([kind |-> "dict", map |-> EmptyMap, key |-> <<>>, start |-> 0])

\* The end of the input, or a byte no value starts with.
Unexpected ==
    /\ mode = "value"
    /\ More => At(pos) \notin {"i", "l", "d"} \cup DOMAIN Digit
    /\ Finish("syntax")

\* Mutant: the end of the input is not an error inside a list.
ElementOrWait ==
    /\ mode = "loop" /\ Top.kind = "list"
    /\ More
    /\ IF At(pos) = "e"
          THEN Return([kind |-> "list", items |-> Top.items], pos + 1, Below)
          ELSE /\ mode' = "value"
               /\ UNCHANGED <<data, pos, stack, root, span, meta, result>>

\* The loop of decodeList.
Element ==
    /\ mode = "loop" /\ Top.kind = "list"
    /\ \/ ~More /\ Finish("syntax")
       \/ /\ More /\ At(pos) = "e"
          /\ Return([kind |-> "list", items |-> Top.items], pos + 1, Below)
       \/ /\ More /\ At(pos) # "e"
          /\ mode' = "value"
          /\ UNCHANGED <<data, pos, stack, root, span, meta, result>>

\* The key is read; its value follows.
Pend(s) ==
    /\ stack' = [stack EXCEPT ![Len(stack)] =
                    [kind |-> "dict", map |-> @.map, key |-> Bytes(s.start, s.end),
                     start |-> s.end]]
    /\ pos' = s.end
    /\ mode' = "value"
    /\ UNCHANGED <<data, root, span, meta, result>>

\* The loop of decodeDict, up to the value of a key.
Key ==
    /\ mode = "loop" /\ Top.kind = "dict"
    /\ \/ ~More /\ Finish("syntax")
       \/ /\ More /\ At(pos) = "e"
          /\ Return([kind |-> "dict", map |-> Top.map], pos + 1, Below)
       \/ /\ More /\ At(pos) # "e"
          /\ \/ \E s \in Slices : IF InRange(s) THEN Pend(s) ELSE Finish("panic")
             \/ Slices = {} /\ Finish("syntax")

(***************************************************************************)
(* Parse                                                                   *)
(***************************************************************************)
\* asDict, asList, asString and asInt of a dictionary's value.
Has(dict, key, kind) == key \in DOMAIN dict.map /\ dict.map[key].kind = kind

DictInt(dict, key) == IF Has(dict, key, "int") THEN dict.map[key].int ELSE 0

IsString(v) == v.kind = "str"
IsFile(entry) == entry.kind = "dict" /\ Has(entry, PathKey, "list")

\* The path under the torrent's name; segments that are no strings are skipped.
FilePath(name, entry) ==
    LET segments == SelectSeq(entry.map[PathKey].items, IsString)
    IN <<name>> \o [k \in 1..Len(segments) |-> segments[k].str]

\* extractFiles: what its loop has appended after k of the entries.
Files(info) ==
    LET name == info.map[NameKey].str
        entries == info.map[FilesKey].items
        upTo[k \in 0..Len(entries)] ==
          IF k = 0 THEN <<>>
          ELSE IF IsFile(entries[k])
            THEN Append(upTo[k - 1], [path |-> FilePath(name, entries[k]),
                                      size |-> DictInt(entries[k], LengthKey)])
            ELSE upTo[k - 1]
    IN IF Has(info, FilesKey, "list")
          THEN upTo[Len(entries)]
          ELSE <<[path |-> <<name>>, size |-> DictInt(info, LengthKey)]>>

\* int64 addition over the files.
TotalSize(files) ==
    LET upTo[k \in 0..Len(files)] ==
          IF k = 0 THEN 0 ELSE
            LET sum == upTo[k - 1] + files[k].size
            IN IF sum < -MaxInt - 1 THEN sum + 2 * (MaxInt + 1) ELSE Wrap(sum)
    IN upTo[Len(files)]

NoMeta == [name |-> <<>>, files |-> <<>>, total |-> 0]

MetaOf(info) == [name |-> info.map[NameKey].str, files |-> Files(info),
                 total |-> TotalSize(Files(info))]

Named(info) == Has(info, NameKey, "str") /\ info.map[NameKey].str # <<>>

\* The checks of Parse in their order.
Verdict ==
    IF pos # Len(data) THEN "trailing"
    ELSE IF root.kind # "dict" THEN "notDict"
    ELSE IF ~Has(root, InfoKey, "dict") THEN "noInfo"
    ELSE IF infoStart >= infoEnd THEN "noSpan"
    ELSE IF ~Named(root.map[InfoKey]) THEN "noName"
    ELSE IF Files(root.map[InfoKey]) = <<>> THEN "noFiles"
    ELSE "ok"

Parse ==
    /\ mode = "root"
    /\ mode' = "done"
    /\ result' = Verdict
    /\ meta' = IF Verdict = "ok" THEN MetaOf(root.map[InfoKey]) ELSE meta
    /\ UNCHANGED <<data, pos, stack, root, span>>

Init ==
    /\ data \in Input
    /\ pos = 0 /\ stack = <<>> /\ mode = "value" /\ root = Nothing
    /\ infoStart = 0 /\ infoEnd = 0
    /\ meta = NoMeta /\ result = "none"

Next ==
    \/ DecodeInt \/ DecodeString \/ OpenList \/ OpenDict \/ Unexpected
    \/ Element \/ Key
    \/ Parse

Spec == Init /\ [][Next]_vars

\* The decoder is a loop of one goroutine.
FairSpec == Spec /\ WF_vars(Next)

(***************************************************************************)
(* Properties                                                              *)
(***************************************************************************)
\* Every variable keeps its type: the position never leaves the input, the
\* recursion is never deeper than maxDepth, and pending keys point back.
TypeOK ==
    /\ data \in Seq(STRING)
    /\ pos \in 0..Len(data)
    /\ mode \in {"value", "loop", "root", "done"}
    /\ Len(stack) <= MaxDepth
    /\ \A k \in 1..Len(stack) :
          /\ stack[k].kind \in {"list", "dict"}
          /\ stack[k].kind = "dict" => stack[k].start \in 0..pos
    /\ infoStart \in 0..infoEnd /\ infoEnd \in 0..pos
    /\ result \in {"none", "syntax", "trailing", "notDict", "noInfo", "noSpan",
                   "noName", "noFiles", "ok", "panic"}

\* No input makes a slice expression go out of range, a length at the largest
\* integer included.
NeverPanics == result # "panic"

\* Every root dictionary with an info dictionary has its span: the check
\* "could not locate info dictionary bytes" never fires.
SpanIsFound ==
    mode = "root" /\ root.kind = "dict" /\ Has(root, InfoKey, "dict") => infoStart < infoEnd

\* Parse returns on every input.
ParseReturns == <>(result # "none")
=============================================================================
