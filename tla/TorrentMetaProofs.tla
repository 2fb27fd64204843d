------------------------- MODULE TorrentMetaProofs -------------------------
(***************************************************************************)
(* The decoder for every input, every depth limit and every width of the   *)
(* integers: that it is safe, that what it accepts is bencoded, that it    *)
(* accepts all that is, that it hashes the dictionary it reads, and what   *)
(* total it gives.                                                         *)
(***************************************************************************)
EXTENDS Bencode, SequenceTheorems, WellFoundedInduction, TLAPS

(***************************************************************************)
(* The inductive invariant.  TypeOK is not inductive: the length of the    *)
(* input bounds the ends that are computed, a frame has to keep its shape, *)
(* and the span is found because a pending key of the outermost dictionary *)
(* lies before the value that is being read.                               *)
(***************************************************************************)
IsFrame(f, p) ==
    \/ f = [kind |-> "list", items |-> f.items]
    \/ /\ f = [kind |-> "dict", map |-> f.map, key |-> f.key, start |-> f.start]
       /\ f.start \in 0..p

\* What the frames are made of is left open.
StackInv(s, p) ==
    /\ \E S : s \in Seq(S)
    /\ Len(s) <= MaxDepth
    /\ \A k \in 1..Len(s) : IsFrame(s[k], p)

\* A dictionary that is at the bottom of the stack and has an info key has
\* left the span of its value.
Found(s, from, to) ==
    Len(s) > 0 /\ s[1].kind = "dict" /\ InfoKey \in DOMAIN s[1].map => from < to

RootFound ==
    mode = "root" /\ root.kind = "dict" /\ InfoKey \in DOMAIN root.map => infoStart < infoEnd

DecoderInv ==
    /\ data \in Seq(STRING) /\ Len(data) <= MaxInt
    /\ pos \in 0..Len(data)
    /\ mode \in {"value", "loop", "root", "done"}
    /\ mode = "loop" => Len(stack) > 0
    /\ StackInv(stack, pos)
    /\ infoStart \in 0..infoEnd /\ infoEnd \in 0..pos
    /\ Found(stack, infoStart, infoEnd)
    /\ RootFound
    /\ result \in {"none", "syntax", "trailing", "notDict", "noInfo", "noSpan",
                   "noName", "noFiles", "ok"}

(***************************************************************************)
(* Lemmas about the operators                                              *)
(***************************************************************************)
\* The kind of a frame tells its shape.
LEMMA FrameShape ==
    ASSUME NEW f, NEW p, IsFrame(f, p)
    PROVE  \/ f.kind = "list" /\ f = [kind |-> "list", items |-> f.items]
           \/ /\ f.kind = "dict" /\ f.start \in 0..p
              /\ f = [kind |-> "dict", map |-> f.map, key |-> f.key, start |-> f.start]
<1>1. ASSUME f = [kind |-> "list", items |-> f.items] PROVE f.kind = "list"
  BY <1>1
<1>2. ASSUME f = [kind |-> "dict", map |-> f.map, key |-> f.key, start |-> f.start]
      PROVE  f.kind = "dict"
  BY <1>2
<1> QED BY <1>1, <1>2, Zenon DEF IsFrame

\* Atoi gives integers.
LEMMA AtoiInt == \A s : Atoi(s) \subseteq Int
BY TorrentAssumption DEF Atoi

\* A separator is in the rest of the input.
LEMMA IndexInRange ==
    ASSUME DecoderInv, NEW byte, NEW from \in Nat
    PROVE  IndexOf(byte, from) \subseteq from..(Len(data) - 1)
BY DEF IndexOf

\* A string that decodeString accepts lies in the rest of the input: its end
\* is computed without overflow.
LEMMA SlicesInRange ==
    ASSUME DecoderInv, NEW s \in Slices
    PROVE  /\ s.start \in (pos + 1)..s.end
           /\ s.end \in (pos + 1)..Len(data)
           /\ InRange(s)
<1>1. PICK sep \in IndexOf(":", pos) :
        s \in {[start |-> sep + 1, end |-> Wrap(sep + 1 + n)] : n \in Lengths(sep)}
  BY DEF Slices
<1>2. PICK n \in Lengths(sep) : s = [start |-> sep + 1, end |-> Wrap(sep + 1 + n)]
  BY <1>1
<1>3. sep \in pos..(Len(data) - 1) /\ pos \in Nat
  BY IndexInRange DEF DecoderInv
<1>4. n \in Int /\ 0 <= n /\ n <= Len(data) - (sep + 1)
  BY AtoiInt DEF Lengths
<1>5. Len(data) \in Nat /\ Len(data) <= MaxInt /\ MaxInt \in Nat
  BY TorrentAssumption DEF DecoderInv
<1>6. Wrap(sep + 1 + n) = sep + 1 + n
  BY <1>3, <1>4, <1>5 DEF Wrap
<1> QED BY <1>2, <1>3, <1>4, <1>5, <1>6 DEF InRange

(***************************************************************************)
(* Steps                                                                   *)
(***************************************************************************)
\* A frame that points back still does when the position moves on.
LEMMA FramesMoveOn ==
    ASSUME NEW s, NEW p \in Nat, NEW q \in Nat, p <= q, StackInv(s, p)
    PROVE  StackInv(s, q)
BY DEF StackInv, IsFrame

\* An error, or a panic that did not happen, leaves the decoder as it is.
LEMMA FinishKeepsInv ==
    ASSUME DecoderInv, Finish("syntax")
    PROVE  DecoderInv'
BY DEF DecoderInv, Finish, RootFound, span

\* A new frame below the depth limit.
LEMMA EnterKeepsInv ==
    ASSUME DecoderInv, More, NEW frame, IsFrame(frame, pos), Enter(frame),
           frame.kind = "dict" => frame.map = EmptyMap
    PROVE  DecoderInv'
<1>1. CASE Len(stack) + 1 > MaxDepth
  BY <1>1, FinishKeepsInv DEF Enter
<1>2. CASE ~(Len(stack) + 1 > MaxDepth)
  <2>1. PICK S : stack \in Seq(S)
    BY DEF DecoderInv, StackInv
  <2>2. /\ stack' = Append(stack, frame) /\ pos' = pos + 1 /\ mode' = "loop"
        /\ UNCHANGED <<data, root, infoStart, infoEnd, meta, result>>
    BY <1>2 DEF Enter, span
  <2>3. pos \in Nat /\ Len(data) \in Nat /\ pos' \in 0..Len(data)
    BY <2>2 DEF DecoderInv, More
  <2>4. stack \in Seq(S \cup {frame})
    BY <2>1
  <2>5. /\ stack' \in Seq(S \cup {frame}) /\ Len(stack') = Len(stack) + 1
        /\ Len(stack) \in Nat
        /\ \A k \in 1..Len(stack') :
              stack'[k] = IF k = Len(stack) + 1 THEN frame ELSE stack[k]
    BY <2>2, <2>4
  <2>6. StackInv(stack', pos)
    <3>1. \A k \in 1..Len(stack') : IsFrame(stack'[k], pos)
      BY <2>5 DEF DecoderInv, StackInv
    <3>2. Len(stack') <= MaxDepth
      BY <1>2, <2>5, TorrentAssumption
    <3> QED BY <2>5, <3>1, <3>2 DEF StackInv
  <2>7. StackInv(stack', pos')
    BY <2>2, <2>3, <2>6, FramesMoveOn
  <2>8. Found(stack', infoStart, infoEnd)
    <3>1. CASE Len(stack) = 0
      BY <2>5, <3>1 DEF Found, EmptyMap
    <3>2. CASE Len(stack) > 0
      BY <2>5, <3>2 DEF Found, DecoderInv
    <3> QED BY <2>5, <3>1, <3>2
  <2> QED BY <2>2, <2>3, <2>5, <2>7, <2>8 DEF DecoderInv, RootFound
<1> QED BY <1>1, <1>2

\* A list frame with other items.
WithItems(f, items) == [f EXCEPT !.items = items]

LEMMA ItemsReplaced ==
    ASSUME NEW f, NEW items, f = [kind |-> "list", items |-> f.items]
    PROVE  WithItems(f, items) = [kind |-> "list", items |-> items]
BY DEF WithItems

\* A value of at least one byte is returned to the innermost of the frames.
LEMMA ReturnKeepsInv ==
    ASSUME DecoderInv, NEW v, NEW upTo \in (pos + 1)..Len(data), NEW frames,
           StackInv(frames, pos), Found(frames, infoStart, infoEnd),
           frames = <<>> /\ v.kind = "dict" /\ InfoKey \in DOMAIN v.map
             => infoStart < infoEnd,
           Return(v, upTo, frames)
    PROVE  DecoderInv'
<1> DEFINE n == Len(frames)
<1>1. PICK S : frames \in Seq(S)
  BY DEF StackInv
<1>2. /\ pos \in Nat /\ Len(data) \in Nat /\ n \in Nat /\ upTo \in Nat /\ pos < upTo
      /\ infoStart \in Nat /\ infoEnd \in Nat /\ infoStart <= infoEnd /\ infoEnd <= pos
  BY <1>1 DEF DecoderInv
<1>3. pos' = upTo /\ UNCHANGED <<data, meta, result>>
  BY DEF Return
<1>4. CASE frames = <<>> /\ mode' = "root" /\ root' = v /\ stack' = frames /\ UNCHANGED span
  <2>1. StackInv(stack', upTo)
    BY <1>2, <1>4, FramesMoveOn
  <2> QED BY <1>2, <1>3, <1>4, <2>1 DEF DecoderInv, RootFound, Found, span
<1>5. CASE /\ frames # <<>> /\ frames[n].kind = "list" /\ mode' = "loop"
           /\ stack' = [frames EXCEPT ![n].items = Append(@, v)]
           /\ UNCHANGED <<root, span>>
  <2>1. n > 0 /\ n \in 1..n
    BY <1>1, <1>2, <1>5
  <2>2. frames[n] = [kind |-> "list", items |-> frames[n].items]
    <3>1. IsFrame(frames[n], pos)
      BY <2>1 DEF StackInv
    <3> QED BY <1>5, <3>1, FrameShape
  <2> DEFINE top == [kind |-> "list", items |-> Append(frames[n].items, v)]
  <2>3. [frames[n] EXCEPT !.items = Append(@, v)] = top
    <3>1. WithItems(frames[n], Append(frames[n].items, v)) = top
      BY <2>2, ItemsReplaced
    <3> QED BY <3>1 DEF WithItems
  <2>4. stack' = [frames EXCEPT ![n] = top]
    BY <1>1, <1>5, <2>3
  <2>5. IsFrame(top, pos)
    BY DEF IsFrame
  <2> HIDE DEF top
  <2>6. frames \in Seq(S \cup {top})
    BY <1>1
  <2>7. /\ stack' \in Seq(S \cup {top}) /\ Len(stack') = n
        /\ \A k \in 1..n : stack'[k] = IF k = n THEN top ELSE frames[k]
    BY <2>1, <2>4, <2>6
  <2>8. StackInv(stack', pos)
    BY <2>5, <2>7 DEF StackInv
  <2>9. StackInv(stack', upTo)
    BY <1>2, <2>8, FramesMoveOn
  <2>10. Found(stack', infoStart, infoEnd)
    <3>1. top.kind = "list"
      BY DEF top
    <3> QED BY <2>1, <2>7, <3>1 DEF Found
  <2> QED BY <1>2, <1>3, <1>5, <2>1, <2>7, <2>9, <2>10 DEF DecoderInv, RootFound, span
<1>6. CASE /\ frames # <<>> /\ frames[n].kind = "dict" /\ mode' = "loop"
           /\ stack' = [frames EXCEPT ![n].map = Bind(frames[n], v)]
           /\ RecordInfo(frames, upTo)
           /\ UNCHANGED root
  <2>1. n > 0 /\ n \in 1..n
    BY <1>1, <1>2, <1>6
  <2>2. /\ frames[n] = [kind |-> "dict", map |-> frames[n].map, key |-> frames[n].key,
                        start |-> frames[n].start]
        /\ frames[n].start \in 0..pos
    <3>1. IsFrame(frames[n], pos)
      BY <2>1 DEF StackInv
    <3> QED BY <1>6, <3>1, FrameShape
  <2> DEFINE top == [kind |-> "dict", map |-> Bind(frames[n], v), key |-> frames[n].key,
                     start |-> frames[n].start]
  <2>3. [frames[n] EXCEPT !.map = Bind(frames[n], v)] = top
    BY <2>2
  <2>4. stack' = [frames EXCEPT ![n] = top]
    BY <1>1, <1>6, <2>3
  <2>5. IsFrame(top, pos)
    BY <2>2 DEF IsFrame
  <2>6. /\ top.kind = "dict"
        /\ DOMAIN top.map = DOMAIN frames[n].map \cup {frames[n].key}
    BY DEF Bind
  <2> HIDE DEF top
  <2>7. frames \in Seq(S \cup {top})
    BY <1>1
  <2>8. /\ stack' \in Seq(S \cup {top}) /\ Len(stack') = n
        /\ \A k \in 1..n : stack'[k] = IF k = n THEN top ELSE frames[k]
    BY <2>1, <2>4, <2>7
  <2>9. StackInv(stack', pos)
    BY <2>5, <2>8 DEF StackInv
  <2>10. StackInv(stack', upTo)
    BY <1>2, <2>9, FramesMoveOn
  <2>11. CASE n = 1 /\ frames[n].key = InfoKey
    <3>1. infoStart' = frames[n].start /\ infoEnd' = upTo
      BY <1>6, <2>11 DEF RecordInfo
    <3>2. infoStart' < infoEnd' /\ infoStart' \in 0..infoEnd' /\ infoEnd' \in 0..upTo
      BY <1>2, <2>2, <3>1
    <3> QED BY <1>2, <1>3, <1>6, <2>1, <2>8, <2>10, <3>2 DEF DecoderInv, RootFound, Found
  <2>12. CASE n = 1 /\ frames[n].key # InfoKey
    <3>1. UNCHANGED <<infoStart, infoEnd>>
      BY <1>6, <2>12 DEF RecordInfo, span
    <3>2. frames[1].kind = "dict" /\ stack'[1] = top /\ InfoKey # frames[1].key
      BY <1>6, <2>1, <2>8, <2>12
    <3>3. Found(stack', infoStart, infoEnd)
      BY <2>1, <2>6, <2>12, <3>2 DEF Found
    <3> QED BY <1>2, <1>3, <1>6, <2>1, <2>8, <2>10, <3>1, <3>3 DEF DecoderInv, RootFound
  <2>13. CASE n # 1
    <3>1. UNCHANGED <<infoStart, infoEnd>>
      BY <1>6, <2>13 DEF RecordInfo, span
    <3>2. Found(stack', infoStart, infoEnd)
      BY <1>2, <2>1, <2>8, <2>13 DEF Found
    <3> QED BY <1>2, <1>3, <1>6, <2>1, <2>8, <2>10, <3>1, <3>2 DEF DecoderInv, RootFound
  <2> QED BY <2>11, <2>12, <2>13
<1> QED BY <1>4, <1>5, <1>6 DEF Return

\* The frames below the innermost one.
LEMMA BelowFrames ==
    ASSUME DecoderInv, mode = "loop"
    PROVE  /\ Len(stack) \in Nat /\ Len(stack) > 0
           /\ (\E S : Below \in Seq(S)) /\ Len(Below) = Len(stack) - 1
           /\ \A k \in 1..(Len(stack) - 1) : Below[k] = stack[k]
<1>1. PICK S : stack \in Seq(S)
  BY DEF DecoderInv, StackInv
<1>2. Len(stack) \in Nat /\ Len(stack) > 0
  BY <1>1 DEF DecoderInv
<1>3. /\ Below \in Seq(S) /\ Len(Below) = Len(stack) - 1
      /\ \A k \in 1..(Len(stack) - 1) : Below[k] = stack[k]
  <2>1. \A k \in 1..(Len(stack) - 1) : stack[k] \in S
    BY <1>1, <1>2
  <2> DEFINE B == SubSeq(stack, 1, Len(stack) - 1)
  <2>2. /\ B \in Seq(S)
        /\ Len(B) = IF 1 <= Len(stack) - 1 THEN Len(stack) - 1 - 1 + 1 ELSE 0
        /\ \A k \in 1..(Len(stack) - 1 - 1 + 1) : B[k] = stack[1 + k - 1]
    BY <1>2, <2>1, SubSeqProperties
  <2>3. Below = B
    BY DEF Below
  <2> HIDE DEF B
  <2>4. /\ Len(B) = Len(stack) - 1
        /\ \A k \in 1..(Len(stack) - 1) : B[k] = stack[k]
    <3>1. Len(B) = Len(stack) - 1
      <4>1. Len(B) = IF 1 <= Len(stack) - 1 THEN Len(stack) - 1 - 1 + 1 ELSE 0
        BY <2>2
      <4>2. CASE Len(stack) = 1
        BY <4>1, <4>2
      <4>3. CASE Len(stack) # 1
        <5>1. 1 <= Len(stack) - 1 /\ Len(stack) - 1 - 1 + 1 = Len(stack) - 1
          BY <1>2, <4>3
        <5> QED BY <4>1, <5>1
      <4> QED BY <4>2, <4>3
    <3>2. ASSUME NEW k \in 1..(Len(stack) - 1) PROVE B[k] = stack[k]
      <4>1. k \in 1..(Len(stack) - 1 - 1 + 1) /\ 1 + k - 1 = k
        BY <1>2
      <4>2. B[k] = stack[1 + k - 1]
        BY <2>2, <4>1
      <4> QED BY <4>1, <4>2
    <3> QED BY <3>1, <3>2
  <2> QED BY <2>2, <2>3, <2>4
<1> QED BY <1>2, <1>3

\* The frames below the innermost one keep what they have.
LEMMA BelowKeeps ==
    ASSUME DecoderInv, mode = "loop"
    PROVE  /\ StackInv(Below, pos)
           /\ Found(Below, infoStart, infoEnd)
           /\ Below = <<>> => Len(stack) = 1
<1>1. Len(stack) \in Nat /\ Len(stack) > 0
  BY BelowFrames
<1>2. PICK S : Below \in Seq(S)
  BY BelowFrames
<1>3. /\ Len(Below) = Len(stack) - 1
      /\ \A k \in 1..(Len(stack) - 1) : Below[k] = stack[k]
  BY BelowFrames
<1>4. StackInv(Below, pos)
  <2>1. Len(Below) <= MaxDepth
    BY <1>1, <1>3, TorrentAssumption DEF DecoderInv, StackInv
  <2>2. \A k \in 1..Len(Below) : IsFrame(Below[k], pos)
    BY <1>1, <1>3 DEF DecoderInv, StackInv
  <2> QED BY <1>2, <2>1, <2>2 DEF StackInv
<1>5. Found(Below, infoStart, infoEnd)
  BY <1>1, <1>3 DEF DecoderInv, Found
<1>6. Below = <<>> => Len(stack) = 1
  BY <1>1, <1>3
<1> QED BY <1>4, <1>5, <1>6

\* The end of a list or a dictionary.
LEMMA CloseKeepsInv ==
    ASSUME DecoderInv, mode = "loop", More, NEW v, Return(v, pos + 1, Below),
           v.kind = "dict" => Top.kind = "dict" /\ v.map = Top.map
    PROVE  DecoderInv'
<1>1. pos + 1 \in (pos + 1)..Len(data)
  BY DEF More, DecoderInv
<1>2. Below = <<>> /\ v.kind = "dict" /\ InfoKey \in DOMAIN v.map => infoStart < infoEnd
  BY BelowKeeps DEF Top, DecoderInv, Found
<1> QED BY <1>1, <1>2, BelowKeeps, ReturnKeepsInv

\* One step of the decoder keeps the invariant.
LEMMA DecoderStep == DecoderInv /\ [Next]_vars => DecoderInv'
<1> SUFFICES ASSUME DecoderInv, [Next]_vars PROVE DecoderInv'
  OBVIOUS
<1>0. /\ StackInv(stack, pos) /\ Found(stack, infoStart, infoEnd)
      /\ pos \in Nat /\ Len(data) \in Nat
  BY DEF DecoderInv
<1>1. CASE DecodeInt
  <2> DEFINE Numbers ==
        UNION {{[end |-> end, int |-> n] : n \in Atoi(Bytes(pos + 1, end))} :
                  end \in IndexOf("e", pos + 1)}
  <2>1. ASSUME NEW n \in Numbers, Return([kind |-> "int", int |-> n.int], n.end + 1, stack)
        PROVE  DecoderInv'
    <3>1. n.end \in IndexOf("e", pos + 1)
      OBVIOUS
    <3>2. n.end + 1 \in (pos + 1)..Len(data)
      BY <1>0, <3>1, IndexInRange
    <3>3. \/ stack # <<>>
          \/ [kind |-> "int", int |-> n.int].kind # "dict"
      OBVIOUS
    <3> QED BY <1>0, <2>1, <3>2, <3>3, ReturnKeepsInv
  <2> QED BY <1>1, <2>1, FinishKeepsInv DEF DecodeInt
<1>2. CASE DecodeString
  <2>1. ASSUME NEW s \in Slices,
               Return([kind |-> "str", str |-> Bytes(s.start, s.end)], s.end, stack)
        PROVE  DecoderInv'
    BY <1>0, <2>1, SlicesInRange, ReturnKeepsInv
  <2> QED BY <1>2, <2>1, FinishKeepsInv, SlicesInRange DEF DecodeString
<1>3. CASE OpenList
  <2> DEFINE f == [kind |-> "list", items |-> <<>>]
  <2>1. IsFrame(f, pos) /\ f.kind # "dict"
    BY DEF IsFrame
  <2> QED BY <1>3, <2>1, EnterKeepsInv DEF OpenList
<1>4. CASE OpenDict
  <2> DEFINE f == [kind |-> "dict", map |-> EmptyMap, key |-> <<>>, start |-> 0]
  <2>1. IsFrame(f, pos) /\ f.map = EmptyMap
    BY <1>0 DEF IsFrame
  <2> QED BY <1>4, <2>1, EnterKeepsInv DEF OpenDict
<1>5. CASE Unexpected
  BY <1>5, FinishKeepsInv DEF Unexpected
<1>6. CASE Element
  <2>1. CASE ~More /\ Finish("syntax")
    BY <2>1, FinishKeepsInv
  <2>2. CASE More /\ Return([kind |-> "list", items |-> Top.items], pos + 1, Below)
    BY <1>6, <2>2, CloseKeepsInv DEF Element
  <2>3. CASE mode' = "value" /\ UNCHANGED <<data, pos, stack, root, span, meta, result>>
    BY <2>3 DEF DecoderInv, RootFound, span
  <2> QED BY <1>6, <2>1, <2>2, <2>3 DEF Element
<1>7. CASE Key
  <2>1. CASE (~More /\ Finish("syntax")) \/ (Slices = {} /\ Finish("syntax"))
    BY <2>1, FinishKeepsInv
  <2>2. CASE More /\ Return([kind |-> "dict", map |-> Top.map], pos + 1, Below)
    BY <1>7, <2>2, CloseKeepsInv DEF Key
  <2>3. ASSUME NEW s \in Slices, mode = "loop", Top.kind = "dict", Pend(s) PROVE DecoderInv'
    <3> DEFINE n == Len(stack)
    <3>1. PICK S : stack \in Seq(S)
      BY <1>0 DEF StackInv
    <3>2. n \in Nat /\ n > 0 /\ n \in 1..n
      BY <2>3, <3>1 DEF DecoderInv
    <3> DEFINE top == [kind |-> "dict", map |-> stack[n].map,
                       key |-> Bytes(s.start, s.end), start |-> s.end]
    <3>4. /\ stack' = [stack EXCEPT ![n] = top]
          /\ pos' = s.end /\ mode' = "value"
          /\ UNCHANGED <<data, root, infoStart, infoEnd, meta, result>>
      BY <2>3, <3>1, <3>2 DEF Pend, span
    <3>6. s.end \in (pos + 1)..Len(data)
      BY <2>3, SlicesInRange
    <3>7. IsFrame(top, s.end) /\ top.kind = "dict" /\ top.map = stack[n].map
      BY <1>0, <3>6 DEF IsFrame
    <3> HIDE DEF top
    <3>8. stack \in Seq(S \cup {top})
      BY <3>1
    <3>9. /\ stack' \in Seq(S \cup {top}) /\ Len(stack') = n
          /\ \A k \in 1..n : stack'[k] = IF k = n THEN top ELSE stack[k]
      BY <3>2, <3>4, <3>8
    <3>10. StackInv(stack, s.end)
      BY <1>0, <3>6, FramesMoveOn
    <3>11. StackInv(stack', s.end)
      BY <3>7, <3>9, <3>10 DEF StackInv
    <3>12. Found(stack', infoStart, infoEnd)
      BY <1>0, <2>3, <3>2, <3>7, <3>9 DEF Found, Top
    <3> QED BY <1>0, <3>4, <3>6, <3>11, <3>12 DEF DecoderInv, RootFound
  <2> QED BY <1>7, <2>1, <2>2, <2>3, SlicesInRange DEF Key
<1>8. CASE Parse
  <2>1. result' \in {"trailing", "notDict", "noInfo", "noSpan", "noName", "noFiles", "ok"}
    BY <1>8 DEF Parse, Verdict
  <2> QED BY <1>8, <2>1 DEF Parse, DecoderInv, RootFound, span
<1>9. CASE UNCHANGED vars
  BY <1>9 DEF vars, span, DecoderInv, RootFound
<1> QED BY <1>1, <1>2, <1>3, <1>4, <1>5, <1>6, <1>7, <1>8, <1>9 DEF Next

\* The invariant holds for every input.
THEOREM DecoderInvariant == Spec => []DecoderInv
<1>1. Init => DecoderInv
  <2> SUFFICES ASSUME Init PROVE DecoderInv
    OBVIOUS
  <2>1. data \in Seq(STRING) /\ Len(data) <= MaxInt /\ Len(data) \in Nat
    BY TorrentAssumption DEF Init
  <2>2. StackInv(<<>>, 0) /\ Found(<<>>, 0, 0)
    <3>1. <<>> \in Seq({}) /\ Len(<<>>) = 0
      OBVIOUS
    <3> QED BY <3>1, TorrentAssumption DEF StackInv, Found
  <2> QED BY <2>1, <2>2 DEF Init, DecoderInv, RootFound
<1> QED BY <1>1, DecoderStep, PTL DEF Spec

\* The position stays in the input and the nesting below its limit.
THEOREM DecoderTyped == Spec => []TypeOK
<1>1. DecoderInv => TypeOK
  <2> SUFFICES ASSUME DecoderInv PROVE TypeOK
    OBVIOUS
  <2>1. ASSUME NEW k \in 1..Len(stack)
        PROVE  /\ stack[k].kind \in {"list", "dict"}
               /\ stack[k].kind = "dict" => stack[k].start \in 0..pos
    <3>1. IsFrame(stack[k], pos)
      BY DEF DecoderInv, StackInv
    <3> QED BY <3>1, FrameShape
  <2> QED BY <2>1 DEF DecoderInv, StackInv, TypeOK
<1> QED BY <1>1, DecoderInvariant, PTL

\* No input takes a slice out of range, however wide its lengths are.
THEOREM DecoderNeverPanics == Spec => []NeverPanics
<1>1. DecoderInv => NeverPanics
  BY DEF DecoderInv, NeverPanics
<1> QED BY <1>1, DecoderInvariant, PTL

\* An info dictionary that was decoded has its span.
THEOREM SpanIsAlwaysFound == Spec => []SpanIsFound
<1>1. DecoderInv => SpanIsFound
  BY DEF DecoderInv, RootFound, SpanIsFound, Has
<1> QED BY <1>1, DecoderInvariant, PTL

(***************************************************************************)
(* The meaning of the input as rules: those of the grammar, which say when *)
(* bytes denote a datum, and those rules read backwards, which say what a  *)
(* datum that bytes denote is made of.                                     *)
(***************************************************************************)
Position == 0..Len(data)

\* A length, a colon and as many bytes.
StringSpan(from, to, str) ==
    \E sep \in from..(to - 1) :
        /\ At(sep) = ":"
        /\ to - (sep + 1) \in Atoi(Bytes(from, sep))
        /\ str = Bytes(sep + 1, to)

IntRule ==
    \A depth \in 0..MaxDepth, from, to \in Position :
        \A n \in Atoi(Bytes(from + 1, to - 1)) :
            Bracketed("i", from, to) => Denotes("value", depth, from, to, [kind |-> "int", int |-> n])

StringRule ==
    \A depth \in 0..MaxDepth, from, to \in Position : \A str :
        from < to /\ At(from) \in DOMAIN Digit /\ StringSpan(from, to, str)
            => Denotes("value", depth, from, to, [kind |-> "str", str |-> str])

ListRule ==
    \A depth \in 1..MaxDepth, from, to \in Position : \A s :
        Bracketed("l", from, to) /\ Denotes("items", depth - 1, from + 1, to - 1, s)
            => Denotes("value", depth, from, to, [kind |-> "list", items |-> s])

DictRule ==
    \A depth \in 1..MaxDepth, from, to \in Position : \A m :
        Bracketed("d", from, to) /\ Denotes("entries", depth - 1, from + 1, to - 1, m)
            => Denotes("value", depth, from, to, [kind |-> "dict", map |-> m])

ItemsRule ==
    \A depth \in 0..MaxDepth, from \in Position :
        /\ Denotes("items", depth, from, from, <<>>)
        /\ \A cut, to \in Position : \A s, v :
              Denotes("items", depth, from, cut, s) /\ Denotes("value", depth, cut, to, v)
                  => Denotes("items", depth, from, to, Append(s, v))

EntriesRule ==
    \A depth \in 0..MaxDepth, from \in Position :
        /\ Denotes("entries", depth, from, from, EmptyMap)
        /\ \A at, cut, to \in Position : \A m, key, v :
              /\ Denotes("entries", depth, from, at, m)
              /\ StringSpan(at, cut, key)
              /\ Denotes("value", depth, cut, to, v)
              => Denotes("entries", depth, from, to, With(m, key, v))

Grammar == IntRule /\ StringRule /\ ListRule /\ DictRule /\ ItemsRule /\ EntriesRule

\* The bindings of rest win.
Over(map, rest) ==
    [k \in DOMAIN map \cup DOMAIN rest |-> IF k \in DOMAIN rest THEN rest[k] ELSE map[k]]

Unfolds(depth, from, to, v) ==
    \/ /\ Bracketed("i", from, to)
       /\ \E n \in Atoi(Bytes(from + 1, to - 1)) : v = [kind |-> "int", int |-> n]
    \/ /\ from < to /\ At(from) \in DOMAIN Digit
       /\ \E str : StringSpan(from, to, str) /\ v = [kind |-> "str", str |-> str]
    \/ /\ depth > 0 /\ Bracketed("l", from, to)
       /\ \E s : Denotes("items", depth - 1, from + 1, to - 1, s) /\ v = [kind |-> "list", items |-> s]
    \/ /\ depth > 0 /\ Bracketed("d", from, to)
       /\ \E m : Denotes("entries", depth - 1, from + 1, to - 1, m) /\ v = [kind |-> "dict", map |-> m]

UnfoldsList(depth, from, to, s) ==
    \/ from = to /\ s = <<>>
    \/ \E cut \in Position : \E v, rest, S :
          /\ v \in S /\ rest \in Seq(S) /\ s = <<v>> \o rest
          /\ Denotes("value", depth, from, cut, v)
          /\ Denotes("items", depth, cut, to, rest)

UnfoldsMap(depth, from, to, m) ==
    \/ from = to /\ m = EmptyMap
    \/ \E at, cut \in Position : \E key, v, rest :
          /\ StringSpan(from, at, key)
          /\ Denotes("value", depth, at, cut, v)
          /\ Denotes("entries", depth, cut, to, rest)
          /\ m = Over(With(EmptyMap, key, v), rest)

Unfolded ==
    \A depth \in 0..MaxDepth, from, to \in Position : \A datum :
        /\ Denotes("value", depth, from, to, datum) => Unfolds(depth, from, to, datum)
        /\ Denotes("items", depth, from, to, datum) => UnfoldsList(depth, from, to, datum)
        /\ Denotes("entries", depth, from, to, datum) => UnfoldsMap(depth, from, to, datum)

(***************************************************************************)
(* The meaning follows these rules.  It is a recursive function, so first  *)
(* of all there has to be a function that satisfies its equation: one for  *)
(* spans up to a size, by induction on the size, and from these the whole. *)
(* The library's induction takes an operator; here it is that a set of     *)
(* naturals has a least element.                                           *)
(***************************************************************************)
LEMMA LeastNatural ==
    ASSUME NEW T, T \subseteq Nat, T # {}
    PROVE  \E m \in T : \A k \in T : ~ (k < m)
<1> DEFINE R == {ss \in Nat \X Nat : ss[1] < ss[2]}
<1>1. OpToRel(<, Nat) = R
  BY DEF OpToRel
<1>2. IsWellFoundedOn(R, Nat)
  BY <1>1, NatLessThanWellFounded
<1> HIDE DEF R
<1>3. \E x \in T : \A y \in T : ~ (<<y, x>> \in R)
  BY <1>2, WFMin
<1>4. PICK m \in T : \A y \in T : ~ (<<y, m>> \in R)
  BY <1>3
<1>5. \A k \in T : ~ (k < m)
  BY <1>4 DEF R
<1> QED BY <1>4, <1>5

LEMMA InductionOnNat ==
    ASSUME NEW S, S \subseteq Nat, 0 \in S, \A n \in Nat : n \in S => n + 1 \in S
    PROVE  S = Nat
<1>1. SUFFICES ASSUME Nat \ S # {} PROVE FALSE
  OBVIOUS
<1>2. PICK m \in Nat \ S : \A k \in Nat \ S : ~ (k < m)
  BY <1>1, LeastNatural
<1>3. m # 0 /\ m - 1 \in Nat /\ m - 1 < m
  BY <1>2
<1>4. m - 1 \in S
  BY <1>2, <1>3
<1> QED BY <1>2, <1>3, <1>4

\* Sets are equal when they have the same members.
LEMMA SameMembers ==
    ASSUME NEW S, NEW T, \A x : x \in S <=> x \in T
    PROVE  S = T
OBVIOUS

\* Membership in what the recursion collects.
ItemsIn(meant, from, to, depth, x) ==
    \/ from = to /\ x = <<>>
    \/ /\ from # to
       /\ \E cut \in from..(to - 1) :
             \E s \in meant[<<"items", from, cut, depth>>],
                v \in meant[<<"value", cut, to, depth>>] : x = Append(s, v)

LastEntry(ms, keys, vs, x) == \E m \in ms, key \in keys, v \in vs : x = With(m, key, v)

EntriesIn(meant, from, to, depth, x) ==
    \/ from = to /\ x = EmptyMap
    \/ /\ from # to
       /\ \E at, cut \in from..(to - 1) :
             /\ at < cut
             /\ LastEntry(meant[<<"entries", from, at, depth>>], Texts(at, cut),
                          meant[<<"value", cut, to, depth>>], x)

LEMMA ItemsMembers ==
    ASSUME NEW meant, NEW from \in Nat, NEW to \in Nat, NEW depth \in Nat, NEW x
    PROVE  x \in ItemsOf(meant, from, to, depth) <=> ItemsIn(meant, from, to, depth, x)
<1>1. CASE from = to
  BY <1>1 DEF ItemsOf, ItemsIn
<1>2. CASE from # to
  <2> DEFINE P(cut) == {Append(s, v) : s \in meant[<<"items", from, cut, depth>>],
                                       v \in meant[<<"value", cut, to, depth>>]}
             C == {k \in from..(to - 1) : meant[<<"value", k, to, depth>>] # {}}
  <2>1. ItemsOf(meant, from, to, depth) = UNION {P(cut) : cut \in C}
    BY <1>2 DEF ItemsOf
  <2>2. ASSUME NEW cut \in from..(to - 1)
        PROVE  x \in P(cut) <=> \E s \in meant[<<"items", from, cut, depth>>],
                                   v \in meant[<<"value", cut, to, depth>>] : x = Append(s, v)
    OBVIOUS
  <2>3. ASSUME NEW cut \in from..(to - 1), x \in P(cut) PROVE cut \in C
    BY <2>3
  <2>4. C \subseteq from..(to - 1)
    OBVIOUS
  <2> HIDE DEF P, C
  <2>5. x \in UNION {P(cut) : cut \in C} <=> \E cut \in from..(to - 1) : x \in P(cut)
    BY <2>3, <2>4
  <2> QED BY <1>2, <2>1, <2>2, <2>5 DEF ItemsIn
<1> QED BY <1>1, <1>2

LEMMA EntriesMembers ==
    ASSUME NEW meant, NEW from \in Nat, NEW to \in Nat, NEW depth \in Nat, NEW x
    PROVE  x \in EntriesOf(meant, from, to, depth) <=> EntriesIn(meant, from, to, depth, x)
<1>1. CASE from = to
  BY <1>1 DEF EntriesOf, EntriesIn
<1>2. CASE from # to
  <2> DEFINE P(k) == {With(m, key, v) : m \in meant[<<"entries", from, k[1], depth>>],
                                        key \in Texts(k[1], k[2]),
                                        v \in meant[<<"value", k[2], to, depth>>]}
             B == (from..(to - 1)) \X (from..(to - 1))
             C == {c \in B : c[1] < c[2] /\ Texts(c[1], c[2]) # {}
                               /\ meant[<<"value", c[2], to, depth>>] # {}}
             Q(at, cut) == LastEntry(meant[<<"entries", from, at, depth>>], Texts(at, cut),
                                     meant[<<"value", cut, to, depth>>], x)
  <2>1. EntriesOf(meant, from, to, depth) = UNION {P(k) : k \in C}
    BY <1>2 DEF EntriesOf
  <2>2. ASSUME NEW k \in B
        PROVE  x \in P(k) <=> Q(k[1], k[2])
    BY DEF LastEntry
  <2>3. ASSUME NEW k \in B, x \in P(k), k[1] < k[2] PROVE k \in C
    BY <2>3
  <2>4. C \subseteq B /\ \A k \in C : k[1] < k[2]
    OBVIOUS
  <2> HIDE DEF P, C
  <2>5. x \in UNION {P(k) : k \in C} <=> \E k \in B : k[1] < k[2] /\ x \in P(k)
    BY <2>3, <2>4
  <2> HIDE DEF Q
  <2>6. (\E k \in B : k[1] < k[2] /\ x \in P(k))
          <=> \E at, cut \in from..(to - 1) : at < cut /\ Q(at, cut)
    <3>1. ASSUME NEW k \in B, k[1] < k[2], x \in P(k)
          PROVE  \E at, cut \in from..(to - 1) : at < cut /\ Q(at, cut)
      <4>1. k[1] \in from..(to - 1) /\ k[2] \in from..(to - 1)
        OBVIOUS
      <4> QED BY <2>2, <3>1, <4>1
    <3>2. ASSUME NEW at \in from..(to - 1), NEW cut \in from..(to - 1), at < cut, Q(at, cut)
          PROVE  \E k \in B : k[1] < k[2] /\ x \in P(k)
      <4>1. <<at, cut>> \in B /\ <<at, cut>>[1] = at /\ <<at, cut>>[2] = cut
        OBVIOUS
      <4> QED BY <2>2, <3>2, <4>1
    <3> QED BY <3>1, <3>2
  <2> QED BY <1>2, <2>1, <2>5, <2>6 DEF Q, EntriesIn
<1> QED BY <1>1, <1>2
\* Every span is read from smaller ones: a shorter span, or a value that is
\* the whole of a list's or a dictionary's span.
Size(q) ==
    2 * (IF q[2] <= q[3] THEN q[3] - q[2] ELSE 0) + (IF q[1] = "value" THEN 0 ELSE 1)

Reads(meant, q) == SpanOf(meant, q[1], q[2], q[3], q[4])

LEMMA SpanParts ==
    ASSUME NEW q \in Span
    PROVE  /\ q[1] \in {"value", "items", "entries"}
           /\ q[2] \in Nat /\ q[3] \in Nat /\ q[4] \in Nat
           /\ q = <<q[1], q[2], q[3], q[4]>>
           /\ Size(q) \in Nat
<1>1. /\ q[1] \in {"value", "items", "entries"}
      /\ q[2] \in Nat /\ q[3] \in Nat /\ q[4] \in Nat
      /\ q = <<q[1], q[2], q[3], q[4]>>
  BY DEF Span
<1>2. Size(q) \in Nat
  BY <1>1 DEF Size
<1> QED BY <1>1, <1>2

LEMMA ShorterSpans ==
    ASSUME NEW from \in Nat, NEW to \in Nat, NEW depth \in Nat
    PROVE  /\ \A kind \in {"value", "items", "entries"} :
                <<kind, from, to, depth>> \in Span
           /\ from < to => Size(<<"value", from, to, depth>>) = 2 * (to - from)
           /\ from <= to => Size(<<"items", from, to, depth>>) = 2 * (to - from) + 1
           /\ from <= to => Size(<<"entries", from, to, depth>>) = 2 * (to - from) + 1
BY DEF Span, Size

\* The reading of a span is that of any function that agrees on smaller ones.
LEMMA ValueReadsShorter ==
    ASSUME NEW from \in Nat, NEW to \in Nat, NEW depth \in Nat, NEW g, NEW h,
           \A r \in Span : Size(r) < Size(<<"value", from, to, depth>>) => g[r] = h[r]
    PROVE  ValueOf(g, from, to, depth) = ValueOf(h, from, to, depth)
<1>1. CASE from + 1 < to /\ depth > 0
  <2>1. from + 1 \in Nat /\ to - 1 \in Nat /\ depth - 1 \in Nat /\ from + 1 <= to - 1 /\ from < to
    BY <1>1
  <2> DEFINE f == from + 1
             t == to - 1
             d == depth - 1
  <2>2. f \in Nat /\ t \in Nat /\ d \in Nat /\ f <= t
    BY <2>1
  <2>3. t - f < to - from
    BY <1>1
  <2> HIDE DEF f, t, d
  <2>4. /\ Size(<<"items", f, t, d>>) = 2 * (t - f) + 1
        /\ Size(<<"entries", f, t, d>>) = 2 * (t - f) + 1
        /\ Size(<<"value", from, to, depth>>) = 2 * (to - from)
        /\ <<"items", f, t, d>> \in Span /\ <<"entries", f, t, d>> \in Span
    BY <2>1, <2>2, ShorterSpans
  <2>5. 2 * (t - f) + 1 < 2 * (to - from)
    BY <2>2, <2>3
  <2>6. g[<<"items", f, t, d>>] = h[<<"items", f, t, d>>]
    BY <2>4, <2>5
  <2>7. g[<<"entries", f, t, d>>] = h[<<"entries", f, t, d>>]
    BY <2>4, <2>5
  <2> QED BY <2>6, <2>7, Zenon DEF ValueOf, f, t, d
<1>2. CASE ~(from + 1 < to /\ depth > 0)
  BY <1>2, Zenon DEF ValueOf, Bracketed
<1> QED BY <1>1, <1>2

LEMMA ItemsReadShorter ==
    ASSUME NEW from \in Nat, NEW to \in Nat, NEW depth \in Nat, NEW g, NEW h,
           \A r \in Span : Size(r) < Size(<<"items", from, to, depth>>) => g[r] = h[r]
    PROVE  ItemsOf(g, from, to, depth) = ItemsOf(h, from, to, depth)
<1>1. ASSUME NEW cut \in from..(to - 1)
      PROVE  /\ g[<<"items", from, cut, depth>>] = h[<<"items", from, cut, depth>>]
             /\ g[<<"value", cut, to, depth>>] = h[<<"value", cut, to, depth>>]
  <2>1. cut \in Nat /\ from <= cut /\ cut < to /\ from <= to
    OBVIOUS
  <2>2. /\ <<"items", from, cut, depth>> \in Span /\ <<"value", cut, to, depth>> \in Span
        /\ Size(<<"items", from, cut, depth>>) = 2 * (cut - from) + 1
        /\ Size(<<"value", cut, to, depth>>) = 2 * (to - cut)
        /\ Size(<<"items", from, to, depth>>) = 2 * (to - from) + 1
    BY <2>1, ShorterSpans
  <2>3. 2 * (cut - from) + 1 < 2 * (to - from) + 1 /\ 2 * (to - cut) < 2 * (to - from) + 1
    BY <2>1
  <2>4. g[<<"items", from, cut, depth>>] = h[<<"items", from, cut, depth>>]
    BY <2>2, <2>3
  <2>5. g[<<"value", cut, to, depth>>] = h[<<"value", cut, to, depth>>]
    BY <2>2, <2>3
  <2> QED BY <2>4, <2>5
<1>2. \A x : ItemsIn(g, from, to, depth, x) <=> ItemsIn(h, from, to, depth, x)
  BY <1>1 DEF ItemsIn
<1>3. \A x : x \in ItemsOf(g, from, to, depth) <=> x \in ItemsOf(h, from, to, depth)
  BY <1>2, ItemsMembers
<1> QED BY <1>3, SameMembers

LEMMA EntriesReadShorter ==
    ASSUME NEW from \in Nat, NEW to \in Nat, NEW depth \in Nat, NEW g, NEW h,
           \A r \in Span : Size(r) < Size(<<"entries", from, to, depth>>) => g[r] = h[r]
    PROVE  EntriesOf(g, from, to, depth) = EntriesOf(h, from, to, depth)
<1>1. ASSUME NEW cut \in from..(to - 1)
      PROVE  /\ g[<<"entries", from, cut, depth>>] = h[<<"entries", from, cut, depth>>]
             /\ g[<<"value", cut, to, depth>>] = h[<<"value", cut, to, depth>>]
  <2>1. cut \in Nat /\ from <= cut /\ cut < to /\ from <= to
    OBVIOUS
  <2>2. /\ <<"entries", from, cut, depth>> \in Span /\ <<"value", cut, to, depth>> \in Span
        /\ Size(<<"entries", from, cut, depth>>) = 2 * (cut - from) + 1
        /\ Size(<<"value", cut, to, depth>>) = 2 * (to - cut)
        /\ Size(<<"entries", from, to, depth>>) = 2 * (to - from) + 1
    BY <2>1, ShorterSpans
  <2>3. 2 * (cut - from) + 1 < 2 * (to - from) + 1 /\ 2 * (to - cut) < 2 * (to - from) + 1
    BY <2>1
  <2>4. g[<<"entries", from, cut, depth>>] = h[<<"entries", from, cut, depth>>]
    BY <2>2, <2>3
  <2>5. g[<<"value", cut, to, depth>>] = h[<<"value", cut, to, depth>>]
    BY <2>2, <2>3
  <2> QED BY <2>4, <2>5
<1>2. \A x : EntriesIn(g, from, to, depth, x) <=> EntriesIn(h, from, to, depth, x)
  BY <1>1 DEF EntriesIn
<1>3. \A x : x \in EntriesOf(g, from, to, depth) <=> x \in EntriesOf(h, from, to, depth)
  BY <1>2, EntriesMembers
<1> QED BY <1>3, SameMembers

LEMMA ReadsShorter ==
    ASSUME NEW q \in Span, NEW g, NEW h,
           \A r \in Span : Size(r) < Size(q) => g[r] = h[r]
    PROVE  Reads(g, q) = Reads(h, q)
<1>1. PICK kind \in {"value", "items", "entries"}, from \in Nat, to \in Nat, depth \in Nat :
        q = <<kind, from, to, depth>>
  BY SpanParts
<1>2. /\ Reads(g, q) = SpanOf(g, kind, from, to, depth)
      /\ Reads(h, q) = SpanOf(h, kind, from, to, depth)
  BY <1>1 DEF Reads
<1>3. CASE kind = "value"
  <2>1. ValueOf(g, from, to, depth) = ValueOf(h, from, to, depth)
    BY <1>1, <1>3, ValueReadsShorter
  <2> QED BY <1>2, <1>3, <2>1 DEF SpanOf
<1>4. CASE kind = "items"
  <2>1. ItemsOf(g, from, to, depth) = ItemsOf(h, from, to, depth)
    BY <1>1, <1>4, ItemsReadShorter
  <2> QED BY <1>2, <1>4, <2>1 DEF SpanOf
<1>5. CASE kind = "entries"
  <2>1. EntriesOf(g, from, to, depth) = EntriesOf(h, from, to, depth)
    BY <1>1, <1>5, EntriesReadShorter
  <2> QED BY <1>2, <1>5, <2>1 DEF SpanOf
<1> QED BY <1>3, <1>4, <1>5

\* A solution for the spans below a size.
Partial(g, n) == g = [q \in {r \in Span : Size(r) < n} |-> Reads(g, q)]

\* There is one at most: where two differ they differ at a least span first.
LEMMA PartialsAgree ==
    ASSUME NEW g, NEW n \in Nat, Partial(g, n), NEW h, NEW m \in Nat, Partial(h, m)
    PROVE  \A q \in Span : Size(q) < n /\ Size(q) < m => g[q] = h[q]
<1> DEFINE T == {Size(q) : q \in {r \in Span : Size(r) < n /\ Size(r) < m /\ g[r] # h[r]}}
<1>1. SUFFICES ASSUME T # {} PROVE FALSE
  OBVIOUS
<1>2. T \subseteq Nat
  BY SpanParts
<1>3. PICK k \in T : \A j \in T : ~(j < k)
  BY <1>1, <1>2, LeastNatural
<1>4. PICK q \in Span : Size(q) < n /\ Size(q) < m /\ g[q] # h[q] /\ k = Size(q)
  BY <1>3
<1>5. ASSUME NEW r \in Span, Size(r) < Size(q) PROVE g[r] = h[r]
  <2>1. Size(r) \in Nat /\ Size(q) \in Nat
    BY SpanParts
  <2>2. Size(r) < n /\ Size(r) < m
    BY <1>4, <1>5, <2>1
  <2>3. CASE g[r] # h[r]
    <3>1. Size(r) \in T
      BY <2>2, <2>3
    <3> QED BY <1>3, <1>4, <1>5, <3>1
  <2> QED BY <2>3
<1>6. Reads(g, q) = Reads(h, q)
  BY <1>5, ReadsShorter
<1>7. g[q] = Reads(g, q)
  BY <1>4 DEF Partial
<1>8. h[q] = Reads(h, q)
  BY <1>4 DEF Partial
<1> QED BY <1>4, <1>6, <1>7, <1>8

\* And there is one: what the solution below n gives for spans of size n.
LEMMA PartialsExist == \A n \in Nat : \E g : Partial(g, n)
<1> DEFINE S == {n \in Nat : \E g : Partial(g, n)}
<1>1. 0 \in S
  <2> DEFINE g == [q \in {} |-> {}]
  <2>1. {r \in Span : Size(r) < 0} = {}
    BY SpanParts
  <2>2. g = [q \in {r \in Span : Size(r) < 0} |-> Reads(g, q)]
    BY <2>1
  <2>3. Partial(g, 0)
    BY <2>2 DEF Partial
  <2> QED BY <2>3
<1>2. ASSUME NEW n \in Nat, n \in S PROVE n + 1 \in S
  <2>1. PICK g : Partial(g, n)
    BY <1>2
  <2> DEFINE D == {r \in Span : Size(r) < n + 1}
             h == [q \in D |-> Reads(g, q)]
  <2>2. ASSUME NEW r \in Span, Size(r) < n PROVE g[r] = h[r]
    <3>1. r \in D
      BY <2>2, SpanParts
    <3>2. g[r] = Reads(g, r)
      BY <2>1, <2>2 DEF Partial
    <3> QED BY <3>1, <3>2
  <2>3. ASSUME NEW q \in D PROVE Reads(g, q) = Reads(h, q)
    <3>1. ASSUME NEW r \in Span, Size(r) < Size(q) PROVE g[r] = h[r]
      <4>1. Size(r) \in Nat /\ Size(q) \in Nat /\ Size(q) < n + 1
        BY SpanParts
      <4> HIDE DEF h, D
      <4> QED BY <2>2, <3>1, <4>1
    <3> HIDE DEF h
    <3> QED BY <3>1, ReadsShorter
  <2>4. h = [q \in D |-> Reads(h, q)]
    <3>1. \A q \in D : Reads(g, q) = Reads(h, q)
      BY <2>3
    <3> DEFINE k == [q \in D |-> Reads(h, q)]
    <3>2. h = k
      <4>1. DOMAIN h = D /\ DOMAIN k = D
        OBVIOUS
      <4>2. \A q \in D : h[q] = k[q]
        BY <3>1
      <4> HIDE DEF D
      <4> QED BY <3>1
    <3> QED BY <3>2
  <2>5. Partial(h, n + 1)
    <3> HIDE DEF h
    <3> QED BY <2>4 DEF Partial
  <2> QED BY <2>5
<1> HIDE DEF S
<1>3. S = Nat
  <2>1. S \subseteq Nat
    BY DEF S
  <2> QED BY <1>1, <1>2, <2>1, InductionOnNat
<1> QED BY <1>3 DEF S

\* The recursive function satisfies its equation.
LEMMA DenotedReads == denoted = [q \in Span |-> Reads(denoted, q)]
<1> DEFINE G(n) == CHOOSE g : Partial(g, n)
           full == [q \in Span |-> G(Size(q) + 1)[q]]
<1>1. \A n \in Nat : Partial(G(n), n)
  BY PartialsExist, Zenon
<1> HIDE DEF G
<1>2. ASSUME NEW q \in Span PROVE full[q] = Reads(full, q)
  <2> DEFINE n == Size(q) + 1
  <2>1. n \in Nat /\ Size(q) \in Nat /\ Size(q) < n
    BY SpanParts
  <2>2. full[q] = G(n)[q]
    OBVIOUS
  <2>3. G(n)[q] = Reads(G(n), q)
    <3>1. Partial(G(n), n)
      BY <1>1, <2>1
    <3> QED BY <2>1, <3>1 DEF Partial
  <2>4. ASSUME NEW r \in Span, Size(r) < Size(q) PROVE G(n)[r] = full[r]
    <3>1. Size(r) \in Nat /\ Size(r) + 1 \in Nat /\ Size(r) < Size(r) + 1 /\ Size(r) < n
      BY <2>1, <2>4, SpanParts
    <3>2. Partial(G(n), n) /\ Partial(G(Size(r) + 1), Size(r) + 1)
      BY <1>1, <2>1, <3>1
    <3> HIDE DEF n
    <3>3. G(n)[r] = G(Size(r) + 1)[r]
      BY <2>1, <3>1, <3>2, PartialsAgree
    <3> QED BY <3>3
  <2> HIDE DEF full, n
  <2>5. Reads(G(n), q) = Reads(full, q)
    BY <2>4, ReadsShorter
  <2> QED BY <2>2, <2>3, <2>5
<1>3. full = [q \in Span |-> Reads(full, q)]
  <2> DEFINE again == [q \in Span |-> Reads(full, q)]
  <2>1. \A q \in Span : full[q] = again[q]
    <3> HIDE DEF full
    <3> QED BY <1>2
  <2>2. again = [q \in Span |-> again[q]]
    OBVIOUS
  <2>3. full = [q \in Span |-> full[q]]
    OBVIOUS
  <2> HIDE DEF full, again
  <2>4. full = again
    BY <2>1, <2>2, <2>3
  <2> QED BY <2>4 DEF again
<1> DEFINE P(g) == g = [q \in Span |-> Reads(g, q)]
<1>4. \E g : P(g)
  <2> HIDE DEF full
  <2> QED BY <1>3
<1>5. P(CHOOSE g : P(g))
  <2> HIDE DEF P
  <2> QED BY <1>4, Zenon
<1>6. denoted = CHOOSE g : P(g)
  BY DEF denoted, Reads
<1> HIDE DEF P
<1>7. P(denoted)
  BY <1>5, <1>6
<1> QED BY <1>7 DEF P

\* The meaning depends on the input alone, which does not change.
LEMMA MeaningStays == ASSUME data' = data PROVE denoted' = denoted
BY DEF denoted, SpanOf, ValueOf, ItemsOf, EntriesOf, Bracketed, Number, Texts, At, Bytes

\* What a span denotes, read off the equation.
LEMMA Meant ==
    ASSUME NEW from \in Nat, NEW to \in Nat, NEW depth \in Nat, NEW x
    PROVE  /\ Denotes("value", depth, from, to, x) <=> x \in ValueOf(denoted, from, to, depth)
           /\ Denotes("items", depth, from, to, x) <=> ItemsIn(denoted, from, to, depth, x)
           /\ Denotes("entries", depth, from, to, x) <=> EntriesIn(denoted, from, to, depth, x)
<1>1. ASSUME NEW kind \in {"value", "items", "entries"}
      PROVE  denoted[<<kind, from, to, depth>>] = SpanOf(denoted, kind, from, to, depth)
  <2> DEFINE q == <<kind, from, to, depth>>
  <2>1. q \in Span /\ q[1] = kind /\ q[2] = from /\ q[3] = to /\ q[4] = depth
    BY ShorterSpans
  <2>2. denoted[q] = Reads(denoted, q)
    <3> HIDE DEF q
    <3> QED BY <2>1, DenotedReads
  <2> QED BY <2>1, <2>2 DEF Reads
<1>2. denoted[<<"value", from, to, depth>>] = ValueOf(denoted, from, to, depth)
  BY <1>1 DEF SpanOf
<1>3. denoted[<<"items", from, to, depth>>] = ItemsOf(denoted, from, to, depth)
  BY <1>1 DEF SpanOf
<1>4. denoted[<<"entries", from, to, depth>>] = EntriesOf(denoted, from, to, depth)
  BY <1>1 DEF SpanOf
<1> QED BY <1>2, <1>3, <1>4, ItemsMembers, EntriesMembers DEF Denotes

\* The texts of the recursion are the strings of the rules.
LEMMA StringTexts == \A from, to, str : StringSpan(from, to, str) <=> str \in Texts(from, to)
BY DEF StringSpan, Texts, Number

\* A value has a byte at least.
LEMMA ValuesExtend ==
    ASSUME NEW from \in Nat, NEW to \in Nat, NEW depth \in Nat, NEW x,
           Denotes("value", depth, from, to, x)
    PROVE  from < to
<1>1. x \in ValueOf(denoted, from, to, depth)
  BY Meant
<1>2. CASE Bracketed("i", from, to) \/ Bracketed("l", from, to) \/ Bracketed("d", from, to)
  BY <1>2 DEF Bracketed
<1>3. CASE ~(Bracketed("i", from, to) \/ Bracketed("l", from, to) \/ Bracketed("d", from, to))
  BY <1>1, <1>3, Zenon DEF ValueOf
<1> QED BY <1>2, <1>3

\* What is between brackets has no negative length.
LEMMA PartsExtend ==
    ASSUME NEW from \in Nat, NEW to \in Nat, NEW depth \in Nat, NEW x,
           Denotes("items", depth, from, to, x) \/ Denotes("entries", depth, from, to, x)
    PROVE  from <= to
<1>1. CASE ItemsIn(denoted, from, to, depth, x)
  <2>1. from = to \/ \E cut \in from..(to - 1) : TRUE
    BY <1>1, Zenon DEF ItemsIn
  <2> QED BY <2>1
<1>2. CASE EntriesIn(denoted, from, to, depth, x)
  <2>1. from = to \/ \E cut \in from..(to - 1) : TRUE
    BY <1>2, Zenon DEF EntriesIn
  <2> QED BY <2>1
<1> QED BY <1>1, <1>2, Meant

\* The meaning is closed under the rules of the grammar.
LEMMA MeaningIsClosed == Grammar
<1>0. /\ \A p \in Position : p \in Nat
      /\ \A d \in 0..MaxDepth : d \in Nat
  BY TorrentAssumption DEF Position
<1>1. IntRule
  <2> SUFFICES ASSUME NEW depth \in 0..MaxDepth, NEW from \in Position, NEW to \in Position,
                      NEW n \in Atoi(Bytes(from + 1, to - 1)), Bracketed("i", from, to)
               PROVE  Denotes("value", depth, from, to, [kind |-> "int", int |-> n])
    BY DEF IntRule
  <2>1. [kind |-> "int", int |-> n] \in ValueOf(denoted, from, to, depth)
    BY DEF ValueOf, Number
  <2> QED BY <1>0, <2>1, Meant
<1>2. StringRule
  <2> SUFFICES ASSUME NEW depth \in 0..MaxDepth, NEW from \in Position, NEW to \in Position,
                      NEW str, from < to, At(from) \in DOMAIN Digit, StringSpan(from, to, str)
               PROVE  Denotes("value", depth, from, to, [kind |-> "str", str |-> str])
    BY DEF StringRule
  <2>1. At(from) \in {"0", "1", "2", "3", "4", "5", "6", "7", "8", "9"}
    BY DEF Digit
  <2>2. ~Bracketed("i", from, to) /\ ~Bracketed("l", from, to) /\ ~Bracketed("d", from, to)
    BY <2>1 DEF Bracketed
  <2>3. str \in Texts(from, to)
    BY StringTexts
  <2>4. [kind |-> "str", str |-> str] \in ValueOf(denoted, from, to, depth)
    BY <2>2, <2>3 DEF ValueOf
  <2> QED BY <1>0, <2>4, Meant
<1>3. ListRule
  <2> SUFFICES ASSUME NEW depth \in 1..MaxDepth, NEW from \in Position, NEW to \in Position, NEW s,
                      Bracketed("l", from, to), Denotes("items", depth - 1, from + 1, to - 1, s)
               PROVE  Denotes("value", depth, from, to, [kind |-> "list", items |-> s])
    BY DEF ListRule
  <2>1. ~Bracketed("i", from, to) /\ depth > 0 /\ depth \in Nat
    BY TorrentAssumption DEF Bracketed
  <2>2. [kind |-> "list", items |-> s] \in ValueOf(denoted, from, to, depth)
    BY <2>1 DEF ValueOf, Denotes
  <2> QED BY <1>0, <2>1, <2>2, Meant
<1>4. DictRule
  <2> SUFFICES ASSUME NEW depth \in 1..MaxDepth, NEW from \in Position, NEW to \in Position, NEW m,
                      Bracketed("d", from, to), Denotes("entries", depth - 1, from + 1, to - 1, m)
               PROVE  Denotes("value", depth, from, to, [kind |-> "dict", map |-> m])
    BY DEF DictRule
  <2>1. ~Bracketed("i", from, to) /\ ~Bracketed("l", from, to) /\ depth > 0 /\ depth \in Nat
    BY TorrentAssumption DEF Bracketed
  <2>2. [kind |-> "dict", map |-> m] \in ValueOf(denoted, from, to, depth)
    BY <2>1 DEF ValueOf, Denotes
  <2> QED BY <1>0, <2>1, <2>2, Meant
<1>5. ItemsRule
  <2> SUFFICES ASSUME NEW depth \in 0..MaxDepth, NEW from \in Position
               PROVE  /\ Denotes("items", depth, from, from, <<>>)
                      /\ \A cut, to \in Position : \A s, v :
                            Denotes("items", depth, from, cut, s) /\ Denotes("value", depth, cut, to, v)
                                => Denotes("items", depth, from, to, Append(s, v))
    BY DEF ItemsRule
  <2>1. Denotes("items", depth, from, from, <<>>)
    BY <1>0, Meant DEF ItemsIn
  <2>2. ASSUME NEW cut \in Position, NEW to \in Position, NEW s, NEW v,
               Denotes("items", depth, from, cut, s), Denotes("value", depth, cut, to, v)
        PROVE  Denotes("items", depth, from, to, Append(s, v))
    <3>1. from <= cut /\ cut < to
      BY <1>0, <2>2, ValuesExtend, PartsExtend
    <3>2. cut \in from..(to - 1) /\ from # to
      BY <1>0, <3>1
    <3>3. ItemsIn(denoted, from, to, depth, Append(s, v))
      BY <2>2, <3>2 DEF ItemsIn, Denotes
    <3> QED BY <1>0, <3>3, Meant
  <2> QED BY <2>1, <2>2
<1>6. EntriesRule
  <2> SUFFICES ASSUME NEW depth \in 0..MaxDepth, NEW from \in Position
               PROVE  /\ Denotes("entries", depth, from, from, EmptyMap)
                      /\ \A at, cut, to \in Position : \A m, key, v :
                            /\ Denotes("entries", depth, from, at, m)
                            /\ StringSpan(at, cut, key)
                            /\ Denotes("value", depth, cut, to, v)
                            => Denotes("entries", depth, from, to, With(m, key, v))
    BY DEF EntriesRule
  <2>1. Denotes("entries", depth, from, from, EmptyMap)
    BY <1>0, Meant DEF EntriesIn
  <2>2. ASSUME NEW at \in Position, NEW cut \in Position, NEW to \in Position, NEW m, NEW key, NEW v,
               Denotes("entries", depth, from, at, m), StringSpan(at, cut, key),
               Denotes("value", depth, cut, to, v)
        PROVE  Denotes("entries", depth, from, to, With(m, key, v))
    <3>1. from <= at /\ cut < to
      BY <1>0, <2>2, ValuesExtend, PartsExtend
    <3>2. at < cut
      BY <1>0, <2>2 DEF StringSpan
    <3>3. at \in from..(to - 1) /\ cut \in from..(to - 1) /\ from # to
      BY <1>0, <3>1, <3>2
    <3>4. LastEntry(denoted[<<"entries", from, at, depth>>], Texts(at, cut),
                    denoted[<<"value", cut, to, depth>>], With(m, key, v))
      BY <2>2, StringTexts DEF LastEntry, Denotes
    <3>5. EntriesIn(denoted, from, to, depth, With(m, key, v))
      BY <3>2, <3>3, <3>4 DEF EntriesIn
    <3> QED BY <1>0, <3>5, Meant
  <2> QED BY <2>1, <2>2
<1> QED BY <1>1, <1>2, <1>3, <1>4, <1>5, <1>6 DEF Grammar

\* A value is one by a rule.
LEMMA ValuesUnfold ==
    ASSUME NEW depth \in 0..MaxDepth, NEW from \in Position, NEW to \in Position, NEW x,
           Denotes("value", depth, from, to, x)
    PROVE  Unfolds(depth, from, to, x)
<1>1. from \in Nat /\ to \in Nat /\ depth \in Nat
  BY TorrentAssumption DEF Position
<1>2. x \in ValueOf(denoted, from, to, depth)
  BY <1>1, Meant
<1>3. CASE Bracketed("i", from, to)
  BY <1>2, <1>3 DEF ValueOf, Unfolds, Number
<1>4. CASE ~Bracketed("i", from, to) /\ depth > 0 /\ Bracketed("l", from, to)
  <2>1. x \in {[kind |-> "list", items |-> s] : s \in denoted[<<"items", from + 1, to - 1, depth - 1>>]}
    BY <1>2, <1>4, Zenon DEF ValueOf
  <2> QED BY <1>4, <2>1 DEF Unfolds, Denotes
<1>5. CASE /\ ~Bracketed("i", from, to) /\ ~(depth > 0 /\ Bracketed("l", from, to))
           /\ depth > 0 /\ Bracketed("d", from, to)
  <2>1. x \in {[kind |-> "dict", map |-> m] : m \in denoted[<<"entries", from + 1, to - 1, depth - 1>>]}
    BY <1>2, <1>5, Zenon DEF ValueOf
  <2> QED BY <1>5, <2>1 DEF Unfolds, Denotes
<1>6. CASE /\ ~Bracketed("i", from, to) /\ ~(depth > 0 /\ Bracketed("l", from, to))
           /\ ~(depth > 0 /\ Bracketed("d", from, to))
  <2>1. from < to /\ At(from) \in DOMAIN Digit
    BY <1>2, <1>6, Zenon DEF ValueOf
  <2>2. x \in {[kind |-> "str", str |-> s] : s \in Texts(from, to)}
    BY <1>2, <1>6, <2>1, Zenon DEF ValueOf
  <2> QED BY <2>1, <2>2, StringTexts DEF Unfolds
<1> QED BY <1>3, <1>4, <1>5, <1>6

\* Values that are collected from the last can be taken from the first: the
\* shortest span where they could not has a shorter one.
LEMMA ItemsUnfold ==
    ASSUME NEW depth \in 0..MaxDepth, NEW from \in Position, NEW to \in Position, NEW x,
           Denotes("items", depth, from, to, x)
    PROVE  UnfoldsList(depth, from, to, x)
<1> DEFINE T == {p \in Position : \E s : Denotes("items", depth, from, p, s)
                                           /\ ~UnfoldsList(depth, from, p, s)}
<1>1. SUFFICES ASSUME T # {} PROVE FALSE
  OBVIOUS
<1>2. T \subseteq Nat /\ from \in Nat /\ depth \in Nat
  BY TorrentAssumption DEF Position
<1>3. PICK end \in T : \A p \in T : ~(p < end)
  <2> HIDE DEF T
  <2> QED BY <1>1, <1>2, LeastNatural
<1>4. PICK s : Denotes("items", depth, from, end, s) /\ ~UnfoldsList(depth, from, end, s)
  BY <1>3
<1>5. end \in Position /\ end \in Nat
  BY <1>2
<1>6. ~(from = end /\ s = <<>>)
  BY <1>4 DEF UnfoldsList
<1>7. PICK cut \in from..(end - 1) :
        \E a, v : Denotes("items", depth, from, cut, a) /\ Denotes("value", depth, cut, end, v)
                   /\ s = Append(a, v)
  <2>1. ItemsIn(denoted, from, end, depth, s)
    BY <1>2, <1>4, <1>5, Meant
  <2> QED BY <1>6, <2>1, Zenon DEF ItemsIn, Denotes
<1>8. PICK a, v : Denotes("items", depth, from, cut, a) /\ Denotes("value", depth, cut, end, v)
                  /\ s = Append(a, v)
  BY <1>7
<1>9. cut \in Position /\ cut < end
  BY <1>2, <1>5 DEF Position
<1>10. UnfoldsList(depth, from, cut, a)
  BY <1>3, <1>8, <1>9
<1>11. Denotes("items", depth, end, end, <<>>)
  BY <1>5, MeaningIsClosed DEF Grammar, ItemsRule
<1>12. CASE from = cut /\ a = <<>>
  <2>1. v \in {v} /\ <<>> \in Seq({v}) /\ s = <<v>> \o <<>>
    BY <1>8, <1>12
  <2> QED BY <1>4, <1>5, <1>8, <1>11, <1>12, <2>1 DEF UnfoldsList
<1>13. CASE \E c \in Position : \E w, rest, S :
              /\ w \in S /\ rest \in Seq(S) /\ a = <<w>> \o rest
              /\ Denotes("value", depth, from, c, w)
              /\ Denotes("items", depth, c, cut, rest)
  <2>1. PICK c, w, rest, S :
              /\ c \in Position
              /\ w \in S /\ rest \in Seq(S) /\ a = <<w>> \o rest
              /\ Denotes("value", depth, from, c, w)
              /\ Denotes("items", depth, c, cut, rest)
    BY <1>13
  <2> DEFINE R == S \cup {v}
             more == Append(rest, v)
  <2>2. rest \in Seq(R) /\ w \in R /\ v \in R
    BY <2>1
  <2>3. more \in Seq(R) /\ s = <<w>> \o more
    BY <1>8, <2>1, <2>2
  <2>4. Denotes("items", depth, c, end, more)
    BY <1>5, <1>8, <1>9, <2>1, MeaningIsClosed DEF Grammar, ItemsRule
  <2> HIDE DEF R, more
  <2> QED BY <1>4, <1>5, <2>1, <2>2, <2>3, <2>4 DEF UnfoldsList
<1> QED BY <1>10, <1>12, <1>13 DEF UnfoldsList

\* A binding at the end of the rest is one at the end of the whole.
LEMMA WithOver ==
    ASSUME NEW a, NEW rest, NEW key, NEW v
    PROVE  With(Over(a, rest), key, v) = Over(a, With(rest, key, v))
BY DEF With, Over

\* The same of entries.
LEMMA EntriesUnfold ==
    ASSUME NEW depth \in 0..MaxDepth, NEW from \in Position, NEW to \in Position, NEW x,
           Denotes("entries", depth, from, to, x)
    PROVE  UnfoldsMap(depth, from, to, x)
<1> DEFINE T == {p \in Position : \E m : Denotes("entries", depth, from, p, m)
                                           /\ ~UnfoldsMap(depth, from, p, m)}
<1>1. SUFFICES ASSUME T # {} PROVE FALSE
  OBVIOUS
<1>2. T \subseteq Nat /\ from \in Nat /\ depth \in Nat
  BY TorrentAssumption DEF Position
<1>3. PICK end \in T : \A p \in T : ~(p < end)
  <2> HIDE DEF T
  <2> QED BY <1>1, <1>2, LeastNatural
<1>4. PICK m : Denotes("entries", depth, from, end, m) /\ ~UnfoldsMap(depth, from, end, m)
  BY <1>3
<1>5. end \in Position /\ end \in Nat
  BY <1>2
<1>6. ~(from = end /\ m = EmptyMap)
  BY <1>4 DEF UnfoldsMap
<1>7. PICK at \in from..(end - 1), cut \in from..(end - 1) :
        at < cut /\ LastEntry(denoted[<<"entries", from, at, depth>>], Texts(at, cut),
                              denoted[<<"value", cut, end, depth>>], m)
  <2>1. EntriesIn(denoted, from, end, depth, m)
    BY <1>2, <1>4, <1>5, Meant
  <2> QED BY <1>6, <2>1, Zenon DEF EntriesIn
<1>8. PICK a, key, v : /\ Denotes("entries", depth, from, at, a) /\ StringSpan(at, cut, key)
                       /\ Denotes("value", depth, cut, end, v) /\ m = With(a, key, v)
  BY <1>7, StringTexts DEF LastEntry, Denotes
<1>9. at \in Position /\ cut \in Position /\ at < end
  BY <1>2, <1>5 DEF Position
<1>10. UnfoldsMap(depth, from, at, a)
  BY <1>3, <1>8, <1>9
<1>11. Denotes("entries", depth, end, end, EmptyMap)
  BY <1>5, MeaningIsClosed DEF Grammar, EntriesRule
<1>12. CASE from = at /\ a = EmptyMap
  <2>1. m = Over(With(EmptyMap, key, v), EmptyMap)
    BY <1>8, <1>12 DEF Over, With, EmptyMap
  <2> QED BY <1>4, <1>5, <1>8, <1>9, <1>11, <1>12, <2>1 DEF UnfoldsMap
<1>13. CASE \E at1, cut1 \in Position : \E key1, v1, rest :
              /\ StringSpan(from, at1, key1)
              /\ Denotes("value", depth, at1, cut1, v1)
              /\ Denotes("entries", depth, cut1, at, rest)
              /\ a = Over(With(EmptyMap, key1, v1), rest)
  <2>1. PICK at1, cut1, key1, v1, rest :
              /\ at1 \in Position /\ cut1 \in Position
              /\ StringSpan(from, at1, key1)
              /\ Denotes("value", depth, at1, cut1, v1)
              /\ Denotes("entries", depth, cut1, at, rest)
              /\ a = Over(With(EmptyMap, key1, v1), rest)
    BY <1>13
  <2>2. m = Over(With(EmptyMap, key1, v1), With(rest, key, v))
    BY <1>8, <2>1, WithOver
  <2>3. Denotes("entries", depth, cut1, end, With(rest, key, v))
    BY <1>5, <1>8, <1>9, <2>1, MeaningIsClosed DEF Grammar, EntriesRule
  <2> QED BY <1>4, <1>5, <2>1, <2>2, <2>3 DEF UnfoldsMap
<1> QED BY <1>10, <1>12, <1>13 DEF UnfoldsMap

LEMMA MeaningUnfolds == Unfolded
BY ValuesUnfold, ItemsUnfold, EntriesUnfold DEF Unfolded

\* Whatever the input, its meaning is closed under the rules of bencoding, and
\* what it holds is there by a rule.
THEOREM MeaningFollowsTheRules == Grammar /\ Unfolded
BY MeaningIsClosed, MeaningUnfolds

(***************************************************************************)
(* What is accepted is bencoded.                                           *)
(***************************************************************************)
\* What Parse did not refuse as malformed is one value, all of the input, and
\* is that value.
AcceptsTheGrammar ==
    result \notin {"none", "syntax", "trailing"} => Denotes("value", MaxDepth, 0, Len(data), root)

\* The bytes that are hashed denote the dictionary the metadata is taken from.
HashesTheInfo ==
    result = "ok" =>
        /\ Denotes("value", MaxDepth - 1, infoStart, infoEnd, root.map[InfoKey])
        /\ meta = MetaOf(root.map[InfoKey])

(***************************************************************************)
(* The invariant: o[k] is where the k-th frame was opened, and the bytes   *)
(* from there denote what the frame has collected.                         *)
(***************************************************************************)
\* The frame waits for a value that starts at p.
Pending(f, depth, o, p) ==
    /\ o \in 0..(p - 1) /\ p \in Position
    /\ \/ f.kind = "list" /\ At(o) = "l" /\ Denotes("items", depth, o + 1, p, f.items)
       \/ /\ f.kind = "dict" /\ At(o) = "d" /\ f.start = p
          /\ \E at \in Position : Denotes("entries", depth, o + 1, at, f.map) /\ StringSpan(at, p, f.key)

\* The frame has all it was given up to p.
Settled(f, depth, o, p) ==
    /\ o \in 0..(p - 1) /\ p \in Position
    /\ \/ f.kind = "list" /\ At(o) = "l" /\ Denotes("items", depth, o + 1, p, f.items)
       \/ f.kind = "dict" /\ At(o) = "d" /\ Denotes("entries", depth, o + 1, p, f.map)

Opened(s, o, n) ==
    /\ o \in [Nat -> Nat] /\ o[1] = 0
    /\ \A k \in 1..n : Pending(s[k], MaxDepth - k, o[k], o[k + 1])

\* Every frame waits for a value; the innermost one's is next.
Awaits(s, o, p) == Opened(s, o, Len(s)) /\ o[Len(s) + 1] = p

\* The innermost frame does not.
Loops(s, o, p) ==
    Opened(s, o, Len(s) - 1) /\ Settled(s[Len(s)], MaxDepth - Len(s), o[Len(s)], p)

Awaiting == \E s, o, p : s = stack /\ p = pos /\ Awaits(s, o, p)
Looping == \E s, o, p : s = stack /\ p = pos /\ Loops(s, o, p)

InfoDenoted(map, from, to) ==
    InfoKey \in DOMAIN map => Denotes("value", MaxDepth - 1, from, to, map[InfoKey])

MeaningInv ==
    /\ mode # "done" => result = "none"
    /\ mode = "value" => Awaiting
    /\ mode = "loop" => Looping
    /\ Len(stack) > 0 /\ stack[1].kind = "dict" => InfoDenoted(stack[1].map, infoStart, infoEnd)
    /\ mode = "root" => /\ Denotes("value", MaxDepth, 0, pos, root)
                        /\ root.kind = "dict" => InfoDenoted(root.map, infoStart, infoEnd)
    /\ AcceptsTheGrammar
    /\ HashesTheInfo

\* A string the decoder takes is a string of the grammar.
LEMMA SlicesAreStrings ==
    ASSUME DecoderInv, NEW s \in Slices
    PROVE  StringSpan(pos, s.end, Bytes(s.start, s.end))
<1>0. PICK sep \in IndexOf(":", pos) :
        \E n \in Lengths(sep) : s = [start |-> sep + 1, end |-> Wrap(sep + 1 + n)]
  BY DEF Slices
<1>1. PICK n \in Lengths(sep) : s = [start |-> sep + 1, end |-> Wrap(sep + 1 + n)]
  BY <1>0
<1>2. sep \in pos..(Len(data) - 1) /\ pos \in Nat /\ At(sep) = ":"
  BY IndexInRange DEF DecoderInv, IndexOf
<1>3. n \in Atoi(Bytes(pos, sep)) /\ n \in Int /\ 0 <= n /\ n <= Len(data) - (sep + 1)
  BY AtoiInt DEF Lengths
<1>4. Len(data) \in Nat /\ Len(data) <= MaxInt /\ MaxInt \in Nat
  BY TorrentAssumption DEF DecoderInv
<1>5. Wrap(sep + 1 + n) = sep + 1 + n
  BY <1>2, <1>3, <1>4 DEF Wrap
<1>6. s.start = sep + 1 /\ s.end = sep + 1 + n
  BY <1>1, <1>5
<1>7. s.end - (sep + 1) = n /\ sep \in pos..(s.end - 1)
  BY <1>2, <1>3, <1>4, <1>6
<1> QED BY <1>2, <1>3, <1>6, <1>7 DEF StringSpan

\* What the frames wait for depends on the input alone.
LEMMA FramesStay ==
    ASSUME data' = data
    PROVE  \A s, o, p : Awaits(s, o, p)' = Awaits(s, o, p) /\ Loops(s, o, p)' = Loops(s, o, p)
<1>1. /\ Position' = Position
      /\ \A p : At(p)' = At(p)
      /\ \A from, to : Bytes(from, to)' = Bytes(from, to)
  BY DEF Position, At, Bytes
<1>2. \A from, to, str : StringSpan(from, to, str)' = StringSpan(from, to, str)
  BY <1>1 DEF StringSpan
<1>3. \A relation, depth, from, to, datum :
        Denotes(relation, depth, from, to, datum)' = Denotes(relation, depth, from, to, datum)
  BY MeaningStays DEF Denotes
<1>4. \A f, depth, o, p : /\ Pending(f, depth, o, p)' = Pending(f, depth, o, p)
                          /\ Settled(f, depth, o, p)' = Settled(f, depth, o, p)
  BY <1>1, <1>2, <1>3 DEF Pending, Settled
<1>5. \A s, o, n : Opened(s, o, n)' = Opened(s, o, n)
  BY <1>4 DEF Opened
<1> QED BY <1>4, <1>5 DEF Awaits, Loops

\* It is enough to look at the next stack with the input of today.
LEMMA NextAwaiting ==
    ASSUME data' = data, NEW o, Awaits(stack', o, pos') PROVE Awaiting'
BY FramesStay DEF Awaiting

LEMMA NextLooping ==
    ASSUME data' = data, NEW o, Loops(stack', o, pos') PROVE Looping'
BY FramesStay DEF Looping

\* The innermost of the frames that wait.
LEMMA OpenedLast ==
    ASSUME NEW s, NEW o, NEW n \in Nat, n > 0, Opened(s, o, n)
    PROVE  Pending(s[n], MaxDepth - n, o[n], o[n + 1])
BY DEF Opened

\* Fewer frames.
LEMMA OpenedFewer ==
    ASSUME NEW s, NEW t, NEW o, NEW n \in Nat, NEW m \in Nat, m <= n, Opened(s, o, n),
           \A k \in 1..m : t[k] = s[k]
    PROVE  Opened(t, o, m)
BY DEF Opened

\* The innermost frame, which waits for a value at p, joins the others.
LEMMA AwaitsNext ==
    ASSUME NEW s, Len(s) \in Nat, Len(s) > 0, NEW o, NEW next \in [Nat -> Nat], NEW p,
           Opened(s, o, Len(s) - 1), \A k \in 1..Len(s) : next[k] = o[k], next[Len(s) + 1] = p,
           Pending(s[Len(s)], MaxDepth - Len(s), o[Len(s)], p)
    PROVE  Awaits(s, next, p)
<1>1. ASSUME NEW k \in 1..Len(s) PROVE Pending(s[k], MaxDepth - k, next[k], next[k + 1])
  <2>1. CASE k = Len(s)
    BY <2>1
  <2>2. CASE k # Len(s)
    <3>1. k \in 1..(Len(s) - 1) /\ k + 1 \in 1..Len(s)
      BY <2>2
    <3> QED BY <3>1 DEF Opened
  <2> QED BY <2>1, <2>2
<1>2. next[1] = 0
  BY DEF Opened
<1> QED BY <1>1, <1>2 DEF Awaits, Opened

\* A list or a dictionary that waited for a value has one more item or entry.
LEMMA ListSettles ==
    ASSUME Grammar, NEW f, NEW depth \in 0..MaxDepth, NEW o, NEW p, NEW to \in Position, p <= to,
           Pending(f, depth, o, p), f.kind = "list", NEW v, Denotes("value", depth, p, to, v)
    PROVE  Settled([kind |-> "list", items |-> Append(f.items, v)], depth, o, to)
<1>1. At(o) = "l" /\ Denotes("items", depth, o + 1, p, f.items) /\ o \in 0..(p - 1) /\ p \in Position
  BY DEF Pending
<1>2. p \in Nat /\ to \in Nat /\ o \in 0..(to - 1) /\ o + 1 \in Position
  BY <1>1 DEF Position
<1>3. Denotes("items", depth, o + 1, to, Append(f.items, v))
  BY <1>1, <1>2 DEF Grammar, ItemsRule
<1> QED BY <1>1, <1>2, <1>3 DEF Settled

LEMMA DictSettles ==
    ASSUME Grammar, NEW f, NEW depth \in 0..MaxDepth, NEW o, NEW p, NEW to \in Position, p <= to,
           Pending(f, depth, o, p), f.kind = "dict", NEW v, Denotes("value", depth, p, to, v)
    PROVE  Settled([kind |-> "dict", map |-> Bind(f, v), key |-> f.key, start |-> f.start],
                   depth, o, to)
<1>1. At(o) = "d" /\ o \in 0..(p - 1) /\ p \in Position
  BY DEF Pending
<1>2. PICK at \in Position : Denotes("entries", depth, o + 1, at, f.map) /\ StringSpan(at, p, f.key)
  BY DEF Pending
<1>3. p \in Nat /\ to \in Nat /\ o \in 0..(to - 1) /\ o + 1 \in Position
  BY <1>1 DEF Position
<1>4. Bind(f, v) = With(f.map, f.key, v)
  BY DEF Bind, With
<1>5. Denotes("entries", depth, o + 1, to, Bind(f, v))
  BY <1>1, <1>2, <1>3, <1>4 DEF Grammar, EntriesRule
<1> QED BY <1>1, <1>3, <1>5 DEF Settled

\* A value that was read from where the innermost frame waits for it.
LEMMA ReturnMeans ==
    ASSUME DecoderInv, Grammar, MeaningInv, result = "none",
           NEW v, NEW upTo \in (pos + 1)..Len(data), NEW frames, StackInv(frames, pos),
           NEW o, Opened(frames, o, Len(frames)), o[Len(frames) + 1] <= pos,
           Denotes("value", MaxDepth - Len(frames), o[Len(frames) + 1], upTo, v),
           Len(frames) > 0 /\ frames[1].kind = "dict"
             => InfoDenoted(frames[1].map, infoStart, infoEnd),
           frames = <<>> /\ v.kind = "dict" => InfoDenoted(v.map, infoStart, infoEnd),
           Return(v, upTo, frames)
    PROVE  MeaningInv'
<1> DEFINE n == Len(frames)
<1>1. PICK S : frames \in Seq(S)
  BY DEF StackInv
<1>2. /\ pos \in Nat /\ Len(data) \in Nat /\ n \in Nat /\ upTo \in Nat /\ pos < upTo
      /\ upTo \in Position /\ MaxDepth \in Nat /\ n <= MaxDepth
  BY <1>1, TorrentAssumption DEF DecoderInv, StackInv, Position
<1>3. pos' = upTo /\ data' = data /\ result' = "none"
  BY DEF Return
<1>4. AcceptsTheGrammar' /\ HashesTheInfo'
  BY <1>3 DEF AcceptsTheGrammar, HashesTheInfo
<1>5. CASE frames = <<>> /\ mode' = "root" /\ root' = v /\ stack' = frames /\ UNCHANGED span
  <2>1. n = 0 /\ o[n + 1] = 0
    BY <1>5 DEF Opened
  <2>2. Denotes("value", MaxDepth, 0, upTo, v)
    BY <1>2, <2>1
  <2>3. Denotes("value", MaxDepth, 0, pos, root)'
    BY <1>3, <1>5, <2>2, MeaningStays DEF Denotes
  <2>4. (root.kind = "dict" => InfoDenoted(root.map, infoStart, infoEnd))'
    BY <1>3, <1>5, MeaningStays DEF InfoDenoted, Denotes, span
  <2> QED BY <1>3, <1>4, <1>5, <2>1, <2>3, <2>4 DEF MeaningInv
<1>6. CASE /\ frames # <<>> /\ frames[n].kind = "list" /\ mode' = "loop"
           /\ stack' = [frames EXCEPT ![n].items = Append(@, v)]
           /\ UNCHANGED <<root, span>>
  <2>1. n > 0 /\ n \in 1..n
    BY <1>1, <1>2, <1>6
  <2>2. frames[n] = [kind |-> "list", items |-> frames[n].items]
    <3>1. IsFrame(frames[n], pos)
      BY <2>1 DEF StackInv
    <3> QED BY <1>6, <3>1, FrameShape
  <2> DEFINE top == [kind |-> "list", items |-> Append(frames[n].items, v)]
  <2>3. [frames[n] EXCEPT !.items = Append(@, v)] = top
    <3>1. WithItems(frames[n], Append(frames[n].items, v)) = top
      BY <2>2, ItemsReplaced
    <3> QED BY <3>1 DEF WithItems
  <2>4. stack' = [frames EXCEPT ![n] = top]
    BY <1>1, <1>6, <2>3
  <2>5. Settled(top, MaxDepth - n, o[n], upTo)
    <3>1. Pending(frames[n], MaxDepth - n, o[n], o[n + 1])
      BY <1>2, <2>1, OpenedLast
    <3>2. o[n + 1] <= upTo
      BY <1>2, <3>1 DEF Pending, Position
    <3>3. MaxDepth - n \in 0..MaxDepth
      BY <1>2, <2>1
    <3> QED BY <1>2, <1>6, <3>1, <3>2, <3>3, ListSettles
  <2>6. top.kind = "list"
    OBVIOUS
  <2> HIDE DEF top
  <2>7. /\ Len(stack') = n /\ stack'[n] = top
        /\ \A k \in 1..(n - 1) : stack'[k] = frames[k]
    BY <1>1, <2>1, <2>4
  <2>8. Opened(stack', o, n - 1)
    BY <1>2, <2>1, <2>7, OpenedFewer
  <2>9. Looping'
    BY <1>3, <2>5, <2>7, <2>8, NextLooping DEF Loops
  <2>10. (Len(stack) > 0 /\ stack[1].kind = "dict" => InfoDenoted(stack[1].map, infoStart, infoEnd))'
    <3>1. stack'[1] = IF n = 1 THEN top ELSE frames[1]
      BY <1>2, <2>1, <2>7
    <3>2. UNCHANGED <<infoStart, infoEnd>>
      BY <1>6 DEF span
    <3> QED BY <1>3, <2>1, <2>6, <3>1, <3>2, MeaningStays DEF InfoDenoted, Denotes
  <2> QED BY <1>3, <1>4, <1>6, <2>9, <2>10 DEF MeaningInv
<1>7. CASE /\ frames # <<>> /\ frames[n].kind = "dict" /\ mode' = "loop"
           /\ stack' = [frames EXCEPT ![n].map = Bind(frames[n], v)]
           /\ RecordInfo(frames, upTo)
           /\ UNCHANGED root
  <2>1. n > 0 /\ n \in 1..n
    BY <1>1, <1>2, <1>7
  <2>2. frames[n] = [kind |-> "dict", map |-> frames[n].map, key |-> frames[n].key,
                     start |-> frames[n].start]
    <3>1. IsFrame(frames[n], pos)
      BY <2>1 DEF StackInv
    <3> QED BY <1>7, <3>1, FrameShape
  <2> DEFINE top == [kind |-> "dict", map |-> Bind(frames[n], v), key |-> frames[n].key,
                     start |-> frames[n].start]
  <2>3. [frames[n] EXCEPT !.map = Bind(frames[n], v)] = top
    BY <2>2
  <2>4. stack' = [frames EXCEPT ![n] = top]
    BY <1>1, <1>7, <2>3
  <2>5. Pending(frames[n], MaxDepth - n, o[n], o[n + 1]) /\ MaxDepth - n \in 0..MaxDepth
    <3>1. MaxDepth - n \in 0..MaxDepth
      BY <1>2, <2>1
    <3> QED BY <1>2, <2>1, <3>1, OpenedLast
  <2>6. Settled(top, MaxDepth - n, o[n], upTo)
    <3>1. o[n + 1] <= upTo
      BY <1>2, <2>5 DEF Pending, Position
    <3> QED BY <1>2, <1>7, <2>5, <3>1, DictSettles
  <2>7. top.kind = "dict" /\ top.map = Bind(frames[n], v)
    OBVIOUS
  <2> HIDE DEF top
  <2>8. /\ Len(stack') = n /\ stack'[n] = top
        /\ \A k \in 1..(n - 1) : stack'[k] = frames[k]
    BY <1>1, <2>1, <2>4
  <2>9. Opened(stack', o, n - 1)
    BY <1>2, <2>1, <2>8, OpenedFewer
  <2>10. Looping'
    BY <1>3, <2>6, <2>8, <2>9, NextLooping DEF Loops
  <2>11. (Len(stack) > 0 /\ stack[1].kind = "dict" => InfoDenoted(stack[1].map, infoStart, infoEnd))'
    <3>1. CASE n = 1 /\ frames[n].key = InfoKey
      <4>1. infoStart' = frames[n].start /\ infoEnd' = upTo
        BY <1>7, <3>1 DEF RecordInfo
      <4>2. frames[n].start = o[n + 1]
        BY <1>7, <2>5 DEF Pending
      <4>3. top.map[InfoKey] = v
        BY <2>7, <3>1 DEF Bind
      <4> QED BY <1>3, <2>8, <3>1, <4>1, <4>2, <4>3, MeaningStays DEF InfoDenoted, Denotes
    <3>2. CASE n = 1 /\ frames[n].key # InfoKey
      <4>1. UNCHANGED <<infoStart, infoEnd>>
        BY <1>7, <3>2 DEF RecordInfo, span
      <4>2. InfoKey \in DOMAIN top.map =>
              InfoKey \in DOMAIN frames[1].map /\ top.map[InfoKey] = frames[1].map[InfoKey]
        BY <2>7, <3>2 DEF Bind
      <4> QED BY <1>3, <1>7, <2>8, <3>2, <4>1, <4>2, MeaningStays DEF InfoDenoted, Denotes
    <3>3. CASE n # 1
      <4>1. UNCHANGED <<infoStart, infoEnd>>
        BY <1>7, <3>3 DEF RecordInfo, span
      <4>2. stack'[1] = frames[1]
        BY <1>2, <2>1, <2>8, <3>3
      <4> QED BY <1>3, <2>1, <4>1, <4>2, MeaningStays DEF InfoDenoted, Denotes
    <3> QED BY <3>1, <3>2, <3>3
  <2> QED BY <1>3, <1>4, <1>7, <2>10, <2>11 DEF MeaningInv
<1> QED BY <1>5, <1>6, <1>7 DEF Return

\* An error decides nothing about what the bytes denote.
LEMMA FinishMeans == ASSUME MeaningInv, Finish("syntax") PROVE MeaningInv'
<1>1. /\ mode' = "done" /\ result' = "syntax"
      /\ UNCHANGED <<data, stack, infoStart, infoEnd>>
  BY DEF Finish, span
<1> QED BY <1>1, MeaningStays DEF MeaningInv, AcceptsTheGrammar, HashesTheInfo, InfoDenoted, Denotes

\* A frame that is opened has read nothing but its bracket.
LEMMA EnterMeans ==
    ASSUME DecoderInv, Grammar, MeaningInv, mode = "value", More, NEW frame, Enter(frame),
           \/ frame = [kind |-> "list", items |-> <<>>] /\ At(pos) = "l"
           \/ /\ frame = [kind |-> "dict", map |-> EmptyMap, key |-> <<>>, start |-> 0]
              /\ At(pos) = "d"
    PROVE  MeaningInv'
<1> DEFINE n == Len(stack)
<1>1. CASE Len(stack) + 1 > MaxDepth
  BY <1>1, FinishMeans DEF Enter
<1>2. CASE ~(Len(stack) + 1 > MaxDepth)
  <2>1. PICK S : stack \in Seq(S)
    BY DEF DecoderInv, StackInv
  <2>2. /\ stack' = Append(stack, frame) /\ pos' = pos + 1 /\ mode' = "loop"
        /\ UNCHANGED <<data, root, infoStart, infoEnd, result>> /\ result = "none"
    BY <1>2 DEF Enter, span, MeaningInv
  <2>3. /\ pos \in Nat /\ pos + 1 \in Position /\ n \in Nat /\ MaxDepth \in Nat
        /\ MaxDepth - (n + 1) \in 0..MaxDepth
    BY <1>2, <2>1, TorrentAssumption DEF DecoderInv, More, Position
  <2>4. PICK o : Opened(stack, o, n) /\ o[n + 1] = pos
    BY DEF MeaningInv, Awaiting, Awaits
  <2>5. stack \in Seq(S \cup {frame})
    BY <2>1
  <2>6. /\ Len(stack') = n + 1 /\ stack'[n + 1] = frame
        /\ \A k \in 1..n : stack'[k] = stack[k]
    BY <2>2, <2>5
  <2>7. Opened(stack', o, n)
    BY <2>3, <2>4, <2>6, OpenedFewer
  <2>8. Settled(frame, MaxDepth - (n + 1), pos, pos + 1)
    <3>1. /\ Denotes("items", MaxDepth - (n + 1), pos + 1, pos + 1, <<>>)
          /\ Denotes("entries", MaxDepth - (n + 1), pos + 1, pos + 1, EmptyMap)
      BY <2>3 DEF Grammar, ItemsRule, EntriesRule
    <3>2. pos \in 0..(pos + 1 - 1)
      BY <2>3
    <3> QED BY <2>3, <3>1, <3>2 DEF Settled
  <2>9. Looping'
    <3>1. Len(stack') - 1 = n
      BY <2>3, <2>6
    <3>2. Loops(stack', o, pos')
      BY <2>2, <2>4, <2>6, <2>7, <2>8, <3>1 DEF Loops
    <3> QED BY <2>2, <3>2, NextLooping
  <2>10. (Len(stack) > 0 /\ stack[1].kind = "dict" => InfoDenoted(stack[1].map, infoStart, infoEnd))'
    <3>1. CASE n = 0
      <4>1. stack'[1] = frame
        BY <2>6, <3>1
      <4>2. frame.kind = "dict" => frame.map = EmptyMap
        OBVIOUS
      <4> QED BY <4>1, <4>2 DEF InfoDenoted, EmptyMap
    <3>2. CASE n > 0
      <4>1. stack'[1] = stack[1]
        BY <2>3, <2>6, <3>2
      <4> QED BY <2>2, <3>2, <4>1, MeaningStays DEF MeaningInv, InfoDenoted, Denotes
    <3> QED BY <2>3, <3>1, <3>2
  <2>11. AcceptsTheGrammar' /\ HashesTheInfo'
    BY <2>2 DEF AcceptsTheGrammar, HashesTheInfo
  <2> QED BY <2>2, <2>9, <2>10, <2>11 DEF MeaningInv
<1> QED BY <1>1, <1>2

\* A number or a string, where a value is awaited.
LEMMA ScalarMeans ==
    ASSUME DecoderInv, Grammar, MeaningInv, mode = "value",
           NEW v, v.kind # "dict", NEW upTo \in (pos + 1)..Len(data),
           \A depth \in 0..MaxDepth : Denotes("value", depth, pos, upTo, v),
           Return(v, upTo, stack)
    PROVE  MeaningInv'
<1>1. PICK o : Opened(stack, o, Len(stack)) /\ o[Len(stack) + 1] = pos
  BY DEF MeaningInv, Awaiting, Awaits
<1>2. /\ StackInv(stack, pos) /\ pos \in Nat /\ result = "none"
      /\ MaxDepth - Len(stack) \in 0..MaxDepth
  <2>1. PICK S : stack \in Seq(S)
    BY DEF DecoderInv, StackInv
  <2>2. Len(stack) \in Nat /\ MaxDepth \in Nat /\ Len(stack) <= MaxDepth
    BY <2>1, TorrentAssumption DEF DecoderInv, StackInv
  <2> QED BY <2>2 DEF DecoderInv, MeaningInv
<1>3. Denotes("value", MaxDepth - Len(stack), o[Len(stack) + 1], upTo, v)
  BY <1>1, <1>2
<1>4. /\ o[Len(stack) + 1] <= pos
      /\ Len(stack) > 0 /\ stack[1].kind = "dict" => InfoDenoted(stack[1].map, infoStart, infoEnd)
  BY <1>1, <1>2 DEF MeaningInv
<1> QED BY <1>1, <1>2, <1>3, <1>4, ReturnMeans

\* The end of a list or a dictionary, where its frame is the innermost.
LEMMA CloseMeans ==
    ASSUME DecoderInv, Grammar, MeaningInv, mode = "loop", More, At(pos) = "e",
           NEW v, Return(v, pos + 1, Below),
           \/ Top.kind = "list" /\ v = [kind |-> "list", items |-> Top.items]
           \/ Top.kind = "dict" /\ v = [kind |-> "dict", map |-> Top.map]
    PROVE  MeaningInv'
<1> DEFINE n == Len(stack)
<1>1. PICK o : /\ Opened(stack, o, n - 1)
               /\ Settled(stack[n], MaxDepth - n, o[n], pos)
  BY DEF MeaningInv, Looping, Loops
<1>2. /\ n \in Nat /\ n > 0 /\ Len(Below) = n - 1 /\ n - 1 \in Nat
      /\ \A k \in 1..(n - 1) : Below[k] = stack[k]
  BY BelowFrames
<1>3. /\ pos \in Nat /\ Len(data) \in Nat /\ pos + 1 \in (pos + 1)..Len(data)
      /\ MaxDepth \in Nat /\ n <= MaxDepth /\ result = "none"
  BY TorrentAssumption DEF More, DecoderInv, StackInv, MeaningInv
<1>4. Opened(Below, o, n - 1)
  BY <1>1, <1>2, OpenedFewer
<1>5. o[n] \in 0..(pos - 1)
  BY <1>1 DEF Settled
<1>6. Denotes("value", MaxDepth - (n - 1), o[n], pos + 1, v)
  <2>1. PICK depth \in 1..MaxDepth : depth = MaxDepth - (n - 1)
    <3>1. MaxDepth - (n - 1) \in 1..MaxDepth
      BY <1>2, <1>3
    <3> QED BY <3>1
  <2>2. PICK to \in Position : to = pos + 1
    BY <1>3 DEF Position
  <2>3. PICK from \in Position : from = o[n]
    BY <1>3, <1>5 DEF Position
  <2>4. depth - 1 = MaxDepth - n /\ to - 1 = pos /\ from + 1 < to
    BY <1>2, <1>3, <1>5, <2>1, <2>2, <2>3
  <2>5. CASE Top.kind = "list" /\ v = [kind |-> "list", items |-> Top.items]
    <3>1. At(from) = "l" /\ Denotes("items", depth - 1, from + 1, to - 1, Top.items)
      BY <1>1, <2>3, <2>4, <2>5 DEF Settled, Top
    <3>2. Bracketed("l", from, to)
      BY <2>4, <3>1 DEF Bracketed
    <3>3. Denotes("value", depth, from, to, v)
      BY <2>5, <3>1, <3>2 DEF Grammar, ListRule
    <3> QED BY <2>1, <2>2, <2>3, <3>3
  <2>6. CASE Top.kind = "dict" /\ v = [kind |-> "dict", map |-> Top.map]
    <3>1. At(from) = "d" /\ Denotes("entries", depth - 1, from + 1, to - 1, Top.map)
      BY <1>1, <2>3, <2>4, <2>6 DEF Settled, Top
    <3>2. Bracketed("d", from, to)
      BY <2>4, <3>1 DEF Bracketed
    <3>3. Denotes("value", depth, from, to, v)
      BY <2>6, <3>1, <3>2 DEF Grammar, DictRule
    <3> QED BY <2>1, <2>2, <2>3, <3>3
  <2> QED BY <2>5, <2>6
<1>7. Len(Below) + 1 = n /\ MaxDepth - Len(Below) = MaxDepth - (n - 1) /\ o[n] <= pos
  BY <1>2, <1>3, <1>5
<1>8. Len(Below) > 0 /\ Below[1].kind = "dict" => InfoDenoted(Below[1].map, infoStart, infoEnd)
  BY <1>2 DEF MeaningInv
<1>9. Below = <<>> /\ v.kind = "dict" => InfoDenoted(v.map, infoStart, infoEnd)
  <2> SUFFICES ASSUME Below = <<>>, v.kind = "dict" PROVE InfoDenoted(v.map, infoStart, infoEnd)
    OBVIOUS
  <2>1. n = 1
    BY <1>2
  <2>2. stack[1].kind = "dict" /\ v.map = stack[1].map
    BY <2>1 DEF Top
  <2> QED BY <2>1, <2>2 DEF MeaningInv
<1>10. StackInv(Below, pos)
  BY BelowKeeps
<1> HIDE DEF n
<1> QED BY <1>2, <1>3, <1>4, <1>6, <1>7, <1>8, <1>9, <1>10, ReturnMeans

\* One step of the decoder keeps what the bytes denote.
LEMMA MeaningStep ==
    DecoderInv /\ Grammar /\ MeaningInv /\ [Next]_vars => MeaningInv'
<1> SUFFICES ASSUME DecoderInv, Grammar, MeaningInv, [Next]_vars PROVE MeaningInv'
  OBVIOUS
<1>0. pos \in Nat /\ Len(data) \in Nat /\ MaxDepth \in Nat
  BY TorrentAssumption DEF DecoderInv
<1>1. CASE DecodeInt
  <2> DEFINE Numbers ==
        UNION {{[end |-> end, int |-> n] : n \in Atoi(Bytes(pos + 1, end))} :
                  end \in IndexOf("e", pos + 1)}
  <2>1. ASSUME NEW m \in Numbers, mode = "value", More, At(pos) = "i",
               Return([kind |-> "int", int |-> m.int], m.end + 1, stack)
        PROVE  MeaningInv'
    <3>1. PICK end \in IndexOf("e", pos + 1) :
            m \in {[end |-> end, int |-> n] : n \in Atoi(Bytes(pos + 1, end))}
      OBVIOUS
    <3>2. m.end = end /\ m.int \in Atoi(Bytes(pos + 1, end))
      BY <3>1
    <3>3. end \in (pos + 1)..(Len(data) - 1) /\ At(end) = "e"
      BY <1>0, <3>1 DEF IndexOf
    <3>4. PICK to \in Position : to = end + 1
      BY <1>0, <3>3 DEF Position
    <3>5. pos \in Position /\ pos + 1 < to /\ to - 1 = end /\ to \in (pos + 1)..Len(data)
      BY <1>0, <3>3, <3>4 DEF Position
    <3>6. Bracketed("i", pos, to)
      BY <2>1, <3>3, <3>5 DEF Bracketed
    <3> DEFINE v == [kind |-> "int", int |-> m.int]
    <3>7. \A depth \in 0..MaxDepth : Denotes("value", depth, pos, to, v)
      BY <3>2, <3>5, <3>6 DEF Grammar, IntRule
    <3>8. v.kind # "dict" /\ Return(v, to, stack)
      BY <2>1, <3>2, <3>4
    <3> HIDE DEF v
    <3> QED BY <2>1, <3>5, <3>7, <3>8, ScalarMeans
  <2> QED BY <1>1, <2>1, FinishMeans DEF DecodeInt
<1>2. CASE DecodeString
  <2>1. ASSUME NEW s \in Slices, mode = "value", More, At(pos) \in DOMAIN Digit,
               Return([kind |-> "str", str |-> Bytes(s.start, s.end)], s.end, stack)
        PROVE  MeaningInv'
    <3> DEFINE v == [kind |-> "str", str |-> Bytes(s.start, s.end)]
    <3>1. s.end \in (pos + 1)..Len(data) /\ StringSpan(pos, s.end, Bytes(s.start, s.end))
      BY SlicesInRange, SlicesAreStrings
    <3>2. pos \in Position /\ s.end \in Position /\ pos < s.end
      BY <1>0, <3>1 DEF Position
    <3>3. \A depth \in 0..MaxDepth : Denotes("value", depth, pos, s.end, v)
      BY <2>1, <3>1, <3>2 DEF Grammar, StringRule
    <3>4. v.kind # "dict" /\ Return(v, s.end, stack)
      BY <2>1
    <3> HIDE DEF v
    <3> QED BY <2>1, <3>1, <3>3, <3>4, ScalarMeans
  <2> QED BY <1>2, <2>1, FinishMeans, SlicesInRange DEF DecodeString
<1>3. CASE OpenList
  BY <1>3, EnterMeans DEF OpenList
<1>4. CASE OpenDict
  BY <1>4, EnterMeans DEF OpenDict
<1>5. CASE Unexpected
  BY <1>5, FinishMeans DEF Unexpected
<1>6. CASE Element
  <2>1. CASE ~More /\ Finish("syntax")
    BY <2>1, FinishMeans
  <2>2. CASE /\ More /\ At(pos) = "e"
             /\ Return([kind |-> "list", items |-> Top.items], pos + 1, Below)
    BY <1>6, <2>2, CloseMeans DEF Element
  <2>3. CASE mode' = "value" /\ UNCHANGED <<data, pos, stack, root, span, meta, result>>
    <3> DEFINE n == Len(stack)
    <3>1. mode = "loop" /\ stack[n].kind = "list" /\ n \in Nat /\ n > 0
      BY <1>6, BelowFrames DEF Element, Top
    <3>2. PICK o : /\ Opened(stack, o, n - 1)
                   /\ Settled(stack[n], MaxDepth - n, o[n], pos)
      BY <3>1 DEF MeaningInv, Looping, Loops
    <3> DEFINE next == [o EXCEPT ![n + 1] = pos]
    <3>3. /\ next \in [Nat -> Nat] /\ next[n + 1] = pos
          /\ \A k \in 1..n : next[k] = o[k]
      <4>1. o \in [Nat -> Nat] /\ pos \in Nat
        BY <1>0, <3>2 DEF Opened, Position
      <4>2. n \in Nat
        BY <3>1
      <4> HIDE DEF n
      <4> QED BY <4>1, <4>2
    <3>4. Pending(stack[n], MaxDepth - n, o[n], pos)
      BY <3>1, <3>2 DEF Pending, Settled
    <3> HIDE DEF next
    <3>5. Awaits(stack, next, pos)
      BY <3>1, <3>2, <3>3, <3>4, AwaitsNext
    <3>6. Awaiting'
      BY <2>3, <3>5, NextAwaiting
    <3> QED BY <2>3, <3>1, <3>6, MeaningStays
            DEF MeaningInv, AcceptsTheGrammar, HashesTheInfo, InfoDenoted, Denotes, span
  <2> QED BY <1>6, <2>1, <2>2, <2>3 DEF Element
<1>7. CASE Key
  <2>1. CASE (~More /\ Finish("syntax")) \/ (Slices = {} /\ Finish("syntax"))
    BY <2>1, FinishMeans
  <2>2. CASE /\ More /\ At(pos) = "e"
             /\ Return([kind |-> "dict", map |-> Top.map], pos + 1, Below)
    BY <1>7, <2>2, CloseMeans DEF Key
  <2>3. ASSUME NEW s \in Slices, mode = "loop", Top.kind = "dict", Pend(s) PROVE MeaningInv'
    <3> DEFINE n == Len(stack)
    <3>1. n \in Nat /\ n > 0 /\ stack[n].kind = "dict"
      BY <2>3, BelowFrames DEF Top
    <3>2. PICK o : /\ Opened(stack, o, n - 1)
                   /\ Settled(stack[n], MaxDepth - n, o[n], pos)
      BY <2>3 DEF MeaningInv, Looping, Loops
    <3> DEFINE next == [o EXCEPT ![n + 1] = s.end]
    <3>3. s.end \in (pos + 1)..Len(data) /\ StringSpan(pos, s.end, Bytes(s.start, s.end))
      BY SlicesInRange, SlicesAreStrings
    <3>4. pos \in Position /\ s.end \in Position /\ s.end \in Nat /\ pos < s.end
      BY <1>0, <3>3 DEF Position
    <3>5. /\ next \in [Nat -> Nat] /\ next[n + 1] = s.end
          /\ \A k \in 1..n : next[k] = o[k]
      BY <3>1, <3>2, <3>4, SMTT(30) DEF Opened
    <3> DEFINE top == [kind |-> "dict", map |-> stack[n].map,
                       key |-> Bytes(s.start, s.end), start |-> s.end]
    <3>6. PICK S : stack \in Seq(S)
      BY DEF DecoderInv, StackInv
    <3>7. /\ stack' = [stack EXCEPT ![n] = top]
          /\ pos' = s.end /\ mode' = "value"
          /\ UNCHANGED <<data, root, infoStart, infoEnd, meta, result>>
      BY <2>3, <3>1, <3>6 DEF Pend, span
    <3>8. Pending(top, MaxDepth - n, o[n], s.end)
      <4>1. /\ o[n] \in 0..(pos - 1) /\ At(o[n]) = "d"
            /\ Denotes("entries", MaxDepth - n, o[n] + 1, pos, stack[n].map)
        BY <3>1, <3>2 DEF Settled
      <4>2. o[n] \in 0..(s.end - 1)
        BY <1>0, <3>4, <4>1
      <4> QED BY <3>3, <3>4, <4>1, <4>2 DEF Pending
    <3>9. top.kind = "dict" /\ top.map = stack[n].map
      OBVIOUS
    <3> HIDE DEF top, next
    <3>10. /\ Len(stack') = n /\ stack'[n] = top
           /\ \A k \in 1..(n - 1) : stack'[k] = stack[k]
      BY <3>1, <3>6, <3>7
    <3>11. Opened(stack', o, n - 1)
      BY <3>1, <3>2, <3>10, OpenedFewer
    <3>12. Awaits(stack', next, s.end)
      BY <3>1, <3>5, <3>8, <3>10, <3>11, AwaitsNext
    <3>13. Awaiting'
      BY <3>7, <3>12, NextAwaiting
    <3>14. (Len(stack) > 0 /\ stack[1].kind = "dict" => InfoDenoted(stack[1].map, infoStart, infoEnd))'
      <4>1. stack'[1] = IF n = 1 THEN top ELSE stack[1]
        BY <3>1, <3>10
      <4>2. stack'[1].kind = stack[1].kind /\ (stack[1].kind = "dict" => stack'[1].map = stack[1].map)
        BY <3>1, <3>9, <4>1
      <4> QED BY <3>1, <3>7, <4>2, MeaningStays DEF MeaningInv, InfoDenoted, Denotes
    <3>15. result = "none"
      BY <2>3 DEF MeaningInv
    <3> QED BY <3>7, <3>13, <3>14, <3>15 DEF MeaningInv, AcceptsTheGrammar, HashesTheInfo
  <2> QED BY <1>7, <2>1, <2>2, <2>3, SlicesInRange DEF Key
<1>8. CASE Parse
  <2>1. /\ mode = "root" /\ mode' = "done" /\ result' = Verdict
        /\ meta' = IF Verdict = "ok" THEN MetaOf(root.map[InfoKey]) ELSE meta
        /\ UNCHANGED <<data, pos, stack, root, infoStart, infoEnd>>
    BY <1>8 DEF Parse, span
  <2>2. Denotes("value", MaxDepth, 0, pos, root)
    BY <2>1 DEF MeaningInv
  <2>3. Verdict # "trailing" => pos = Len(data)
    BY DEF Verdict
  <2>4. AcceptsTheGrammar'
    BY <2>1, <2>2, <2>3, MeaningStays DEF AcceptsTheGrammar, Denotes
  <2>5. Verdict = "ok" => Denotes("value", MaxDepth - 1, infoStart, infoEnd, root.map[InfoKey])
    <3>1. Verdict = "ok" => root.kind = "dict" /\ InfoKey \in DOMAIN root.map
      BY DEF Verdict, Has
    <3> QED BY <2>1, <3>1 DEF MeaningInv, InfoDenoted
  <2>6. MetaOf(root.map[InfoKey])' = MetaOf(root.map[InfoKey])
    BY <2>1
  <2>7. HashesTheInfo'
    BY <2>1, <2>5, <2>6, MeaningStays DEF HashesTheInfo, Denotes
  <2> QED BY <2>1, <2>4, <2>7, MeaningStays DEF MeaningInv, InfoDenoted, Denotes
<1>9. CASE UNCHANGED vars
  <2>1. UNCHANGED <<data, pos, stack, mode, root, infoStart, infoEnd, meta, result>>
    BY <1>9 DEF vars, span
  <2>2. Awaiting' = Awaiting /\ Looping' = Looping
    BY <2>1, FramesStay DEF Awaiting, Looping
  <2>3. MetaOf(root.map[InfoKey])' = MetaOf(root.map[InfoKey])
    BY <2>1
  <2>4. AcceptsTheGrammar' /\ HashesTheInfo'
    BY <2>1, <2>3, MeaningStays DEF MeaningInv, AcceptsTheGrammar, HashesTheInfo, Denotes
  <2> QED BY <2>1, <2>2, <2>4, MeaningStays DEF MeaningInv, InfoDenoted, Denotes
<1> QED BY <1>1, <1>2, <1>3, <1>4, <1>5, <1>6, <1>7, <1>8, <1>9 DEF Next

\* The invariant holds for every input.
LEMMA MeaningInvariant == Spec => []MeaningInv
<1>1. Init => MeaningInv
  <2> SUFFICES ASSUME Init PROVE MeaningInv
    OBVIOUS
  <2> DEFINE o == [k \in Nat |-> 0]
  <2>1. Awaits(<<>>, o, 0)
    <3>1. o \in [Nat -> Nat] /\ o[1] = 0 /\ Len(<<>>) = 0
      OBVIOUS
    <3> HIDE DEF o
    <3> QED BY <3>1 DEF Awaits, Opened
  <2>2. Awaiting
    BY <2>1 DEF Init, Awaiting
  <2> QED BY <2>2 DEF Init, MeaningInv, AcceptsTheGrammar, HashesTheInfo
<1>2. DecoderInv /\ MeaningInv /\ [Next]_vars => MeaningInv'
  BY MeaningStep, MeaningIsClosed
<1> QED BY <1>1, <1>2, DecoderInvariant, PTL DEF Spec

\* The decoder is sound: what it accepts is in the grammar, in full, and is
\* the value it returns.
THEOREM DecoderIsSound == Spec => []AcceptsTheGrammar
<1>1. MeaningInv => AcceptsTheGrammar
  BY DEF MeaningInv
<1> QED BY <1>1, MeaningInvariant, PTL

\* The info-hash is the hash of the bytes of the dictionary that the name and
\* the files are taken from, whatever keys are nested in it or repeated.
THEOREM HashIsOfTheInfo == Spec => []HashCoversMeta
<1>1. MeaningInv => HashCoversMeta
  BY DEF MeaningInv, HashesTheInfo, HashCoversMeta, Denotes
<1> QED BY <1>1, MeaningInvariant, PTL

(***************************************************************************)
(* What is bencoded is accepted.  A list is followed from its first value, *)
(* as the decoder reads it, so the rules are used backwards.               *)
(***************************************************************************)
\* Parse refuses no input that is a value in full, and returns that value.
ReadsTheGrammar ==
    \A v : Denotes("value", MaxDepth, 0, Len(data), v) /\ mode = "done"
               => result \notin {"syntax", "trailing"} /\ root = v

(***************************************************************************)
(* The invariant: w[k] is what the k-th frame will be and e[k] where it    *)
(* ends, and the bytes up to there denote what the frame still lacks.      *)
(***************************************************************************)
\* The frame at p, with nothing pending.
Continues(f, depth, end, whole, p) ==
    /\ At(end - 1) = "e"
    /\ \/ /\ f.kind = "list" /\ \E S : f.items \in Seq(S)
          /\ \E rest : /\ Denotes("items", depth, p, end - 1, rest)
                       /\ whole = [kind |-> "list", items |-> f.items \o rest]
       \/ /\ f.kind = "dict" /\ f.map = [k \in DOMAIN f.map |-> f.map[k]]
          /\ \E rest : /\ Denotes("entries", depth, p, end - 1, rest)
                       /\ whole = [kind |-> "dict", map |-> Over(f.map, rest)]

\* The frame once the value v it waits for has been read, up to p.
Resumes(f, depth, end, whole, v, p) ==
    /\ At(end - 1) = "e"
    /\ \/ /\ f.kind = "list" /\ \E S : f.items \in Seq(S)
          /\ \E rest : /\ Denotes("items", depth, p, end - 1, rest)
                       /\ whole = [kind |-> "list", items |-> Append(f.items, v) \o rest]
       \/ /\ f.kind = "dict"
          /\ \E rest : /\ Denotes("entries", depth, p, end - 1, rest)
                       /\ whole = [kind |-> "dict", map |-> Over(Bind(f, v), rest)]

Tracked(s, e, w, n, v) ==
    /\ e[1] = Len(data) /\ w[1] = v
    /\ \A k \in 1..(n + 1) : e[k] \in Position \ {0}
    /\ \A k \in 1..n : Resumes(s[k], MaxDepth - k, e[k], w[k], w[k + 1], e[k + 1])

Expects(s, e, w, p, v) ==
    /\ Tracked(s, e, w, Len(s), v)
    /\ Denotes("value", MaxDepth - Len(s), p, e[Len(s) + 1], w[Len(s) + 1])

Goes(s, e, w, p, v) ==
    /\ Tracked(s, e, w, Len(s) - 1, v)
    /\ Continues(s[Len(s)], MaxDepth - Len(s), e[Len(s)], w[Len(s)], p)

Expecting(v) == \E s, e, w, p : s = stack /\ p = pos /\ Expects(s, e, w, p, v)
Going(v) == \E s, e, w, p : s = stack /\ p = pos /\ Goes(s, e, w, p, v)

OnTrack(v) ==
    /\ mode = "value" => Expecting(v)
    /\ mode = "loop" => Going(v)
    /\ mode = "root" => pos = Len(data) /\ root = v
    /\ mode = "done" => result \notin {"syntax", "trailing"} /\ root = v

\* A number has digits only, but for its sign, and is one number.
LEMMA AtoiReads ==
    ASSUME data \in Seq(STRING), NEW from \in Nat, NEW to \in Nat, to <= Len(data),
           NEW n \in Atoi(Bytes(from, to))
    PROVE  /\ from < to
           /\ \A p \in from..(to - 1) : At(p) \in DOMAIN Digit \cup {"+", "-"}
           /\ Atoi(Bytes(from, to)) = {n}
<1> DEFINE s == Bytes(from, to)
           signed == s # <<>> /\ s[1] \in {"+", "-"}
           digits == IF signed THEN Tail(s) ELSE s
<1>1. /\ digits # <<>> /\ \A k \in 1..Len(digits) : digits[k] \in DOMAIN Digit
      /\ Atoi(s) = {n}
  BY DEF Atoi
<1>2. s \in Seq(STRING)
  BY DEF Bytes
<1>3. s # <<>>
  BY <1>1
<1>4. from < to
  BY <1>3 DEF Bytes
<1>5. Len(s) = to - from /\ \A k \in 1..(to - from) : s[k] = data[from + k]
  BY <1>4 DEF Bytes
<1>6. \A k \in 1..(to - from) : s[k] \in DOMAIN Digit \cup {"+", "-"}
  <2>1. CASE ~signed
    BY <2>1, <1>1, <1>5
  <2>2. CASE signed
    <3>1. /\ digits = Tail(s) /\ Len(digits) = to - from - 1
          /\ \A k \in 1..(to - from - 1) : digits[k] = s[k + 1]
      BY <1>2, <1>3, <1>5, <2>2
    <3> HIDE DEF digits, s
    <3>2. ASSUME NEW k \in 2..(to - from) PROVE s[k] \in DOMAIN Digit
      <4>1. k - 1 \in 1..Len(digits) /\ digits[k - 1] = s[k]
        BY <3>1
      <4> QED BY <4>1, <1>1
    <3>3. \A k \in 1..(to - from) : k = 1 \/ k \in 2..(to - from)
      BY <1>4
    <3> QED BY <2>2, <3>2, <3>3
  <2> QED BY <2>1, <2>2
<1>7. ASSUME NEW p \in from..(to - 1) PROVE At(p) \in DOMAIN Digit \cup {"+", "-"}
  <2>1. p + 1 - from \in 1..(to - from) /\ from + (p + 1 - from) = p + 1
    OBVIOUS
  <2> QED BY <2>1, <1>5, <1>6 DEF At
<1> QED BY <1>1, <1>4, <1>7

\* A string of the grammar is the string the decoder takes.
LEMMA StringIsTaken ==
    ASSUME DecoderInv, NEW to \in Position, NEW str, StringSpan(pos, to, str)
    PROVE  /\ More /\ At(pos) # "e"
           /\ \E start : Slices = {[start |-> start, end |-> to]} /\ str = Bytes(start, to)
                         /\ start <= to
<1>1. pos \in Nat /\ Len(data) \in Nat /\ to \in Nat /\ to <= Len(data)
      /\ data \in Seq(STRING) /\ Len(data) <= MaxInt /\ MaxInt \in Nat
  BY TorrentAssumption DEF DecoderInv, Position
<1>2. PICK sep \in pos..(to - 1) : /\ At(sep) = ":"
                                   /\ to - (sep + 1) \in Atoi(Bytes(pos, sep))
                                   /\ str = Bytes(sep + 1, to)
  BY DEF StringSpan
<1>3. sep \in Nat /\ sep < to /\ sep <= Len(data)
  BY <1>1, <1>2
<1>4. /\ pos < sep
      /\ \A p \in pos..(sep - 1) : At(p) \in DOMAIN Digit \cup {"+", "-"}
      /\ Atoi(Bytes(pos, sep)) = {to - (sep + 1)}
  BY <1>1, <1>2, <1>3, AtoiReads
<1>5. IndexOf(":", pos) = {sep}
  <2>1. \A p \in pos..(sep - 1) : At(p) # ":"
    BY <1>4 DEF Digit
  <2>2. sep \in pos..(Len(data) - 1)
    BY <1>1, <1>3, <1>4
  <2>3. \A p \in IndexOf(":", pos) : p \in Int /\ ~(p < sep) /\ ~(sep < p)
    BY <1>1, <1>2, <2>1, <2>2 DEF IndexOf
  <2>4. sep \in IndexOf(":", pos)
    BY <1>2, <2>1, <2>2 DEF IndexOf
  <2>5. \A p \in IndexOf(":", pos) : p = sep
    BY <1>3, <2>3
  <2> QED BY <2>4, <2>5
<1>6. Lengths(sep) = {to - (sep + 1)}
  BY <1>1, <1>3, <1>4 DEF Lengths
<1>7. Wrap(sep + 1 + (to - (sep + 1))) = to
  BY <1>1, <1>3 DEF Wrap
<1>8. Slices = {[start |-> sep + 1, end |-> to]}
  BY <1>5, <1>6, <1>7 DEF Slices
<1>9. More /\ At(pos) # "e"
  BY <1>1, <1>3, <1>4 DEF More, Digit
<1> QED BY <1>1, <1>2, <1>3, <1>8, <1>9

\* A number of the grammar is the number the decoder takes.
LEMMA NumberIsTaken ==
    ASSUME DecoderInv, NEW to \in Position, Bracketed("i", pos, to),
           NEW n \in Atoi(Bytes(pos + 1, to - 1))
    PROVE  /\ More
           /\ UNION {{[end |-> end, int |-> m] : m \in Atoi(Bytes(pos + 1, end))} :
                        end \in IndexOf("e", pos + 1)} = {[end |-> to - 1, int |-> n]}
<1>1. pos \in Nat /\ Len(data) \in Nat /\ to \in Nat /\ to <= Len(data)
      /\ data \in Seq(STRING) /\ pos + 1 < to /\ At(to - 1) = "e"
  BY DEF DecoderInv, Position, Bracketed
<1>2. /\ \A p \in (pos + 1)..(to - 2) : At(p) \in DOMAIN Digit \cup {"+", "-"}
      /\ Atoi(Bytes(pos + 1, to - 1)) = {n}
  <2>1. pos + 1 \in Nat /\ to - 1 \in Nat /\ to - 1 <= Len(data) /\ (to - 1) - 1 = to - 2
    BY <1>1
  <2> QED BY <1>1, <2>1, AtoiReads
<1>3. IndexOf("e", pos + 1) = {to - 1}
  <2>1. \A p \in (pos + 1)..(to - 2) : At(p) # "e"
    BY <1>2 DEF Digit
  <2>2. \A p \in IndexOf("e", pos + 1) : p \in Int /\ ~(p < to - 1) /\ ~(to - 1 < p)
    BY <1>1, <2>1 DEF IndexOf
  <2>3. to - 1 \in IndexOf("e", pos + 1)
    BY <1>1, <2>1 DEF IndexOf
  <2>4. \A p \in IndexOf("e", pos + 1) : p = to - 1
    BY <1>1, <2>2
  <2> QED BY <2>3, <2>4
<1>4. More
  BY <1>1 DEF More
<1> QED BY <1>2, <1>3, <1>4

\* And so is what the frames lack.
LEMMA TrackStays ==
    ASSUME data' = data
    PROVE  \A s, e, w, p, v : /\ Expects(s, e, w, p, v)' = Expects(s, e, w, p, v)
                              /\ Goes(s, e, w, p, v)' = Goes(s, e, w, p, v)
<1>1. Position' = Position /\ (\A p : At(p)' = At(p)) /\ Len(data)' = Len(data)
  BY DEF Position, At
<1>2. \A relation, depth, from, to, datum :
        Denotes(relation, depth, from, to, datum)' = Denotes(relation, depth, from, to, datum)
  BY MeaningStays DEF Denotes
<1>3. \A f, depth, end, whole, p :
        Continues(f, depth, end, whole, p)' = Continues(f, depth, end, whole, p)
  BY <1>1, <1>2 DEF Continues
<1>4. \A f, depth, end, whole, v, p :
        Resumes(f, depth, end, whole, v, p)' = Resumes(f, depth, end, whole, v, p)
  <2> TAKE f, depth, end, whole, v, p
  <2>1. At(end - 1)' = At(end - 1)
    BY <1>1
  <2>2. \A rest :
          /\ Denotes("items", depth, p, end - 1, rest)' = Denotes("items", depth, p, end - 1, rest)
          /\ Denotes("entries", depth, p, end - 1, rest)'
               = Denotes("entries", depth, p, end - 1, rest)
    BY <1>2
  <2> QED BY <2>1, <2>2, Zenon DEF Resumes, Bind
<1>5. \A s, e, w, n, v : Tracked(s, e, w, n, v)' = Tracked(s, e, w, n, v)
  BY <1>1, <1>4 DEF Tracked
<1> QED BY <1>2, <1>3, <1>5 DEF Expects, Goes

LEMMA NextExpecting ==
    ASSUME data' = data, NEW e, NEW w, NEW v, Expects(stack', e, w, pos', v) PROVE Expecting(v)'
BY TrackStays DEF Expecting

LEMMA NextGoing ==
    ASSUME data' = data, NEW e, NEW w, NEW v, Goes(stack', e, w, pos', v) PROVE Going(v)'
BY TrackStays DEF Going

\* Fewer frames.
LEMMA TrackedFewer ==
    ASSUME NEW s, NEW t, NEW e, NEW w, NEW v, NEW n \in Nat, NEW m \in Nat, m <= n,
           Tracked(s, e, w, n, v), \A k \in 1..m : t[k] = s[k]
    PROVE  Tracked(t, e, w, m, v)
BY DEF Tracked

\* The bindings one by one.
LEMMA BindOver ==
    ASSUME NEW map, NEW key, NEW v, NEW rest, NEW f, f.map = map, f.key = key
    PROVE  Over(map, Over(With(EmptyMap, key, v), rest)) = Over(Bind(f, v), rest)
BY DEF Over, With, Bind, EmptyMap

LEMMA OverNothing ==
    ASSUME NEW map, map = [k \in DOMAIN map |-> map[k]] PROVE Over(map, EmptyMap) = map
BY DEF Over, EmptyMap

\* The first item of what follows is the last of what came before.
MovesOver(a, v, b) == a \o (<<v>> \o b) = Append(a, v) \o b

\* The items one by one.
LEMMA AppendThenConcat ==
    ASSUME NEW S, NEW a \in Seq(S), NEW v \in S, NEW b \in Seq(S) PROVE MovesOver(a, v, b)
<1>1. <<v>> \in Seq(S) /\ Append(a, v) \in Seq(S)
  OBVIOUS
<1>2. a \o <<v>> = Append(a, v)
  OBVIOUS
<1>3. (a \o <<v>>) \o b = a \o (<<v>> \o b)
  BY <1>1, ConcatAssociative
<1> QED BY <1>2, <1>3 DEF MovesOver

\* A value has a first byte, which is no closing bracket.
LEMMA ValueBegins ==
    ASSUME Unfolded, NEW depth \in 0..MaxDepth, NEW from \in Position, NEW to \in Position, NEW v,
           Denotes("value", depth, from, to, v), Len(data) \in Nat
    PROVE  from < to /\ At(from) # "e" /\ Unfolds(depth, from, to, v)
<1>1. Unfolds(depth, from, to, v)
  BY DEF Unfolded
<1> QED BY <1>1 DEF Unfolds, Bracketed, Digit, Position

\* At the head of a loop there is the closing bracket, and nothing lacks, or
\* the next of the values.
LEMMA LacksNext ==
    ASSUME DecoderInv, Unfolded, NEW f, NEW depth \in 0..MaxDepth, NEW end \in Position \ {0},
           NEW whole, Continues(f, depth, end, whole, pos)
    PROVE  /\ More
           /\ \/ /\ At(pos) = "e" /\ end = pos + 1
                 /\ \/ f.kind = "list" /\ whole = [kind |-> "list", items |-> f.items]
                    \/ f.kind = "dict" /\ whole = [kind |-> "dict", map |-> f.map]
              \/ /\ At(pos) # "e" /\ f.kind = "list"
                 /\ \E cut \in Position \ {0} : \E v :
                       Denotes("value", depth, pos, cut, v) /\ Resumes(f, depth, end, whole, v, cut)
              \/ /\ At(pos) # "e" /\ f.kind = "dict"
                 /\ \E at \in Position, cut \in Position \ {0} : \E key, v :
                       /\ StringSpan(pos, at, key)
                       /\ Denotes("value", depth, at, cut, v)
                       /\ Resumes([kind |-> "dict", map |-> f.map, key |-> key, start |-> at],
                                  depth, end, whole, v, cut)
<1>1. pos \in Position /\ end - 1 \in Position /\ Len(data) \in Nat /\ pos \in Nat /\ end \in Nat
      /\ end <= Len(data)
  BY DEF DecoderInv, Position
<1>2. At(end - 1) = "e"
  BY DEF Continues
<1>3. ASSUME pos = end - 1 PROVE More /\ At(pos) = "e" /\ end = pos + 1
  BY <1>1, <1>2, <1>3 DEF More
<1>4. CASE f.kind = "list"
  <2>1. PICK S : f.items \in Seq(S)
    BY <1>4 DEF Continues
  <2>2. PICK rest : /\ Denotes("items", depth, pos, end - 1, rest)
                    /\ whole = [kind |-> "list", items |-> f.items \o rest]
    BY <1>4 DEF Continues
  <2>3. UnfoldsList(depth, pos, end - 1, rest)
    BY <1>1, <2>2 DEF Unfolded
  <2>4. CASE pos = end - 1 /\ rest = <<>>
    <3>1. f.items \o rest = f.items
      BY <2>1, <2>4
    <3> QED BY <1>3, <1>4, <2>2, <2>4, <3>1
  <2>5. ASSUME NEW cut \in Position, NEW v, NEW more, NEW T,
               v \in T, more \in Seq(T), rest = <<v>> \o more,
               Denotes("value", depth, pos, cut, v), Denotes("items", depth, cut, end - 1, more)
        PROVE  /\ More /\ At(pos) # "e" /\ cut # 0
               /\ Denotes("value", depth, pos, cut, v) /\ Resumes(f, depth, end, whole, v, cut)
    <3>1. pos < cut /\ At(pos) # "e"
      BY <1>1, <2>5, ValueBegins
    <3>2. More /\ cut # 0
      BY <1>1, <3>1 DEF More, Position
    <3>3. f.items \in Seq(S \cup T) /\ v \in S \cup T /\ more \in Seq(S \cup T)
      BY <2>1, <2>5
    <3>4. f.items \o rest = Append(f.items, v) \o more
      <4> DEFINE a == f.items
                 U == S \cup T
      <4>1. a \in Seq(U) /\ v \in U /\ more \in Seq(U)
        BY <3>3
      <4>2. rest = <<v>> \o more
        BY <2>5
      <4> HIDE DEF a, U
      <4>3. MovesOver(a, v, more)
        BY <4>1, AppendThenConcat
      <4>4. a \o (<<v>> \o more) = Append(a, v) \o more
        BY <4>3 DEF MovesOver
      <4> QED BY <4>2, <4>4, Zenon DEF a
    <3>5. Resumes(f, depth, end, whole, v, cut)
      BY <1>2, <1>4, <2>1, <2>2, <2>5, <3>4 DEF Resumes
    <3> QED BY <2>5, <3>1, <3>2, <3>5
  <2>6. CASE \E cut \in Position : \E v, more, T :
                /\ v \in T /\ more \in Seq(T) /\ rest = <<v>> \o more
                /\ Denotes("value", depth, pos, cut, v)
                /\ Denotes("items", depth, cut, end - 1, more)
    <3>1. PICK cut \in Position : \E v, more, T :
                /\ v \in T /\ more \in Seq(T) /\ rest = <<v>> \o more
                /\ Denotes("value", depth, pos, cut, v)
                /\ Denotes("items", depth, cut, end - 1, more)
      BY <2>6
    <3>2. PICK v, more, T : /\ v \in T /\ more \in Seq(T) /\ rest = <<v>> \o more
                            /\ Denotes("value", depth, pos, cut, v)
                            /\ Denotes("items", depth, cut, end - 1, more)
      BY <3>1
    <3> QED BY <1>4, <2>5, <3>2
  <2> QED BY <2>3, <2>4, <2>6 DEF UnfoldsList
<1>5. CASE f.kind = "dict"
  <2>1. f.map = [k \in DOMAIN f.map |-> f.map[k]]
    BY <1>5 DEF Continues
  <2>2. PICK rest : /\ Denotes("entries", depth, pos, end - 1, rest)
                    /\ whole = [kind |-> "dict", map |-> Over(f.map, rest)]
    BY <1>5 DEF Continues
  <2>3. UnfoldsMap(depth, pos, end - 1, rest)
    BY <1>1, <2>2 DEF Unfolded
  <2>4. CASE pos = end - 1 /\ rest = EmptyMap
    <3>1. Over(f.map, rest) = f.map
      BY <2>1, <2>4, OverNothing
    <3> QED BY <1>3, <1>5, <2>2, <2>4, <3>1
  <2>5. ASSUME NEW at \in Position, NEW cut \in Position, NEW key, NEW v, NEW more,
               StringSpan(pos, at, key), Denotes("value", depth, at, cut, v),
               Denotes("entries", depth, cut, end - 1, more), rest = Over(With(EmptyMap, key, v), more)
        PROVE  /\ More /\ At(pos) # "e" /\ cut # 0
               /\ StringSpan(pos, at, key) /\ Denotes("value", depth, at, cut, v)
               /\ Resumes([kind |-> "dict", map |-> f.map, key |-> key, start |-> at],
                          depth, end, whole, v, cut)
    <3> DEFINE next == [kind |-> "dict", map |-> f.map, key |-> key, start |-> at]
    <3>1. More /\ At(pos) # "e"
      BY <2>5, StringIsTaken
    <3>2. at < cut
      BY <1>1, <2>5, ValueBegins
    <3>3. cut # 0
      BY <1>1, <3>2 DEF Position
    <3>4. next.kind = "dict" /\ next.map = f.map /\ next.key = key
      OBVIOUS
    <3> HIDE DEF next
    <3>5. Over(f.map, rest) = Over(Bind(next, v), more)
      BY <2>5, <3>4, BindOver
    <3>6. Resumes(next, depth, end, whole, v, cut)
      BY <1>2, <2>2, <2>5, <3>4, <3>5 DEF Resumes
    <3> QED BY <2>5, <3>1, <3>3, <3>6 DEF next
  <2>6. CASE \E at, cut \in Position : \E key, v, more :
                /\ StringSpan(pos, at, key) /\ Denotes("value", depth, at, cut, v)
                /\ Denotes("entries", depth, cut, end - 1, more)
                /\ rest = Over(With(EmptyMap, key, v), more)
    <3>1. PICK at \in Position, cut \in Position : \E key, v, more :
                /\ StringSpan(pos, at, key) /\ Denotes("value", depth, at, cut, v)
                /\ Denotes("entries", depth, cut, end - 1, more)
                /\ rest = Over(With(EmptyMap, key, v), more)
      BY <2>6
    <3>2. PICK key, v, more : /\ StringSpan(pos, at, key) /\ Denotes("value", depth, at, cut, v)
                              /\ Denotes("entries", depth, cut, end - 1, more)
                              /\ rest = Over(With(EmptyMap, key, v), more)
      BY <3>1
    <3> QED BY <1>5, <2>5, <3>2
  <2> QED BY <2>3, <2>4, <2>6 DEF UnfoldsMap
<1> QED BY <1>4, <1>5 DEF Continues

\* The value that was expected is returned: the innermost frame goes on.
LEMMA ReturnTracks ==
    ASSUME DecoderInv, NEW x, NEW upTo, NEW frames, StackInv(frames, pos), Return(x, upTo, frames),
           NEW e, NEW w, NEW v, Tracked(frames, e, w, Len(frames), v),
           e[Len(frames) + 1] = upTo, w[Len(frames) + 1] = x
    PROVE  OnTrack(v)'
<1> DEFINE n == Len(frames)
<1>1. PICK S : frames \in Seq(S)
  BY DEF StackInv
<1>2. n \in Nat /\ pos' = upTo /\ data' = data
  BY <1>1 DEF Return
<1>3. CASE frames = <<>> /\ mode' = "root" /\ root' = x
  <2>1. n = 0
    BY <1>3
  <2>2. upTo = Len(data) /\ x = v
    BY <2>1 DEF Tracked
  <2> QED BY <1>2, <1>3, <2>2 DEF OnTrack
<1>4. ASSUME n > 0, mode' = "loop", NEW top, stack' = [frames EXCEPT ![n] = top],
             Continues(top, MaxDepth - n, e[n], w[n], upTo)
      PROVE  OnTrack(v)'
  <2>1. frames \in Seq(S \cup {top}) /\ n \in 1..n
    BY <1>1, <1>2, <1>4
  <2>2. Len(stack') = n /\ stack'[n] = top /\ \A k \in 1..(n - 1) : stack'[k] = frames[k]
    BY <1>2, <1>4, <2>1
  <2> HIDE DEF n
  <2>3. Tracked(stack', e, w, n - 1, v)
    <3>1. n - 1 \in Nat /\ n - 1 <= n
      BY <1>2, <1>4
    <3> QED BY <1>2, <2>2, <3>1, TrackedFewer DEF n
  <2>4. Goes(stack', e, w, pos', v)
    BY <1>2, <1>4, <2>2, <2>3 DEF Goes
  <2> QED BY <1>2, <1>4, <2>4, NextGoing DEF OnTrack
<1>5. ASSUME n > 0 PROVE Resumes(frames[n], MaxDepth - n, e[n], w[n], x, upTo)
  BY <1>2, <1>5 DEF Tracked
<1>6. CASE /\ frames # <<>> /\ frames[n].kind = "list" /\ mode' = "loop"
           /\ stack' = [frames EXCEPT ![n].items = Append(@, x)]
  <2>1. n > 0 /\ n \in 1..n
    BY <1>1, <1>2, <1>6
  <2>2. frames[n] = [kind |-> "list", items |-> frames[n].items]
    <3>1. IsFrame(frames[n], pos)
      BY <2>1 DEF StackInv
    <3> QED BY <1>6, <3>1, FrameShape
  <2> DEFINE top == [kind |-> "list", items |-> Append(frames[n].items, x)]
  <2>3. [frames[n] EXCEPT !.items = Append(@, x)] = top
    <3>1. WithItems(frames[n], Append(frames[n].items, x)) = top
      BY <2>2, ItemsReplaced
    <3> QED BY <3>1 DEF WithItems
  <2>4. stack' = [frames EXCEPT ![n] = top]
    BY <1>1, <1>6, <2>3
  <2>5. top.kind = "list" /\ top.items = Append(frames[n].items, x)
    OBVIOUS
  <2> HIDE DEF top, n
  <2>6. Resumes(frames[n], MaxDepth - n, e[n], w[n], x, upTo)
    BY <1>5, <2>1
  <2>7. PICK T : frames[n].items \in Seq(T)
    BY <1>6, <2>6 DEF Resumes
  <2>8. top.items \in Seq(T \cup {x})
    BY <2>5, <2>7
  <2>9. Continues(top, MaxDepth - n, e[n], w[n], upTo)
    BY <1>6, <2>5, <2>6, <2>8 DEF Resumes, Continues
  <2> QED BY <1>4, <1>6, <2>1, <2>4, <2>9
<1>7. CASE /\ frames # <<>> /\ frames[n].kind = "dict" /\ mode' = "loop"
           /\ stack' = [frames EXCEPT ![n].map = Bind(frames[n], x)]
  <2>1. n > 0 /\ n \in 1..n
    BY <1>1, <1>2, <1>7
  <2>2. frames[n] = [kind |-> "dict", map |-> frames[n].map, key |-> frames[n].key,
                     start |-> frames[n].start]
    <3>1. IsFrame(frames[n], pos)
      BY <2>1 DEF StackInv
    <3> QED BY <1>7, <3>1, FrameShape
  <2> DEFINE top == [kind |-> "dict", map |-> Bind(frames[n], x), key |-> frames[n].key,
                     start |-> frames[n].start]
  <2>3. [frames[n] EXCEPT !.map = Bind(frames[n], x)] = top
    BY <2>2
  <2>4. stack' = [frames EXCEPT ![n] = top]
    BY <1>1, <1>7, <2>3
  <2>5. top.kind = "dict" /\ top.map = Bind(frames[n], x)
    OBVIOUS
  <2> HIDE DEF top, n
  <2>6. Resumes(frames[n], MaxDepth - n, e[n], w[n], x, upTo)
    BY <1>5, <2>1
  <2>7. top.map = [k \in DOMAIN top.map |-> top.map[k]]
    BY <2>5 DEF Bind
  <2>8. Continues(top, MaxDepth - n, e[n], w[n], upTo)
    BY <1>7, <2>5, <2>6, <2>7 DEF Resumes, Continues
  <2> QED BY <1>4, <1>7, <2>1, <2>4, <2>8
<1> QED BY <1>3, <1>6, <1>7 DEF Return

\* One step of the decoder stays on the track of a value of the grammar.
LEMMA TrackStep ==
    ASSUME DecoderInv, Unfolded, NEW v, OnTrack(v), [Next]_vars PROVE OnTrack(v)'
<1> DEFINE n == Len(stack)
<1>0. /\ pos \in Position /\ pos \in Nat /\ Len(data) \in Nat /\ MaxDepth \in Nat
      /\ n \in Nat /\ n <= MaxDepth /\ MaxDepth - n \in 0..MaxDepth
      /\ StackInv(stack, pos)
  BY TorrentAssumption DEF DecoderInv, StackInv, Position
<1>1. ASSUME mode = "value"
      PROVE  \E e, w : /\ Tracked(stack, e, w, n, v) /\ e[n + 1] \in Position
                       /\ Denotes("value", MaxDepth - n, pos, e[n + 1], w[n + 1])
                       /\ More /\ Unfolds(MaxDepth - n, pos, e[n + 1], w[n + 1])
  <2>1. PICK e, w : Expects(stack, e, w, pos, v)
    BY <1>1 DEF OnTrack, Expecting
  <2>2. e[n + 1] \in Position
    BY <1>0, <2>1 DEF Expects, Tracked
  <2>3. pos < e[n + 1] /\ Unfolds(MaxDepth - n, pos, e[n + 1], w[n + 1])
    BY <1>0, <2>1, <2>2, ValueBegins DEF Expects
  <2>4. More
    BY <1>0, <2>2, <2>3 DEF More, Position
  <2> QED BY <2>1, <2>2, <2>3, <2>4 DEF Expects
<1>2. ASSUME mode = "loop"
      PROVE  \E e, w : /\ Tracked(stack, e, w, n - 1, v) /\ e[n] \in Position \ {0}
                       /\ Continues(stack[n], MaxDepth - n, e[n], w[n], pos)
  <2>1. PICK e, w : Goes(stack, e, w, pos, v)
    BY <1>2 DEF OnTrack, Going
  <2>2. n > 0 /\ n \in 1..((n - 1) + 1)
    BY <1>0, <1>2 DEF DecoderInv
  <2> QED BY <2>1, <2>2 DEF Goes, Tracked
<1>3. CASE DecodeInt
  <2>1. PICK e, w : /\ Tracked(stack, e, w, n, v) /\ e[n + 1] \in Position
                    /\ Unfolds(MaxDepth - n, pos, e[n + 1], w[n + 1])
    BY <1>1, <1>3 DEF DecodeInt
  <2>2. At(pos) = "i"
    BY <1>3 DEF DecodeInt
  <2>3. PICK m \in Atoi(Bytes(pos + 1, e[n + 1] - 1)) :
          w[n + 1] = [kind |-> "int", int |-> m] /\ Bracketed("i", pos, e[n + 1])
    BY <2>1, <2>2 DEF Unfolds, Bracketed, Digit
  <2>4. UNION {{[end |-> end, int |-> k] : k \in Atoi(Bytes(pos + 1, end))} :
                  end \in IndexOf("e", pos + 1)} = {[end |-> e[n + 1] - 1, int |-> m]}
    BY <2>1, <2>3, NumberIsTaken
  <2>5. Return([kind |-> "int", int |-> m], (e[n + 1] - 1) + 1, stack)
    <3> DEFINE number == [end |-> e[n + 1] - 1, int |-> m]
    <3>1. \E k \in {number} : Return([kind |-> "int", int |-> k.int], k.end + 1, stack)
      BY <1>3, <2>4 DEF DecodeInt
    <3>2. number.int = m /\ number.end = e[n + 1] - 1
      OBVIOUS
    <3> QED BY <3>1, <3>2
  <2>6. (e[n + 1] - 1) + 1 = e[n + 1]
    BY <1>0, <2>1 DEF Position
  <2> QED BY <1>0, <2>1, <2>3, <2>5, <2>6, ReturnTracks
<1>4. CASE DecodeString
  <2>1. PICK e, w : /\ Tracked(stack, e, w, n, v) /\ e[n + 1] \in Position
                    /\ Unfolds(MaxDepth - n, pos, e[n + 1], w[n + 1])
    BY <1>1, <1>4 DEF DecodeString
  <2>2. At(pos) \in DOMAIN Digit
    BY <1>4 DEF DecodeString
  <2>3. PICK str : StringSpan(pos, e[n + 1], str) /\ w[n + 1] = [kind |-> "str", str |-> str]
    BY <2>1, <2>2 DEF Unfolds, Bracketed, Digit
  <2>4. PICK start : /\ Slices = {[start |-> start, end |-> e[n + 1]]}
                     /\ str = Bytes(start, e[n + 1]) /\ start <= e[n + 1]
    BY <2>1, <2>3, StringIsTaken
  <2>5. InRange([start |-> start, end |-> e[n + 1]])
    BY <2>4, SlicesInRange
  <2>6. Return([kind |-> "str", str |-> str], e[n + 1], stack)
    BY <1>4, <2>4, <2>5 DEF DecodeString
  <2> QED BY <1>0, <2>1, <2>3, <2>6, ReturnTracks
<1>5. ASSUME mode = "value", NEW frame, Enter(frame),
             \/ frame = [kind |-> "list", items |-> <<>>] /\ At(pos) = "l"
             \/ /\ frame = [kind |-> "dict", map |-> EmptyMap, key |-> <<>>, start |-> 0]
                /\ At(pos) = "d"
      PROVE  OnTrack(v)'
  <2>1. PICK e, w : /\ Tracked(stack, e, w, n, v) /\ e[n + 1] \in Position
                    /\ Unfolds(MaxDepth - n, pos, e[n + 1], w[n + 1])
    BY <1>1, <1>5
  <2>2. /\ MaxDepth - n > 0 /\ At(e[n + 1] - 1) = "e"
        /\ Continues(frame, (MaxDepth - n) - 1, e[n + 1], w[n + 1], pos + 1)
    <3>1. CASE frame = [kind |-> "list", items |-> <<>>] /\ At(pos) = "l"
      <4>1. PICK s : /\ Denotes("items", (MaxDepth - n) - 1, pos + 1, e[n + 1] - 1, s)
                     /\ w[n + 1] = [kind |-> "list", items |-> s]
                     /\ MaxDepth - n > 0 /\ At(e[n + 1] - 1) = "e"
        BY <2>1, <3>1 DEF Unfolds, Bracketed, Digit
      <4>2. frame.kind = "list" /\ frame.items = <<>> /\ <<>> \in Seq({})
        BY <3>1
      <4>3. <<>> \o s = s
        OBVIOUS
      <4> QED BY <4>1, <4>2, <4>3 DEF Continues
    <3>2. CASE /\ frame = [kind |-> "dict", map |-> EmptyMap, key |-> <<>>, start |-> 0]
               /\ At(pos) = "d"
      <4>1. PICK m : /\ Denotes("entries", (MaxDepth - n) - 1, pos + 1, e[n + 1] - 1, m)
                     /\ w[n + 1] = [kind |-> "dict", map |-> m]
                     /\ MaxDepth - n > 0 /\ At(e[n + 1] - 1) = "e"
        BY <2>1, <3>2 DEF Unfolds, Bracketed, Digit
      <4>2. frame.kind = "dict" /\ frame.map = EmptyMap
        BY <3>2
      <4>3. Over(EmptyMap, m) = m
        <5>1. pos + 1 \in Position /\ e[n + 1] - 1 \in Position /\ (MaxDepth - n) - 1 \in 0..MaxDepth
          BY <1>0, <2>1, <4>1, SMTT(30) DEF Bracketed, Unfolds, Position
        <5>2. UnfoldsMap((MaxDepth - n) - 1, pos + 1, e[n + 1] - 1, m)
          BY <4>1, <5>1 DEF Unfolded
        <5>3. m = [k \in DOMAIN m |-> m[k]]
          BY <5>2 DEF UnfoldsMap, Over, EmptyMap
        <5> QED BY <5>3 DEF Over, EmptyMap
      <4> QED BY <4>1, <4>2, <4>3 DEF Continues, EmptyMap
    <3> QED BY <1>5, <3>1, <3>2
  <2>3. /\ pos' = pos + 1 /\ stack' = Append(stack, frame) /\ mode' = "loop" /\ data' = data
    BY <1>0, <1>5, <2>2 DEF Enter
  <2>4. PICK S : stack \in Seq(S)
    BY <1>0 DEF StackInv
  <2>5. /\ Len(stack') = n + 1 /\ stack'[n + 1] = frame
        /\ \A k \in 1..n : stack'[k] = stack[k]
    BY <2>3, <2>4
  <2> HIDE DEF n
  <2>6. Tracked(stack', e, w, n, v)
    BY <1>0, <2>1, <2>5, TrackedFewer
  <2>7. (n + 1) - 1 = n /\ (MaxDepth - n) - 1 = MaxDepth - (n + 1)
    BY <1>0
  <2>8. Goes(stack', e, w, pos', v)
    BY <2>2, <2>3, <2>5, <2>6, <2>7 DEF Goes
  <2> QED BY <2>3, <2>8, NextGoing DEF OnTrack
<1>6. CASE OpenList
  BY <1>5, <1>6 DEF OpenList
<1>7. CASE OpenDict
  BY <1>5, <1>7 DEF OpenDict
<1>8. CASE Unexpected
  <2>1. PICK e, w : More /\ Unfolds(MaxDepth - n, pos, e[n + 1], w[n + 1])
    BY <1>1, <1>8 DEF Unexpected
  <2> QED BY <1>8, <2>1 DEF Unexpected, Unfolds, Bracketed
<1>9. ASSUME mode = "loop", NEW whole, NEW e, NEW w, Tracked(stack, e, w, n - 1, v),
             e[n] = pos + 1, w[n] = whole, Return(whole, pos + 1, Below)
      PROVE  OnTrack(v)'
  <2>1. /\ n > 0 /\ Len(Below) = n - 1 /\ \A k \in 1..(n - 1) : Below[k] = stack[k]
        /\ StackInv(Below, pos)
    BY <1>9, BelowFrames, BelowKeeps
  <2> HIDE DEF n
  <2>2. n - 1 \in Nat /\ (n - 1) + 1 = n
    BY <1>0, <2>1
  <2>3. Tracked(Below, e, w, n - 1, v)
    BY <1>9, <2>1, <2>2, TrackedFewer
  <2> QED BY <1>9, <2>1, <2>2, <2>3, ReturnTracks
<1>10. ASSUME mode = "loop", NEW e, NEW w, NEW top, NEW cut \in Position \ {0}, NEW x,
              Tracked(stack, e, w, n - 1, v), e[n] \in Position \ {0},
              Resumes(top, MaxDepth - n, e[n], w[n], x, cut),
              Denotes("value", MaxDepth - n, pos', cut, x),
              stack' = [stack EXCEPT ![n] = top], mode' = "value", data' = data
       PROVE  OnTrack(v)'
  <2> DEFINE ends == [k \in Nat |-> IF k = n + 1 THEN cut ELSE e[k]]
             wants == [k \in Nat |-> IF k = n + 1 THEN x ELSE w[k]]
  <2>1. PICK S : stack \in Seq(S)
    BY <1>0 DEF StackInv
  <2>2. n > 0 /\ n \in 1..n /\ stack \in Seq(S \cup {top})
    BY <1>0, <1>10, <2>1 DEF DecoderInv
  <2>3. Len(stack') = n /\ stack'[n] = top /\ \A k \in 1..(n - 1) : stack'[k] = stack[k]
    BY <1>0, <1>10, <2>2
  <2>4. /\ \A k \in 1..n : ends[k] = e[k] /\ wants[k] = w[k]
        /\ ends[n + 1] = cut /\ wants[n + 1] = x
    BY <1>0
  <2> HIDE DEF ends, wants, n
  <2>5. /\ ends[1] = Len(data) /\ wants[1] = v
        /\ \A k \in 1..(n + 1) : ends[k] \in Position \ {0}
    <3>1. (n - 1) + 1 = n /\ 1 \in 1..n
      BY <1>0, <2>2
    <3>2. \A k \in 1..n : e[k] \in Position \ {0}
      BY <1>10, <3>1 DEF Tracked
    <3>3. \A k \in 1..(n + 1) : k \in 1..n \/ k = n + 1
      BY <1>0
    <3> QED BY <1>10, <2>4, <3>1, <3>2, <3>3 DEF Tracked
  <2>6. ASSUME NEW k \in 1..n
        PROVE  Resumes(stack'[k], MaxDepth - k, ends[k], wants[k], wants[k + 1], ends[k + 1])
    <3>1. CASE k = n
      BY <1>10, <2>3, <2>4, <3>1
    <3>2. CASE k # n
      <4>1. k \in 1..(n - 1) /\ k + 1 \in 1..n
        BY <1>0, <3>2
      <4>2. Resumes(stack[k], MaxDepth - k, e[k], w[k], w[k + 1], e[k + 1])
        BY <1>10, <4>1 DEF Tracked
      <4> QED BY <2>3, <2>4, <4>1, <4>2
    <3> QED BY <3>1, <3>2
  <2>7. Tracked(stack', ends, wants, n, v)
    BY <2>5, <2>6 DEF Tracked
  <2>8. Expects(stack', ends, wants, pos', v)
    BY <1>10, <2>3, <2>4, <2>7 DEF Expects
  <2> QED BY <1>10, <2>8, NextExpecting DEF OnTrack
<1>11. CASE Element
  <2>1. PICK e, w : /\ Tracked(stack, e, w, n - 1, v) /\ e[n] \in Position \ {0}
                    /\ Continues(stack[n], MaxDepth - n, e[n], w[n], pos)
    BY <1>2, <1>11 DEF Element
  <2>2. mode = "loop" /\ stack[n].kind = "list" /\ Top = stack[n]
    BY <1>11 DEF Element, Top
  <2> HIDE DEF n
  <2>3. More
    BY <1>0, <2>1, LacksNext
  <2>4. CASE At(pos) = "e"
    <3>1. e[n] = pos + 1 /\ w[n] = [kind |-> "list", items |-> stack[n].items]
      BY <1>0, <2>1, <2>2, <2>4, LacksNext, ZenonT(60)
    <3>2. Return([kind |-> "list", items |-> stack[n].items], pos + 1, Below)
      BY <1>11, <2>2, <2>3, <2>4 DEF Element
    <3> QED BY <1>9, <2>1, <2>2, <3>1, <3>2
  <2>5. CASE At(pos) # "e"
    <3>1. PICK cut \in Position \ {0} : \E x :
            /\ Denotes("value", MaxDepth - n, pos, cut, x)
            /\ Resumes(stack[n], MaxDepth - n, e[n], w[n], x, cut)
      BY <1>0, <2>1, <2>2, <2>5, LacksNext
    <3>2. PICK x : /\ Denotes("value", MaxDepth - n, pos, cut, x)
                   /\ Resumes(stack[n], MaxDepth - n, e[n], w[n], x, cut)
      BY <3>1
    <3>3. mode' = "value" /\ UNCHANGED <<data, pos, stack>>
      BY <1>11, <2>3, <2>5 DEF Element
    <3>4. stack' = [stack EXCEPT ![n] = stack[n]]
      <4>1. PICK S : stack \in Seq(S)
        BY <1>0 DEF StackInv
      <4> QED BY <3>3, <4>1
    <3> QED BY <1>10, <2>1, <2>2, <3>2, <3>3, <3>4
  <2> QED BY <2>4, <2>5
<1>12. CASE Key
  <2>1. PICK e, w : /\ Tracked(stack, e, w, n - 1, v) /\ e[n] \in Position \ {0}
                    /\ Continues(stack[n], MaxDepth - n, e[n], w[n], pos)
    BY <1>2, <1>12 DEF Key
  <2>2. mode = "loop" /\ stack[n].kind = "dict" /\ Top = stack[n]
    BY <1>12 DEF Key, Top
  <2>3. More
    BY <1>0, <2>1, LacksNext
  <2>4. CASE At(pos) = "e"
    <3>1. e[n] = pos + 1 /\ w[n] = [kind |-> "dict", map |-> stack[n].map]
      BY <1>0, <2>1, <2>2, <2>4, LacksNext
    <3>2. Return([kind |-> "dict", map |-> stack[n].map], pos + 1, Below)
      BY <1>12, <2>2, <2>3, <2>4 DEF Key
    <3> QED BY <1>9, <2>1, <2>2, <3>1, <3>2
  <2>5. CASE At(pos) # "e"
    <3>1. PICK at \in Position, cut \in Position \ {0} : \E key, x :
            /\ StringSpan(pos, at, key) /\ Denotes("value", MaxDepth - n, at, cut, x)
            /\ Resumes([kind |-> "dict", map |-> stack[n].map, key |-> key, start |-> at],
                       MaxDepth - n, e[n], w[n], x, cut)
      BY <1>0, <2>1, <2>2, <2>5, LacksNext
    <3>2. PICK key, x : /\ StringSpan(pos, at, key) /\ Denotes("value", MaxDepth - n, at, cut, x)
            /\ Resumes([kind |-> "dict", map |-> stack[n].map, key |-> key, start |-> at],
                       MaxDepth - n, e[n], w[n], x, cut)
      BY <3>1
    <3> DEFINE top == [kind |-> "dict", map |-> stack[n].map, key |-> key, start |-> at]
    <3>3. PICK start : Slices = {[start |-> start, end |-> at]} /\ key = Bytes(start, at)
      BY <3>2, StringIsTaken
    <3>4. InRange([start |-> start, end |-> at])
      BY <3>3, SlicesInRange
    <3>5. Pend([start |-> start, end |-> at])
      BY <1>12, <2>3, <2>5, <3>3, <3>4 DEF Key
    <3>6. /\ pos' = at /\ mode' = "value" /\ data' = data
          /\ stack' = [stack EXCEPT ![n] = top]
      BY <3>3, <3>5 DEF Pend
    <3> HIDE DEF top, n
    <3> QED BY <1>10, <2>1, <2>2, <3>2, <3>6 DEF top
  <2> QED BY <2>4, <2>5
<1>13. CASE Parse
  <2>1. pos = Len(data) /\ root = v /\ mode' = "done" /\ root' = root /\ result' = Verdict
    BY <1>13 DEF Parse, OnTrack
  <2> QED BY <2>1 DEF Verdict, OnTrack
<1>14. CASE UNCHANGED vars
  <2>1. UNCHANGED <<data, pos, stack, mode, root, result>>
    BY <1>14 DEF vars
  <2>2. Expecting(v)' = Expecting(v) /\ Going(v)' = Going(v)
    BY <2>1, TrackStays DEF Expecting, Going
  <2> QED BY <2>1, <2>2 DEF OnTrack
<1> QED BY <1>3, <1>4, <1>6, <1>7, <1>8, <1>11, <1>12, <1>13, <1>14 DEF Next

\* The track of every value that the input is, in full.
TrackInv == \A v : Denotes("value", MaxDepth, 0, Len(data), v) => OnTrack(v)

\* The track is kept whatever values the input has.
LEMMA TrackInvariant == Spec => []TrackInv
<1>1. Init => TrackInv
  <2> SUFFICES ASSUME Init, NEW v, Denotes("value", MaxDepth, 0, Len(data), v)
               PROVE  OnTrack(v)
    BY DEF TrackInv
  <2> DEFINE e == [k \in Nat |-> Len(data)]
             w == [k \in Nat |-> v]
  <2>1. Len(data) \in Nat /\ MaxDepth \in Nat
    BY TorrentAssumption DEF Init
  <2>2. 0 < Len(data)
    BY <2>1, ValueBegins, MeaningUnfolds DEF Position
  <2>3. /\ e[1] = Len(data) /\ w[1] = v /\ Len(<<>>) = 0
        /\ Len(data) \in Position \ {0} /\ \A k \in 1..(0 + 1) : e[k] = Len(data)
    BY <2>1, <2>2 DEF Position
  <2> HIDE DEF e, w
  <2>4. Tracked(<<>>, e, w, 0, v)
    BY <2>3 DEF Tracked
  <2>5. MaxDepth - 0 = MaxDepth /\ 0 + 1 = 1
    BY <2>1
  <2>6. Expects(<<>>, e, w, 0, v)
    BY <2>3, <2>4, <2>5 DEF Expects
  <2> QED BY <2>6 DEF Init, OnTrack, Expecting
<1>2. [Next]_vars => data' = data
  BY DEF Next, vars, DecodeInt, DecodeString, OpenList, OpenDict, Unexpected, Element, Key,
         Parse, Return, Finish, Enter, Pend
<1>3. DecoderInv /\ TrackInv /\ [Next]_vars => TrackInv'
  <2> SUFFICES ASSUME DecoderInv, TrackInv, [Next]_vars, NEW v,
                      Denotes("value", MaxDepth, 0, Len(data), v)'
               PROVE  OnTrack(v)'
    BY DEF TrackInv
  <2>1. Denotes("value", MaxDepth, 0, Len(data), v)
    BY <1>2, MeaningStays DEF Denotes
  <2> QED BY <2>1, TrackStep, MeaningUnfolds DEF TrackInv
<1> QED BY <1>1, <1>3, DecoderInvariant, PTL DEF Spec

\* The decoder is complete: an input that is one value of the grammar, nested
\* no deeper than the limit, is not refused as malformed, and what is returned
\* is that value.
THEOREM DecoderIsComplete == Spec => []ReadsTheGrammar
<1>1. TrackInv => ReadsTheGrammar
  BY DEF TrackInv, OnTrack, ReadsTheGrammar
<1> QED BY <1>1, TrackInvariant, PTL

\* Both together: Parse decodes the input to a value exactly when the input
\* denotes it, so to one at most.
THEOREM DecoderIsExact == Spec => []DecodesTheGrammar
<1> DEFINE Decided == mode = "done" => result # "none"
<1>1. Init => Decided
  BY DEF Init
<1>2. Decided /\ [Next]_vars => Decided'
  BY DEF Next, vars, DecodeInt, DecodeString, OpenList, OpenDict, Unexpected, Element, Key,
         Parse, Verdict, Return, Finish, Enter, Pend
<1>3. Decided /\ AcceptsTheGrammar /\ ReadsTheGrammar => DecodesTheGrammar
  <2> SUFFICES ASSUME Decided, AcceptsTheGrammar, ReadsTheGrammar, mode = "done"
               PROVE  /\ result \in {"syntax", "trailing"} => Meaning = {}
                      /\ result \notin {"syntax", "trailing"} => Meaning = {root}
    BY DEF DecodesTheGrammar
  <2>1. \A v : v \in Meaning <=> result \notin {"syntax", "trailing"} /\ root = v
    BY DEF AcceptsTheGrammar, ReadsTheGrammar, Meaning, Denotes
  <2>2. ASSUME result \in {"syntax", "trailing"} PROVE Meaning = {}
    BY <2>1, <2>2
  <2>3. ASSUME result \notin {"syntax", "trailing"} PROVE Meaning = {root}
    <3>1. \A v : v \in Meaning <=> v \in {root}
      BY <2>1, <2>3
    <3> QED BY <3>1, SameMembers
  <2> QED BY <2>2, <2>3
<1> HIDE DEF Decided
<1> QED BY <1>1, <1>2, <1>3, DecoderIsSound, DecoderIsComplete, PTL DEF Spec

(***************************************************************************)
(* The total size.  The sizes of a torrent's files are whatever integers   *)
(* it declares, negative ones included, and their sum wraps.               *)
(***************************************************************************)
\* The values of an int64, and how many of them there are: sums wrap by multiples of it.
Int64 == (-MaxInt - 1)..MaxInt
Width == 2 * (MaxInt + 1)

\* The exact sums of the sizes of the first files.
Sums(files, sum) ==
    /\ sum \in [0..Len(files) -> Int]
    /\ sum[0] = 0
    /\ \A k \in 1..Len(files) : sum[k] = sum[k - 1] + files[k].size

\* The total is the exact sum up to a multiple of the range of an int64, so that
\* a sum that fits is reported as it is even where a sum on the way to it wraps.
TotalIsTheSum ==
    result = "ok" =>
        \E sum : /\ Sums(meta.files, sum)
                 /\ \E w \in Int : sum[Len(meta.files)] = meta.total + w * Width
                 /\ sum[Len(meta.files)] \in Int64 => meta.total = sum[Len(meta.files)]

\* A function on 0..n that is defined from its value at the argument before.
Stepwise(f, S, base, n, next) ==
    /\ f \in [0..n -> S]
    /\ f[0] = base /\ \A k \in 1..n : f[k] = next[<<k, f[k - 1]>>]

\* There is such a function.
LEMMA StepsExist ==
    ASSUME NEW S, NEW base \in S, NEW n \in Nat, NEW next,
           \A k \in 1..n : \A x \in S : next[<<k, x>>] \in S
    PROVE  \E f : Stepwise(f, S, base, n, next)
<1> DEFINE T == {m \in Nat : m <= n => \E f : Stepwise(f, S, base, m, next)}
<1>1. 0 \in T
  <2>1. Stepwise([k \in 0..0 |-> base], S, base, 0, next)
    BY DEF Stepwise
  <2> QED BY <2>1
<1>2. ASSUME NEW m \in Nat, m \in T PROVE m + 1 \in T
  <2>1. SUFFICES ASSUME m + 1 <= n PROVE \E f : Stepwise(f, S, base, m + 1, next)
    OBVIOUS
  <2>2. PICK g : Stepwise(g, S, base, m, next)
    BY <1>2, <2>1
  <2> DEFINE f == [k \in 0..(m + 1) |-> IF k = m + 1 THEN next[<<m + 1, g[m]>>] ELSE g[k]]
  <2>3. /\ g \in [0..m -> S] /\ g[0] = base
        /\ \A k \in 1..m : g[k] = next[<<k, g[k - 1]>>]
    BY <2>2 DEF Stepwise
  <2>4. next[<<m + 1, g[m]>>] \in S
    <3>1. m + 1 \in 1..n /\ g[m] \in S
      BY <2>1, <2>3
    <3> QED BY <3>1
  <2>5. f \in [0..(m + 1) -> S] /\ f[m + 1] = next[<<m + 1, g[m]>>] /\ \A k \in 0..m : f[k] = g[k]
    <3>1. \A k \in 0..(m + 1) : k = m + 1 \/ k \in 0..m
      OBVIOUS
    <3>2. \A k \in 0..(m + 1) : f[k] \in S
      BY <2>3, <2>4, <3>1
    <3> QED BY <3>2
  <2> HIDE DEF f
  <2>6. ASSUME NEW k \in 1..(m + 1) PROVE f[k] = next[<<k, f[k - 1]>>]
    <3>1. CASE k = m + 1
      <4>1. k - 1 = m /\ m \in 0..m
        BY <3>1
      <4> QED BY <2>5, <3>1, <4>1
    <3>2. CASE k # m + 1
      <4>1. k \in 1..m /\ k \in 0..m /\ k - 1 \in 0..m
        BY <3>2
      <4> QED BY <2>3, <2>5, <4>1
    <3> QED BY <3>1, <3>2
  <2>7. 0 \in 0..m
    OBVIOUS
  <2> QED BY <2>3, <2>5, <2>6, <2>7 DEF Stepwise
<1> HIDE DEF T
<1>3. n \in T
  <2>1. T \subseteq Nat
    BY DEF T
  <2> QED BY <1>1, <1>2, <2>1, InductionOnNat
<1> QED BY <1>3 DEF T

(***************************************************************************)
(* What a value is made of                                                 *)
(***************************************************************************)
\* Every value that some part of the input denotes, at some depth.
Data ==
    UNION {denoted[<<"value", q[1], q[2], q[3]>>] : q \in Position \X Position \X (0..MaxDepth)}

\* Those are the values of the grammar.
LEMMA DataAreDenoted ==
    \A v : v \in Data <=> \E depth \in 0..MaxDepth, from, to \in Position :
                             Denotes("value", depth, from, to, v)
<1> TAKE v
<1>1. ASSUME v \in Data
      PROVE  \E depth \in 0..MaxDepth, from, to \in Position : Denotes("value", depth, from, to, v)
  <2>1. PICK q \in Position \X Position \X (0..MaxDepth) :
              v \in denoted[<<"value", q[1], q[2], q[3]>>]
    BY <1>1 DEF Data
  <2>2. q[1] \in Position /\ q[2] \in Position /\ q[3] \in 0..MaxDepth
    BY <2>1
  <2> QED BY <2>1, <2>2 DEF Denotes
<1>2. ASSUME NEW depth \in 0..MaxDepth, NEW from \in Position, NEW to \in Position,
             Denotes("value", depth, from, to, v)
      PROVE  v \in Data
  <2> DEFINE q == <<from, to, depth>>
  <2>1. q \in Position \X Position \X (0..MaxDepth) /\ q[1] = from /\ q[2] = to /\ q[3] = depth
    OBVIOUS
  <2>2. v \in denoted[<<"value", q[1], q[2], q[3]>>]
    BY <1>2, <2>1 DEF Denotes
  <2> QED BY <2>1, <2>2 DEF Data
<1> QED BY <1>1, <1>2

\* A list holds values of the grammar.
LEMMA ListsHoldData ==
    ASSUME NEW depth \in 0..MaxDepth, NEW from \in Position, NEW to \in Position, NEW x,
           Denotes("items", depth, from, to, x)
    PROVE  x \in Seq(Data)
<1> DEFINE T == {p \in Position : \E s : Denotes("items", depth, from, p, s) /\ s \notin Seq(Data)}
<1>1. SUFFICES ASSUME T # {} PROVE FALSE
  OBVIOUS
<1>2. T \subseteq Nat /\ from \in Nat /\ depth \in Nat
  BY TorrentAssumption DEF Position
<1>3. PICK end \in T : \A p \in T : ~(p < end)
  <2> HIDE DEF T
  <2> QED BY <1>1, <1>2, LeastNatural
<1>4. PICK s : Denotes("items", depth, from, end, s) /\ s \notin Seq(Data)
  BY <1>3
<1>5. end \in Position /\ end \in Nat
  BY <1>2
<1>6. ~(from = end /\ s = <<>>)
  BY <1>4, EmptySeq
<1>7. PICK cut \in from..(end - 1) :
         \E a \in denoted[<<"items", from, cut, depth>>],
            v \in denoted[<<"value", cut, end, depth>>] : s = Append(a, v)
  <2>1. ItemsIn(denoted, from, end, depth, s)
    BY <1>2, <1>4, <1>5, Meant
  <2> QED BY <1>6, <2>1, Zenon DEF ItemsIn
<1>8. PICK a, v : /\ Denotes("items", depth, from, cut, a) /\ Denotes("value", depth, cut, end, v)
                  /\ s = Append(a, v)
  BY <1>7 DEF Denotes
<1>9. cut \in Position /\ cut < end
  BY <1>2, <1>5 DEF Position
<1>10. a \in Seq(Data)
  BY <1>3, <1>8, <1>9
<1>11. v \in Data
  BY <1>5, <1>8, <1>9, DataAreDenoted
<1> QED BY <1>4, <1>8, <1>10, <1>11, AppendProperties

\* A dictionary binds its keys to values of the grammar.
LEMMA MapsHoldData ==
    ASSUME NEW depth \in 0..MaxDepth, NEW from \in Position, NEW to \in Position, NEW x,
           Denotes("entries", depth, from, to, x)
    PROVE  \A key \in DOMAIN x : x[key] \in Data
<1> DEFINE Holds(m) == \A key \in DOMAIN m : m[key] \in Data
           T == {p \in Position : \E m : Denotes("entries", depth, from, p, m) /\ ~Holds(m)}
<1>1. SUFFICES ASSUME T # {} PROVE FALSE
  OBVIOUS
<1>2. T \subseteq Nat /\ from \in Nat /\ depth \in Nat
  BY TorrentAssumption DEF Position
<1>3. PICK end \in T : \A p \in T : ~(p < end)
  <2> HIDE DEF T
  <2> QED BY <1>1, <1>2, LeastNatural
<1>4. PICK m : Denotes("entries", depth, from, end, m) /\ ~Holds(m)
  BY <1>3
<1>5. end \in Position /\ end \in Nat
  BY <1>2
<1>6. ~(from = end /\ m = EmptyMap)
  BY <1>4 DEF EmptyMap
<1>7. PICK at \in from..(end - 1), cut \in from..(end - 1) :
        at < cut /\ LastEntry(denoted[<<"entries", from, at, depth>>], Texts(at, cut),
                              denoted[<<"value", cut, end, depth>>], m)
  <2>1. EntriesIn(denoted, from, end, depth, m)
    BY <1>2, <1>4, <1>5, Meant
  <2> QED BY <1>6, <2>1, Zenon DEF EntriesIn
<1>8. PICK a, key, v : /\ Denotes("entries", depth, from, at, a)
                       /\ Denotes("value", depth, cut, end, v) /\ m = With(a, key, v)
  BY <1>7 DEF LastEntry, Denotes
<1>9. at \in Position /\ cut \in Position /\ at < end
  BY <1>2, <1>5 DEF Position
<1>10. Holds(a)
  BY <1>3, <1>8, <1>9
<1>11. v \in Data
  BY <1>5, <1>8, <1>9, DataAreDenoted
<1>12. Holds(With(a, key, v))
  BY <1>10, <1>11 DEF With
<1> QED BY <1>4, <1>8, <1>12

\* Integers of the grammar are int64, and the parts of its values are values of it.
LEMMA DataParts ==
    ASSUME NEW v \in Data
    PROVE  /\ v.kind = "int" => v.int \in Int64
           /\ v.kind = "list" => v.items \in Seq(Data)
           /\ v.kind = "dict" => \A key \in DOMAIN v.map : v.map[key] \in Data
<1>1. PICK depth \in 0..MaxDepth, from \in Position, to \in Position :
          Denotes("value", depth, from, to, v)
  BY DataAreDenoted
<1>2. Unfolds(depth, from, to, v)
  BY <1>1, ValuesUnfold
<1>3. ASSUME NEW n \in Atoi(Bytes(from + 1, to - 1)), v = [kind |-> "int", int |-> n]
      PROVE  v.kind = "int" /\ v.int \in Int64
  <2>1. n \in Int64
    <3> DEFINE s == Bytes(from + 1, to - 1)
    <3>1. Atoi(s) \subseteq Int64
      <4> HIDE DEF s
      <4> QED BY Zenon DEF Atoi, Int64
    <3> QED BY <1>3, <3>1
  <2> QED BY <1>3, <2>1
<1>4. ASSUME NEW str, v = [kind |-> "str", str |-> str] PROVE v.kind = "str"
  BY <1>4
<1>5. ASSUME depth > 0, Bracketed("l", from, to) \/ Bracketed("d", from, to)
      PROVE  depth - 1 \in 0..MaxDepth /\ from + 1 \in Position /\ to - 1 \in Position
  <2>1. from + 1 < to
    BY <1>5 DEF Bracketed
  <2> QED BY <1>5, <2>1, TorrentAssumption DEF Position
<1>6. ASSUME NEW s, depth > 0, Bracketed("l", from, to),
             Denotes("items", depth - 1, from + 1, to - 1, s), v = [kind |-> "list", items |-> s]
      PROVE  v.kind = "list" /\ v.items \in Seq(Data)
  <2>1. s \in Seq(Data)
    BY <1>5, <1>6, ListsHoldData
  <2> QED BY <1>6, <2>1
<1>7. ASSUME NEW m, depth > 0, Bracketed("d", from, to),
             Denotes("entries", depth - 1, from + 1, to - 1, m), v = [kind |-> "dict", map |-> m]
      PROVE  v.kind = "dict" /\ \A key \in DOMAIN v.map : v.map[key] \in Data
  <2>1. \A key \in DOMAIN m : m[key] \in Data
    BY <1>5, <1>7, MapsHoldData
  <2> QED BY <1>7, <2>1
<1> QED BY <1>2, <1>3, <1>4, <1>6, <1>7 DEF Unfolds

\* A size is an int64.
LEMMA SizesFit ==
    ASSUME NEW v \in Data, v.kind = "dict", NEW key
    PROVE  DictInt(v, key) \in Int64
<1>1. 0 \in Int64
  BY TorrentAssumption DEF Int64
<1>2. CASE Has(v, key, "int")
  <2>1. v.map[key] \in Data /\ v.map[key].kind = "int"
    BY <1>2, DataParts DEF Has
  <2>2. v.map[key].int \in Int64
    BY <2>1, DataParts
  <2> QED BY <1>2, <2>2 DEF DictInt
<1>3. CASE ~Has(v, key, "int")
  BY <1>1, <1>3 DEF DictInt
<1> QED BY <1>2, <1>3

\* The files of a torrent are a sequence of files whose sizes are int64.
LEMMA FilesFit ==
    ASSUME NEW info \in Data, info.kind = "dict"
    PROVE  \E F : /\ Files(info) \in Seq(F)
                  /\ \A file \in F : file.size \in Int64
<1> DEFINE name == info.map[NameKey].str
           entries == info.map[FilesKey].items
           n == Len(entries)
           FileOf(e) == [path |-> FilePath(name, e), size |-> DictInt(e, LengthKey)]
           single == [path |-> <<name>>, size |-> DictInt(info, LengthKey)]
           F == {FileOf(e) : e \in {x \in Data : IsFile(x)}} \cup {single}
           next == [kx \in (1..n) \X Seq(F) |->
                      IF IsFile(entries[kx[1]]) THEN Append(kx[2], FileOf(entries[kx[1]])) ELSE kx[2]]
           Equation(u) ==
              u = [k \in 0..n |->
                     IF k = 0 THEN <<>>
                     ELSE IF IsFile(entries[k]) THEN Append(u[k - 1], FileOf(entries[k]))
                     ELSE u[k - 1]]
<1>1. \A file \in F : file.size \in Int64
  <2>1. single.size \in Int64
    BY SizesFit
  <2>2. \A e \in Data : IsFile(e) => DictInt(e, LengthKey) \in Int64
    BY SizesFit DEF IsFile
  <2> QED BY <2>1, <2>2
<1>2. CASE ~Has(info, FilesKey, "list")
  <2>1. Files(info) = <<single>>
    BY <1>2 DEF Files
  <2>2. single \in F
    OBVIOUS
  <2> HIDE DEF single, F
  <2>3. <<single>> \in Seq(F)
    BY <2>2
  <2> QED BY <1>1, <2>1, <2>3
<1>3. CASE Has(info, FilesKey, "list")
  <2>1. info.map[FilesKey] \in Data /\ info.map[FilesKey].kind = "list"
    BY <1>3, DataParts DEF Has
  <2>2. entries \in Seq(Data)
    BY <2>1, DataParts
  <2>3. n \in Nat /\ \A k \in 1..n : entries[k] \in Data
    <3> HIDE DEF entries
    <3> QED BY <2>2
  <2>4. \A k \in 1..n : IsFile(entries[k]) => FileOf(entries[k]) \in F
    BY <2>3
  <2>5. \A k \in 1..n : \A x \in Seq(F) :
          next[<<k, x>>] = IF IsFile(entries[k]) THEN Append(x, FileOf(entries[k])) ELSE x
    OBVIOUS
  <2> DEFINE u == CHOOSE u : Equation(u)
  <2>7. Files(info) = u[n]
    BY <1>3 DEF Files
  <2> HIDE DEF F, next, n, entries, FileOf, name
  <2>8. \A k \in 1..n : \A x \in Seq(F) : next[<<k, x>>] \in Seq(F)
    <3>1. ASSUME NEW k \in 1..n, NEW x \in Seq(F), IsFile(entries[k])
          PROVE  Append(x, FileOf(entries[k])) \in Seq(F)
      <4>1. FileOf(entries[k]) \in F
        BY <2>4, <3>1
      <4> QED BY <4>1, AppendProperties
    <3> QED BY <2>5, <3>1
  <2>9. PICK f : Stepwise(f, Seq(F), <<>>, n, next)
    <3>1. <<>> \in Seq(F)
      BY EmptySeq
    <3> QED BY <2>3, <2>8, <3>1, StepsExist
  <2>10. f \in [0..n -> Seq(F)] /\ f[0] = <<>> /\ \A k \in 1..n : f[k] = next[<<k, f[k - 1]>>]
    BY <2>9 DEF Stepwise
  <2>11. Equation(f)
    <3>1. ASSUME NEW k \in 0..n
          PROVE  f[k] = IF k = 0 THEN <<>>
                        ELSE IF IsFile(entries[k]) THEN Append(f[k - 1], FileOf(entries[k]))
                        ELSE f[k - 1]
      <4>1. CASE k # 0
        <5>1. k \in 1..n /\ k - 1 \in 0..n
          BY <2>3, <4>1
        <5>2. f[k] = next[<<k, f[k - 1]>>] /\ f[k - 1] \in Seq(F)
          BY <2>10, <5>1
        <5> QED BY <2>5, <4>1, <5>1, <5>2
      <4> QED BY <2>10, <4>1
    <3>2. f = [k \in 0..n |-> f[k]]
      BY <2>10
    <3> QED BY <3>1, <3>2
  <2>12. Equation(u)
    BY <2>11
  <2> HIDE DEF u
  <2>13. /\ u[0] = <<>>
         /\ \A k \in 1..n :
              u[k] = IF IsFile(entries[k]) THEN Append(u[k - 1], FileOf(entries[k])) ELSE u[k - 1]
    <3>1. \A k \in 0..n :
             u[k] = IF k = 0 THEN <<>>
                    ELSE IF IsFile(entries[k]) THEN Append(u[k - 1], FileOf(entries[k]))
                    ELSE u[k - 1]
      BY <2>12
    <3>2. 0 \in 0..n /\ \A k \in 1..n : k # 0 /\ k \in 0..n
      BY <2>3
    <3> QED BY <3>1, <3>2
  <2> DEFINE T == {k \in Nat : k <= n => u[k] \in Seq(F)}
  <2>14. 0 \in T
    BY <2>13, EmptySeq
  <2>15. ASSUME NEW k \in Nat, k \in T PROVE k + 1 \in T
    <3>1. SUFFICES ASSUME k + 1 <= n PROVE u[k + 1] \in Seq(F)
      OBVIOUS
    <3>2. k + 1 \in 1..n /\ (k + 1) - 1 = k /\ u[k] \in Seq(F)
      BY <2>3, <2>15, <3>1
    <3>3. u[k + 1] = IF IsFile(entries[k + 1]) THEN Append(u[k], FileOf(entries[k + 1])) ELSE u[k]
      BY <2>13, <3>2
    <3> QED BY <2>4, <3>2, <3>3, AppendProperties
  <2> HIDE DEF T
  <2>16. n \in T
    <3>1. T \subseteq Nat
      BY DEF T
    <3> QED BY <2>3, <2>14, <2>15, <3>1, InductionOnNat
  <2>17. u[n] \in Seq(F)
    BY <2>3, <2>16 DEF T
  <2> QED BY <1>1, <2>7, <2>17
<1> QED BY <1>2, <1>3

(***************************************************************************)
(* The sum                                                                 *)
(***************************************************************************)
\* One addition of the loop.
Added(a, b) ==
    LET sum == a + b IN IF sum < -MaxInt - 1 THEN sum + Width ELSE Wrap(sum)

\* It is in range, and off by the range at most once.
LEMMA AddedIs ==
    ASSUME NEW a \in Int64, NEW b \in Int64
    PROVE  /\ Added(a, b) \in Int64
           /\ Added(a, b) \in {a + b, a + b + Width, a + b - Width}
BY TorrentAssumption DEF Added, Wrap, Int64, Width

\* A total that is off by a multiple of the range is right if the sum is in range.
LEMMA InRangeIsExact ==
    ASSUME NEW sum \in Int64, NEW total \in Int64, NEW w \in Int, sum = total + w * Width
    PROVE  total = sum
<1>1. Width \in Nat /\ Width > 0 /\ sum \in Int /\ total \in Int
      /\ sum - total < Width /\ total - sum < Width
  BY TorrentAssumption DEF Int64, Width
<1>2. CASE w >= 1
  <2>1. w * Width >= Width
    BY <1>1, <1>2
  <2> QED BY <1>1, <2>1
<1>3. CASE w <= -1
  <2>1. w * Width <= -Width
    BY <1>1, <1>3
  <2> QED BY <1>1, <2>1
<1>4. CASE w = 0
  BY <1>1, <1>4
<1> QED BY <1>2, <1>3, <1>4

\* The total of a sequence of files whose sizes are int64.
LEMMA TotalIs ==
    ASSUME NEW F, NEW files \in Seq(F), \A file \in F : file.size \in Int64
    PROVE  \E sum : /\ Sums(files, sum)
                    /\ TotalSize(files) \in Int64
                    /\ \E w \in Int : sum[Len(files)] = TotalSize(files) + w * Width
<1> DEFINE n == Len(files)
           add == [kx \in (1..n) \X Int64 |-> Added(kx[2], files[kx[1]].size)]
           Z == Int
           plus == [kx \in (1..n) \X Z |-> kx[2] + files[kx[1]].size]
           Equation(u) ==
              u = [k \in 0..n |-> IF k = 0 THEN 0 ELSE
                     LET sum == u[k - 1] + files[k].size
                     IN IF sum < -MaxInt - 1 THEN sum + 2 * (MaxInt + 1) ELSE Wrap(sum)]
           u == CHOOSE u : Equation(u)
<1>1. TotalSize(files) = u[n]
  BY DEF TotalSize
<1>2. n \in Nat /\ \A k \in 1..n : files[k] \in F /\ files[k].size \in Int64
  OBVIOUS
<1>3. \A k \in 1..n : \A x \in Int64 : add[<<k, x>>] = Added(x, files[k].size)
  OBVIOUS
<1>4. \A k \in 1..n : \A x \in Z : plus[<<k, x>>] = x + files[k].size
  OBVIOUS
<1>5. 0 \in Int64 /\ Int64 \subseteq Int /\ Width \in Int
  BY TorrentAssumption DEF Int64, Width
<1> HIDE DEF n, add, plus, u, Equation
<1>6. \A k \in 1..n : \A x \in Int64 : add[<<k, x>>] \in Int64
  BY <1>2, <1>3, AddedIs
<1>7. 0 \in Z /\ \A k \in 1..n : \A x \in Z : x + files[k].size \in Z
  <2>1. ASSUME NEW k \in 1..n, NEW x \in Int PROVE x + files[k].size \in Int
    <3>1. files[k].size \in Int
      <4>1. files[k].size \in Int64
        BY <1>2
      <4> QED BY <1>5, <4>1
    <3> QED BY <3>1
  <2> QED BY <2>1
<1> HIDE DEF Z
<1>8. PICK f : Stepwise(f, Int64, 0, n, add)
  BY <1>2, <1>5, <1>6, StepsExist
<1>9. PICK sum : Stepwise(sum, Z, 0, n, plus)
  BY <1>2, <1>4, <1>7, StepsExist
<1>10. /\ f \in [0..n -> Int64] /\ f[0] = 0
       /\ \A k \in 1..n : k - 1 \in 0..n /\ f[k] = Added(f[k - 1], files[k].size)
  <2>1. f \in [0..n -> Int64] /\ f[0] = 0 /\ \A k \in 1..n : f[k] = add[<<k, f[k - 1]>>]
    BY <1>8 DEF Stepwise
  <2>2. \A k \in 1..n : k - 1 \in 0..n
    BY <1>2
  <2> QED BY <1>3, <2>1, <2>2
<1>11. /\ sum \in [0..n -> Int] /\ sum[0] = 0
       /\ \A k \in 1..n : sum[k] = sum[k - 1] + files[k].size
  <2>1. sum \in [0..n -> Z] /\ sum[0] = 0 /\ \A k \in 1..n : sum[k] = plus[<<k, sum[k - 1]>>]
    BY <1>9 DEF Stepwise
  <2>2. \A k \in 1..n : k - 1 \in 0..n
    BY <1>2
  <2>3. \A k \in 1..n : sum[k] = sum[k - 1] + files[k].size
    BY <1>4, <2>1, <2>2
  <2> QED BY <2>1, <2>3 DEF Z
<1>12. Equation(f)
  <2>1. ASSUME NEW k \in 0..n
        PROVE  f[k] = IF k = 0 THEN 0 ELSE
                        LET s == f[k - 1] + files[k].size
                        IN IF s < -MaxInt - 1 THEN s + 2 * (MaxInt + 1) ELSE Wrap(s)
    <3>1. CASE k # 0
      <4>1. k \in 1..n
        BY <1>2, <3>1
      <4> QED BY <1>10, <3>1, <4>1 DEF Added, Width
    <3> QED BY <1>10, <3>1
  <2>2. f = [k \in 0..n |-> f[k]]
    BY <1>10
  <2> QED BY <2>1, <2>2 DEF Equation
<1>13. Equation(u)
  BY <1>12 DEF u
<1>14. /\ u[0] = 0
       /\ \A k \in 1..n : u[k] = Added(u[k - 1], files[k].size)
  <2>1. \A k \in 0..n : u[k] = IF k = 0 THEN 0 ELSE Added(u[k - 1], files[k].size)
    BY <1>13 DEF Equation, Added, Width
  <2>2. 0 \in 0..n /\ \A k \in 1..n : k # 0 /\ k \in 0..n
    BY <1>2
  <2> QED BY <2>1, <2>2
<1> DEFINE Off(k) == u[k] \in Int64 /\ \E w \in Int : sum[k] = u[k] + w * Width
           T == {k \in Nat : k <= n => Off(k)}
<1>15. 0 \in T
  <2>1. sum[0] = u[0] + 0 * Width
    BY <1>5, <1>11, <1>14
  <2> QED BY <1>5, <1>14, <2>1
<1>16. ASSUME NEW k \in Nat, k \in T PROVE k + 1 \in T
  <2>1. SUFFICES ASSUME k + 1 <= n PROVE Off(k + 1)
    OBVIOUS
  <2>2. k + 1 \in 1..n /\ (k + 1) - 1 = k /\ k \in 0..n /\ Off(k)
    BY <1>2, <1>16, <2>1
  <2> DEFINE a == u[k]
             b == files[k + 1].size
             c == u[k + 1]
  <2>3. a \in Int64 /\ b \in Int64 /\ c = Added(a, b) /\ sum[k + 1] = sum[k] + b
    BY <1>2, <1>11, <1>14, <2>2
  <2>4. PICK w \in Int : sum[k] = a + w * Width
    BY <2>2
  <2> HIDE DEF a, b, c
  <2>5. c \in Int64 /\ c \in {a + b, a + b + Width, a + b - Width}
    BY <2>3, AddedIs
  <2>6. \E v \in Int : sum[k + 1] = c + v * Width
    <3>1. (w - 1) * Width = w * Width - Width /\ (w + 1) * Width = w * Width + Width
          /\ w * Width \in Int /\ a \in Int /\ b \in Int
      BY <1>5, <2>3
    <3>2. CASE c = a + b
      <4>1. sum[k + 1] = c + w * Width
        BY <2>3, <2>4, <3>1, <3>2
      <4> QED BY <4>1
    <3>3. CASE c = a + b + Width
      <4>1. sum[k + 1] = c + (w - 1) * Width
        BY <1>5, <2>3, <2>4, <3>1, <3>3
      <4> QED BY <4>1
    <3>4. CASE c = a + b - Width
      <4>1. sum[k + 1] = c + (w + 1) * Width
        BY <1>5, <2>3, <2>4, <3>1, <3>4
      <4> QED BY <4>1
    <3> QED BY <2>5, <3>2, <3>3, <3>4
  <2> QED BY <2>5, <2>6 DEF c
<1> HIDE DEF T
<1>17. n \in T
  <2>1. T \subseteq Nat
    BY DEF T
  <2> QED BY <1>2, <1>15, <1>16, <2>1, InductionOnNat
<1>18. Off(n)
  BY <1>2, <1>17 DEF T
<1>19. Sums(files, sum)
  BY <1>11 DEF Sums, n
<1> QED BY <1>1, <1>18, <1>19 DEF n

\* What is accepted is a dictionary with a dictionary under "info".
RootHasInfo == result = "ok" => root.kind = "dict" /\ Has(root, InfoKey, "dict")

\* Only Parse accepts, and it has looked.
LEMMA RootStep == MeaningInv /\ RootHasInfo /\ [Next]_vars => RootHasInfo'
<1> SUFFICES ASSUME MeaningInv, RootHasInfo, [Next]_vars, result' = "ok"
             PROVE  (root.kind = "dict" /\ Has(root, InfoKey, "dict"))'
  BY DEF RootHasInfo
<1>1. CASE UNCHANGED vars
  BY <1>1 DEF vars, RootHasInfo, Has
<1>2. CASE Parse
  <2>1. Verdict = "ok" /\ root' = root
    BY <1>2 DEF Parse
  <2>2. root.kind = "dict" /\ Has(root, InfoKey, "dict")
    BY <2>1, Zenon DEF Verdict
  <2> QED BY <2>1, <2>2 DEF Has
<1>3. CASE mode # "done" /\ result' \in {result, "syntax", "panic"}
  BY <1>3 DEF MeaningInv
<1>4. CASE DecodeInt
  BY <1>3, <1>4 DEF DecodeInt, Return, Finish
<1>5. CASE DecodeString
  BY <1>3, <1>5 DEF DecodeString, Return, Finish
<1>6. CASE OpenList \/ OpenDict
  BY <1>3, <1>6 DEF OpenList, OpenDict, Enter, Finish
<1>7. CASE Unexpected
  BY <1>3, <1>7 DEF Unexpected, Finish
<1>8. CASE Element
  BY <1>3, <1>8 DEF Element, Return, Finish
<1>9. CASE Key
  BY <1>3, <1>9 DEF Key, Pend, Return, Finish
<1> QED BY <1>1, <1>2, <1>4, <1>5, <1>6, <1>7, <1>8, <1>9 DEF Next

\* The root is a value of the grammar, so its sizes are int64.
LEMMA TotalOfTheRoot == MeaningInv /\ RootHasInfo => TotalIsTheSum
<1> SUFFICES ASSUME MeaningInv, RootHasInfo, result = "ok" PROVE TotalIsTheSum
  BY DEF TotalIsTheSum
<1> DEFINE info == root.map[InfoKey]
<1>1. Denotes("value", MaxDepth, 0, Len(data), root) /\ meta = MetaOf(info)
  BY DEF MeaningInv, AcceptsTheGrammar, HashesTheInfo
<1>2. Len(data) \in Nat /\ 0 \in Position /\ Len(data) \in Position /\ MaxDepth \in 0..MaxDepth
  BY TorrentAssumption DEF Position
<1>3. root \in Data
  BY <1>1, <1>2, DataAreDenoted
<1>4. info \in Data /\ info.kind = "dict"
  BY <1>3, DataParts DEF RootHasInfo, Has
<1> HIDE DEF info
<1>5. PICK F : Files(info) \in Seq(F) /\ \A file \in F : file.size \in Int64
  BY <1>4, FilesFit
<1>6. meta.files = Files(info) /\ meta.total = TotalSize(Files(info))
  BY <1>1 DEF MetaOf
<1>7. PICK sum : /\ Sums(meta.files, sum) /\ meta.total \in Int64
                 /\ \E w \in Int : sum[Len(meta.files)] = meta.total + w * Width
  BY <1>5, <1>6, TotalIs
<1>8. sum[Len(meta.files)] \in Int64 => meta.total = sum[Len(meta.files)]
  BY <1>7, InRangeIsExact
<1> QED BY <1>7, <1>8 DEF TotalIsTheSum

\* Whatever sizes a torrent declares, the total that is reported for it is the
\* sum of the sizes that are reported, as long as that sum is an int64.
THEOREM TotalIsOfTheFiles == Spec => []TotalIsTheSum
<1>1. Init => RootHasInfo
  BY DEF Init, RootHasInfo
<1> QED BY <1>1, RootStep, TotalOfTheRoot, MeaningInvariant, PTL DEF Spec
=============================================================================
