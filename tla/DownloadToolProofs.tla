------------------------- MODULE DownloadToolProofs -------------------------
(***************************************************************************)
(* Theorems about DownloadTool, for every set of labels and sizes and for  *)
(* any number of variants.                                                 *)
(***************************************************************************)
EXTENDS DownloadTool, TLAPS

\* A call starts well typed.
LEMMA TypeInit == Init => TypeOK
<1> SUFFICES ASSUME Init PROVE TypeOK
  OBVIOUS
<1>1. variants \in Seq(Variant) /\ Len(variants) = 0
  BY DEF Init
<1>2. i \in 1..(Len(variants) + 1) /\ body \in Nat /\ file \in Nat
  BY <1>1 DEF Init
<1> QED BY <1>1, <1>2 DEF Init, TypeOK

\* One case per step of the call; the loops stop one past the slice.
LEMMA TypeStep == TypeOK /\ [Next]_vars => TypeOK'
<1> SUFFICES ASSUME TypeOK, [Next]_vars PROVE TypeOK'
  OBVIOUS
<1> USE DownloadAssumption DEF TypeOK, call, pick, Fail, Mode
<1>1. CASE Validate
  BY <1>1 DEF Validate, ResolveMode
<1>2. CASE Torrents
  <2>1. CASE Fail /\ UNCHANGED pick
    BY <1>2, <2>1 DEF Torrents
  <2>2. ASSUME NEW n \in 1..MaxVariants, NEW vs \in [1..n -> Variant],
               variants' = vs, i' = 1, best' = 1, UNCHANGED result,
               pc' = IF quality = NoQuality THEN "largest" ELSE "match"
        PROVE  TypeOK'
    <3>1. vs \in Seq(Variant) /\ Len(vs) = n
      OBVIOUS
    <3> QED BY <1>2, <2>2, <3>1 DEF Torrents
  <2> QED BY <1>2, <2>1, <2>2 DEF Torrents
<1>3. CASE Match
  BY <1>3 DEF Match
<1>4. CASE Largest
  BY <1>4 DEF Largest
<1>5. CASE Download
  BY <1>5 DEF Download, Read
<1>6. CASE Deliver
  BY <1>6 DEF Deliver
<1>7. CASE UNCHANGED vars
  BY <1>7 DEF vars
<1> QED BY <1>1, <1>2, <1>3, <1>4, <1>5, <1>6, <1>7 DEF Next

\* The loops of pickVariant never leave the slice of variants.
THEOREM DownloadTyped == Spec => []TypeOK
BY TypeInit, TypeStep, PTL DEF Spec

(***************************************************************************)
(* The loop invariants of pickVariant.                                     *)
(***************************************************************************)
NoneWantedUpTo(n) == \A k \in 1..n : ~Wanted(k)

LargestUpTo(n) ==
    \A k \in 1..n :
        /\ variants[k].size <= variants[best].size
        /\ variants[k].size = variants[best].size => best <= k

PickInv ==
    /\ pc = "match" => quality # NoQuality /\ NoneWantedUpTo(i - 1) /\ best = 1
    /\ pc = "largest" =>
        /\ NoneWantedUpTo(Len(variants))
        /\ LargestUpTo(i - 1)
        /\ best < i \/ best = 1
    /\ PicksTheRightVariant

\* The loops of pickVariant keep best ahead of everything they have passed.
LEMMA PickStep == TypeOK /\ TypeOK' /\ PickInv /\ [Next]_vars => PickInv'
<1> SUFFICES ASSUME TypeOK, TypeOK', PickInv, [Next]_vars PROVE PickInv'
  OBVIOUS
<1>n. Len(variants) \in Nat /\ i \in Nat /\ \A k \in 1..Len(variants) : variants[k].size \in Nat
  <2>1. variants \in Seq(Variant) /\ Len(variants) \in Nat /\ i \in Nat
    BY DEF TypeOK
  <2>2. \A k \in 1..Len(variants) : variants[k] \in Variant
    BY <2>1
  <2> QED BY <2>1, <2>2, DownloadAssumption DEF Variant
<1> USE DEF PickInv, call, pick, Fail
<1>1. CASE Validate
  BY <1>1 DEF Validate, PicksTheRightVariant, TypeOK
<1>2. CASE Torrents
  <2>1. CASE Fail
    BY <2>1 DEF PicksTheRightVariant
  <2>2. CASE pc' = IF quality = NoQuality THEN "largest" ELSE "match"
    <3>1. i' = 1 /\ best' = 1 /\ quality' = quality
      BY <1>2, <2>2 DEF Torrents
    <3>2. LargestUpTo(i - 1)' /\ NoneWantedUpTo(i - 1)'
      BY <3>1 DEF LargestUpTo, NoneWantedUpTo
    <3>3. quality = NoQuality => NoneWantedUpTo(Len(variants))'
      BY <3>1 DEF NoneWantedUpTo, Wanted
    <3> QED BY <2>2, <3>1, <3>2, <3>3 DEF PicksTheRightVariant
  <2> QED BY <1>2, <2>1, <2>2 DEF Torrents
<1>3. CASE Match
  <2>0. /\ pc = "match" /\ quality # NoQuality /\ NoneWantedUpTo(i - 1) /\ best = 1
        /\ UNCHANGED <<quality, variants>>
    BY <1>3 DEF Match
  <2>1. CASE i > Len(variants) /\ pc' = "largest" /\ i' = 1 /\ best' = best
    <3>1. best = 1
      BY <2>0
    <3>2. NoneWantedUpTo(Len(variants))'
      BY <1>n, <2>0, <2>1 DEF NoneWantedUpTo, Wanted
    <3>3. LargestUpTo(i - 1)'
      BY <2>1 DEF LargestUpTo
    <3> QED BY <2>1, <3>1, <3>2, <3>3 DEF PicksTheRightVariant
  <2>2. CASE /\ i <= Len(variants) /\ pc' = "download" /\ best' = i
             /\ variants[i].quality.name = quality.name
    <3>1. \A k \in 1..Len(variants) : Wanted(k) => i <= k
      BY <1>n, <2>0 DEF NoneWantedUpTo
    <3> QED BY <2>0, <2>2, <3>1 DEF Wanted, PicksTheRightVariant
  <2>3. CASE /\ i <= Len(variants) /\ i' = i + 1 /\ UNCHANGED <<pc, best>>
             /\ variants[i].quality.name # quality.name
    <3>1. NoneWantedUpTo(i - 1)'
      BY <1>n, <2>0, <2>3 DEF NoneWantedUpTo, Wanted
    <3> QED BY <2>0, <2>3, <3>1 DEF PicksTheRightVariant
  <2> QED BY <1>3, <2>1, <2>2, <2>3 DEF Match, NormalizeQuality
<1>4. CASE Largest
  <2>0. /\ pc = "largest" /\ NoneWantedUpTo(Len(variants)) /\ LargestUpTo(i - 1)
        /\ best < i \/ best = 1
        /\ best \in 1..Len(variants)
        /\ UNCHANGED <<quality, variants>>
    BY <1>4 DEF Largest, TypeOK
  <2>1. CASE i > Len(variants) /\ pc' = "download" /\ UNCHANGED <<i, best>>
    BY <1>n, <2>0, <2>1 DEF NoneWantedUpTo, LargestUpTo, Wanted, PicksTheRightVariant
  <2>2. CASE /\ i <= Len(variants) /\ i' = i + 1 /\ UNCHANGED pc
             /\ best' = IF variants[i].size > variants[best].size THEN i ELSE best
    <3>1. NoneWantedUpTo(Len(variants))'
      BY <2>0 DEF NoneWantedUpTo, Wanted
    <3>2. LargestUpTo(i - 1)' /\ (best' < i' \/ best' = 1)
      BY <1>n, <2>0, <2>2 DEF LargestUpTo
    <3> QED BY <2>0, <2>2, <3>1, <3>2 DEF PicksTheRightVariant
  <2> QED BY <1>4, <1>n, <2>1, <2>2 DEF Largest
<1>5. CASE Download
  BY <1>5 DEF Download, PicksTheRightVariant, Wanted
<1>6. CASE Deliver
  BY <1>6 DEF Deliver, PicksTheRightVariant
<1>7. CASE UNCHANGED vars
  BY <1>7 DEF vars, PicksTheRightVariant, NoneWantedUpTo, LargestUpTo, Wanted
<1> QED BY <1>1, <1>2, <1>3, <1>4, <1>5, <1>6, <1>7 DEF Next

\* The downloaded variant is the first with the wanted label, or else the first
\* of the largest.
THEOREM RightVariantPicked == Spec => []PicksTheRightVariant
<1>1. Init => PickInv
  BY DEF Init, PickInv, PicksTheRightVariant
<1>2. PickInv => PicksTheRightVariant
  BY DEF PickInv
<1> QED BY <1>1, <1>2, TypeInit, TypeStep, PickStep, PTL DEF Spec

(***************************************************************************)
(* Delivery                                                                *)
(***************************************************************************)
DeliveryInv ==
    /\ NeverTruncated
    /\ pc \notin {"validate", "done"} => (mode = "artifact" => http)
    /\ pc # "done" => ~stored /\ result = "none"
    /\ StoredOnlyToBeFetched

\* Nothing is stored or delivered before the body is known to be whole.
LEMMA DeliveryStep == TypeOK /\ DeliveryInv /\ [Next]_vars => DeliveryInv'
<1> SUFFICES ASSUME TypeOK, DeliveryInv, [Next]_vars PROVE DeliveryInv'
  OBVIOUS
<1> USE DownloadAssumption
        DEF TypeOK, DeliveryInv, NeverTruncated, StoredOnlyToBeFetched, call, pick, Fail, Mode
<1>1. CASE Validate
  BY <1>1 DEF Validate
<1>2. CASE Torrents
  BY <1>2 DEF Torrents
<1>3. CASE Match
  BY <1>3 DEF Match
<1>4. CASE Largest
  BY <1>4 DEF Largest
<1>5. CASE Download
  <2>1. CASE Fail
    BY <1>5, <2>1 DEF Download
  <2>2. ASSUME NEW n \in BodyLength, body' = n, file' = Read(n)
        PROVE  file' \in 1..MaxBytes => file' = body'
    BY <2>2 DEF Read
  <2>3. pc' = "deliver" /\ result' = result => file' = body' /\ file' <= MaxBytes
    BY <1>5, <2>1, <2>2 DEF Download
  <2> QED BY <1>5, <2>1, <2>3 DEF Download
<1>6. CASE Deliver
  BY <1>6 DEF Deliver
<1>7. CASE UNCHANGED vars
  BY <1>7 DEF vars
<1> QED BY <1>1, <1>2, <1>3, <1>4, <1>5, <1>6, <1>7 DEF Next

\* The delivery invariant holds throughout a call.
LEMMA DeliveryInvariant == Spec => []DeliveryInv
<1>1. Init => DeliveryInv
  BY DEF Init, DeliveryInv, NeverTruncated, StoredOnlyToBeFetched, Mode
<1> QED BY <1>1, TypeInit, TypeStep, DeliveryStep, PTL DEF Spec

\* Whatever its length, a body is delivered as a whole or not at all.
THEOREM WholeFileDelivered == Spec => []NeverTruncated
<1>1. DeliveryInv => NeverTruncated
  BY DEF DeliveryInv
<1> QED BY <1>1, DeliveryInvariant, PTL

\* Nothing is stored on a server that has no HTTP transport to fetch it from.
THEOREM StoredIsFetchable == Spec => []StoredOnlyToBeFetched
<1>1. DeliveryInv => StoredOnlyToBeFetched
  BY DEF DeliveryInv
<1> QED BY <1>1, DeliveryInvariant, PTL
=============================================================================
