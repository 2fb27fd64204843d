---------------------------- MODULE DownloadTool ----------------------------
(***************************************************************************)
(* One call of the lostfilm_download tool (internal/tools/download.go) and *)
(* the fetch of the .torrent it relies on (internal/lostfilm/download.go). *)
(* The session, the mirrors and the store are Scraper and ArtifactStore;   *)
(* here they answer in any way they may.                                   *)
(***************************************************************************)
EXTENDS Naturals, Sequences

CONSTANTS
    Name,          \* quality labels without case, space and a trailing "p"
    NoQuality,     \* the caller states no quality
    Size,          \* bound: sizes a variant's description may give
    MaxVariants,   \* bound: variants of an episode
    MaxBytes,      \* maxTorrentBytes
    BodyLength     \* bound: lengths of the bodies the download host sends

ASSUME DownloadAssumption ==
    /\ Size \subseteq Nat
    /\ MaxVariants \in Nat \ {0}
    /\ MaxBytes \in Nat \ {0}
    /\ BodyLength \subseteq Nat

VARIABLES
    pc,        \* where the call is
    http,      \* httpEnabled
    valid,     \* seriesId, season and episode are positive
    quality,   \* params.Quality
    mode,      \* params.Mode ("unset": empty), then the mode resolveMode chose
    variants,  \* what client.Torrents returned
    i,         \* index of the loops of pickVariant
    best,      \* index of pickVariant's variant
    body,      \* length of the body the download host sent
    file,      \* length of the content kept
    stored,    \* the content was Put in the store
    result     \* "none", "error" or what a success delivers

call == <<http, valid, quality>>
pick == <<variants, i, best>>
vars == <<pc, call, mode, pick, body, file, stored, result>>

Mode == {"metadata", "base64", "artifact"}

\* A label as it is spelled: with or without the trailing "p".
Label == [name : Name, p : BOOLEAN]

Variant == [quality : Label, size : Size]

\* Mutant: the trailing "p" is kept.
KeepP(label) == label

NormalizeQuality(label) == label.name

ResolveMode(raw) ==
    IF raw # "unset" THEN raw ELSE IF http THEN "artifact" ELSE "metadata"

Fail ==
    /\ pc' = "done"
    /\ result' = "error"

(***************************************************************************)
(* runDownload                                                             *)
(***************************************************************************)
\* Mutant: the HTTP transport is not asked for.
AcceptAnyMode ==
    /\ pc = "validate"
    /\ IF valid /\ ResolveMode(mode) \in Mode
          THEN pc' = "torrents" /\ mode' = ResolveMode(mode) /\ UNCHANGED result
          ELSE Fail /\ UNCHANGED mode
    /\ UNCHANGED <<call, pick, body, file, stored>>

Validate ==
    /\ pc = "validate"
    /\ IF valid /\ ResolveMode(mode) \in Mode /\ (ResolveMode(mode) = "artifact" => http)
          THEN pc' = "torrents" /\ mode' = ResolveMode(mode) /\ UNCHANGED result
          ELSE Fail /\ UNCHANGED mode
    /\ UNCHANGED <<call, pick, body, file, stored>>

\* Mutant: an episode without variants is not refused.
TorrentsMaybeNone ==
    /\ pc = "torrents"
    /\ \E n \in 0..MaxVariants : \E vs \in [1..n -> Variant] :
        /\ variants' = vs
        /\ i' = 1 /\ best' = 1
        /\ pc' = IF quality = NoQuality THEN "largest" ELSE "match"
    /\ UNCHANGED <<call, mode, body, file, stored, result>>

\* client.Torrents.  No variants at all is ErrNoVariants.
Torrents ==
    /\ pc = "torrents"
    /\ \/ Fail /\ UNCHANGED pick
       \/ \E n \in 1..MaxVariants : \E vs \in [1..n -> Variant] :
            /\ variants' = vs
            /\ i' = 1 /\ best' = 1
            /\ pc' = IF quality = NoQuality THEN "largest" ELSE "match"
            /\ UNCHANGED result
    /\ UNCHANGED <<call, mode, body, file, stored>>

\* First loop of pickVariant: the first variant with the label asked for.
Match ==
    /\ pc = "match"
    /\ \/ /\ i > Len(variants)
          /\ pc' = "largest" /\ i' = 1 /\ UNCHANGED best
       \/ /\ i <= Len(variants)
          /\ NormalizeQuality(variants[i].quality) = NormalizeQuality(quality)
          /\ pc' = "download" /\ best' = i /\ UNCHANGED i
       \/ /\ i <= Len(variants)
          /\ NormalizeQuality(variants[i].quality) # NormalizeQuality(quality)
          /\ i' = i + 1 /\ UNCHANGED <<pc, best>>
    /\ UNCHANGED <<call, mode, variants, body, file, stored, result>>

\* Second loop: the largest variant.
Largest ==
    /\ pc = "largest"
    /\ IF i > Len(variants)
          THEN pc' = "download" /\ UNCHANGED <<i, best>>
          ELSE /\ best' = IF variants[i].size > variants[best].size THEN i ELSE best
               /\ i' = i + 1 /\ UNCHANGED pc
    /\ UNCHANGED <<call, mode, variants, body, file, stored, result>>

\* Mutant: the reader stops at the cap, not one byte past it.
ReadToCap(n) == IF n > MaxBytes THEN MaxBytes ELSE n

\* io.LimitReader(body, maxTorrentBytes + 1).
Read(n) == IF n > MaxBytes + 1 THEN MaxBytes + 1 ELSE n

\* client.Download: transport and status errors, a body that is too long, that
\* is empty or that does not start a bencoded dictionary, or the file.
Download ==
    /\ pc = "download"
    /\ \/ Fail /\ UNCHANGED <<body, file>>
       \/ \E n \in BodyLength :
            /\ body' = n
            /\ file' = Read(n)
            /\ IF Read(n) \in 1..MaxBytes
                  THEN pc' = "deliver" /\ UNCHANGED result
                  ELSE Fail
    /\ UNCHANGED <<call, mode, pick, stored>>

\* deliver: only the artifact mode may fail, when the store is full.
Deliver ==
    /\ pc = "deliver"
    /\ \/ mode = "artifact" /\ stored' = TRUE /\ pc' = "done" /\ result' = mode
       \/ mode = "artifact" /\ Fail /\ UNCHANGED stored
       \/ mode # "artifact" /\ pc' = "done" /\ result' = mode /\ UNCHANGED stored
    /\ UNCHANGED <<call, mode, pick, body, file>>

Init ==
    /\ pc = "validate"
    /\ http \in BOOLEAN /\ valid \in BOOLEAN
    /\ quality \in Label \cup {NoQuality}
    /\ mode \in Mode \cup {"unset", "unknown"}
    /\ variants = <<>> /\ i = 1 /\ best = 1
    /\ body = 0 /\ file = 0
    /\ stored = FALSE /\ result = "none"

Next == Validate \/ Torrents \/ Match \/ Largest \/ Download \/ Deliver

Spec == Init /\ [][Next]_vars

(***************************************************************************)
(* Properties                                                              *)
(***************************************************************************)
\* Every variable keeps its type; the loop indices never leave the slice.
TypeOK ==
    /\ pc \in {"validate", "torrents", "match", "largest", "download", "deliver", "done"}
    /\ http \in BOOLEAN /\ valid \in BOOLEAN /\ stored \in BOOLEAN
    /\ quality \in Label \cup {NoQuality}
    /\ mode \in Mode \cup {"unset", "unknown"}
    /\ pc \notin {"validate", "done"} => mode \in Mode
    /\ variants \in Seq(Variant)
    /\ i \in 1..(Len(variants) + 1)
    /\ pc \in {"match", "largest", "download", "deliver"} => best \in 1..Len(variants)
    /\ body \in Nat /\ file \in Nat
    /\ result \in Mode \cup {"none", "error"}

Wanted(k) == quality # NoQuality /\ variants[k].quality.name = quality.name

\* The variant that is downloaded has the label asked for whenever one has, a
\* trailing "p" aside, and is the first of those; otherwise none is larger and
\* none as large comes before it.
PicksTheRightVariant ==
    pc \in {"download", "deliver"} =>
        \/ /\ Wanted(best)
           /\ \A k \in 1..Len(variants) : Wanted(k) => best <= k
        \/ \A k \in 1..Len(variants) :
              /\ ~Wanted(k)
              /\ variants[k].size <= variants[best].size
              /\ variants[k].size = variants[best].size => best <= k

\* What is delivered is the whole body: no length at or around the cap makes a
\* truncated file pass for a complete one.
NeverTruncated == pc = "deliver" \/ result \in Mode => file = body /\ file <= MaxBytes

\* The store gets a file only on a server that can hand it out, and only when
\* the caller is told its URL.
StoredOnlyToBeFetched == stored => http /\ result = "artifact"
=============================================================================
