------------------------------- MODULE Pages -------------------------------
(***************************************************************************)
(* What the client reads out of lostfilm's pages and headers: the rows of  *)
(* an episode list, a series link, the title of a release, the variants of *)
(* a download page, and the file name of an artifact.  Each parser is one  *)
(* action from a page to an answer.  A text is a sequence of tokens: a     *)
(* word, a number, or a character that the parsers look for.               *)
(***************************************************************************)
EXTENDS Integers, SequencesExt

CONSTANTS
    Char,     \* the tokens of links and titles
    Row,      \* pages of the parsers, each with what the site put into it
    Link, Title, Variants, Filename,
    Kilo,     \* bound: 1024
    MaxInt    \* bound: math.MaxInt

VARIABLES
    page,     \* the page, and the parser it is for
    answer    \* what the parser returned

pageVars == <<page, answer>>

NoAnswer == [ok |-> FALSE]
Panic == [ok |-> FALSE, panic |-> TRUE]
Space == " "

(***************************************************************************)
(* package strings                                                         *)
(***************************************************************************)
TrimLeft(s, cut) ==
    LET kept == {k \in DOMAIN s : s[k] \notin cut}
    IN IF kept = {} THEN <<>> ELSE SubSeq(s, Min(kept), Len(s))

TrimRight(s, cut) ==
    LET kept == {k \in DOMAIN s : s[k] \notin cut}
    IN IF kept = {} THEN <<>> ELSE SubSeq(s, 1, Max(kept))

TrimSpace(s) == TrimRight(TrimLeft(s, {Space}), {Space})

TrimSuffix(s, suffix) == IF IsSuffix(suffix, s) THEN SubSeq(s, 1, Len(s) - Len(suffix)) ELSE s

(***************************************************************************)
(* episodeIDs: a row of the episode list                                   *)
(***************************************************************************)
dataCodeParts == 3
tail == 3

\* A field of data-code that strconv.Atoi refuses.
Bad == -1

Value(digits) ==
    LET upTo[k \in 0..Len(digits)] == IF k = 0 THEN 0 ELSE 10 * upTo[k - 1] + digits[k]
    IN upTo[Len(digits)]

\* Atoi of a string of digits: Bad when it is empty or too large.
Atoi(digits) == IF digits = <<>> \/ Value(digits) > MaxInt THEN Bad ELSE Value(digits)

Ids(id, season, episode) ==
    IF Bad \in {id, season, episode}
       THEN NoAnswer
       ELSE [ok |-> TRUE, id |-> id, season |-> season, episode |-> episode]

\* The slices of a token around its last six digits.
Cut(token) ==
    LET head == Len(token) - 2 * tail
    IN IF head < 0 THEN Panic
       ELSE Ids(Atoi(SubSeq(token, 1, head)),
                Atoi(SubSeq(token, head + 1, head + tail)),
                Atoi(SubSeq(token, head + tail + 1, Len(token))))

\* Mutant: the length of the token is not asked for.
SplitAny(token) == Cut(token)

splitPlayToken(token) == IF Len(token) <= 2 * tail THEN NoAnswer ELSE Cut(token)

Triple(code) == Len(code) = dataCodeParts /\ Bad \notin ToSet(code)

\* data-code first, the onclick token, if it matches, when that is no triple.
episodeIDs(code, token) ==
    IF Triple(code)
       THEN Ids(code[1], code[2], code[3])
       ELSE IF token = <<>> THEN NoAnswer ELSE splitPlayToken(token)

(***************************************************************************)
(* normalizeSeriesLink                                                     *)
(***************************************************************************)
Slash == <<"/">>
seasonsSuffix == <<"/", "seasons">>

Rooted(link) == IF IsPrefix(Slash, link) THEN link ELSE Slash \o link

\* Mutant: a slash behind the suffix hides it.
NormalizeOnce(link) == TrimSuffix(TrimSuffix(Rooted(TrimSpace(link)), seasonsSuffix), Slash)

normalizeSeriesLink(link) ==
    TrimSuffix(TrimSuffix(TrimSuffix(Rooted(TrimSpace(link)), Slash), seasonsSuffix), Slash)

(***************************************************************************)
(* parseFeedTitle                                                          *)
(***************************************************************************)
\* The text between the parentheses of "(S04E06)" and what is read from it.
Marks == [S1E2 |-> <<1, 2>>, S3E4 |-> <<3, 4>>]

At(s, p, part) == p + Len(part) - 1 <= Len(s) /\ SubSeq(s, p, p + Len(part) - 1) = part

\* seasonEpisodeRe: where a marker starts.
Markers(s) == {p \in DOMAIN s : \E body \in DOMAIN Marks : At(s, p, <<"(", body, ")">>)}

\* Mutant: the text is cut at the first occurrence of the marker.
FirstIndex(s, part) == Min({p \in DOMAIN s : At(s, p, part)})

LastIndex(s, part) == Max({p \in DOMAIN s : At(s, p, part)})

\* The text before the marker; the marker is the first, its place the last one.
Working(s) ==
    IF Markers(s) = {} THEN s
    ELSE LET first == Min(Markers(s))
         IN TrimSpace(SubSeq(s, 1, LastIndex(s, SubSeq(s, first, first + 2)) - 1))

Numbers(s) == IF Markers(s) = {} THEN <<0, 0>> ELSE Marks[s[Min(Markers(s)) + 1]]

\* showOrigRe: an opening parenthesis and the first closing one after it, with
\* something before and between them and a full stop behind.
Originals(s) ==
    {o \in (2..Len(s)) \X (2..(Len(s) - 1)) :
        /\ s[o[1]] = "(" /\ s[o[2]] = ")" /\ s[o[2] + 1] = "."
        /\ o[1] + 1 < o[2]
        /\ \A k \in (o[1] + 1)..(o[2] - 1) : s[k] # ")"}

parseFeedTitle(s) ==
    LET w == Working(s)
        open == Min({o[1] : o \in Originals(w)})
        close == CHOOSE c \in DOMAIN w : <<open, c>> \in Originals(w)
    IN IF Originals(w) = {}
          THEN [show |-> TrimSpace(w), orig |-> <<>>, name |-> <<>>, number |-> Numbers(s)]
          ELSE [show |-> TrimSpace(SubSeq(w, 1, open - 1)),
                orig |-> TrimSpace(SubSeq(w, open + 1, close - 1)),
                name |-> TrimRight(TrimSpace(SubSeq(w, close + 2, Len(w))), {"."}),
                number |-> Numbers(s)]

(***************************************************************************)
(* parseTorrentVariants                                                    *)
(***************************************************************************)
\* A character of a number, [\d.,]: a digit or a separator.
Point == 10
Comma == 11
NumberChar == 0..Comma

\* A letter of a unit.
Letter == [sound : STRING, cyrillic : BOOLEAN, upper : BOOLEAN]

\* What sizeRe finds in a description, if it finds anything: a number and the
\* unit that follows it.
SizeField == [number : Seq(NumberChar), unit : Seq(Letter)]

\* strings.Replace of the first comma.
PointFor(number) ==
    LET commas == {k \in DOMAIN number : number[k] = Comma}
    IN IF commas = {} THEN number ELSE [number EXCEPT ![Min(commas)] = Point]

\* strconv.ParseFloat: the digits and how many of them are decimals, or nothing
\* when there is no digit, a comma or a second point.
ParseFloat(number) ==
    LET points == {k \in DOMAIN number : number[k] = Point}
        p == IF points = {} THEN Len(number) + 1 ELSE Min(points)
        digits == SubSeq(number, 1, p - 1) \o SubSeq(number, p + 1, Len(number))
    IN IF digits # <<>> /\ ToSet(digits) \subseteq 0..9
          THEN {[digits |-> digits, decimals |-> IF points = {} THEN 0 ELSE Len(number) - p]}
          ELSE {}

kiB == Kilo
miB == Kilo * kiB
giB == Kilo * miB
tiB == Kilo * giB

ToUpper(unit) ==
    [k \in DOMAIN unit |->
        [sound |-> unit[k].sound, cyrillic |-> unit[k].cyrillic, upper |-> TRUE]]

\* "KB" or "MB" and so on, in one of the alphabets.
UnitName(prefix, cyrillic) ==
    [k \in 1..2 |->
        [sound |-> IF k = 1 THEN prefix ELSE "B", cyrillic |-> cyrillic, upper |-> TRUE]]

IsNamed(unit, prefix) == \E cyrillic \in BOOLEAN : unit = UnitName(prefix, cyrillic)

Multiplier(upper) ==
    CASE IsNamed(upper, "K") -> kiB
      [] IsNamed(upper, "M") -> miB
      [] IsNamed(upper, "G") -> giB
      [] IsNamed(upper, "T") -> tiB
      [] OTHER             -> 1

\* Mutant: the unit is compared as it is written.
MultiplierAsWritten(unit) == Multiplier(unit)

unitMultiplier(unit) == Multiplier(ToUpper(unit))

\* parseSize: SizeText and SizeBytes.
parseSize(found) ==
    IF found = <<>> THEN [text |-> <<>>, bytes |-> 0]
    ELSE LET size == found[1]
             parsed == ParseFloat(PointFor(size.number))
             bytes(num) == (Value(num.digits) * unitMultiplier(size.unit)) \div 10^num.decimals
         IN [text |-> <<size.number, size.unit>>,
             bytes |-> IF parsed = {} THEN 0 ELSE bytes(CHOOSE num \in parsed : TRUE)]

\* The digits in the video field of a description that a quality is inferred from.
Spells == [video \in {"4K", "2160p", "1080p", "720p", "WEB-DLRip"} |->
             CASE video = "2160p" -> <<2, 1, 6, 0>> [] video = "1080p" -> <<1, 0, 8, 0>>
               [] video = "720p" -> <<7, 2, 0>> [] OTHER -> <<>>]

\* strings.Contains: they are looked for in the size field too.
Mentions(desc, digits) ==
    \/ Spells[desc.video] = digits
    \/ \E k \in DOMAIN desc.size : \E p \in DOMAIN desc.size[k].number :
          At(desc.size[k].number, p, digits)

\* The label, or else the first of the qualities the description contains.
qualityFromDesc(label, desc) ==
    IF label # "" THEN label
    ELSE IF Mentions(desc, <<2, 1, 6, 0>>) \/ desc.video = "4K" THEN "4K"
    ELSE IF Mentions(desc, <<1, 0, 8, 0>>) THEN "1080p"
    ELSE IF Mentions(desc, <<7, 2, 0>>) THEN "720p"
    ELSE "SD"

\* The main link, then any other.
Href(item) == IF item.main # "" THEN item.main ELSE item.sub

HasHref(item) == Href(item) # ""

VariantOf(item) ==
    [quality |-> qualityFromDesc(item.label, item.desc), size |-> parseSize(item.desc.size),
     url |-> Href(item)]

\* What the loop over the items has appended after k of them.
parseTorrentVariants(items) ==
    LET upTo[k \in 0..Len(items)] ==
          IF k = 0 THEN <<>>
          ELSE IF HasHref(items[k]) THEN Append(upTo[k - 1], VariantOf(items[k]))
          ELSE upTo[k - 1]
    IN upTo[Len(items)]

(***************************************************************************)
(* The file name of artifactHandler                                        *)
(***************************************************************************)
\* The bytes of a character; those of a Cyrillic letter are no attr-chars.
Utf8 == [c \in {"a", "41", ".", Space, "/", "\"", "%", "ya"} |->
            IF c = "ya" THEN <<"D1", "8F">> ELSE <<c>>]

Hex == [b \in {Space, "/", "\"", "%", "D1", "8F"} |->
          CASE b = Space -> "20" [] b = "/" -> "2F" [] b = "\"" -> "22" [] b = "%" -> "25"
            [] OTHER -> b]

Alphanumeric == {"a", "41"}
SafeChars == Alphanumeric \cup {".", "-", "_", Space}
attrChars == {".", "-", "_"}

BaseName(name) ==
    LET trimmed == TrimRight(name, {"/"})
        slashes == {k \in DOMAIN trimmed : trimmed[k] = "/"}
    IN CASE name = <<>>    -> <<".">>
         [] name # <<>> /\ trimmed = <<>> -> Slash
         [] slashes = {} /\ trimmed # <<>> -> trimmed
         [] OTHER          -> SubSeq(trimmed, Max(slashes) + 1, Len(trimmed))

fallbackFilename == <<"a", ".", "a">>

\* Mutant: a name without a letter or a digit is kept.
SafeFilenameAny(name) ==
    [k \in DOMAIN name |-> IF name[k] \in SafeChars THEN name[k] ELSE "_"]

safeFilename(name) ==
    LET cleaned == [k \in DOMAIN name |-> IF name[k] \in SafeChars THEN name[k] ELSE "_"]
    IN IF ToSet(cleaned) \cap Alphanumeric = {} THEN fallbackFilename ELSE cleaned

rfc5987Value(name) ==
    LET encoded(b) == IF b \in Alphanumeric \cup attrChars THEN <<b>> ELSE <<"%", Hex[b]>>
        bytes == FlattenSeq([k \in DOMAIN name |-> Utf8[name[k]]])
    IN FlattenSeq([k \in DOMAIN bytes |-> encoded(bytes[k])])

\* net/url: how a client reads the extended name back.  The digits of a
\* letter the inputs do not have stand for themselves.
PathUnescape(text) ==
    LET escaped(k) == text[k] = "%" /\ k < Len(text)
        byte(h) == IF \E b \in DOMAIN Hex : Hex[b] = h
                      THEN CHOOSE b \in DOMAIN Hex : Hex[b] = h ELSE <<"byte", h>>
        from[k \in 1..(Len(text) + 2)] ==
          IF k > Len(text) THEN <<>>
          ELSE IF escaped(k) THEN <<byte(text[k + 1])>> \o from[k + 2]
          ELSE <<text[k]>> \o from[k + 1]
    IN from[1]

(***************************************************************************)
(* Actions                                                                 *)
(***************************************************************************)
Answer(kind, a) ==
    /\ page.kind = kind /\ answer = NoAnswer
    /\ answer' = [ok |-> TRUE, value |-> a]
    /\ UNCHANGED page

ReadRow == Answer("row", episodeIDs(page.code, page.token))
ReadLink == Answer("link", normalizeSeriesLink(page.text))
ReadTitle == Answer("title", parseFeedTitle(TrimSpace(page.text)))
ReadVariants == Answer("variants", parseTorrentVariants(page.items))
NameFile ==
    Answer("filename", [plain |-> safeFilename(BaseName(page.text)),
                        extended |-> rfc5987Value(BaseName(page.text))])

(***************************************************************************)
(* What the site puts into the pages                                       *)
(***************************************************************************)
\* The token the site packs an episode into: an id, and three digits each of
\* its season and its number.
Numeral(n) ==
    LET of[k \in 0..n] == IF k < 10 THEN <<k>> ELSE Append(of[k \div 10], k % 10)
    IN of[n]
Digits(n) == <<n \div 100, (n \div 10) % 10, n % 10>>
Packed(about) == Numeral(about[1]) \o Digits(about[2]) \o Digits(about[3])

\* Rows are about an episode, whatever their attributes say.
RowPage ==
    [kind : {"row"}, about : (0..MaxInt) \X (0..999) \X (0..999),
     code : Seq(0..MaxInt \cup {Bad}), token : Seq(0..9)]

Spaces(n) == [k \in 1..n |-> Space]

Canonical(link) ==
    /\ Len(link) > 1 /\ link[1] = "/"
    /\ link[2] \notin {"/", Space} /\ link[Len(link)] \notin {"/", Space}
    /\ ~IsSuffix(seasonsSuffix, link)

\* With or without spaces, the first slash, a last slash and the seasons page.
Spelling(text, link) ==
    \E before, after \in 0..Len(text), start \in {link, Tail(link)},
       end \in {<<>>, Slash, seasonsSuffix, seasonsSuffix \o Slash} :
        text = Spaces(before) \o start \o end \o Spaces(after)

LinkPage ==
    {p \in [kind : {"link"}, about : Seq(Char), text : Seq(Char)] :
        Canonical(p.about) /\ Spelling(p.text, p.about)}

Trimmed(text) == text # <<>> /\ Space \notin {text[1], text[Len(text)]}

\* No parenthesis is left open, or closed before a full stop.
Closed(text) ==
    \A p \in DOMAIN text :
        text[p] = "(" =>
            \E q \in (p + 1)..Len(text) :
                /\ text[q] = ")" /\ \A k \in (p + 1)..(q - 1) : text[k] # ")"
                /\ q < Len(text) => text[q + 1] # "."

TitleParts ==
    {about \in [show : Seq(Char), orig : Seq(Char), name : Seq(Char),
                number : Seq(Nat)] :
        /\ Trimmed(about.show) /\ Closed(about.show)
        /\ Trimmed(about.orig) /\ ")" \notin ToSet(about.orig)
        /\ about.name # <<>> => about.name[1] # Space /\ about.name[Len(about.name)] # "."}

\* "show (orig). name. (mark)", without what is empty.
TitleText(about, mark) ==
    about.show \o <<Space, "(">> \o about.orig \o <<")", ".">>
        \o (IF about.name = <<>> THEN <<>> ELSE <<Space>> \o about.name \o <<".">>)
        \o (IF mark = <<>> THEN <<>> ELSE <<Space, "(">> \o mark \o <<")">>)

\* A title has a marker of its own episode or of none.
TitlePage ==
    {p \in [kind : {"title"}, about : TitleParts, text : Seq(Char)] :
        \E mark \in {<<>>} \cup {<<body>> : body \in DOMAIN Marks} :
            /\ p.text = TitleText(p.about, mark)
            /\ p.about.number = IF mark = <<>> THEN <<0, 0>> ELSE Marks[mark[1]]
            /\ \A k \in Markers(p.text) : <<p.text[k + 1]>> = mark}

\* What a size stands for: a number with two decimals, of a unit that is a power
\* of Kilo.
Prefix == <<"K", "M", "G", "T">>
StatedSize == [whole : Nat, cents : 0..99, power : 0..Len(Prefix)]

UnitSize(power) ==
    LET upTo[k \in 0..power] == IF k = 0 THEN 1 ELSE Kilo * upTo[k - 1]
    IN upTo[power]

SizeInBytes(stated) == ((100 * stated.whole + stated.cents) * UnitSize(stated.power)) \div 100

\* A unit is spelled in one alphabet, its letters in any case; whatever spells
\* none counts bytes.
Spelled(unit, power) ==
    /\ Len(unit) = 2 /\ unit[1].cyrillic = unit[2].cyrillic
    /\ unit[1].sound = Prefix[power] /\ unit[2].sound = "B"

UnitOf(unit, power) ==
    IF power = 0 THEN \A k \in DOMAIN Prefix : ~Spelled(unit, k) ELSE Spelled(unit, power)

\* The decimals behind a point or a comma, with or without zeros at the end.
Decimals(cents) ==
    {ending \in {<<>>} \cup UNION {{<<separator, cents \div 10>>,
                                    <<separator, cents \div 10, cents % 10>>} :
                                      separator \in {Point, Comma}} :
        /\ Len(ending) = 0 => cents = 0
        /\ Len(ending) = 2 => cents % 10 = 0}

\* No digits, or more than one separator: "1,024.5".
Illegible(number) ==
    \/ \A k \in DOMAIN number : number[k] \notin 0..9
    \/ \E j, k \in DOMAIN number : j < k /\ number[j] \notin 0..9 /\ number[k] \notin 0..9

\* A description states a size, or has no field of one or an illegible one.
States(found, stated) ==
    \/ /\ Len(found) = 1 /\ Len(stated) = 1
       /\ UnitOf(found[1].unit, stated[1].power)
       /\ \E ending \in Decimals(stated[1].cents) :
             found[1].number = Numeral(stated[1].whole) \o ending
    \/ stated = <<>> /\ (found = <<>> \/ (Len(found) = 1 /\ Illegible(found[1].number)))

\* A missing label or link is empty.
ItemOf ==
    {item \in [label : STRING, main : STRING, sub : STRING,
               desc : [video : DOMAIN Spells, size : Seq(SizeField)], stated : Seq(StatedSize)] :
        States(item.desc.size, item.stated)}

VariantsPage == [kind : {"variants"}, items : Seq(ItemOf)]

FilenamePage == [kind : {"filename"}, text : Seq(DOMAIN Utf8)]

ASSUME PagesAssumption ==
    /\ {Space, "/", "seasons", "(", ")", "."} \cup DOMAIN Marks \subseteq Char
    /\ Row \subseteq RowPage /\ Link \subseteq LinkPage /\ Title \subseteq TitlePage
    /\ Variants \subseteq VariantsPage /\ Filename \subseteq FilenamePage
    /\ Kilo \in Nat \ {0}
    /\ MaxInt \in Nat /\ MaxInt >= 999

PageInit == page \in Row \cup Link \cup Title \cup Variants \cup Filename /\ answer = NoAnswer

PageNext == ReadRow \/ ReadLink \/ ReadTitle \/ ReadVariants \/ NameFile

PageSpec == PageInit /\ [][PageNext]_pageVars

(***************************************************************************)
(* Properties                                                              *)
(***************************************************************************)
Parsed(kind) == page.kind = kind /\ answer.ok

\* No token is sliced out of its range, and what is returned is three numbers or
\* nothing.  A row whose data-code is right, or unusable beside a right token,
\* gives the ids of its episode, the whole-season number included; a row with
\* neither gives none.
EpisodeIdsAgree ==
    Parsed("row") =>
        /\ answer.value # Panic
        /\ answer.value # NoAnswer =>
              {answer.value.id, answer.value.season, answer.value.episode} \subseteq 0..MaxInt
        /\ IF page.code = page.about \/ (~Triple(page.code) /\ page.token = Packed(page.about))
              THEN answer.value = [ok |-> TRUE, id |-> page.about[1],
                                   season |-> page.about[2], episode |-> page.about[3]]
              ELSE ~Triple(page.code) /\ Len(page.token) <= 2 * tail => answer.value = NoAnswer

\* Every spelling of a series link, with or without spaces, the first slash, a
\* last slash and the seasons page, is reduced to the same link.
LinkSpellings == Parsed("link") => answer.value = page.about

\* A feed title is split into the parts it was made of, those with parentheses,
\* full stops or the marker of their own episode in them included.
TitleSplits == Parsed("title") => answer.value = page.about

\* The items of a page that have a link, and their places in the answer.
LinkedItems == {k \in DOMAIN page.items : HasHref(page.items[k])}
Place(k) == Cardinality({j \in LinkedItems : j <= k})

\* No item with a link is lost, each keeps its own link, and SizeBytes is the size
\* that is stated on the page, to the byte: whatever the decimal sign, the zeros at
\* the end, the unit, its alphabet and its case.  It is 0, and no other number,
\* where no size can be read.
SizesAreTheStated ==
    Parsed("variants") =>
        /\ Len(answer.value) = Cardinality(LinkedItems)
        /\ \A k \in LinkedItems :
              LET item == page.items[k]
                  variant == answer.value[Place(k)]
              IN /\ variant.url = Href(item)
                 /\ variant.size.bytes =
                       IF item.stated = <<>> THEN 0 ELSE SizeInBytes(item.stated[1])

\* What the comment of qualityFromDesc says and the code does not do: an
\* unlabelled variant has the quality of its video, whatever its size.
QualityIsTheVideos ==
    Parsed("variants") =>
        \A k \in LinkedItems :
            LET item == page.items[k]
            IN item.label = "" =>
                  answer.value[Place(k)].quality
                     = qualityFromDesc("", [item.desc EXCEPT !.size = <<>>])

\* The fallback name has a letter or a digit and safe characters only, and the
\* extended name stands for exactly the base name of the artifact.
FilenameIsUsable ==
    Parsed("filename") =>
        LET plain == ToSet(answer.value.plain)
            name == BaseName(page.text)
        IN /\ plain \cap Alphanumeric # {} /\ plain \subseteq SafeChars
           /\ PathUnescape(answer.value.extended)
                = FlattenSeq([k \in DOMAIN name |-> Utf8[name[k]]])
=============================================================================
