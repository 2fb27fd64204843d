SPECIFICATION InputSpec
CONSTANTS
    Env <- MCEnv
    maxPort = 2
    DefaultTTL = 15
    Mirrors <- MCMirrors
    Char <- MCChar
    Row <- MCRow
    Link <- MCLink
    Title <- MCTitle
    Variants <- MCVariants
    Filename <- MCFilename
    Kilo = 10
    MaxInt = 999
    Name = {hd, sd}
    hd = hd
    sd = sd
    NoQuality = none
    Size = {0, 1}
    MaxVariants = 3
    MaxBytes = 2
    BodyLength = {0, 1, 2, 3, 4}
CHECK_DEADLOCK FALSE
INVARIANTS StartsSound ProxyIsUsed UrlLeadsToListener
INVARIANTS EpisodeIdsAgree LinkSpellings TitleSplits SizesAreTheStated FilenameIsUsable
INVARIANTS TypeOK PicksTheRightVariant NeverTruncated StoredOnlyToBeFetched
