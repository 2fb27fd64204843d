SPECIFICATION PageSpec
CONSTANTS
    Char <- MCChar
    Row = {}
    Link = {}
    Title = {}
    Variants <- MCVariants
    Filename = {}
    Kilo = 10
    MaxInt = 999
CHECK_DEADLOCK FALSE
INVARIANT QualityIsTheVideos
