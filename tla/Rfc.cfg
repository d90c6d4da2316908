SPECIFICATION MCSpec
CONSTANTS
    Subjects <- MCSubjects
    Byte = {0, 128}
    Word = 128
    Sizes = {0, 55, 56, 63, 64, 119, 120, 127, 128, 140}
CHECK_DEADLOCK FALSE
INVARIANTS
    DecodingKeepsMeaning
    DotSegmentsRemoved
    Ipv6AsSpecified
    UriAsSpecified
    Utf8AsSpecified
    Base64AsSpecified
    Md5PaddedAsSpecified
    PaddedAsSpecified
    CountsEveryBit
