SPECIFICATION LinkSpec
CONSTANTS
    Path = {k1, k2, w1, s1}
    Wisdom = {w1}
    Source = {s1}
    Word = {net, os, dots}
    Short = {os}
    Blank = {dots}
    Nil = Nil
INVARIANTS
    NoWrongMerge
    GraphAgrees
    BatchNeverRetargets
