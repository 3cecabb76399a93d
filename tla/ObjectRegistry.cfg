SPECIFICATION FairSpec
CONSTANTS
    Thread = {t1, t2}
    Object = {o1, o2, o3}
    Handle = {h1}
    Null = Null
    Modulus = 4
    Shift = 2
    Buckets = 1
    Threshold = 1
    Space = 1
    Tomb = 2
    DefaultKey <- ZeroKey
    ExplicitKeys <- CallerKeys
    Seeds <- LastId
    MaxDraws = 2
INVARIANTS AutoKeysDistinct TablesMatchObjects HandlesAreGood
PROPERTIES DrawingNeverStalls
