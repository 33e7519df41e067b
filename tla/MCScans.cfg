SPECIFICATION AllSpec
CONSTANTS
    MaxKey = 2
    Sealed = {1}
    Handles = {h1}
    Isolations = {"latest", "snapshot"}
    Kinds = {"append", "put", "delete"}
    Allowed = {"behind", "short", "drop", "writer", "claim", "rewrite", "ahead", "giveup"}
    MaxChunk = 2
    MaxCommit = 2
    MaxGen = 2
INVARIANTS TypeOK OneCommit PointRight ScanRight FormsRight Named
CHECK_DEADLOCK FALSE
