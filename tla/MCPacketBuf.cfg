CONSTANTS
    C <- MCC
    MinSize <- MCMinSize
    MaxWritten <- MCMaxWritten

SPECIFICATION Spec

INVARIANT TypeOK
INVARIANT TotalIsUnread
INVARIANT PeekSeesData
INVARIANT ChunksBounded

PROPERTY StreamRefinement

