CONSTANTS
    LogId = {main}
    Writer = {w1, w2}
    Uid = {u1}
    Reader = {r1}
    None = None
    LogsOf <- MCLogsOf
    ChunkCapacity <- MCChunkCapacity
    MaxSize = 3
    MaxWork = 4
    Request <- MCRequest
SPECIFICATION Spec
INVARIANT SentAll
CHECK_DEADLOCK FALSE
