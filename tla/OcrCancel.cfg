\* A run of the live tester, which may be cancelled, and one of the queue; the OCR
\* process dies, hangs or does not start once.
SPECIFICATION Spec
CONSTANTS
    Queue = queue
    Token = {queue, r1, r2}
    Operation = {}
    NoOperation = NoOperation
    NoRun = NoRun
    Tester = {r1}
    MaxFaults = 1
PROPERTIES RunsEnd CancelEnds
CHECK_DEADLOCK FALSE
