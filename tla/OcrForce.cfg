\* Two runs of the queue and a maintenance operation that is forced, with one fault
\* of the OCR process.
SPECIFICATION Spec
CONSTANTS
    Queue = queue
    Token = {queue, r1, r2}
    Operation = {o1}
    NoOperation = NoOperation
    NoRun = NoRun
    Tester = {}
    MaxFaults = 1
PROPERTY ForceEnds
CHECK_DEADLOCK FALSE
