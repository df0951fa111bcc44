\* Two threads over one file: four versions, one failure and one restart.  Files do
\* not interact: a reindex takes them one after another.
SPECIFICATION FairSpec
CONSTANTS
    Files = {1}
    Workers = {w1, w2}
    Free = Free
    MaxEdits = 4
    MaxFaults = 1
    MaxRestarts = 1
INVARIANTS OneReindex IndexSound
PROPERTIES ReindexEnds CatchesUp
CHECK_DEADLOCK FALSE
