\* Two tabs, five messages, three generations, one restart.
SPECIFICATION FairSpec
CONSTANTS
    Tabs = {t1, t2}
    MaxMsgs = 5
    MaxGens = 3
    MaxRestarts = 1
INVARIANTS RegistrySound
PROPERTIES NoneAfterReply 
CHECK_DEADLOCK FALSE
