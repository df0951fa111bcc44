\* Two cards of one message, one group request, one restart.
SPECIFICATION FairSpec
CONSTANTS
    Cards = {1, 2}
    Msgs = {m1}
    MsgOf <- MCMsgOf
    Tools = {ssh_exec}
    CommandTools = {ssh_exec}
    ElevatedTools = {}
    NoConfirm = {}
    Args = {a1, a2}
    Groups = {g1}
    MaxRestarts = 1
INVARIANTS RunsOnce RunIsAudited
   
CHECK_DEADLOCK FALSE
