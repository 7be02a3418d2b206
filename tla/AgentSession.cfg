\* The agent and its two requests under one key, one worker, timeouts and crashes.
SPECIFICATION SessionSpec
CONSTANTS
    j1 = j1
    j2 = j2
    k1 = k1
    w1 = w1
    w2 = w2
    Jobs = {j1, j2}
    Keys = {k1}
    KeyOf <- OneKey
    Workers = {w1, w2}
    Registered = {j1, j2}
    NoJob = NoJob
    MaxDelivery = 2
    BatchSize = 2
    RowLocks = TRUE
    Script <- Resubmission
    MaxPolls = 3
INVARIANTS
    WhatEndedStays
    ResubmissionIsFree
PROPERTIES
    PollsMoveForward
    
CHECK_DEADLOCK FALSE
