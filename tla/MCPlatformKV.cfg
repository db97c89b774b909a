\* Two writers and a reader on one process, a writer on another.
CONSTANTS
    w1 = w1
    w2 = w2
    w3 = w3
    r1 = r1
    p1 = p1
    p2 = p2
    Writers = {w1, w2, w3}
    Readers = {r1}
    Processes = {p1, p2}
    ProcessOf <- TwoProcesses
    MaxCached = 2
    Nothing = Nothing
    Unread = Unread
SPECIFICATION FairSpec
INVARIANTS TypeOK CacheFresh NothingForgotten
PROPERTIES CacheConverges ImplementsRegister
VIEW WhatMatters
CHECK_DEADLOCK TRUE
