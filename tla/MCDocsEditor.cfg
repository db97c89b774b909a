CONSTANTS
    sheet = sheet
    board = board
    Docs = {sheet, board}
    Kinds <- MixedOrCanvases
    Values = {Blank, x}
    Blank = Blank
    Unread = Unread
    Saves = {send}
    Shares = {send}
    Restores = {restore}
    MaxPending = 1
    Foreign = {sheet}
    Forgets = FALSE
    None = None
SPECIFICATION Spec
INVARIANTS TypeOK SendsOwnText ShowsStored
VIEW WhatMatters
