\* Two estates that either scrape may miss, two runs within two minutes, progress
\* saved after every detail.
SPECIFICATION Spec
CONSTANTS
    None = None
    c1 = c1
    c2 = c2
    Codes = {c1, c2}
    Flats = {c1, c2}
    Prices = {1, 2}
    SaveEvery = 1
    MaxRuns = 2
    MaxMinutes = 2
INVARIANTS
    RowsKeepTheirPlace
    FinishedRunStoresAll
\* The bounded runs are used up in the end.
CHECK_DEADLOCK FALSE
