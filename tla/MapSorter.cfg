\* Every map of at most five keys (ranks 1..5 in byte order) with values
\* 0 and 1, ranged in every order, sorted for "asc", "desc" and "ASC".
CONSTANTS
    KeyRanks = {1, 2, 3, 4, 5}
    Vals = {0, 1}
    Orders = {"asc", "desc", "ASC"}
    MaxItems = 5
SPECIFICATION Spec
INVARIANTS TypeOK SortKeepsEntries SortOrdersKeys
