----------------------------- MODULE MapSorter -----------------------------
(***************************************************************************)
(* MapSortByKey of src/lib/utility/mapsort.go: the entries of a map are    *)
(* collected in Go's random map order (NewMapSorter) and sorted by key     *)
(* with sort.Sort under MapSorter.Less, ascending when orderBy is "asc"    *)
(* and descending for any other orderBy.  For fewer than seven items       *)
(* sort.Sort is an insertion sort in every Go release (pdqsort and the     *)
(* older quickSort both fall back to insertionSort, and the older shell   *)
(* pass starts at index 6).  A key is represented by its rank in byte     *)
(* order, so strings.Compare is the comparison of ranks.                   *)
(*                                                                         *)
(* The state is one input (a map and an orderBy) and the result; Init      *)
(* enumerates every input, and the invariants compare the result with the *)
(* reference order.                                                        *)
(***************************************************************************)
EXTENDS Integers, Sequences, FiniteSets

CONSTANTS
    KeyRanks,   \* the keys a map may have, as ranks in byte order
    Vals,       \* the values of the map
    Orders,     \* the orderBy arguments tried
    MaxItems    \* the largest map tried

ASSUME MaxItems \in 0..6

(* An item of MapSorter.Items.                                             *)
MapItem(k, v) == [Key |-> k, Val |-> v]

(* strings.Compare of two keys: -1, 0 or 1.                                *)
Compare(x, y) == IF x < y THEN -1 ELSE IF x = y THEN 0 ELSE 1

(* MapSorter.Less (33-38).                                                 *)
Less(orderBy, items, i, j) ==
    IF orderBy = "asc" THEN Compare(items[i].Key, items[j].Key) <= 0
    ELSE Compare(items[i].Key, items[j].Key) > 0

(* MapSorter.Swap (40-42).                                                 *)
Swap(items, i, j) == [items EXCEPT ![i] = items[j], ![j] = items[i]]

(* insertionSort: for i := 1; i < n; i++ { for j := i; j > 0 &&            *)
(* data.Less(j, j-1); j-- { data.Swap(j, j-1) } }, with 1-based indices.   *)
RECURSIVE SiftDown(_, _, _)
SiftDown(orderBy, items, j) ==
    IF j > 1 /\ Less(orderBy, items, j, j - 1)
    THEN SiftDown(orderBy, Swap(items, j, j - 1), j - 1)
    ELSE items

RECURSIVE InsertionSort(_, _, _)
InsertionSort(orderBy, items, i) ==
    IF i > Len(items) THEN items
    ELSE InsertionSort(orderBy, SiftDown(orderBy, items, i), i + 1)

(* sort.Sort: nothing to do for fewer than two items.                      *)
Sort(orderBy, items) ==
    IF Len(items) <= 1 THEN items ELSE InsertionSort(orderBy, items, 2)

(* NewMapSorter (17-26): the items in one of the orders a range over the   *)
(* map may visit them.                                                     *)
NewMapSorter(m) ==
    {[i \in 1..Cardinality(DOMAIN m) |-> MapItem(p[i], m[p[i]])] :
        p \in {q \in [1..Cardinality(DOMAIN m) -> DOMAIN m] :
                  \A i, j \in DOMAIN q : i # j => q[i] # q[j]}}

(* MapSortByKey (44-49).                                                   *)
MapSortByKey(items, orderBy) == Sort(orderBy, items)

Maps == UNION {[ks -> Vals] : ks \in {ks \in SUBSET KeyRanks : Cardinality(ks) <= MaxItems}}

VARIABLES m, orderBy, items, result

vars == <<m, orderBy, items, result>>

Init ==
    /\ m \in Maps /\ orderBy \in Orders
    /\ items \in NewMapSorter(m)
    /\ result = MapSortByKey(items, orderBy)

Next == UNCHANGED vars

Spec == Init /\ [][Next]_vars

TypeOK ==
    /\ result \in Seq([Key: KeyRanks, Val: Vals])
    /\ orderBy \in Orders

-----------------------------------------------------------------------------
(* The result holds every entry of the map once: the items, reordered.     *)
SortKeepsEntries ==
    /\ Len(result) = Cardinality(DOMAIN m)
    /\ \A k \in DOMAIN m : \E i \in DOMAIN result : result[i] = MapItem(k, m[k])

(* The keys of the result are strictly ascending for "asc" and strictly   *)
(* descending otherwise, whatever order the map was ranged in.            *)
SortOrdersKeys ==
    \A i \in 1..Len(result) - 1 :
        IF orderBy = "asc" THEN result[i].Key < result[i + 1].Key
        ELSE result[i].Key > result[i + 1].Key
=============================================================================
