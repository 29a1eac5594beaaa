-------------------------------- MODULE Content --------------------------------
(***************************************************************************)
(* content.c of "Client Server Lab/mtgf" (gflib has the same file): the    *)
(* table of the files that a GETFILE server has, read once from the        *)
(* content file, sorted by key, and searched for each request.             *)
(*                                                                         *)
(* A line of the content file stands for its key.  Which file its path     *)
(* leads to is not modelled, only whether it can be opened.                *)
(***************************************************************************)
EXTENDS Integers, Sequences, Functions

CONSTANTS Names,     \* what may be asked for, in the order of strcmp
          MaxLines   \* bound on the lines of the content file

ASSUME NamesAssumption    == Names \in Seq(STRING)
ASSUME MaxLinesAssumption == MaxLines \in Nat

Keys == {Names[i] : i \in DOMAIN Names}

ContentFiles == UNION {[1 .. n -> Keys] : n \in 0 .. MaxLines}

VARIABLES
    items,    \* the table
    listed    \* history: the keys of the content file

contentVars == <<items, listed>>

ContentInit == items = << >> /\ listed = {}

Place(key) == CHOOSE i \in DOMAIN Names : Names[i] = key
strcmp(key1, key2) == Place(key1) - Place(key2)

Precedes(key1, key2) == strcmp(key1, key2) < 0

\* Faulty: the table is left in the order of the file.
content_initUnsorted(file) ==
    /\ items' = file
    /\ listed' = {file[i] : i \in DOMAIN file}

\* qsort: the table is rearranged so that no entry precedes an earlier one.
Sorted(table) ==
    \A i, j \in DOMAIN table : i < j => ~Precedes(table[j], table[i])

qsort(table) ==
    {t \in {[i \in DOMAIN table |-> table[p[i]]] :
                p \in Bijection(DOMAIN table, DOMAIN table)} : Sorted(t)}

\* content_init when every path could be opened: the last character of each
\* line, its newline, is cut off, the key is what comes before the first blank,
\* and the table is sorted.
content_init(file) ==
    /\ items' \in qsort(file)
    /\ listed' = {file[i] : i \in DOMAIN file}

\* The binary search.  Places in the table count from 0.
content_get(key) ==
    LET nitems == Len(items)
        search[r \in (0 .. nitems) \X (-1 .. nitems - 1)] ==
            LET lo  == r[1]
                hi  == r[2]
                mid == lo + (hi - lo) \div 2
                cmp == strcmp(key, items[mid + 1])
            IN  IF lo > hi THEN -1
                ELSE IF cmp = 0 THEN mid
                ELSE IF cmp < 0 THEN search[<<lo, mid - 1>>]
                ELSE search[<<mid + 1, hi>>]
    IN  search[<<0, nitems - 1>>]
=============================================================================
