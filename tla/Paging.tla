------------------------------- MODULE Paging -------------------------------
(***************************************************************************)
(* A client that walks a list of the API page by page while others change  *)
(* its rows.  Every list handler runs two queries at once, which share no  *)
(* snapshot: a count, and a findMany sorted by a column with skip and take.*)
(* Where the column is unique in the organization the order is total; where*)
(* it is not, rows that are equal come in any order, and in another one on *)
(* the next page.                                                          *)
(***************************************************************************)
EXTENDS Naturals, FiniteSets

CONSTANTS
    Item,       \* rows that match the filter of the list
    MaxKey,     \* values of the column: 1 .. MaxKey
    PageSize    \* pageSize

ASSUME PagingAssumption ==
    MaxKey \in Nat \ {0} /\ PageSize \in Nat \ {0} /\ IsFiniteSet(Item)

VARIABLES
    listed,     \* the rows there are
    key,        \* the column
    total,      \* count of the page in progress
    page,       \* its number, 0 when no walk is in progress
    pending,    \* the queries of the page that still have to run
    given,      \* how often the walk has been given each row
    steady,     \* history: rows there from the start with no other of their key
                \* and with no change at or before them since
    distinct    \* the column is unique

rowVars    == <<listed, key, distinct>>
pagingVars == <<rowVars, total, page, pending, given, steady>>

PagingTypeOK ==
    /\ listed \subseteq Item /\ key \in [Item -> 1 .. MaxKey] /\ distinct \in BOOLEAN
    /\ total \in 0 .. Cardinality(Item) /\ page \in Nat
    /\ pending \subseteq {"count", "items"}
    /\ given \in [Item -> Nat] /\ steady \subseteq Item
    /\ distinct => \A r, s \in listed : key[r] = key[s] => r = s

PagingInit ==
    /\ listed = {} /\ key = [r \in Item |-> 1] /\ distinct \in BOOLEAN
    /\ total = 0 /\ page = 0 /\ pending = {}
    /\ given = [r \in Item |-> 0] /\ steady = {}

-----------------------------------------------------------------------------
Before(k) == {r \in Item : key[r] < k}

Alone(r) == \A s \in listed : key[s] = key[r] => s = r

\* Others create, rename and delete rows; the unique index refuses a second one.
RowWritten(r, k) ==
    /\ distinct => \A s \in listed \ {r} : key[s] # k
    /\ listed' = listed \cup {r} /\ key' = [key EXCEPT ![r] = k]
    /\ steady' = (steady \ {r}) \cap Before(k)
                    \cap IF r \in listed THEN Before(key[r]) ELSE Item
    /\ UNCHANGED <<distinct, total, page, pending, given>>

RowDeleted(r) ==
    /\ r \in listed
    /\ listed' = listed \ {r} /\ key' = [key EXCEPT ![r] = 1]
    /\ steady' = (steady \ {r}) \cap Before(key[r])
    /\ UNCHANGED <<distinct, total, page, pending, given>>

-----------------------------------------------------------------------------
\* Sets of n rows that come first in some order by the column.
First(n) ==
    {S \in SUBSET listed :
        /\ Cardinality(S) = IF n < Cardinality(listed) THEN n ELSE Cardinality(listed)
        /\ \A r \in S, s \in listed \ S : key[r] <= key[s]}

\* Faulty variant: pages are counted from 0.
SkipFromZero == page * PageSize

Skip == (page - 1) * PageSize

\* A list handler is asked for the first page, or for the one that comes next.
ListHandler(unique) ==
    /\ pending = {} /\ distinct = unique
    /\ pending' = {"count", "items"}
    /\ IF page = 0
         THEN /\ page' = 1 /\ given' = [r \in Item |-> 0]
              /\ steady' = {r \in listed : Alone(r)}
         ELSE page' = page + 1 /\ UNCHANGED <<given, steady>>
    /\ UNCHANGED <<rowVars, total>>

ListSkills           == ListHandler(TRUE)
ListCrews            == ListHandler(TRUE)
ListWorkTemplates    == ListHandler(TRUE)
ListServiceContracts == ListHandler(FALSE)
ListServiceResources == ListHandler(FALSE)
ListServiceLocations == ListHandler(FALSE)
ListCustomers        == ListHandler(FALSE)
ListTechnicians      == ListHandler(FALSE)
ListWorkOrders       == ListHandler(FALSE)

CountRows ==
    /\ "count" \in pending
    /\ total' = Cardinality(listed)
    /\ pending' = pending \ {"count"}
    /\ UNCHANGED <<rowVars, page, given, steady>>

FindRows ==
    /\ "items" \in pending
    /\ \E S \in First(Skip), T \in First(Skip + PageSize) :
        /\ S \subseteq T
        /\ given' = [r \in Item |-> given[r] + IF r \in T \ S THEN 1 ELSE 0]
    /\ pending' = pending \ {"items"}
    /\ UNCHANGED <<rowVars, total, page, steady>>

\* The client stops where total says that there is no further page.
Over == page > 0 /\ pending = {} /\ page * PageSize >= total

WalkEnds ==
    /\ Over
    /\ page' = 0 /\ total' = 0 /\ steady' = {} /\ given' = [r \in Item |-> 0]
    /\ UNCHANGED <<rowVars, pending>>

ListPage ==
    \/ ListSkills \/ ListCrews \/ ListWorkTemplates
    \/ ListServiceContracts \/ ListServiceResources \/ ListServiceLocations
    \/ ListCustomers \/ ListTechnicians \/ ListWorkOrders

PagingNext ==
    \/ \E r \in Item : RowDeleted(r) \/ \E k \in 1 .. MaxKey : RowWritten(r, k)
    \/ ~Over /\ ListPage
    \/ CountRows \/ FindRows \/ WalkEnds

PagingSpec == PagingInit /\ [][PagingNext]_pagingVars

-----------------------------------------------------------------------------
(***************************************************************************)
(* A walk that is over has been given every row that stayed in its place   *)
(* exactly once, although the pages and their counts are read one by one:  *)
(* rows that come and go behind it do not matter, and a row is only lost   *)
(* or repeated for a change before it or for another row with its key.     *)
(***************************************************************************)
WalkComplete == Over => \A r \in steady : given[r] = 1
=============================================================================
