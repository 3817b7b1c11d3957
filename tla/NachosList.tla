----------------------------- MODULE NachosList -----------------------------
(***************************************************************************)
(* threads/list.cc: a singly linked list, pointer by pointer.  Every queue *)
(* of the kernel is such a list; its users rely on the sequence of items,  *)
(* which the code keeps in the next pointers from first on, and on last.   *)
(*                                                                         *)
(* Memory that was freed can be allocated again at once.  A write through  *)
(* a pointer to a freed element changes that element and nothing else.     *)
(***************************************************************************)
EXTENDS ListOps

CONSTANTS
  Cell,    \* the places of memory for ListElements
  Item,    \* what is put on the list
  Key,     \* sort keys
  NULL,
  Uses     \* of every kind of list, the operations that are called

ASSUME ListAssumption ==
  /\ IsFiniteSet(Cell) /\ NULL \notin Cell /\ NULL \notin Item
  /\ Key \subseteq Nat /\ 0 \in Key
  /\ Uses \subseteq SUBSET {"Append", "Prepend", "RemoveElement", "SortedInsert"}

VARIABLES
  first,      \* List::first
  last,       \* List::last
  next,       \* ListElement::next of every cell
  entry,      \* ListElement::item and key of every cell
  allocated,  \* the cells between new and delete
  called      \* what is called on this list

listVars == <<first, last, next, entry, allocated, called>>

Pointer == Cell \cup {NULL}

(* The cells from first on; a chain that does not end is cut. *)
Walk[c \in Pointer, n \in 0..Cardinality(Cell)] ==
  IF c = NULL \/ n = 0 THEN <<>> ELSE <<c>> \o Walk[next[c], n - 1]

Chain == Walk[first, Cardinality(Cell)]

(* The list as its users see it. *)
TheList ==
  ListOf([i \in DOMAIN Chain |-> entry[Chain[i]]],
         Chain # <<>> /\ last = Chain[Len(Chain)])

(* List::List.  last and the cells are not initialized but never read before
   they are written.                                                        *)
ListInit ==
  /\ first = NULL /\ last = NULL
  /\ next = [c \in Cell |-> NULL]
  /\ entry = [c \in Cell |-> [item |-> NULL, key |-> 0]]
  /\ allocated = {}
  /\ called \in Uses
-----------------------------------------------------------------------------
(* new ListElement(item, key), which malloc puts at e. *)
New(e, i, k) ==
  /\ e \notin allocated
  /\ allocated' = allocated \cup {e}
  /\ entry' = [entry EXCEPT ![e] = [item |-> i, key |-> k]]
  /\ UNCHANGED called

(* The element becomes the only one. *)
LinkOnly(e) ==
  /\ first' = e /\ last' = e
  /\ next' = [next EXCEPT ![e] = NULL]

(* The element goes before first. *)
LinkFirst(e) ==
  /\ first' = e
  /\ next' = [next EXCEPT ![e] = first]
  /\ UNCHANGED last

(* The element goes after last, wherever that points. *)
LinkLast(e) ==
  /\ next' = [next EXCEPT ![e] = NULL, ![last] = e]
  /\ last' = e
  /\ UNCHANGED first

(* List::Append *)
ListAppend(i) ==
  /\ "Append" \in called
  /\ \E e \in Cell :
       /\ New(e, i, 0)
       /\ IF first = NULL THEN LinkOnly(e) ELSE LinkLast(e)

(* List::Prepend *)
ListPrepend(i) ==
  /\ "Prepend" \in called
  /\ \E e \in Cell :
       /\ New(e, i, 0)
       /\ IF first = NULL THEN LinkOnly(e) ELSE LinkFirst(e)

(* Mutant: goes before elements with the same key. *)
SortedInsertBeforeEqual(i, k) ==
  /\ "SortedInsert" \in called
  /\ \E e \in Cell :
       LET bigger == {c \in Cell : k <= entry[c].key}
           p == Position(Chain, bigger)
       IN  /\ New(e, i, k)
           /\ CASE first = NULL -> LinkOnly(e)
                [] first # NULL /\ p = 0 -> LinkLast(e)
                [] p = 1 -> LinkFirst(e)
                [] p > 1 -> /\ next' = [next EXCEPT ![e] = Chain[p], ![Chain[p - 1]] = e]
                            /\ UNCHANGED <<first, last>>

(* List::SortedInsert *)
ListSortedInsert(i, k) ==
  /\ "SortedInsert" \in called
  /\ \E e \in Cell :
       LET bigger == {c \in Cell : k < entry[c].key}
           p == Position(Chain, bigger)
       IN  /\ New(e, i, k)
           /\ CASE first = NULL -> LinkOnly(e)
                [] first # NULL /\ p = 0 -> LinkLast(e)
                [] p = 1 -> LinkFirst(e)
                [] p > 1 -> /\ next' = [next EXCEPT ![e] = Chain[p], ![Chain[p - 1]] = e]
                            /\ UNCHANGED <<first, last>>

(* List::SortedRemove, which List::Remove calls. *)
ListRemove ==
  /\ first # NULL
  /\ IF first = last THEN first' = NULL /\ last' = NULL
                     ELSE first' = next[first] /\ UNCHANGED last
  /\ allocated' = allocated \ {first}
  /\ UNCHANGED <<next, entry, called>>

(* List::RemoveElement *)
ListRemoveElement(i) ==
  /\ "RemoveElement" \in called
  /\ LET p == Position(Chain, {c \in Cell : entry[c].item = i})
     IN  /\ p # 0
         /\ IF p = 1 THEN first' = next[first] /\ UNCHANGED next
                     ELSE /\ next' = [next EXCEPT ![Chain[p - 1]] = next[Chain[p]]]
                          /\ UNCHANGED first
         /\ allocated' = allocated \ {Chain[p]}
         /\ UNCHANGED <<last, entry, called>>

ListNext ==
  \/ \E i \in Item : ListAppend(i) \/ ListPrepend(i) \/ ListRemoveElement(i)
  \/ \E i \in Item, k \in Key : ListSortedInsert(i, k)
  \/ ListRemove

ListSpec == ListInit /\ [][ListNext]_listVars
-----------------------------------------------------------------------------
(* Every operation of list.cc changes the list as ListOps says, also on a list
   whose last is stale.                                                       *)
ListMeaning ==
  [][/\ \A i \in Item :
          LET x == [item |-> i, key |-> 0]
              same == {[item |-> i, key |-> k] : k \in Key}
          IN  /\ ListAppend(i) => TheList' = Appended(TheList, x)
              /\ ListPrepend(i) => TheList' = Prepended(TheList, x)
              /\ ListRemoveElement(i) => TheList' = RemovedElement(TheList, same)
     /\ \A i \in Item, k \in Key :
          LET greater == {[item |-> j, key |-> l] : j \in Item, l \in {l \in Key : k < l}}
          IN  ListSortedInsert(i, k) =>
                TheList' = SortedInserted(TheList, [item |-> i, key |-> k], greater)
     /\ ListRemove => TheList' = Removed(TheList)]_listVars
=============================================================================
