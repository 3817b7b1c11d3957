------------------------------- MODULE ListOps -------------------------------
(***************************************************************************)
(* What the operations of class List (threads/list.cc) do to a list, seen  *)
(* as the sequence of its elements and the fact whether List::last points  *)
(* to the end of it.  RemoveElement never sets last; an element that is    *)
(* appended after the old end was removed is linked to nothing.  Module    *)
(* NachosList shows that the pointers of the code behave this way.         *)
(***************************************************************************)
EXTENDS Integers, Sequences, FiniteSets

(* A list without elements is in order whatever last points to. *)
ListOf(items, known) == [items |-> items, endKnown |-> known \/ items = <<>>]

(* List::List *)
EmptyList == ListOf(<<>>, TRUE)

IsEmpty(list) == list.items = <<>>

(* The position of the first element that is in set, 0 if there is none. *)
Position(items, set) ==
  LET found == {i \in DOMAIN items : items[i] \in set}
  IN  IF found = {} THEN 0 ELSE CHOOSE i \in found : \A j \in found : i <= j

(* List::Append *)
Appended(list, x) ==
  IF list.endKnown THEN ListOf(Append(list.items, x), TRUE) ELSE list

(* List::Prepend *)
Prepended(list, x) == ListOf(<<x>> \o list.items, list.endKnown)

(* List::Remove and List::SortedRemove, on a list that is not empty. *)
Removed(list) == ListOf(Tail(list.items), list.endKnown)

(* List::RemoveElement, of the first element that is in set. *)
RemovedElement(list, set) ==
  LET i == Position(list.items, set)
      n == Len(list.items)
  IN  IF i = 0 THEN list
      ELSE ListOf(SubSeq(list.items, 1, i - 1) \o SubSeq(list.items, i + 1, n),
                  list.endKnown /\ i # n)

(* List::SortedInsert: before the first of the elements with a greater key. *)
SortedInserted(list, x, greater) ==
  LET i == Position(list.items, greater)
  IN  IF i = 0 THEN Appended(list, x)
      ELSE ListOf(SubSeq(list.items, 1, i - 1) \o <<x>> \o
                    SubSeq(list.items, i, Len(list.items)), list.endKnown)
=============================================================================
