----------------------------- MODULE ObjectList -----------------------------
(***************************************************************************)
(* object_list_t: a std::deque of pointers and ONE cursor, the iterator    *)
(* it, which First, Next, Erase and every loop of the library over the     *)
(* same list share.                                                        *)
(*                                                                         *)
(* A list is a record [items, it]. The cursor stands at a position, or one *)
(* behind the last (list.end()). push_back invalidates every iterator of a *)
(* deque: the cursor is Stale until First, and what it is used for before  *)
(* that happens at some position of the list, nobody knows which.          *)
(***************************************************************************)
EXTENDS Naturals, Sequences, SequencesExt

Stale == 0                  \* no position: invalidated by push_back

End(l) == Len(l.items) + 1

(* Where an operation that uses the cursor finds it. *)
Cursor(l) == IF l.it \in 1 .. End(l) THEN {l.it} ELSE 1 .. End(l)

Empty == [ items |-> << >>, it |-> 1 ]

First(l) == [ l EXCEPT !.it = 1 ]

Next(l) == { [ l EXCEPT !.it = IF i = End(l) THEN i ELSE i + 1 ] : i \in Cursor(l) }

(* Faulty: the cursor moves on from the element behind the erased one. *)
EraseAndSkip(l) ==
  { IF i = End(l) THEN [ l EXCEPT !.it = i ]
    ELSE LET rest == RemoveAt(l.items, i)
         IN  [ items |-> rest, it |-> IF i + 1 <= Len(rest) THEN i + 1 ELSE Len(rest) + 1 ]
    : i \in Cursor(l) }

(* The current element goes, and the cursor stands at the one behind it. *)
Erase(l) ==
  { IF i = End(l) THEN [ l EXCEPT !.it = i ]
                  ELSE [ items |-> RemoveAt(l.items, i), it |-> i ]
    : i \in Cursor(l) }

(* New and Add. *)
Add(l, t) == [ items |-> Append(l.items, t), it |-> Stale ]

(* Deletes every element and is empty: First and Next lead it through them. *)
Clear(l) == Empty

(* What First, Next and Erase return: the current element, or 0. *)
Current(l) == IF l.it \in DOMAIN l.items THEN << l.items[l.it] >> ELSE << >>

(* Where a loop over the whole list, or one left at element k, puts it. *)
LeftAt(l, k) == [ l EXCEPT !.it = k ]
=============================================================================
