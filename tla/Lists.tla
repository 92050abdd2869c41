------------------------------- MODULE Lists -------------------------------
(***************************************************************************)
(* Sequences used as the kernel's linked lists (include/linux/list.h).  An *)
(* entry of a list is in it once.  (SequencesExt has operators like these, *)
(* but it extends Bags, which the prover is slow with.)                    *)
(***************************************************************************)
EXTENDS Integers, Sequences, Functions

\* No entry is in the list twice.
NoRepeats(s) == \A i, j \in DOMAIN s : i # j => s[i] # s[j]

\* Entry e is inserted at position p: list_add_tail(e, entry p).
list_insert(s, p, e) == SubSeq(s, 1, p - 1) \o <<e>> \o SubSeq(s, p, Len(s))

\* The entry at position p leaves the list.
list_del_at(s, p) == SubSeq(s, 1, p - 1) \o SubSeq(s, p + 1, Len(s))

\* list_del_init: entry e leaves the list, if it is in it.
list_del(s, e) ==
    IF \E p \in 1 .. Len(s) : s[p] = e
    THEN list_del_at(s, CHOOSE p \in 1 .. Len(s) : s[p] = e)
    ELSE s
=============================================================================
