-------------------------------- MODULE Strings --------------------------------
(***************************************************************************)
(* string_view's searches and cuts (external).  A text is a sequence of    *)
(* characters; positions count from 1, and 0 or Len(s) + 1 means not       *)
(* found.                                                                  *)
(***************************************************************************)
EXTENDS Integers, Sequences, FiniteSetsExt

FindFirst(s, from, cs) == Min({i \in from..Len(s) : s[i] \in cs} \cup {Len(s) + 1})
FindLast(s, ch)        == Max({0} \cup {i \in DOMAIN s : s[i] = ch})
From(s, i)             == SubSeq(s, i, Len(s))
Until(s, i)            == SubSeq(s, 1, i - 1)

\* ascii_trim(): without the spaces around it.
Trim(s) ==
  LET kept == {i \in DOMAIN s : s[i] # " "}
  IN  IF kept = {} THEN <<>> ELSE SubSeq(s, Min(kept), Max(kept))
=============================================================================
