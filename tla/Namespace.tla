----------------------------- MODULE Namespace -----------------------------
(***************************************************************************)
(* What the file systems together promise: a tree of names.                *)
(* A name is the sequence of names from the root down; the root is <<>>.   *)
(***************************************************************************)
EXTENDS Sequences, SequencesExt, FiniteSets, TLC

VARIABLE names    \* the kind of each name, "dir" or "file"

IsDirName(ns, p) == p = <<>> \/ (p \in DOMAIN ns /\ ns[p] = "dir")

Init == \E ns \in {names} : \A p \in DOMAIN ns : IsDirName(ns, Front(p))

\* A new name, under a directory.
Create(ns, p, kind) == IsDirName(ns, Front(p)) /\ names' = (p :> kind) @@ ns

\* A name goes that no other is below.
Delete(ns, p) ==
  /\ ~\E q \in DOMAIN ns : IsStrictPrefix(p, q)
  /\ names' = [q \in DOMAIN ns \ {p} |-> ns[q]]

\* A name moves to a free one, and all below it.
MovedTo(p, from, to) == IF IsPrefix(from, p) THEN to \o SubSeq(p, Len(from) + 1, Len(p)) ELSE p

Move(ns, from, to) ==
  /\ IsDirName(ns, Front(to)) /\ ~IsPrefix(from, to)
  /\ names' = [q \in {MovedTo(p, from, to) : p \in DOMAIN ns} |->
                 ns[CHOOSE p \in DOMAIN ns : MovedTo(p, from, to) = q]]

Next ==
  \E ns \in {names}, after \in {DOMAIN names'} :
    \/ \E p \in after \ DOMAIN ns, kind \in {"dir", "file"} : Create(ns, p, kind)
    \/ \E p \in DOMAIN ns \ after : Delete(ns, p)
    \/ \E from \in DOMAIN ns \ after, to \in after \ DOMAIN ns : Move(ns, from, to)

Spec == Init /\ [][Next]_names

============================================================================
