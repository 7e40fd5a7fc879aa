---------------------------- MODULE MCTransfers ----------------------------
(* Instances of Transfers. *)
EXTENDS Transfers

CONSTANTS n1, n2, b1, b2

Ask(op, n, b, browser) == [op |-> op, name |-> n, bundle |-> b, browser |-> browser]

\* Transfers, then transfers and changes that meet them on two names.
Clashing ==
    <<{Ask("importFile", n2, b1, TRUE), Ask("importDir", n2, b1, FALSE),
       Ask("export", n1, b1, TRUE), Ask("export", n1, b1, FALSE)},
      {Ask("importFile", n2, b1, FALSE), Ask("export", n1, b1, FALSE), Ask("rename", n1, b1, FALSE),
       Ask("mkdir", n2, b1, FALSE), Ask("delete", n1, b1, FALSE), Ask("preview", n1, b1, FALSE)}>>
\* The directory holds a file, or a directory.
OneEntry == {[n \in Names |-> IF n = n1 THEN k ELSE "none"] : k \in {"file", "dir"}}
============================================================================
