---------------------------- MODULE RowSequences ----------------------------
(***************************************************************************)
(* Rows in the order they come, and those of one kind among them: how      *)
(* flush (src/src/ws.rs) takes a batch apart into the rows of each table.  *)
(***************************************************************************)
EXTENDS Integers, Sequences

\* The rows of `rows` that are in the set `kind`, in their order.  A recursive
\* function does what SelectSeq would: the provers have no definition of that.
OfKind(kind, rows) ==
  LET among[n \in 0..Len(rows)] ==
        IF n = 0 THEN <<>>
        ELSE IF rows[n] \in kind THEN Append(among[n - 1], rows[n]) ELSE among[n - 1]
  IN  among[Len(rows)]

Contents(rows) == {rows[i] : i \in DOMAIN rows}
=============================================================================
