-------------------------------- MODULE Rows --------------------------------
(***************************************************************************)
(* The rows of a table, as a function from their keys.                     *)
(***************************************************************************)

NoRows == [k \in {} |-> 0]

\* What a transaction wrote, over the rows that were there.
Over(new, old) ==
  [k \in DOMAIN new \cup DOMAIN old |-> IF k \in DOMAIN new THEN new[k] ELSE old[k]]

\* One row written, whether it was there or not.
With(rows, key, value) == Over([k \in {key} |-> value], rows)
=============================================================================
