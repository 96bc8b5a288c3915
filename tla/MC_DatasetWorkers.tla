--------------------------- MODULE MC_DatasetWorkers ---------------------------
(***************************************************************************)
(* Two workers over two datasets that share a document.                    *)
(***************************************************************************)
EXTENDS DatasetWorkers

Shared == {<<1, "one">>, <<2, "one">>, <<2, "two">>}

All(c) == [d \in Datasets |-> c]
Storms == {All("ok"), All("down"), [All("ok") EXCEPT !["one"] = "corrupt"],
           [All("ok") EXCEPT !["one"] = "failing"]}
===============================================================================
