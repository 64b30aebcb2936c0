------------------------------ MODULE MCWatch ------------------------------
(* A watching process, another writer and an outsider, over a small tree.    *)
EXTENDS Watch

CONSTANTS w, other, outsider, host, container, a

OneContained == [p \in Procs |-> IF p = outsider THEN container ELSE host]
=============================================================================
