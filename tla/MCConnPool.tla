------------------------------ MODULE MCConnPool ------------------------------
(* Instances of the read pool, whose repositories share one file.              *)
EXTENDS ConnPool

OnePath == [r \in Repos |-> "p"]
=============================================================================
