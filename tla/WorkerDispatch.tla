--------------------------- MODULE WorkerDispatch ---------------------------
(* What a dispatch of the worker pool promises its caller: it resolves with   *)
(* every file of the round returned once, or set aside as the culprit of a    *)
(* worker's death, or it rejects the round as a whole.                        *)
VARIABLES todo, delivered, quarantined, outcome

vars == <<todo, delivered, quarantined, outcome>>

Init == todo = {} /\ delivered = {} /\ quarantined = {} /\ outcome = "none"

(* A round starts, with files of its own, once the one before has resolved. *)
Call == /\ outcome \in {"none", "resolved"}
        /\ outcome' = "called"
        /\ UNCHANGED <<todo, delivered, quarantined>>

Begin == /\ outcome = "called"
         /\ outcome' = "running"
         /\ todo' # {} /\ delivered' = {} /\ quarantined' = {}

Deliver == /\ outcome = "running"
           /\ \E files \in (SUBSET todo) \ {{}} :
                  todo' = todo \ files /\ delivered' = delivered \cup files
           /\ outcome' \in {"running", "resolved"}
           /\ outcome' = "resolved" => todo' = {}
           /\ UNCHANGED quarantined

SetAside == /\ outcome = "running"
            /\ \E file \in todo :
                   todo' = todo \ {file} /\ quarantined' = quarantined \cup {file}
            /\ outcome' \in {"running", "resolved"}
            /\ outcome' = "resolved" => todo' = {}
            /\ UNCHANGED delivered

Resolve == outcome = "running" /\ todo = {} /\ outcome' = "resolved"
           /\ UNCHANGED <<todo, delivered, quarantined>>

(* What was not returned is forgotten; the last culprit may still be named. *)
Reject == /\ outcome \in {"called", "running"}
          /\ outcome' = "rejected"
          /\ todo' = {}
          /\ \E named \in SUBSET todo : quarantined' = quarantined \cup named
          /\ UNCHANGED delivered

Next == Call \/ Begin \/ Deliver \/ SetAside \/ Resolve \/ Reject

Spec == Init /\ [][Next]_vars
=============================================================================
