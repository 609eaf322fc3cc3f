----------------------------- MODULE Provision ------------------------------
(***************************************************************************)
(* What a Runner promises about the volumes and domains of a topology, for *)
(* clients that do not care how (runner/runner.go, and the comments of Run *)
(* and Destroy in runner/libvirt/runner.go).  Run is a transaction: while  *)
(* it works it only adds resources; it succeeds with all of them, or takes *)
(* back what it added, and nothing else, and fails.  Destroy only removes. *)
(* The daemon behind the Runner may refuse to remove a resource, and the   *)
(* process may die at any time.                                            *)
(*                                                                         *)
(*   res    the resources that exist                                       *)
(*   base   those that were there when the Run in progress was called      *)
(*   kept   those whose removal was refused in this call                   *)
(*   mode   idle; a Run that adds ("up") or takes back ("back"); a Destroy *)
(*          ("down"); a call that returns nil ("done") or not ("failed")   *)
(***************************************************************************)

CONSTANT Resource  \* the volumes and domains of the topology

VARIABLES res, base, kept, mode

vars == <<res, base, kept, mode>>

Init == res = {} /\ base = {} /\ kept = {} /\ mode = "idle"

Begin ==
  /\ mode = "idle"
  /\ \/ mode' = "up" /\ base' = res
     \/ mode' = "down" /\ base' = {}
  /\ kept' = {}
  /\ UNCHANGED res

Add ==
  /\ mode = "up"
  /\ \E r \in Resource \ res : res' = res \union {r}
  /\ UNCHANGED <<base, kept, mode>>

GiveUp ==
  /\ mode = "up"
  /\ mode' = "back"
  /\ UNCHANGED <<res, base, kept>>

\* One resource is removed, or stays because the daemon says so.
Remove ==
  /\ mode \in {"back", "down"}
  /\ \E r \in res \ base : res' = res \ {r}
  /\ UNCHANGED <<base, kept, mode>>

Refuse ==
  /\ mode \in {"back", "down"}
  /\ \E r \in res : kept' = kept \union {r}
  /\ UNCHANGED <<res, base, mode>>

\* A nil result: everything is there, or nothing is that could be removed.
Done ==
  /\ \/ mode = "up" /\ res = Resource
     \/ mode = "down" /\ res \subseteq kept
  /\ mode' = "done"
  /\ UNCHANGED <<res, base, kept>>

\* An error: what a Run has added is gone.  Nothing is promised of what is
\* left after a Destroy.
Failed ==
  /\ \E S \in SUBSET res : kept' = kept \union S
  /\ \/ mode = "up" /\ res = base
     \/ mode = "back" /\ res \subseteq base \union kept'
     \/ mode = "down"
  /\ mode' = "failed"
  /\ UNCHANGED <<res, base>>

\* The call is over, or the process is; a crash can fall behind one last
\* addition.
End ==
  /\ mode' = "idle" /\ base' = {} /\ kept' = {}
  /\ \/ res' = res
     \/ mode = "up" /\ \E r \in Resource \ res : res' = res \union {r}

Next == Begin \/ Add \/ GiveUp \/ Remove \/ Refuse \/ Done \/ Failed \/ End

Spec == Init /\ [][Next]_vars
=============================================================================
