-------------------------- MODULE RunnerProvision ---------------------------
(***************************************************************************)
(* The Runner of module Runner implements the transaction of module        *)
(* Provision.  A resource is a volume or a domain of a device; the virtual *)
(* BMCs are left out, because Run does not take them back in every case.   *)
(***************************************************************************)
EXTENDS Runner

\* Volumes and domains, told apart by a tag.
Tag(V, D) == ({"vol"} \X V) \union ({"dom"} \X D)

res == Tag(Volumes, Domains)

\* The result err, once it is set, says in which direction Run works.
mode == IF pc \in Resting THEN "idle"
        ELSE IF pc = "returned" THEN (IF err THEN "failed" ELSE "done")
        ELSE IF op = "destroy" THEN "down"
        ELSE IF err THEN "back" ELSE "up"

base == IF op = "run" THEN res \ Tag(created, defined) ELSE {}

P == INSTANCE Provision
       WITH Resource <- Tag(Device, Device), kept <- Tag(stuckVol, stuckDom)

\* Run is a transaction and Destroy only removes: every step of the Runner,
\* of its goroutines, of a signal or of a crash is one step of Provision or
\* none at all.  It ties the result of a call to all that the call has done.
ProvisionSpec == P!Spec
=============================================================================
