----------------------- MODULE RunnerProvisionProofs ------------------------
(***************************************************************************)
(* The Runner implements the transaction of module Provision, for every    *)
(* topology.  The step simulation uses the inductive invariant IInv: it    *)
(* says that a deferred function only removes what this Run has made, and  *)
(* that nothing made is left when a method returns.                        *)
(***************************************************************************)
EXTENDS RunnerProvision, RunnerProofs

----------------------------------------------------------------------------
(* What a step does to the mapped state.                                   *)

\* What the mapping depends on besides pc, err and op.
Same == UNCHANGED <<Volumes, Domains, created, defined, stuckVol, stuckDom>>

\* A single volume and a single domain.
LEMMA TagOne ==
  ASSUME NEW d
  PROVE  Tag({d}, {}) = {<<"vol", d>>} /\ Tag({}, {d}) = {<<"dom", d>>}
         /\ Tag({}, {}) = {}
  BY DEF Tag

\* A step inside a method that neither makes nor removes anything: it may set
\* err, which turns Run around.
LEMMA QuietStep ==
  ASSUME TypeOK, TypeOK', Same, pc \in Working, pc' \in Working,
         op \in {"run", "destroy"}, op' = op, err => err'
  PROVE  [P!Next]_(P!vars)
<1>1. UNCHANGED <<res, base, Tag(stuckVol, stuckDom)>>
  BY DEF Same, res, base
<1>2. mode' = mode \/ (mode = "up" /\ mode' = "back")
  BY DEF mode, Working, Resting, TypeOK
<1> QED
  BY <1>1, <1>2 DEF P!Next, P!vars, P!GiveUp

\* A step that ends the call or the process.
LEMMA EndStep ==
  ASSUME pc' \in Resting, op' = "none", stuckVol' = {}, stuckDom' = {},
         Volumes' = Volumes, Domains' = Domains
  PROVE  P!Next
<1>1. res' = res /\ base' = {} /\ Tag(stuckVol, stuckDom)' = {}
  BY TagOne DEF res, base
<1>2. mode' = "idle"
  BY DEF mode
<1> QED
  BY <1>1, <1>2 DEF P!Next, P!End

\* Run or Destroy returns an error; stuckVol may grow by the volumes there.
LEMMA FailStep ==
  ASSUME TypeOK, pc \in Working, pc' = "returned", err', op' = op,
         Volumes' = Volumes, Domains' = Domains, stuckDom' = stuckDom,
         UNCHANGED <<created, defined>>,
         stuckVol' = stuckVol \/ stuckVol' = stuckVol \union Volumes,
         \/ op = "run" /\ err /\ Volumes \intersect created \subseteq stuckVol'
            /\ Domains \intersect defined \subseteq stuckDom
         \/ op = "run" /\ ~err /\ created = {} /\ defined = {}
         \/ op = "destroy"
  PROVE  P!Next
<1> DEFINE kept == Tag(stuckVol, stuckDom)
<1>1. res' = res /\ base' = base
  BY DEF res, base
<1>2. mode' = "failed"
  BY DEF mode, Resting
<1>3. \E S \in SUBSET res : kept' = kept \union S
  <2>1. CASE stuckVol' = stuckVol
    <3>1. kept' = kept \union {}
      BY <2>1
    <3> QED
      BY <3>1
  <2>2. CASE stuckVol' = stuckVol \union Volumes
    <3>1. kept' = kept \union Tag(Volumes, {})
      BY <2>2 DEF Tag
    <3>2. Tag(Volumes, {}) \subseteq res
      BY DEF Tag, res
    <3> QED
      BY <3>1, <3>2
  <2> QED
    BY <2>1, <2>2
<1>4. CASE op = "run" /\ err
  <2>1. mode = "back"
    BY <1>4 DEF mode, Working, Resting
  <2>2. Volumes \intersect created \subseteq stuckVol'
        /\ Domains \intersect defined \subseteq stuckDom'
    BY <1>4
  <2>3. res \subseteq base \union kept'
    BY <1>4, <2>2 DEF res, base, Tag
  <2> QED
    BY <1>1, <1>2, <1>3, <2>1, <2>3 DEF P!Next, P!Failed
<1>5. CASE op = "run" /\ ~err
  <2>1. mode = "up"
    BY <1>5 DEF mode, Working, Resting
  <2>2. res = base
    BY <1>5 DEF res, base, Tag
  <2> QED
    BY <1>1, <1>2, <1>3, <2>1, <2>2 DEF P!Next, P!Failed
<1>6. CASE op = "destroy"
  <2>1. mode = "down"
    BY <1>6 DEF mode, Working, Resting
  <2> QED
    BY <1>1, <1>2, <1>3, <2>1 DEF P!Next, P!Failed
<1> QED
  BY <1>4, <1>5, <1>6

\* One turn of a loop of Run that makes the volume or the domain r.
LEMMA AddStep ==
  ASSUME NEW r, r \in Tag(Device, Device), r \notin res, res' = res \union {r},
         base' = base, mode = "up", mode' = "up",
         UNCHANGED <<stuckVol, stuckDom>>
  PROVE  P!Next
  BY DEF P!Next, P!Add

\* One turn of a loop that removes r: it is removed, was not there, or is
\* refused.
LEMMA RemoveStep ==
  ASSUME NEW r, r \notin base, base' = base,
         mode \in {"back", "down"}, mode' = mode,
         \/ res' = res \ {r} /\ UNCHANGED <<stuckVol, stuckDom>>
         \/ /\ r \in res /\ res' = res
            /\ Tag(stuckVol, stuckDom)' = Tag(stuckVol, stuckDom) \union {r}
  PROVE  [P!Next]_(P!vars)
<1>1. CASE res' = res \ {r} /\ UNCHANGED <<stuckVol, stuckDom>> /\ r \in res
  BY <1>1 DEF P!Next, P!Remove
<1>2. CASE res' = res \ {r} /\ UNCHANGED <<stuckVol, stuckDom>> /\ r \notin res
  <2>1. res' = res
    BY <1>2
  <2> QED
    BY <1>2, <2>1 DEF P!vars
<1>3. CASE /\ r \in res /\ res' = res
           /\ Tag(stuckVol, stuckDom)' = Tag(stuckVol, stuckDom) \union {r}
  BY <1>3 DEF P!Next, P!Refuse
<1> QED
  BY <1>1, <1>2, <1>3

----------------------------------------------------------------------------
(* The simulation, action by action.                                       *)

Simulated == [P!Next]_(P!vars)

\* The steps that only move on, set err or change the state of a volume or a
\* domain that stays.
LEMMA MoveOnSim ==
  ASSUME IInv, TypeOK',
         \/ BuildInventory \/ Connect \/ DownloadBaseImages
         \/ CreateVolumesDone \/ DefineDomainsDone \/ SpawnDone
         \/ CustomizeDomainsDone \/ StartDomainsDone \/ StopStartedDone
         \/ VbmcStart \/ VbmcStartErr \/ VbmcCleanup \/ WriteSSHConfig
         \/ WaitForLeaseDone \/ WriteSSHConfigErr \/ WriteBMCConfigErr
         \/ VbmcStop \/ VbmcDelete \/ UndefineDomainsDone
         \/ UndefineDefinedDone \/ LeaseArrives \/ Cancel
  PROVE  Simulated
<1> USE DEF Goto, Visit, Finished, Rollback, world, made, stuck, Working
<1>1. UNCHANGED <<vol, dom, created, defined, stuckVol, stuckDom, op>>
  BY DEF BuildInventory, Connect, DownloadBaseImages, CreateVolumesDone,
     DefineDomainsDone, SpawnDone, CustomizeDomainsDone, StartDomainsDone,
     StopStartedDone, VbmcStart, VbmcStartErr, VbmcCleanup, WriteSSHConfig,
     WaitForLeaseDone, WriteSSHConfigErr, WriteBMCConfigErr, VbmcStop,
     VbmcDelete, UndefineDomainsDone, UndefineDefinedDone, LeaseArrives, Cancel
<1>2. pc \in Working /\ pc' \in Working
  BY DEF BuildInventory, Connect, DownloadBaseImages, CreateVolumesDone,
     DefineDomainsDone, SpawnDone, CustomizeDomainsDone, StartDomainsDone,
     StopStartedDone, VbmcStart, VbmcStartErr, VbmcCleanup, WriteSSHConfig,
     WaitForLeaseDone, WriteSSHConfigErr, WriteBMCConfigErr, VbmcStop,
     VbmcDelete, UndefineDomainsDone, UndefineDefinedDone, LeaseArrives, Cancel
<1>3. err' = err \/ err' = TRUE
  BY DEF BuildInventory, Connect, DownloadBaseImages, CreateVolumesDone,
     DefineDomainsDone, SpawnDone, CustomizeDomainsDone, StartDomainsDone,
     StopStartedDone, VbmcStart, VbmcStartErr, VbmcCleanup, WriteSSHConfig,
     WaitForLeaseDone, WriteSSHConfigErr, WriteBMCConfigErr, VbmcStop,
     VbmcDelete, UndefineDomainsDone, UndefineDefinedDone, LeaseArrives, Cancel
<1>4. err => err'
  BY <1>3
<1>5. Same
  BY <1>1 DEF Same, Volumes, Domains
<1>6. op \in {"run", "destroy"}
  BY <1>2 DEF IInv, OpInv
<1>7. TypeOK /\ op' = op
  BY <1>1 DEF IInv
<1> QED
  BY <1>2, <1>5, <1>6, <1>7, <1>4, QuietStep, Zenon DEF Simulated

\* The same for the turns of a loop and the goroutines.
LEMMA TurnSim ==
  ASSUME IInv, TypeOK', NEW d \in Device,
         \/ CreateVolumeErr(d) \/ DefineDomainErr(d) \/ Spawn(d) \/ Collect(d)
         \/ StartDomain(d) \/ StartDomainErr(d) \/ StopStarted(d)
         \/ VbmcAdd(d) \/ VbmcAddErr(d)
         \/ WorkerExec(d) \/ WorkerOK(d) \/ WorkerKilled(d) \/ WorkerFails(d)
  PROVE  Simulated
<1> USE DEF Goto, Visit, Rollback, world, made, stuck, Working
<1>1. UNCHANGED <<created, defined, stuckVol, stuckDom, op>>
  BY DEF CreateVolumeErr, DefineDomainErr, Spawn, Collect, StartDomain,
     StartDomainErr, StopStarted, VbmcAdd, VbmcAddErr, WorkerExec, WorkerOK,
     WorkerKilled, WorkerFails, WorkerEnds
<1>2. pc \in Working
  <2>1. worker[d] # "none" => pc \in {"spawn", "collect"}
    BY DEF IInv, OpInv
  <2> QED
    BY <2>1 DEF CreateVolumeErr, DefineDomainErr, Spawn, Collect, StartDomain,
       StartDomainErr, StopStarted, VbmcAdd, VbmcAddErr, WorkerExec, WorkerOK,
       WorkerKilled, WorkerFails, WorkerEnds
<1>3. pc' \in Working
  BY <1>2 DEF CreateVolumeErr, DefineDomainErr, Spawn, Collect, StartDomain,
     StartDomainErr, StopStarted, VbmcAdd, VbmcAddErr, WorkerExec, WorkerOK,
     WorkerKilled, WorkerFails, WorkerEnds
<1>4. err => err'
  <2>1. CASE Collect(d)
    BY <2>1 DEF Collect, ErrAfter
  <2>2. CASE ~Collect(d)
    <3>1. err' = err \/ err' = TRUE
      BY <2>2 DEF CreateVolumeErr, DefineDomainErr, Spawn, StartDomain,
         StartDomainErr, StopStarted, VbmcAdd, VbmcAddErr, WorkerExec, WorkerOK,
         WorkerKilled, WorkerFails, WorkerEnds
    <3> QED
      BY <3>1
  <2> QED
    BY <2>1, <2>2
<1>5. Volumes' = Volumes
  <2>1. CASE WorkerExec(d) \/ WorkerOK(d)
    <3>1. vol[d] # "none"
      BY <2>1 DEF WorkerExec, WorkerOK, IInv, WorkerInv
    <3> QED
      BY <2>1, <3>1 DEF WorkerExec, WorkerOK, Volumes, IInv, TypeOK
  <2>2. CASE ~(WorkerExec(d) \/ WorkerOK(d))
    <3>1. vol' = vol
      BY <2>2 DEF CreateVolumeErr, DefineDomainErr, Spawn, Collect,
         StartDomain, StartDomainErr, StopStarted, VbmcAdd, VbmcAddErr,
         WorkerKilled, WorkerFails, WorkerEnds
    <3> QED
      BY <3>1 DEF Volumes
  <2> QED
    BY <2>1, <2>2
<1>6. Domains' = Domains
  <2>1. CASE StartDomain(d) \/ StopStarted(d)
    <3>1. dom[d] # "none"
      BY <2>1 DEF StartDomain, StopStarted, IInv, StageInv
    <3> QED
      BY <2>1, <3>1 DEF StartDomain, StopStarted, Domains, IInv, TypeOK
  <2>2. CASE ~(StartDomain(d) \/ StopStarted(d))
    <3>1. dom' = dom
      BY <2>2 DEF CreateVolumeErr, DefineDomainErr, Spawn, Collect,
         StartDomainErr, VbmcAdd, VbmcAddErr, WorkerExec, WorkerOK,
         WorkerKilled, WorkerFails, WorkerEnds
    <3> QED
      BY <3>1 DEF Domains
  <2> QED
    BY <2>1, <2>2
<1>7. op \in {"run", "destroy"}
  BY <1>2 DEF IInv, OpInv
<1>8. TypeOK /\ op' = op /\ Same
  BY <1>1, <1>5, <1>6 DEF IInv, Same
<1> QED
  BY <1>2, <1>3, <1>7, <1>8, <1>4, QuietStep, Zenon DEF Simulated

\* StorageVolCreateXML and DomainDefineXMLFlags.
LEMMA AddSim ==
  ASSUME IInv, NEW d \in Device, CreateVolume(d) \/ DefineDomain(d)
  PROVE  Simulated
<1>1. UNCHANGED <<stuckVol, stuckDom>>
  BY DEF CreateVolume, DefineDomain, stuck
<1>2. mode = "up" /\ mode' = "up" /\ op = "run" /\ op' = "run"
  BY DEF CreateVolume, DefineDomain, Visit, mode, Resting, IInv, OpInv,
         RunOnly, Acquiring
<1>3. CASE CreateVolume(d)
  <2>1. d \notin Volumes /\ Volumes' = Volumes \union {d} /\ Domains' = Domains
    BY <1>3 DEF CreateVolume, Volumes, Domains, IInv, TypeOK
  <2>2. created' = created \union {d} /\ defined' = defined
    BY <1>3 DEF CreateVolume
  <2>3. res' = res \union {<<"vol", d>>} /\ <<"vol", d>> \notin res
    BY <2>1 DEF res, Tag
  <2>4. base' = base
    BY <1>2, <2>1, <2>2 DEF base, res, Tag
  <2>5. <<"vol", d>> \in Tag(Device, Device)
    BY DEF Tag
  <2> QED
    BY <1>1, <1>2, <2>3, <2>4, <2>5, AddStep DEF Simulated
<1>4. CASE DefineDomain(d)
  <2>1. d \notin Domains /\ Domains' = Domains \union {d} /\ Volumes' = Volumes
    BY <1>4 DEF DefineDomain, Volumes, Domains, IInv, TypeOK
  <2>2. defined' = defined \union {d} /\ created' = created
    BY <1>4 DEF DefineDomain
  <2>3. res' = res \union {<<"dom", d>>} /\ <<"dom", d>> \notin res
    BY <2>1 DEF res, Tag
  <2>4. base' = base
    BY <1>2, <2>1, <2>2 DEF base, res, Tag
  <2>5. <<"dom", d>> \in Tag(Device, Device)
    BY DEF Tag
  <2> QED
    BY <1>1, <1>2, <2>3, <2>4, <2>5, AddStep DEF Simulated
<1> QED
  BY <1>3, <1>4

\* vol.Delete, dom.Destroy and dom.Undefine.
LEMMA RemoveSim ==
  ASSUME IInv, NEW d \in Device,
         \/ UncreateVolume(d) \/ DeleteVolume(d)
         \/ UndefineDefined(d) \/ UndefineDomain(d)
  PROVE  Simulated
<1>1. UNCHANGED <<created, defined, op>> /\ op \in {"run", "destroy"}
  BY DEF UncreateVolume, DeleteVolume, UndefineDefined, UndefineDomain, Visit,
         made, IInv, OpInv, Working
<1>2. mode \in {"back", "down"} /\ mode' = mode
  BY DEF UncreateVolume, DeleteVolume, UndefineDefined, UndefineDomain, Visit,
         IInv, OpInv, Working, mode, Resting
<1>3. CASE UncreateVolume(d) \/ DeleteVolume(d)
  <2>1. op = "run" => d \in created
    BY <1>3 DEF UncreateVolume, DeleteVolume, Visit, IInv, OwnInv, RemovalInv
  <2>2. DeleteVol(d) /\ Domains' = Domains /\ stuckDom' = stuckDom
    BY <1>3 DEF UncreateVolume, DeleteVolume, Domains
  <2>3. <<"vol", d>> \notin base
    BY <2>1 DEF base, Tag
  <2>4. CASE vol' = [vol EXCEPT ![d] = "none"] /\ UNCHANGED stuckVol
    <3>1. Volumes' = Volumes \ {d}
      BY <2>4 DEF Volumes, IInv, TypeOK
    <3>2. res' = res \ {<<"vol", d>>}
      BY <2>2, <3>1 DEF res, Tag
    <3>3. base' = base
      BY <1>1, <2>1, <2>2, <3>1 DEF base, res, Tag
    <3> QED
      BY <1>2, <2>2, <2>3, <2>4, <3>2, <3>3, RemoveStep DEF Simulated
  <2>5. CASE /\ vol[d] # "none" /\ stuckVol' = stuckVol \union {d}
             /\ UNCHANGED vol
    <3>1. res' = res /\ base' = base /\ <<"vol", d>> \in res
      BY <1>1, <2>2, <2>5 DEF res, base, Volumes, Tag
    <3>2. Tag(stuckVol, stuckDom)' = Tag(stuckVol, stuckDom) \union {<<"vol", d>>}
      BY <2>2, <2>5 DEF Tag
    <3> QED
      BY <1>2, <2>3, <3>1, <3>2, RemoveStep DEF Simulated
  <2> QED
    BY <2>2, <2>4, <2>5 DEF DeleteVol
<1>4. CASE UndefineDefined(d) \/ UndefineDomain(d)
  <2>1. op = "run" => d \in defined
    BY <1>4 DEF UndefineDefined, UndefineDomain, Visit, IInv, OwnInv, RemovalInv
  <2>2. RemoveDom(d) /\ Volumes' = Volumes /\ stuckVol' = stuckVol
    BY <1>4 DEF UndefineDefined, UndefineDomain, Volumes
  <2>3. <<"dom", d>> \notin base
    BY <2>1 DEF base, Tag
  <2>4. CASE dom' = [dom EXCEPT ![d] = "none"] /\ UNCHANGED stuckDom
    <3>1. Domains' = Domains \ {d}
      BY <2>4 DEF Domains, IInv, TypeOK
    <3>2. res' = res \ {<<"dom", d>>}
      BY <2>2, <3>1 DEF res, Tag
    <3>3. base' = base
      BY <1>1, <2>1, <2>2, <3>1 DEF base, res, Tag
    <3> QED
      BY <1>2, <2>2, <2>3, <2>4, <3>2, <3>3, RemoveStep DEF Simulated
  <2>5. CASE /\ dom[d] # "none" /\ stuckDom' = stuckDom \union {d}
             /\ \E s \in {dom[d], "shutoff"} : dom' = [dom EXCEPT ![d] = s]
    <3>1. Domains' = Domains /\ d \in Domains
      BY <2>5 DEF Domains, IInv, TypeOK
    <3>2. res' = res /\ base' = base /\ <<"dom", d>> \in res
      BY <1>1, <2>2, <3>1 DEF res, base, Tag
    <3>3. Tag(stuckVol, stuckDom)' = Tag(stuckVol, stuckDom) \union {<<"dom", d>>}
      BY <2>2, <2>5 DEF Tag
    <3> QED
      BY <1>2, <2>3, <3>2, <3>3, RemoveStep DEF Simulated
  <2> QED
    BY <2>2, <2>4, <2>5 DEF RemoveDom
<1> QED
  BY <1>3, <1>4

\* Run or Destroy returns an error.
LEMMA FailSim ==
  ASSUME IInv,
         \/ BuildInventoryErr \/ ConnectErr \/ DownloadBaseImagesErr
         \/ UncreateDone \/ VbmcStopErr \/ VbmcDeleteErr \/ DeleteVolumesErr
         \/ DeleteVolumesDone /\ op = "run"
  PROVE  Simulated
<1> USE DEF Leave, Goto, Finished, AfterDeleteVolumes
<1>1. pc \in Working /\ pc' = "returned" /\ err' /\ op' = op /\ TypeOK
  BY DEF BuildInventoryErr, ConnectErr, DownloadBaseImagesErr, UncreateDone,
     VbmcStopErr, VbmcDeleteErr, DeleteVolumesErr, DeleteVolumesDone, Working,
     IInv
<1>2. Volumes' = Volumes /\ Domains' = Domains
      /\ UNCHANGED <<created, defined, stuckDom>>
  BY DEF BuildInventoryErr, ConnectErr, DownloadBaseImagesErr, UncreateDone,
     VbmcStopErr, VbmcDeleteErr, DeleteVolumesErr, DeleteVolumesDone, world,
     made, stuck, Volumes, Domains
<1>3. stuckVol' = stuckVol \/ stuckVol' = stuckVol \union Volumes
  BY DEF BuildInventoryErr, ConnectErr, DownloadBaseImagesErr, UncreateDone,
     VbmcStopErr, VbmcDeleteErr, DeleteVolumesErr, DeleteVolumesDone, stuck
<1>4. op \in {"run", "destroy"}
  BY <1>1 DEF IInv, OpInv
<1>5. CASE op = "run" /\ err
  <2>1. Volumes \intersect created \subseteq stuckVol'
        /\ Domains \intersect defined \subseteq stuckDom
    <3>1. CASE BuildInventoryErr \/ ConnectErr \/ DownloadBaseImagesErr
      BY <1>5, <3>1 DEF BuildInventoryErr, ConnectErr, DownloadBaseImagesErr,
         IInv, OpInv, Early
    <3>2. CASE UncreateDone
      BY <3>2 DEF UncreateDone, IInv, OpInv, RemovalInv, Volumes, stuck
    <3>3. CASE VbmcStopErr \/ VbmcDeleteErr
      BY <1>5, <3>3 DEF VbmcStopErr, VbmcDeleteErr, IInv, OpInv, DestroyOnly
    <3>4. CASE DeleteVolumesErr
      BY <3>4 DEF DeleteVolumesErr, IInv, RemovalInv, Volumes, Domains
    <3>5. CASE DeleteVolumesDone
      BY <3>5 DEF DeleteVolumesDone, IInv, RemovalInv, TypeOK, Volumes,
         Domains, stuck
    <3> QED
      BY <3>1, <3>2, <3>3, <3>4, <3>5
  <2> QED
    BY <1>1, <1>2, <1>3, <1>5, <2>1, FailStep DEF Simulated
<1>6. CASE op = "run" /\ ~err
  <2>1. created = {} /\ defined = {}
    BY <1>6 DEF BuildInventoryErr, ConnectErr, DownloadBaseImagesErr,
       UncreateDone, VbmcStopErr, VbmcDeleteErr, DeleteVolumesErr,
       DeleteVolumesDone, IInv, OpInv, Early, DestroyOnly
  <2> QED
    BY <1>1, <1>2, <1>3, <1>6, <2>1, FailStep DEF Simulated
<1>7. CASE op = "destroy"
  BY <1>1, <1>2, <1>3, <1>7, FailStep DEF Simulated
<1> QED
  BY <1>4, <1>5, <1>6, <1>7

\* Run or Destroy returns nil.
LEMMA DoneSim ==
  ASSUME IInv, WriteBMCConfig \/ (DeleteVolumesDone /\ op = "destroy")
  PROVE  Simulated
<1> USE DEF Leave, Goto, Finished, AfterDeleteVolumes
<1>1. UNCHANGED <<vol, dom, created, defined, stuckVol, stuckDom, op>>
      /\ pc' = "returned" /\ ~err'
  BY DEF WriteBMCConfig, DeleteVolumesDone, world, made, stuck
<1>2. res' = res /\ base' = base
      /\ Tag(stuckVol, stuckDom)' = Tag(stuckVol, stuckDom)
  BY <1>1 DEF res, base, Volumes, Domains
<1>3. mode' = "done"
  BY <1>1 DEF mode, Resting
<1>4. CASE WriteBMCConfig
  <2>1. mode = "up"
    BY <1>4 DEF WriteBMCConfig, mode, Resting, IInv, OpInv, RunOnly, Acquiring
  <2>2. Volumes = Device /\ Domains = Device
    BY <1>4 DEF WriteBMCConfig, IInv, StageInv, Volumes, Domains
  <2>3. res = Tag(Device, Device)
    BY <2>2 DEF res
  <2> QED
    BY <1>2, <1>3, <2>1, <2>3 DEF Simulated, P!Next, P!Done
<1>5. CASE DeleteVolumesDone /\ op = "destroy"
  <2>1. mode = "down"
    BY <1>5 DEF DeleteVolumesDone, mode, Resting
  <2>2. Volumes \subseteq stuckVol /\ Domains \subseteq stuckDom
    BY <1>5 DEF DeleteVolumesDone, IInv, RemovalInv, Volumes, Domains
  <2>3. res \subseteq Tag(stuckVol, stuckDom)
    BY <2>2 DEF res, Tag
  <2> QED
    BY <1>2, <1>3, <2>1, <2>3 DEF Simulated, P!Next, P!Done
<1> QED
  BY <1>4, <1>5

\* The client calls a method.
LEMMA BeginSim ==
  ASSUME IInv, NEW method \in {"run", "destroy"}, Call(method)
  PROVE  Simulated
<1>1. UNCHANGED <<vol, dom, created, defined, stuckVol, stuckDom, err>>
      /\ pc = "idle" /\ pc' = "buildInventory" /\ op' = method
  BY DEF Call, world, made, stuck
<1>2. created = {} /\ defined = {} /\ ~err /\ stuckVol' = {} /\ stuckDom' = {}
  BY <1>1 DEF IInv, OpInv, Resting
<1>3. res' = res /\ mode = "idle"
  BY <1>1 DEF res, Volumes, Domains, mode, Resting
<1>4. CASE method = "run"
  <2>1. mode' = "up" /\ base' = res
    BY <1>1, <1>2, <1>3, <1>4 DEF mode, Resting, base, Tag
  <2>2. Tag(stuckVol, stuckDom)' = {}
    BY <1>2, TagOne
  <2> QED
    BY <1>2, <1>3, <2>1, <2>2 DEF Simulated, P!Next, P!Begin
<1>5. CASE method = "destroy"
  <2>1. mode' = "down" /\ base' = {}
    BY <1>1, <1>5 DEF mode, Resting, base
  <2>2. Tag(stuckVol, stuckDom)' = {}
    BY <1>2, TagOne
  <2> QED
    BY <1>2, <1>3, <2>1, <2>2 DEF Simulated, P!Next, P!Begin
<1> QED
  BY <1>4, <1>5

\* A panic in the loops or the goroutines over the devices.
LEMMA EndSim ==
  ASSUME IInv, NEW d \in Device,
         SpawnPanic(d) \/ WorkerPanic(d) \/ DefineIntoNilMap(d)
  PROVE  Simulated
<1>1. pc' \in Resting /\ op' = "none" /\ stuckVol' = {} /\ stuckDom' = {}
  BY DEF SpawnPanic, WorkerPanic, DefineIntoNilMap, Panic, NoCall, Resting
<1>2. CASE ~DefineIntoNilMap(d)
  <2>1. Volumes' = Volumes /\ Domains' = Domains
    BY <1>2 DEF SpawnPanic, WorkerPanic, world, Volumes, Domains
  <2> QED
    BY <1>1, <2>1, EndStep DEF Simulated
<1>3. CASE DefineIntoNilMap(d)
  <2>1. Domains' = Domains \union {d} /\ d \notin Domains /\ Volumes' = Volumes
    BY <1>3 DEF DefineIntoNilMap, Volumes, Domains, IInv, TypeOK
  <2>2. res' = res \union {<<"dom", d>>} /\ <<"dom", d>> \notin res
        /\ <<"dom", d>> \in Tag(Device, Device)
    BY <2>1 DEF res, Tag
  <2>3. mode = "up"
    BY <1>3 DEF DefineIntoNilMap, mode, Resting, IInv, OpInv, RunOnly,
                Acquiring
  <2>4. mode' = "idle" /\ base' = {} /\ Tag(stuckVol, stuckDom)' = {}
    BY <1>1, TagOne DEF mode, base
  <2> QED
    BY <2>2, <2>3, <2>4 DEF Simulated, P!Next, P!End
<1> QED
  BY <1>2, <1>3

\* The call, or the process, ends.
LEMMA ClientEndSim ==
  ASSUME IInv, \/ NewRunner \/ Return \/ Kill
               \/ WaitForLeasePanic \/ BuildInventoryPanic
  PROVE  Simulated
<1>1. pc' \in Resting /\ op' = "none" /\ stuckVol' = {} /\ stuckDom' = {}
  BY DEF NewRunner, Return, Kill, WaitForLeasePanic, BuildInventoryPanic,
     Panic, NoCall, Resting
<1>2. Volumes' = Volumes /\ Domains' = Domains
  BY DEF NewRunner, Return, Kill, WaitForLeasePanic, BuildInventoryPanic,
     world, Volumes, Domains
<1> QED
  BY <1>1, <1>2, EndStep DEF Simulated

\* Every step of the Runner is a step of Provision, or none.
LEMMA NextSim == IInv /\ IInv' /\ [Next]_vars => Simulated
<1> SUFFICES ASSUME IInv, TypeOK', [Next]_vars PROVE Simulated
  BY DEF IInv
<1>1. CASE Setup
  BY <1>1, MoveOnSim, FailSim, ClientEndSim, Zenon DEF Setup
<1>2. CASE CreateVolumes
  BY <1>2, MoveOnSim, TurnSim, AddSim, RemoveSim, FailSim, Zenon
     DEF CreateVolumes
<1>3. CASE DefineDomains
  BY <1>3, MoveOnSim, TurnSim, AddSim, RemoveSim, EndSim, Zenon
     DEF DefineDomains
<1>4. CASE CustomizeDomains
  BY <1>4, MoveOnSim, TurnSim, EndSim, Zenon DEF CustomizeDomains
<1>5. CASE StartDomains
  BY <1>5, MoveOnSim, TurnSim, Zenon DEF StartDomains
<1>6. CASE StartAll
  BY <1>6, MoveOnSim, TurnSim, Zenon DEF StartAll
<1>7. CASE WriteConfigs
  <2>1. CASE WriteBMCConfig
    BY <2>1, DoneSim, Zenon
  <2>2. CASE WaitForLeasePanic
    BY <2>2, ClientEndSim, Zenon
  <2> QED
    BY <1>7, <2>1, <2>2, MoveOnSim, Zenon DEF WriteConfigs
<1>8. CASE StopAll
  BY <1>8, MoveOnSim, FailSim, Zenon DEF StopAll
<1>9. CASE Remove
  <2>1. CASE DeleteVolumesDone
    <3>1. op = "run" \/ op = "destroy"
      BY <2>1 DEF DeleteVolumesDone, Finished, IInv, OpInv, Working
    <3> QED
      BY <2>1, <3>1, FailSim, DoneSim, Zenon
  <2> QED
    BY <1>9, <2>1, MoveOnSim, RemoveSim, FailSim, Zenon DEF Remove
<1>10. CASE \E d \in Device : Worker(d)
  BY <1>10, TurnSim, EndSim, Zenon DEF Worker
<1>11. CASE Client
  BY <1>11, BeginSim, ClientEndSim, MoveOnSim, Zenon DEF Client
<1>12. CASE LeaseArrives \/ WriteSSHConfigErr
  BY <1>12, MoveOnSim, Zenon
<1>13. CASE UNCHANGED vars
  BY <1>13 DEF vars, Simulated, P!vars, res, base, mode, Volumes, Domains
<1> QED
  BY <1>1, <1>2, <1>3, <1>4, <1>5, <1>6, <1>7, <1>8, <1>9, <1>10, <1>11, <1>12,
     <1>13, Zenon DEF Next, Step

----------------------------------------------------------------------------

\* Run and Destroy implement the transaction of Provision: for every topology
\* and whatever fails, is cancelled or dies on the way.
THEOREM RunnerImplementsProvision == Spec => ProvisionSpec
<1>1. Init => P!Init
  BY DEF Init, P!Init, res, base, mode, Resting, Volumes, Domains, Tag
<1> QED
  BY <1>1, NextSim, Inductive, PTL DEF Spec, Simulated, ProvisionSpec, P!Spec

=============================================================================
