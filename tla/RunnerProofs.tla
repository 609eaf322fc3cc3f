---------------------------- MODULE RunnerProofs ----------------------------
(***************************************************************************)
(* What Run and Destroy guarantee, for every topology: proofs about module *)
(* Runner.  The argument is one inductive invariant, IInv, which says at   *)
(* each point of the code what the stages before it have made and what the *)
(* loop in progress has done so far.                                       *)
(***************************************************************************)
EXTENDS Runner, TLAPS

----------------------------------------------------------------------------
(* The inductive invariant.                                                *)

\* Labels of Run before anything is acquired, while stages succeed, and when
\* all domains are defined.
Early == {"buildInventory", "connect", "download"}
Acquiring == {"createVolumes", "defineDomains", "spawn", "collect",
              "startDomains", "vbmcAdd", "writeSSHConfig", "writeBMCConfig"}
Defined == {"spawn", "collect", "startDomains", "vbmcAdd", "vbmcCleanup",
            "stopStarted", "writeSSHConfig", "writeBMCConfig"}
RunOnly == {"download", "uncreate", "undefine"} \union Acquiring \union Defined
DestroyOnly == {"stopAll", "deleteAll"}

\* Which method is at which label, and what it has not touched yet.
OpInv ==
  /\ pc \in Resting => op = "none"
  /\ pc \in Working \union {"returned"} => op \in {"run", "destroy"}
  /\ pc \in RunOnly => op = "run"
  /\ pc \in DestroyOnly => op = "destroy"
  /\ pc \in Resting \union Early => created = {} /\ defined = {}
  /\ pc \in {"createVolumes", "uncreate"} => defined = {}
  /\ pc \notin {"spawn", "collect"} => worker = [d \in Device |-> "none"]
  /\ pc \in Resting \union Early \union (Acquiring \ {"collect"}) => ~err
  /\ pc \in Resting => stuckVol = {} /\ stuckDom = {}
  /\ pc \in {"uncreate", "undefine", "vbmcCleanup", "stopStarted"} => err
  /\ pc \in {"undefineDomains", "deleteVolumes"} /\ op = "run" => err
  /\ pc \in Working \ {"buildInventory"} => bmcAll = BMC
  /\ pc \in Resting \union Early \union {"createVolumes", "uncreate",
        "defineDomains", "undefine", "spawn", "collect", "startDomains"} =>
       added = {}

\* What createVolumes and defineDomains have made.
OwnInv ==
  /\ pc = "createVolumes" => created = Device \ todo
  /\ pc \in {"defineDomains", "undefine"} \union Defined => created = Device
  /\ pc = "defineDomains" => defined = Device \ todo
  /\ pc \in Defined => defined = Device
  /\ pc = "undefineDomains" /\ op = "run" =>
       created = Device /\ defined = Device
  /\ pc = "deleteVolumes" /\ op = "run" => created = Device

\* The states of volumes and domains while the stages succeed.
StageInv ==
  /\ pc = "createVolumes" => \A d \in created : vol[d] = "fresh"
  /\ pc = "defineDomains" => \A d \in Device : vol[d] = "fresh"
  /\ pc = "defineDomains" => \A d \in defined : dom[d] = "shutoff"
  /\ pc \in {"spawn", "collect"} =>
       \A d \in Device : vol[d] # "none" /\ dom[d] = "shutoff"
  /\ pc \in {"startDomains", "vbmcAdd", "writeSSHConfig", "writeBMCConfig"} =>
       /\ \A d \in Device : vol[d] # "none" /\ dom[d] # "none"
       /\ \A d \in Imaged : vol[d] = "ready"
  /\ pc \in {"vbmcCleanup", "stopStarted"} =>
       \A d \in Device : vol[d] # "none" /\ dom[d] # "none"
  /\ pc = "startDomains" =>
       /\ todo \subseteq Imaged
       /\ \A d \in Imaged \ todo : dom[d] = "running"
  /\ pc \in {"vbmcAdd", "writeSSHConfig", "writeBMCConfig"} =>
       \A d \in Imaged : dom[d] = "running"
  /\ pc = "vbmcAdd" => todo \subseteq bmcAll /\ added = bmcAll \ todo
  /\ pc \in {"writeSSHConfig", "writeBMCConfig"} =>
       \A d \in BMC : vbmc[d] = "running"

\* The goroutines of customizeDomains.
WorkerInv ==
  /\ \A d \in Device : worker[d] # "none" => d \in Imaged
  /\ \A d \in Device : worker[d] = "spawned" => vol[d] = "fresh"
  /\ \A d \in Device : worker[d] = "running" => vol[d] = "dirty"
  /\ \A d \in Device : worker[d] = "ok" => vol[d] = "ready"
  /\ pc = "spawn" =>
       /\ todo \subseteq Imaged
       /\ \A d \in todo : worker[d] = "none" /\ vol[d] = "fresh"
       /\ \A d \in Imaged \ todo : worker[d] # "none"
  /\ pc = "collect" /\ ~err =>
       \A d \in Imaged : worker[d] = "none" => vol[d] = "ready"

\* The removal loops: what they have passed is gone or stuck.
RemovalInv ==
  /\ pc = "uncreate" =>
       \A d \in created \ todo : vol[d] = "none" \/ d \in stuckVol
  /\ pc = "uncreate" => todo \subseteq created
  /\ pc = "undefine" =>
       \A d \in defined \ todo : dom[d] = "none" \/ d \in stuckDom
  /\ pc = "undefine" => todo \subseteq defined
  /\ pc = "undefineDomains" =>
       \A d \in Device \ todo : dom[d] = "none" \/ d \in stuckDom
  /\ pc = "deleteVolumes" =>
       /\ \A d \in defined : dom[d] = "none" \/ d \in stuckDom
       /\ op = "destroy" =>
            \A d \in Device : dom[d] = "none" \/ d \in stuckDom
       /\ \A d \in Device \ todo : vol[d] = "none" \/ d \in stuckVol
  /\ pc \in {"undefineDomains", "deleteVolumes"} /\ op = "destroy" =>
       \A d \in BMC : vbmc[d] = "none"

\* The BMCs of a failed Run that was not cancelled.
BmcInv ==
  pc \in {"stopStarted", "undefineDomains", "deleteVolumes"} /\ op = "run"
      /\ ~ctxDone =>
    \/ \A d \in added : vbmc[d] = "none" \/ d \in stuckBmc
    \/ (WriteSSH \/ WriteBMC) /\ \A d \in BMC : vbmc[d] = "running"

IInv ==
  /\ TypeOK
  /\ OpInv
  /\ OwnInv
  /\ StageInv
  /\ WorkerInv
  /\ RemovalInv
  /\ BmcInv
  /\ RollbackComplete
  /\ BmcRollback
  /\ RunSucceedsFully
  /\ DestroyNilClean

----------------------------------------------------------------------------
(* Types.                                                                  *)

\* dom.Destroy and dom.Undefine change the state of one domain.
LEMMA RemoveDomType ==
  ASSUME TypeOK, NEW d \in Device, RemoveDom(d)
  PROVE  dom' \in [Device -> DomState] /\ stuckDom' \subseteq Device
         /\ fault' \in BOOLEAN
<1>1. CASE dom' = [dom EXCEPT ![d] = "none"] /\ UNCHANGED <<stuckDom, fault>>
  BY <1>1 DEF TypeOK, DomState
<1>2. CASE /\ \E s \in {dom[d], "shutoff"} : dom' = [dom EXCEPT ![d] = s]
           /\ stuckDom' = stuckDom \union {d}
           /\ fault' = TRUE
  <2>1. PICK s \in {dom[d], "shutoff"} : dom' = [dom EXCEPT ![d] = s]
    BY <1>2
  <2>2. s \in DomState
    BY DEF TypeOK, DomState
  <2> QED
    BY <1>2, <2>1, <2>2 DEF TypeOK
<1> QED
  BY <1>1, <1>2 DEF RemoveDom

\* Every step keeps the types.
LEMMA TypeStep == TypeOK /\ [Next]_vars => TypeOK'
<1> SUFFICES ASSUME TypeOK, [Next]_vars PROVE TypeOK'
  OBVIOUS
<1> USE RunnerAssumption
    DEF TypeOK, VolState, DomState, BmcState, WorkerState, Resting, Working,
        world, inst, made, stuck, Goto, Leave, Blame
<1>1. CASE Setup
  <2>1. CASE BuildInventory
    BY <2>1 DEF BuildInventory
  <2>2. CASE BuildInventoryErr
    BY <2>2 DEF BuildInventoryErr
  <2>3. CASE Connect
    BY <2>3 DEF Connect
  <2>4. CASE ConnectErr
    BY <2>4 DEF ConnectErr
  <2>5. CASE DownloadBaseImages
    BY <2>5 DEF DownloadBaseImages
  <2>6. CASE DownloadBaseImagesErr
    BY <2>6 DEF DownloadBaseImagesErr
  <2>7. CASE BuildInventoryPanic
    BY <2>7 DEF BuildInventoryPanic, Panic, FreshInstance, NoCall
  <2> QED
    BY <1>1, <2>1, <2>2, <2>3, <2>4, <2>5, <2>6, <2>7 DEF Setup
<1>2. CASE CreateVolumes
  <2>1. ASSUME NEW d \in Device, CreateVolume(d) PROVE TypeOK'
    BY <2>1 DEF CreateVolume, Visit
  <2>2. ASSUME NEW d \in Device, CreateVolumeErr(d) PROVE TypeOK'
    BY <2>2 DEF CreateVolumeErr
  <2>3. ASSUME NEW d \in Device, UncreateVolume(d) PROVE TypeOK'
    BY <2>3 DEF UncreateVolume, DeleteVol, Visit
  <2>4. CASE CreateVolumesDone
    BY <2>4 DEF CreateVolumesDone, Finished
  <2>5. CASE UncreateDone
    BY <2>5 DEF UncreateDone, ReleaseBase, Finished
  <2> QED
    BY <1>2, <2>1, <2>2, <2>3, <2>4, <2>5 DEF CreateVolumes
<1>3. CASE DefineDomains
  <2>1. ASSUME NEW d \in Device, DefineDomain(d) PROVE TypeOK'
    BY <2>1 DEF DefineDomain, Visit
  <2>2. ASSUME NEW d \in Device, DefineIntoNilMap(d) PROVE TypeOK'
    BY <2>2 DEF DefineIntoNilMap, Panic, FreshInstance, NoCall
  <2>3. ASSUME NEW d \in Device, DefineDomainErr(d) PROVE TypeOK'
    BY <2>3 DEF DefineDomainErr
  <2>4. ASSUME NEW d \in Device, UndefineDefined(d) PROVE TypeOK'
    BY <2>4, RemoveDomType DEF UndefineDefined, Visit
  <2>5. CASE DefineDomainsDone
    BY <2>5 DEF DefineDomainsDone, Finished
  <2>6. CASE UndefineDefinedDone
    BY <2>6 DEF UndefineDefinedDone, ReleaseDomains, Finished
  <2> QED
    BY <1>3, <2>1, <2>2, <2>3, <2>4, <2>5, <2>6 DEF DefineDomains
<1>4. CASE CustomizeDomains
  <2>1. ASSUME NEW d \in Device, Spawn(d) PROVE TypeOK'
    BY <2>1 DEF Spawn, Visit
  <2>2. ASSUME NEW d \in Device, SpawnPanic(d) PROVE TypeOK'
    BY <2>2 DEF SpawnPanic, Panic, FreshInstance, NoCall
  <2>3. ASSUME NEW d \in Device, Collect(d) PROVE TypeOK'
    BY <2>3 DEF Collect, ErrAfter
  <2>4. CASE SpawnDone
    BY <2>4 DEF SpawnDone, Finished
  <2>5. CASE CustomizeDomainsDone
    BY <2>5 DEF CustomizeDomainsDone, Rollback, AllCollected
  <2> QED
    BY <1>4, <2>1, <2>2, <2>3, <2>4, <2>5 DEF CustomizeDomains
<1>5. CASE StartDomains
  <2>1. ASSUME NEW d \in Device, StartDomain(d) PROVE TypeOK'
    BY <2>1 DEF StartDomain, Visit, NextToStart
  <2>2. ASSUME NEW d \in Device, StartDomainErr(d) PROVE TypeOK'
    BY <2>2 DEF StartDomainErr, NextToStart
  <2>3. ASSUME NEW d \in Device, StopStarted(d) PROVE TypeOK'
    BY <2>3 DEF StopStarted, Visit
  <2>4. CASE StartDomainsDone
    BY <2>4 DEF StartDomainsDone, Finished
  <2>5. CASE StopStartedDone
    BY <2>5 DEF StopStartedDone, Rollback, Finished
  <2> QED
    BY <1>5, <2>1, <2>2, <2>3, <2>4, <2>5 DEF StartDomains
<1>6. CASE StartAll
  <2>1. ASSUME NEW d \in Device, VbmcAdd(d) PROVE TypeOK'
    BY <2>1 DEF VbmcAdd, Visit
  <2>2. ASSUME NEW d \in Device, VbmcAddErr(d) PROVE TypeOK'
    BY <2>2 DEF VbmcAddErr
  <2>3. CASE VbmcStart
    BY <2>3 DEF VbmcStart, Finished
  <2>4. CASE VbmcStartErr
    BY <2>4 DEF VbmcStartErr, Finished
  <2>5. CASE VbmcCleanup
    BY <2>5 DEF VbmcCleanup
  <2> QED
    BY <1>6, <2>1, <2>2, <2>3, <2>4, <2>5 DEF StartAll
<1>7. CASE WriteConfigs
  <2>1. CASE WriteSSHConfig
    BY <2>1 DEF WriteSSHConfig
  <2>2. CASE WaitForLeasePanic
    BY <2>2 DEF WaitForLeasePanic, Panic, FreshInstance, NoCall
  <2>3. CASE WaitForLeaseDone
    BY <2>3 DEF WaitForLeaseDone, Rollback
  <2>4. CASE WriteBMCConfig
    BY <2>4 DEF WriteBMCConfig
  <2>5. CASE WriteBMCConfigErr
    BY <2>5 DEF WriteBMCConfigErr, Rollback
  <2> QED
    BY <1>7, <2>1, <2>2, <2>3, <2>4, <2>5 DEF WriteConfigs
<1>8. CASE StopAll
  <2>1. CASE VbmcStop
    BY <2>1 DEF VbmcStop
  <2>2. CASE VbmcStopErr
    BY <2>2 DEF VbmcStopErr
  <2>3. CASE VbmcDelete
    BY <2>3 DEF VbmcDelete
  <2>4. CASE VbmcDeleteErr
    BY <2>4 DEF VbmcDeleteErr
  <2> QED
    BY <1>8, <2>1, <2>2, <2>3, <2>4 DEF StopAll
<1>9. CASE Remove
  <2>1. ASSUME NEW d \in Device, UndefineDomain(d) PROVE TypeOK'
    BY <2>1, RemoveDomType DEF UndefineDomain, Visit
  <2>2. ASSUME NEW d \in Device, DeleteVolume(d) PROVE TypeOK'
    BY <2>2 DEF DeleteVolume, DeleteVol, Visit
  <2>3. CASE UndefineDomainsDone
    BY <2>3 DEF UndefineDomainsDone, ReleaseDomains, Finished
  <2>4. CASE DeleteVolumesDone
    BY <2>4 DEF DeleteVolumesDone, AfterDeleteVolumes, Finished, ReleaseBase
  <2>5. CASE DeleteVolumesErr
    BY <2>5 DEF DeleteVolumesErr, Volumes, AfterDeleteVolumes, ReleaseBase
  <2> QED
    BY <1>9, <2>1, <2>2, <2>3, <2>4, <2>5 DEF Remove
<1>10. CASE \E d \in Device : Worker(d)
  <2>1. ASSUME NEW d \in Device, WorkerExec(d) PROVE TypeOK'
    BY <2>1 DEF WorkerExec
  <2>2. ASSUME NEW d \in Device, WorkerOK(d) PROVE TypeOK'
    BY <2>2 DEF WorkerOK
  <2>3. ASSUME NEW d \in Device, WorkerKilled(d) PROVE TypeOK'
    BY <2>3 DEF WorkerKilled, WorkerEnds
  <2>4. ASSUME NEW d \in Device, WorkerFails(d) PROVE TypeOK'
    BY <2>4 DEF WorkerFails, WorkerEnds
  <2>5. ASSUME NEW d \in Device, WorkerPanic(d) PROVE TypeOK'
    BY <2>5 DEF WorkerPanic, Panic, FreshInstance, NoCall
  <2> QED
    BY <1>10, <2>1, <2>2, <2>3, <2>4, <2>5 DEF Worker
<1>11. CASE Client
  <2>1. CASE NewRunner
    BY <2>1 DEF NewRunner, FreshInstance, NoCall
  <2>2. CASE Call("run")
    BY <2>2 DEF Call
  <2>3. CASE Call("destroy")
    BY <2>3 DEF Call
  <2>4. CASE Return
    BY <2>4 DEF Return, NoCall
  <2>5. CASE Cancel
    BY <2>5 DEF Cancel
  <2>6. CASE Kill
    BY <2>6 DEF Kill, FreshInstance, NoCall
  <2> QED
    BY <1>11, <2>1, <2>2, <2>3, <2>4, <2>5, <2>6 DEF Client
<1>12. CASE LeaseArrives
  BY <1>12 DEF LeaseArrives
<1>13. CASE WriteSSHConfigErr
  BY <1>13 DEF WriteSSHConfigErr, Rollback
<1>14. CASE UNCHANGED vars
  BY <1>14 DEF vars
<1> QED
  BY <1>1, <1>2, <1>3, <1>4, <1>5, <1>6, <1>7, <1>8, <1>9, <1>10, <1>11, <1>12,
     <1>13, <1>14, Zenon DEF Next, Step

----------------------------------------------------------------------------
(* The invariant holds at the start and every step keeps it.               *)

USE RunnerAssumption
DEF IInv, OpInv, OwnInv, StageInv, WorkerInv, RemovalInv, BmcInv,
    RollbackComplete, BmcRollback, RunSucceedsFully, DestroyNilClean, Up,
    TypeOK, VolState, DomState, BmcState, WorkerState, Returned, Resting,
    Working, Early, Acquiring, Defined, RunOnly, DestroyOnly,
    world, inst, made, stuck, Goto, Leave, Blame

\* The invariant holds before the first Runner is made.
LEMMA InitIInv == Init => IInv
  BY DEF Init

\* buildInventory, NewConnect and downloadBaseImages: no resource is touched.
LEMMA SetupIInv == IInv /\ TypeOK' /\ Setup => IInv'
<1> SUFFICES ASSUME IInv, TypeOK', Setup PROVE IInv'
  OBVIOUS
<1>1. CASE BuildInventory
  BY <1>1 DEF BuildInventory
<1>2. CASE BuildInventoryErr
  BY <1>2 DEF BuildInventoryErr
<1>3. CASE Connect
  BY <1>3 DEF Connect
<1>4. CASE ConnectErr
  BY <1>4 DEF ConnectErr
<1>5. CASE DownloadBaseImages
  BY <1>5 DEF DownloadBaseImages
<1>6. CASE DownloadBaseImagesErr
  BY <1>6 DEF DownloadBaseImagesErr
<1>7. CASE BuildInventoryPanic
  BY <1>7 DEF BuildInventoryPanic, Panic, FreshInstance, NoCall
<1> QED
  BY <1>1, <1>2, <1>3, <1>4, <1>5, <1>6, <1>7 DEF Setup

\* createVolumes, with its deferred deletions.
LEMMA CreateVolumesIInv == IInv /\ TypeOK' /\ CreateVolumes => IInv'
<1> SUFFICES ASSUME IInv, TypeOK', CreateVolumes PROVE IInv'
  OBVIOUS
<1>1. ASSUME NEW d \in Device, CreateVolume(d) PROVE IInv'
  BY <1>1 DEF CreateVolume, Visit
<1>2. ASSUME NEW d \in Device, CreateVolumeErr(d) PROVE IInv'
  BY <1>2 DEF CreateVolumeErr
<1>3. ASSUME NEW d \in Device, UncreateVolume(d) PROVE IInv'
  BY <1>3 DEF UncreateVolume, DeleteVol, Visit
<1>4. CASE CreateVolumesDone
  BY <1>4 DEF CreateVolumesDone, Finished
<1>5. CASE UncreateDone
  BY <1>5 DEF UncreateDone, ReleaseBase, Finished
<1> QED
  BY <1>1, <1>2, <1>3, <1>4, <1>5 DEF CreateVolumes

\* defineDomains, with its deferred undefinitions.
LEMMA DefineDomainsIInv == IInv /\ TypeOK' /\ DefineDomains => IInv'
<1> SUFFICES ASSUME IInv, TypeOK', DefineDomains PROVE IInv'
  OBVIOUS
<1>1. ASSUME NEW d \in Device, DefineDomain(d) PROVE IInv'
  BY <1>1 DEF DefineDomain, Visit
<1>2. ASSUME NEW d \in Device, DefineIntoNilMap(d) PROVE IInv'
  BY <1>2 DEF DefineIntoNilMap, Panic, FreshInstance, NoCall
<1>3. ASSUME NEW d \in Device, DefineDomainErr(d) PROVE IInv'
  BY <1>3 DEF DefineDomainErr
<1>4. ASSUME NEW d \in Device, UndefineDefined(d) PROVE IInv'
  BY <1>4 DEF UndefineDefined, RemoveDom, Visit
<1>5. CASE DefineDomainsDone
  BY <1>5 DEF DefineDomainsDone, Finished
<1>6. CASE UndefineDefinedDone
  BY <1>6 DEF UndefineDefinedDone, ReleaseDomains, Finished
<1> QED
  BY <1>1, <1>2, <1>3, <1>4, <1>5, <1>6 DEF DefineDomains

\* customizeDomains: the goroutine that starts and receives.
LEMMA CustomizeDomainsIInv == IInv /\ TypeOK' /\ CustomizeDomains => IInv'
<1> SUFFICES ASSUME IInv, TypeOK', CustomizeDomains PROVE IInv'
  OBVIOUS
<1>1. ASSUME NEW d \in Device, Spawn(d) PROVE IInv'
  BY <1>1 DEF Spawn, Visit
<1>2. ASSUME NEW d \in Device, SpawnPanic(d) PROVE IInv'
  BY <1>2 DEF SpawnPanic, Panic, FreshInstance, NoCall
<1>3. ASSUME NEW d \in Device, Collect(d) PROVE IInv'
  <2>1. OpInv'
    BY <1>3 DEF Collect, ErrAfter
  <2>2. OwnInv'
    BY <1>3 DEF Collect, ErrAfter
  <2>3. StageInv'
    BY <1>3 DEF Collect, ErrAfter
  <2>4. WorkerInv'
    <3>1. CASE worker[d] = "ok"
      <4>1. err' = err
        BY <1>3, <3>1 DEF Collect, ErrAfter
      <4> QED
        BY <1>3, <3>1, <4>1 DEF Collect
    <3>2. CASE worker[d] = "fail"
      <4>1. err'
        BY <1>3, <3>2 DEF Collect, ErrAfter
      <4> QED
        BY <1>3, <3>2, <4>1 DEF Collect
    <3> QED
      BY <1>3, <3>1, <3>2 DEF Collect
  <2>5. RemovalInv'
    BY <1>3 DEF Collect, ErrAfter
  <2>6. BmcInv'
    BY <1>3 DEF Collect, ErrAfter
  <2>7. RollbackComplete'
    BY <1>3 DEF Collect, ErrAfter
  <2>8. BmcRollback'
    BY <1>3 DEF Collect, ErrAfter
  <2>9. RunSucceedsFully'
    BY <1>3 DEF Collect, ErrAfter
  <2>10. DestroyNilClean'
    BY <1>3 DEF Collect, ErrAfter
  <2> QED
    BY <2>1, <2>2, <2>3, <2>4, <2>5, <2>6, <2>7, <2>8, <2>9, <2>10, Zenon DEF
       IInv
<1>4. CASE SpawnDone
  BY <1>4 DEF SpawnDone, Finished
<1>5. CASE CustomizeDomainsDone
  BY <1>5 DEF CustomizeDomainsDone, Rollback, AllCollected
<1> QED
  BY <1>1, <1>2, <1>3, <1>4, <1>5 DEF CustomizeDomains

\* startDomains, with its deferred stops.
LEMMA StartDomainsIInv == IInv /\ TypeOK' /\ StartDomains => IInv'
<1> SUFFICES ASSUME IInv, TypeOK', StartDomains PROVE IInv'
  OBVIOUS
<1>1. ASSUME NEW d \in Device, StartDomain(d) PROVE IInv'
  BY <1>1 DEF StartDomain, Visit, NextToStart
<1>2. ASSUME NEW d \in Device, StartDomainErr(d) PROVE IInv'
  BY <1>2 DEF StartDomainErr, NextToStart
<1>3. ASSUME NEW d \in Device, StopStarted(d) PROVE IInv'
  BY <1>3 DEF StopStarted, Visit
<1>4. CASE StartDomainsDone
  BY <1>4 DEF StartDomainsDone, Finished
<1>5. CASE StopStartedDone
  BY <1>5 DEF StopStartedDone, Rollback, Finished
<1> QED
  BY <1>1, <1>2, <1>3, <1>4, <1>5 DEF StartDomains

\* bmcMan.startAll.
LEMMA StartAllIInv == IInv /\ TypeOK' /\ StartAll => IInv'
<1> SUFFICES ASSUME IInv, TypeOK', StartAll PROVE IInv'
  OBVIOUS
<1>1. ASSUME NEW d \in Device, VbmcAdd(d) PROVE IInv'
  BY <1>1 DEF VbmcAdd, Visit
<1>2. ASSUME NEW d \in Device, VbmcAddErr(d) PROVE IInv'
  BY <1>2 DEF VbmcAddErr
<1>3. CASE VbmcStart
  BY <1>3 DEF VbmcStart, Finished
<1>4. CASE VbmcStartErr
  BY <1>4 DEF VbmcStartErr, Finished
<1>5. CASE VbmcCleanup
  BY <1>5 DEF VbmcCleanup
<1> QED
  BY <1>1, <1>2, <1>3, <1>4, <1>5 DEF StartAll

\* The two configuration files.
LEMMA WriteConfigsIInv == IInv /\ TypeOK' /\ WriteConfigs => IInv'
<1> SUFFICES ASSUME IInv, TypeOK', WriteConfigs PROVE IInv'
  OBVIOUS
<1>1. CASE WriteSSHConfig
  BY <1>1 DEF WriteSSHConfig
<1>2. CASE WaitForLeasePanic
  BY <1>2 DEF WaitForLeasePanic, Panic, FreshInstance, NoCall
<1>3. CASE WaitForLeaseDone
  BY <1>3 DEF WaitForLeaseDone, Rollback
<1>4. CASE WriteBMCConfig
  BY <1>4 DEF WriteBMCConfig
<1>5. CASE WriteBMCConfigErr
  BY <1>5 DEF WriteBMCConfigErr, Rollback
<1> QED
  BY <1>1, <1>2, <1>3, <1>4, <1>5 DEF WriteConfigs

\* bmcMan.stopAll, in Destroy.
LEMMA StopAllIInv == IInv /\ TypeOK' /\ StopAll => IInv'
<1> SUFFICES ASSUME IInv, TypeOK', StopAll PROVE IInv'
  OBVIOUS
<1>1. CASE VbmcStop
  BY <1>1 DEF VbmcStop
<1>2. CASE VbmcStopErr
  BY <1>2 DEF VbmcStopErr
<1>3. CASE VbmcDelete
  BY <1>3 DEF VbmcDelete
<1>4. CASE VbmcDeleteErr
  BY <1>4 DEF VbmcDeleteErr
<1> QED
  BY <1>1, <1>2, <1>3, <1>4 DEF StopAll

\* undefineDomains and deleteVolumes, in a failed Run and in Destroy.
LEMMA RemoveIInv == IInv /\ TypeOK' /\ Remove => IInv'
<1> SUFFICES ASSUME IInv, TypeOK', Remove PROVE IInv'
  OBVIOUS
<1>1. ASSUME NEW d \in Device, UndefineDomain(d) PROVE IInv'
  BY <1>1 DEF UndefineDomain, RemoveDom, Visit
<1>2. ASSUME NEW d \in Device, DeleteVolume(d) PROVE IInv'
  BY <1>2 DEF DeleteVolume, DeleteVol, Visit
<1>3. CASE UndefineDomainsDone
  BY <1>3 DEF UndefineDomainsDone, ReleaseDomains, Finished
<1>4. CASE DeleteVolumesDone
  BY <1>4 DEF DeleteVolumesDone, AfterDeleteVolumes, Finished, ReleaseBase
<1>5. CASE DeleteVolumesErr
  BY <1>5 DEF DeleteVolumesErr, Volumes, AfterDeleteVolumes, ReleaseBase
<1> QED
  BY <1>1, <1>2, <1>3, <1>4, <1>5 DEF Remove

\* The goroutines of customizeDomains.
LEMMA WorkerIInv == IInv /\ TypeOK' /\ (\E d \in Device : Worker(d)) => IInv'
<1> SUFFICES ASSUME IInv, TypeOK', (\E d \in Device : Worker(d)) PROVE IInv'
  OBVIOUS
<1>1. ASSUME NEW d \in Device, WorkerExec(d) PROVE IInv'
  BY <1>1 DEF WorkerExec
<1>2. ASSUME NEW d \in Device, WorkerOK(d) PROVE IInv'
  BY <1>2 DEF WorkerOK
<1>3. ASSUME NEW d \in Device, WorkerKilled(d) PROVE IInv'
  BY <1>3 DEF WorkerKilled, WorkerEnds, customizeCtxDone
<1>4. ASSUME NEW d \in Device, WorkerFails(d) PROVE IInv'
  BY <1>4 DEF WorkerFails, WorkerEnds
<1>5. ASSUME NEW d \in Device, WorkerPanic(d) PROVE IInv'
  BY <1>5 DEF WorkerPanic, Panic, FreshInstance, NoCall
<1> QED
  BY <1>1, <1>2, <1>3, <1>4, <1>5 DEF Worker

\* The client, signals, and the death of the process.
LEMMA ClientIInv == IInv /\ TypeOK' /\ Client => IInv'
<1> SUFFICES ASSUME IInv, TypeOK', Client PROVE IInv'
  OBVIOUS
<1>1. CASE NewRunner
  BY <1>1 DEF NewRunner, FreshInstance, NoCall
<1>2. CASE Call("run")
  BY <1>2 DEF Call
<1>3. CASE Call("destroy")
  BY <1>3 DEF Call
<1>4. CASE Return
  BY <1>4 DEF Return, NoCall
<1>5. CASE Cancel
  BY <1>5 DEF Cancel
<1>6. CASE Kill
  BY <1>6 DEF Kill, FreshInstance, NoCall
<1> QED
  BY <1>1, <1>2, <1>3, <1>4, <1>5, <1>6 DEF Client

\* Every step, and stuttering.
LEMMA NextIInv == IInv /\ [Next]_vars => IInv'
<1> SUFFICES ASSUME IInv, [Next]_vars PROVE IInv'
  OBVIOUS
<1>0. TypeOK'
  BY TypeStep, Zenon
<1>1. CASE Step
  BY <1>0, <1>1, SetupIInv, CreateVolumesIInv, DefineDomainsIInv,
     CustomizeDomainsIInv, StartDomainsIInv, StartAllIInv, WriteConfigsIInv,
     StopAllIInv, RemoveIInv, Zenon
  DEF Step
<1>2. CASE LeaseArrives
  BY <1>2 DEF LeaseArrives
<1>3. CASE WriteSSHConfigErr
  BY <1>3 DEF WriteSSHConfigErr, Rollback
<1>4. CASE UNCHANGED vars
  BY <1>4 DEF vars
<1> QED
  BY <1>0, <1>1, <1>2, <1>3, <1>4, ClientIInv, WorkerIInv, Zenon DEF Next

HIDE RunnerAssumption
DEF IInv, OpInv, OwnInv, StageInv, WorkerInv, RemovalInv, BmcInv,
    RollbackComplete, BmcRollback, RunSucceedsFully, DestroyNilClean, Up,
    TypeOK, VolState, DomState, BmcState, WorkerState, Returned, Resting,
    Working, Early, Acquiring, Defined, RunOnly, DestroyOnly,
    world, inst, made, stuck, Goto, Leave, Blame

----------------------------------------------------------------------------
(* The theorems.                                                           *)

\* The types of the variables, for every topology.
THEOREM TypeCorrect == Spec => []TypeOK
<1>1. Init => TypeOK
  BY InitIInv DEF IInv
<1> QED
  BY <1>1, TypeStep, PTL DEF Spec

\* The inductive invariant holds in every reachable state.
LEMMA Inductive == Spec => []IInv
  BY InitIInv, NextIInv, PTL DEF Spec

\* Whichever stage of Run fails, and whenever it is cancelled, the deferred
\* functions remove every volume and every domain that it made, except those
\* libvirtd refuses to remove.
THEOREM RollbackIsComplete == Spec => []RollbackComplete
<1>1. IInv => RollbackComplete
  BY DEF IInv
<1> QED
  BY <1>1, Inductive, PTL

\* A Run that fails and is not cancelled deletes every BMC it added, or, with
\* a configuration file at fault, leaves every one of them running.
THEOREM BmcRollbackIsComplete == Spec => []BmcRollback
<1>1. IInv => BmcRollback
  BY DEF IInv
<1> QED
  BY <1>1, Inductive, PTL

\* A Run that returns nil has brought up every device of the topology.
THEOREM RunIsComplete == Spec => []RunSucceedsFully
<1>1. IInv => RunSucceedsFully
  BY DEF IInv
<1> QED
  BY <1>1, Inductive, PTL

\* A Destroy that returns nil has left nothing that could be removed.
THEOREM DestroyIsClean == Spec => []DestroyNilClean
<1>1. IInv => DestroyNilClean
  BY DEF IInv
<1> QED
  BY <1>1, Inductive, PTL

\* virt-customize has the disk of a shut-off domain to itself.
THEOREM CustomizeIsExclusive == Spec => []CustomizeExclusive
<1>1. IInv => CustomizeExclusive
  BY DEF IInv, TypeOK, OpInv, OwnInv, StageInv, WorkerInv, Defined,
         CustomizeExclusive
<1> QED
  BY <1>1, Inductive, PTL

\* Every step of a Run leaves alone what the Run has not made.
LEMMA ForeignStep == IInv /\ [Next]_vars => [ForeignUntouched]_vars
<1> SUFFICES ASSUME IInv, Next PROVE ForeignUntouched
  OBVIOUS
<1> USE RunnerAssumption DEF IInv, TypeOK, OpInv, OwnInv, RemovalInv,
    WorkerInv, Early, Acquiring, Defined, RunOnly, DestroyOnly, world,
    ForeignUntouched
<1>1. CASE Setup
  BY <1>1 DEF Setup, BuildInventory, BuildInventoryErr, BuildInventoryPanic,
      Connect, ConnectErr, DownloadBaseImages, DownloadBaseImagesErr
<1>2. CASE CreateVolumes
  <2>1. ASSUME NEW d \in Device, CreateVolume(d) \/ CreateVolumeErr(d)
        PROVE  ForeignUntouched
    BY <2>1 DEF CreateVolume, CreateVolumeErr, Visit
  <2>2. ASSUME NEW d \in Device, UncreateVolume(d) PROVE ForeignUntouched
    BY <2>2 DEF UncreateVolume, DeleteVol, Visit
  <2>3. CASE CreateVolumesDone \/ UncreateDone
    BY <2>3 DEF CreateVolumesDone, UncreateDone
  <2> QED
    BY <1>2, <2>1, <2>2, <2>3 DEF CreateVolumes
<1>3. CASE DefineDomains
  BY <1>3 DEF DefineDomains, DefineDomain, DefineIntoNilMap, DefineDomainErr,
      UndefineDefined, DefineDomainsDone, UndefineDefinedDone, RemoveDom, Visit
<1>4. CASE CustomizeDomains
  BY <1>4 DEF CustomizeDomains, Spawn, SpawnPanic, Collect, SpawnDone,
      CustomizeDomainsDone
<1>5. CASE StartDomains
  BY <1>5 DEF StartDomains, StartDomain, StartDomainErr, StopStarted,
      StartDomainsDone, StopStartedDone, Visit, NextToStart
<1>6. CASE StartAll
  BY <1>6 DEF StartAll, VbmcAdd, VbmcAddErr, VbmcStart, VbmcStartErr,
      VbmcCleanup, Visit
<1>7. CASE WriteConfigs
  BY <1>7 DEF WriteConfigs, WriteSSHConfig, WaitForLeasePanic,
      WaitForLeaseDone, WriteBMCConfig, WriteBMCConfigErr
<1>8. CASE StopAll
  BY <1>8 DEF StopAll, VbmcStop, VbmcStopErr, VbmcDelete, VbmcDeleteErr
<1>9. CASE Remove
  BY <1>9 DEF Remove, UndefineDomain, DeleteVolume, UndefineDomainsDone,
      DeleteVolumesDone, DeleteVolumesErr, RemoveDom, DeleteVol, Visit
<1>10. ASSUME NEW d \in Device, Worker(d) PROVE ForeignUntouched
  <2>1. worker[d] # "none"
    BY <1>10 DEF Worker, WorkerExec, WorkerPanic, WorkerOK, WorkerKilled,
                 WorkerFails, WorkerEnds
  <2>2. created = Device
    BY <2>1
  <2> QED
    BY <1>10, <2>2 DEF Worker, WorkerExec, WorkerPanic, WorkerOK,
                       WorkerKilled, WorkerFails, WorkerEnds
<1>11. CASE Client
  BY <1>11 DEF Client, NewRunner, Call, Return, Cancel, Kill
<1>12. CASE LeaseArrives \/ WriteSSHConfigErr
  BY <1>12 DEF LeaseArrives, WriteSSHConfigErr
<1> QED
  BY <1>1, <1>2, <1>3, <1>4, <1>5, <1>6, <1>7, <1>8, <1>9, <1>10, <1>11, <1>12,
     Zenon DEF Next, Step

\* A Run changes no volume, domain or BMC that it has not made, although its
\* deferred functions find them by name.
THEOREM RunKeepsForeign == Spec => NoForeignChange
  BY Inductive, ForeignStep, PTL DEF Spec, NoForeignChange

\* startDomains is the only code that starts a domain; by then every disk is
\* ready, and the domains it has passed over are running.
LEMMA BootStep == IInv /\ [Next]_vars => [SmallerFirst /\ AllReady]_vars
<1> SUFFICES ASSUME IInv, Next PROVE SmallerFirst /\ AllReady
  OBVIOUS
<1> DEFINE NoBoot == \A e \in Device : ~Boots(e)
<1>1. ASSUME NEW d \in Device, StartDomain(d) PROVE SmallerFirst /\ AllReady
  <2>1. \A e \in Device : Boots(e) => e = d
    BY <1>1 DEF StartDomain, Boots, IInv, TypeOK
  <2>2. ASSUME NEW e \in Imaged, Function[e] < Function[d] PROVE e \notin todo
    <3>1. Function[e] \in Nat /\ Function[d] \in Nat
      BY RunnerAssumption DEF OOBServer, NoFunction
    <3>2. e \in todo => Function[d] <= Function[e]
      BY <1>1 DEF StartDomain, NextToStart
    <3> QED
      BY <2>2, <3>1, <3>2
  <2>3. \A e \in Imaged \ todo : dom[e] = "running"
    BY <1>1 DEF StartDomain, Visit, IInv, StageInv
  <2>4. \A e \in Imaged : vol[e] = "ready"
    BY <1>1 DEF StartDomain, Visit, IInv, StageInv
  <2> QED
    BY <2>1, <2>2, <2>3, <2>4 DEF SmallerFirst, AllReady
<1>2. ASSUME NEW d \in Device, StartDomainErr(d) \/ StopStarted(d) PROVE NoBoot
  BY <1>2 DEF StartDomainErr, StopStarted, Boots, world, IInv, TypeOK
<1>3. CASE StartDomainsDone \/ StopStartedDone
  <2>1. NoBoot
    BY <1>3 DEF StartDomainsDone, StopStartedDone, Boots, world
  <2> QED
    BY <2>1 DEF SmallerFirst, AllReady
<1>4. CASE Setup \/ StartAll \/ WriteConfigs \/ StopAll
  <2>1. UNCHANGED dom
    BY <1>4 DEF Setup, BuildInventory, BuildInventoryErr,
       BuildInventoryPanic, Connect, ConnectErr, DownloadBaseImages, DownloadBaseImagesErr, StartAll, VbmcAdd,
       VbmcAddErr, VbmcStart, VbmcStartErr, VbmcCleanup, WriteConfigs,
       WriteSSHConfig, WaitForLeasePanic, WaitForLeaseDone, WriteBMCConfig,
       WriteBMCConfigErr, StopAll, VbmcStop, VbmcStopErr, VbmcDelete,
       VbmcDeleteErr, world
  <2> QED
    BY <2>1 DEF SmallerFirst, AllReady, Boots
<1>5. CASE CreateVolumes \/ CustomizeDomains \/ Client \/ LeaseArrives
           \/ WriteSSHConfigErr \/ \E d \in Device : Worker(d)
  <2>1. UNCHANGED dom
    BY <1>5 DEF CreateVolumes, CreateVolume, CreateVolumeErr, UncreateVolume,
       CreateVolumesDone, UncreateDone, CustomizeDomains, Spawn, SpawnPanic,
       Collect, SpawnDone, CustomizeDomainsDone, Client, NewRunner, Call,
       Return, Cancel, Kill, LeaseArrives, WriteSSHConfigErr, Worker,
       WorkerExec, WorkerPanic, WorkerOK, WorkerKilled, WorkerFails,
       WorkerEnds, world
  <2> QED
    BY <2>1 DEF SmallerFirst, AllReady, Boots
<1>6. CASE DefineDomains
  <2>1. NoBoot
    BY <1>6 DEF DefineDomains, DefineDomain, DefineIntoNilMap,
       DefineDomainErr, UndefineDefined, DefineDomainsDone,
       UndefineDefinedDone, RemoveDom, Boots, world, IInv, TypeOK
  <2> QED
    BY <2>1 DEF SmallerFirst, AllReady
<1>7. CASE Remove
  <2>1. NoBoot
    BY <1>7 DEF Remove, UndefineDomain, DeleteVolume, UndefineDomainsDone,
       DeleteVolumesDone, DeleteVolumesErr, RemoveDom, Boots, world, IInv,
       TypeOK
  <2> QED
    BY <2>1 DEF SmallerFirst, AllReady
<1>8. CASE StartDomains
  <2>1. NoBoot => SmallerFirst /\ AllReady
    BY DEF SmallerFirst, AllReady
  <2> QED
    BY <1>1, <1>2, <1>3, <1>8, <2>1 DEF StartDomains
<1> QED
  BY <1>4, <1>5, <1>6, <1>7, <1>8, Zenon DEF Next, Step

\* startDomains starts the devices in the order of their functions.
THEOREM BootsInOrder == Spec => StartupOrder
  BY Inductive, BootStep, PTL DEF Spec, StartupOrder

\* No domain boots from a disk, or next to one, that is not customised.
THEOREM BootsFromReadyDisks == Spec => BootsCustomised
  BY Inductive, BootStep, PTL DEF Spec, BootsCustomised

----------------------------------------------------------------------------
(* A Destroy that nothing disturbs.                                        *)

\* As long as no call fails without a reason and the context is not cancelled,
\* Destroy has met nothing that refuses to go; what ends it early is a BMC.
QuietInv ==
  op = "destroy" /\ ~ctxDone /\ ~fault =>
    stuckVol = {} /\ stuckDom = {} /\ (err => bmcAll # {})

\* Every step keeps this.  Only the steps of Destroy and those of the client
\* matter: at the labels and in the goroutines of Run, op is "run".
LEMMA QuietInvStep == IInv /\ QuietInv /\ [Next]_vars => QuietInv'
<1> SUFFICES ASSUME IInv, QuietInv, [Next]_vars PROVE QuietInv'
  OBVIOUS
<1> USE DEF QuietInv, IInv, TypeOK, OpInv, Resting, Working, Early, Acquiring,
            Defined, RunOnly, DestroyOnly, world, inst, made, stuck, Goto,
            Leave, Blame
<1>1. CASE Setup
  <2>1. CASE BuildInventory \/ Connect
    BY <2>1 DEF BuildInventory, Connect
  <2>2. CASE BuildInventoryErr
    <3>1. fault' \/ bmcAll' # {}
      BY <2>2 DEF BuildInventoryErr
    <3> QED
      BY <2>2, <3>1 DEF BuildInventoryErr
  <2>3. CASE ConnectErr
    BY <2>3 DEF ConnectErr
  <2>4. CASE DownloadBaseImages \/ DownloadBaseImagesErr
    <3>1. op' = "run"
      BY <2>4 DEF DownloadBaseImages, DownloadBaseImagesErr
    <3> QED
      BY <3>1
  <2>5. CASE BuildInventoryPanic
    <3>1. op' = "none"
      BY <2>5 DEF BuildInventoryPanic, Panic, NoCall
    <3> QED
      BY <3>1
  <2> QED
    BY <1>1, <2>1, <2>2, <2>3, <2>4, <2>5 DEF Setup
<1>2. CASE CreateVolumes
  <2>1. op = "run" /\ op' = "run"
    BY <1>2 DEF CreateVolumes, CreateVolume, CreateVolumeErr, UncreateVolume,
       CreateVolumesDone, UncreateDone, Visit, Finished
  <2> QED
    BY <2>1
<1>3. CASE DefineDomains
  <2>1. op' \in {"run", "none"}
    BY <1>3 DEF DefineDomains, DefineDomain, DefineIntoNilMap,
       DefineDomainErr, UndefineDefined, DefineDomainsDone,
       UndefineDefinedDone, Visit, Finished, Panic, NoCall
  <2> QED
    BY <2>1
<1>4. CASE CustomizeDomains
  <2>1. op' \in {"run", "none"}
    BY <1>4 DEF CustomizeDomains, Spawn, SpawnPanic, Collect, SpawnDone,
       CustomizeDomainsDone, Visit, Finished, Panic, NoCall
  <2> QED
    BY <2>1
<1>5. CASE StartDomains
  <2>1. op' = "run"
    BY <1>5 DEF StartDomains, StartDomain, StartDomainErr, StopStarted,
       StartDomainsDone, StopStartedDone, Visit, Finished
  <2> QED
    BY <2>1
<1>6. CASE StartAll
  <2>1. op' = "run"
    BY <1>6 DEF StartAll, VbmcAdd, VbmcAddErr, VbmcStart, VbmcStartErr,
       VbmcCleanup, Visit, Finished
  <2> QED
    BY <2>1
<1>7. CASE WriteConfigs \/ LeaseArrives \/ WriteSSHConfigErr
  <2>1. op' \in {"run", "none"}
    BY <1>7 DEF WriteConfigs, WriteSSHConfig, WaitForLeasePanic,
       WaitForLeaseDone, WriteBMCConfig, WriteBMCConfigErr, LeaseArrives,
       WriteSSHConfigErr, Panic, NoCall
  <2> QED
    BY <2>1
<1>8. CASE StopAll
  BY <1>8 DEF StopAll, VbmcStop, VbmcStopErr, VbmcDelete, VbmcDeleteErr
<1>9. CASE Remove
  <2>1. ASSUME NEW d \in Device, UndefineDomain(d) PROVE QuietInv'
    BY <2>1 DEF UndefineDomain, RemoveDom
  <2>2. ASSUME NEW d \in Device, DeleteVolume(d) PROVE QuietInv'
    BY <2>2 DEF DeleteVolume, DeleteVol
  <2>3. CASE UndefineDomainsDone
    BY <2>3 DEF UndefineDomainsDone, ReleaseDomains
  <2>4. CASE DeleteVolumesDone
    BY <2>4 DEF DeleteVolumesDone, AfterDeleteVolumes
  <2>5. CASE DeleteVolumesErr
    BY <2>5 DEF DeleteVolumesErr
  <2> QED
    BY <1>9, <2>1, <2>2, <2>3, <2>4, <2>5 DEF Remove
<1>10. ASSUME NEW d \in Device, Worker(d) PROVE QuietInv'
  <2>1. worker[d] # "none"
    BY <1>10 DEF Worker, WorkerExec, WorkerPanic, WorkerOK, WorkerKilled,
                 WorkerFails, WorkerEnds
  <2>2. op = "run"
    BY <2>1
  <2>3. op' \in {"run", "none"}
    BY <1>10, <2>2 DEF Worker, WorkerExec, WorkerPanic, WorkerOK,
       WorkerKilled, WorkerFails, WorkerEnds, Panic, NoCall
  <2> QED
    BY <2>3
<1>11. CASE Client
  BY <1>11 DEF Client, NewRunner, Call, Return, Cancel, Kill, NoCall
<1>12. CASE UNCHANGED vars
  BY <1>12 DEF vars
<1> QED
  BY <1>1, <1>2, <1>3, <1>4, <1>5, <1>6, <1>7, <1>8, <1>9, <1>10, <1>11, <1>12,
     Zenon DEF Next, Step

\* In a topology without BMCs nothing ends such a Destroy early.
LEMMA QuietComplete == IInv /\ QuietInv => (BMC = {} => DestroyComplete)
<1> SUFFICES ASSUME IInv, QuietInv, BMC = {}, Returned("destroy"), ~ctxDone,
                    ~fault
             PROVE  Volumes = {} /\ Domains = {}
  BY DEF DestroyComplete
<1>1. stuckVol = {} /\ stuckDom = {} /\ ~err
  BY DEF QuietInv, Returned, IInv, TypeOK
<1> QED
  BY <1>1 DEF IInv, DestroyNilClean, Volumes, Domains

\* Whatever failed, cancelled, killed or panicking calls came before it, a
\* Destroy that nothing disturbs removes every volume and every domain of a
\* topology without BMCs.  With BMCs it need not: vbmc stop fails if vbmc does
\* not know one of them, and Destroy returns before it removes anything.
THEOREM DestroyIsComplete == Spec => [](BMC = {} => DestroyComplete)
<1>1. Init => QuietInv
  BY DEF Init, QuietInv
<1> QED
  BY <1>1, Inductive, QuietInvStep, QuietComplete, PTL DEF Spec

\* In particular it does not leave such a topology up as it found it, on the
\* Runner that brought it up as on any other.
THEOREM DestroyUndoesRun == Spec => [](BMC = {} => DestroyAfterRun)
<1>1. DestroyComplete => DestroyAfterRun
  BY DEF DestroyComplete, DestroyAfterRun, Volumes, Up
<1> QED
  BY <1>1, DestroyIsComplete, PTL

----------------------------------------------------------------------------
(* Panics.                                                                 *)

\* The labels of a call that buildInventory has let through, up to the point
\* where Run fills r.domains.
LetThrough == {"connect", "download", "createVolumes", "defineDomains"}

\* r.domains has what defineDomains has defined; it is nil only after a call
\* that got past buildInventory, which then let no other call through unless
\* there are no BMCs.
MapInv ==
  /\ pc \in Defined \union {"defineDomains"} => defined \subseteq domains
  /\ nilDomains => bmcAll = BMC
  /\ nilDomains /\ pc \in LetThrough => BMC = {}

\* The steps that neither touch the Runner nor enter a stage keep this.
LEMMA MapSame ==
  ASSUME MapInv, UNCHANGED <<domains, nilDomains, bmcAll, defined>>,
         pc' \in LetThrough => pc \in LetThrough,
         pc' \in Defined \union {"defineDomains"} =>
           pc \in Defined \union {"defineDomains"} \/ defined = {}
  PROVE  MapInv'
  BY DEF MapInv

\* The steps that make a new Runner, or leave none, establish it.
LEMMA MapFresh ==
  ASSUME FreshInstance, pc' \in Resting
  PROVE  MapInv'
<1>1. pc' \notin Defined \union {"defineDomains"}
  BY DEF Defined, Resting
<1> QED
  BY <1>1 DEF FreshInstance, MapInv

\* Every step keeps it.
LEMMA MapStep == IInv /\ MapInv /\ [Next]_vars => MapInv'
<1> SUFFICES ASSUME IInv, MapInv, [Next]_vars PROVE MapInv'
  OBVIOUS
<1> USE DEF LetThrough, Defined, Goto, Leave, inst, made
<1>1. CASE Setup
  <2>1. CASE BuildInventory
    <3>1. nilDomains => BMC = {}
      BY <2>1 DEF BuildInventory, MapInv
    <3>2. bmcAll = BMC => bmcAll' = BMC
      BY <2>1 DEF BuildInventory
    <3> QED
      BY <2>1, <3>1, <3>2 DEF BuildInventory, MapInv
  <2>2. CASE BuildInventoryErr
    <3>1. bmcAll = BMC => bmcAll' = BMC
      BY <2>2 DEF BuildInventoryErr
    <3> QED
      BY <2>2, <3>1 DEF BuildInventoryErr, MapInv
  <2>3. CASE Connect \/ ConnectErr
    <3>1. /\ UNCHANGED <<domains, nilDomains, bmcAll, defined>>
          /\ pc = "connect" /\ pc' \in {"download", "stopAll", "returned"}
      BY <2>3 DEF Connect, ConnectErr
    <3> QED
      BY <3>1, MapSame
  <2>4. CASE DownloadBaseImages \/ DownloadBaseImagesErr
    BY <2>4 DEF DownloadBaseImages, DownloadBaseImagesErr, MapInv
  <2>5. CASE BuildInventoryPanic
    BY <2>5, MapFresh DEF BuildInventoryPanic, Panic, Resting
  <2> QED
    BY <1>1, <2>1, <2>2, <2>3, <2>4, <2>5 DEF Setup
<1>2. CASE CreateVolumes
  <2>1. /\ UNCHANGED <<domains, nilDomains, bmcAll, defined>>
        /\ pc \in {"createVolumes", "uncreate"}
        /\ pc' \in {"createVolumes", "uncreate", "defineDomains", "returned"}
        /\ pc = "uncreate" => pc' \in {"uncreate", "returned"}
    BY <1>2 DEF CreateVolumes, CreateVolume, CreateVolumeErr, UncreateVolume,
       CreateVolumesDone, UncreateDone, ReleaseBase, Visit, Finished
  <2>2. defined = {}
    BY <2>1 DEF IInv, OpInv
  <2> QED
    BY <2>1, <2>2, MapSame
<1>3. CASE DefineDomains
  <2>1. ASSUME NEW d \in Device, DefineDomain(d) PROVE MapInv'
    BY <2>1 DEF DefineDomain, Visit, MapInv
  <2>2. ASSUME NEW d \in Device, DefineIntoNilMap(d) PROVE MapInv'
    BY <2>2, MapFresh DEF DefineIntoNilMap, Panic, Resting
  <2>3. ASSUME NEW d \in Device, DefineDomainErr(d) \/ UndefineDefined(d)
        PROVE  MapInv'
    BY <2>3, MapSame DEF DefineDomainErr, UndefineDefined, Visit
  <2>4. CASE DefineDomainsDone
    BY <2>4, MapSame DEF DefineDomainsDone, Finished
  <2>5. CASE UndefineDefinedDone
    BY <2>5 DEF UndefineDefinedDone, ReleaseDomains, Finished, MapInv, IInv,
       OpInv, Working
  <2> QED
    BY <1>3, <2>1, <2>2, <2>3, <2>4, <2>5 DEF DefineDomains
<1>4. CASE CustomizeDomains
  <2>1. ASSUME NEW d \in Device, SpawnPanic(d) PROVE MapInv'
    BY <2>1, MapFresh DEF SpawnPanic, Panic, Resting
  <2>2. ASSUME NEW d \in Device, Spawn(d) \/ Collect(d) PROVE MapInv'
    BY <2>2, MapSame DEF Spawn, Collect, Visit
  <2>3. CASE SpawnDone \/ CustomizeDomainsDone
    BY <2>3, MapSame DEF SpawnDone, CustomizeDomainsDone, Rollback, Finished
  <2> QED
    BY <1>4, <2>1, <2>2, <2>3 DEF CustomizeDomains
<1>5. CASE StartDomains \/ StartAll
  BY <1>5, MapSame DEF StartDomains, StartDomain, StartDomainErr, StopStarted,
     StartDomainsDone, StopStartedDone, Rollback, StartAll, VbmcAdd,
     VbmcAddErr, VbmcStart, VbmcStartErr, VbmcCleanup, Visit, Finished
<1>6. CASE WriteConfigs \/ LeaseArrives \/ WriteSSHConfigErr
  <2>1. CASE WaitForLeasePanic
    BY <2>1, MapFresh DEF WaitForLeasePanic, Panic, Resting
  <2>2. CASE WriteSSHConfig \/ WaitForLeaseDone \/ WriteBMCConfig
             \/ WriteBMCConfigErr \/ LeaseArrives \/ WriteSSHConfigErr
    BY <2>2, MapSame DEF WriteSSHConfig, WaitForLeaseDone, WriteBMCConfig,
       WriteBMCConfigErr, LeaseArrives, WriteSSHConfigErr, Rollback
  <2> QED
    BY <1>6, <2>1, <2>2 DEF WriteConfigs
<1>7. CASE StopAll
  BY <1>7, MapSame DEF StopAll, VbmcStop, VbmcStopErr, VbmcDelete,
     VbmcDeleteErr
<1>8. CASE Remove
  <2>1. CASE UndefineDomainsDone
    BY <2>1 DEF UndefineDomainsDone, ReleaseDomains, Finished, MapInv, IInv,
       OpInv, Working
  <2>2. CASE DeleteVolumesDone \/ DeleteVolumesErr
    BY <2>2, MapSame DEF DeleteVolumesDone, DeleteVolumesErr,
       AfterDeleteVolumes, ReleaseBase, Finished
  <2>3. ASSUME NEW d \in Device, UndefineDomain(d) \/ DeleteVolume(d)
        PROVE  MapInv'
    BY <2>3, MapSame DEF UndefineDomain, DeleteVolume, Visit
  <2> QED
    BY <1>8, <2>1, <2>2, <2>3 DEF Remove
<1>9. ASSUME NEW d \in Device, Worker(d) PROVE MapInv'
  <2>1. CASE WorkerPanic(d)
    BY <2>1, MapFresh DEF WorkerPanic, Panic, Resting
  <2>2. CASE WorkerExec(d) \/ WorkerOK(d) \/ WorkerKilled(d) \/ WorkerFails(d)
    BY <2>2, MapSame DEF WorkerExec, WorkerOK, WorkerKilled, WorkerFails,
       WorkerEnds
  <2> QED
    BY <1>9, <2>1, <2>2 DEF Worker
<1>10. CASE Client
  <2>1. CASE NewRunner \/ Kill
    BY <2>1, MapFresh DEF NewRunner, Kill, Resting
  <2>2. CASE Call("run") \/ Call("destroy") \/ Return \/ Cancel
    BY <2>2 DEF Call, Return, Cancel, MapInv, Resting
  <2> QED
    BY <1>10, <2>1, <2>2 DEF Client
<1>11. CASE UNCHANGED vars
  BY <1>11 DEF vars, MapInv
<1> QED
  BY <1>1, <1>2, <1>3, <1>4, <1>5, <1>6, <1>7, <1>8, <1>9, <1>10, <1>11,
     Zenon DEF Next, Step

\* Of the steps that are no panic none leads to the state after one.
LEMMA NoPanicStep ==
  ASSUME Next, pc # "panicked", pc' = "panicked"
  PROVE  \/ BuildInventoryPanic \/ WaitForLeasePanic
         \/ \E d \in Device : SpawnPanic(d) \/ WorkerPanic(d)
                              \/ DefineIntoNilMap(d)
<1> USE DEF Goto, Leave, Rollback, Visit, Finished
<1>1. ~CreateVolumes /\ ~StopAll /\ (Setup => BuildInventoryPanic)
  BY DEF Setup, BuildInventory, BuildInventoryErr, Connect, ConnectErr,
     DownloadBaseImages, DownloadBaseImagesErr, CreateVolumes, CreateVolume,
     CreateVolumeErr, UncreateVolume, CreateVolumesDone, UncreateDone,
     StopAll, VbmcStop, VbmcStopErr, VbmcDelete, VbmcDeleteErr
<1>2. ~StartDomains /\ ~StartAll
  BY DEF StartDomains, StartDomain, StartDomainErr, StopStarted,
     StartDomainsDone, StopStartedDone, StartAll, VbmcAdd, VbmcAddErr,
     VbmcStart, VbmcStartErr, VbmcCleanup
<1>3. CustomizeDomains => \E d \in Device : SpawnPanic(d)
  BY DEF CustomizeDomains, Spawn, Collect, SpawnDone, CustomizeDomainsDone
<1>4. /\ WriteConfigs => WaitForLeasePanic
      /\ ~LeaseArrives /\ ~WriteSSHConfigErr
  BY DEF WriteConfigs, WriteSSHConfig, WaitForLeaseDone, WriteBMCConfig,
     WriteBMCConfigErr, LeaseArrives, WriteSSHConfigErr
<1>5. ~Remove
  BY DEF Remove, UndefineDomain, DeleteVolume, UndefineDomainsDone,
     DeleteVolumesDone, DeleteVolumesErr, AfterDeleteVolumes
<1>6. \A d \in Device : Worker(d) => WorkerPanic(d)
  BY DEF Worker, WorkerExec, WorkerOK, WorkerKilled, WorkerFails, WorkerEnds
<1>7. ~Client
  BY DEF Client, NewRunner, Call, Return, Cancel, Kill
<1>8. DefineDomains => \E d \in Device : DefineIntoNilMap(d)
  BY DEF DefineDomains, DefineDomain, DefineDomainErr, UndefineDefined,
     DefineDomainsDone, UndefineDefinedDone
<1> QED
  BY <1>1, <1>2, <1>3, <1>4, <1>5, <1>6, <1>7, <1>8, Zenon DEF Next, Step

\* When waitForLease is called every device is in r.domains, goroutines exist
\* in customizeDomains of a Run only, and r.domains is nil in defineDomains
\* only if there are no BMCs.
LEMMA PanicStep == IInv /\ MapInv /\ [Next]_vars => [PanicExplained]_vars
<1> SUFFICES ASSUME IInv, MapInv, Next, pc # "panicked", pc' = "panicked"
             PROVE  PanicExplained
  BY DEF PanicExplained
<1>1. CASE BuildInventoryPanic
  BY <1>1 DEF BuildInventoryPanic, PanicExplained, IInv, OpInv, Early
<1>2. CASE WaitForLeasePanic
  <2>1. Device \subseteq domains
    BY <1>2 DEF WaitForLeasePanic, MapInv, IInv, OwnInv, Defined
  <2> QED
    BY <1>2, <2>1 DEF WaitForLeasePanic, PanicExplained
<1>3. ASSUME NEW d \in Device, SpawnPanic(d) PROVE PanicExplained
  BY <1>3 DEF SpawnPanic, PanicExplained
<1>4. ASSUME NEW d \in Device, WorkerPanic(d) PROVE PanicExplained
  <2>1. pc \in {"spawn", "collect"}
    BY <1>4 DEF WorkerPanic, IInv, OpInv
  <2>2. op = "run"
    BY <2>1 DEF IInv, OpInv, RunOnly, Acquiring
  <2> QED
    BY <1>4, <2>1, <2>2 DEF WorkerPanic, PanicExplained
<1>5. ASSUME NEW d \in Device, DefineIntoNilMap(d) PROVE PanicExplained
  BY <1>5 DEF DefineIntoNilMap, MapInv, LetThrough, PanicExplained
<1> QED
  BY <1>1, <1>2, <1>3, <1>4, <1>5, NoPanicStep

\* Run and Destroy panic for a fault of the topology, in the function that the
\* fault concerns, or on a Runner of a topology without BMCs that an earlier
\* call left without r.domains; for no other reason and nowhere else.
THEOREM PanicsAreExplained == Spec => PanicsExplained
<1>1. Init => MapInv
  BY DEF Init, MapInv, Defined
<1> QED
  BY <1>1, Inductive, MapStep, PanicStep, PTL DEF Spec, PanicsExplained

=============================================================================
