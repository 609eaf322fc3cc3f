------------------------------- MODULE Runner -------------------------------
(***************************************************************************)
(* The life cycle of a libvirt Runner (runner/libvirt/runner.go, vbmc.go): *)
(* Run and Destroy on one topology, against libvirtd and the vbmc daemon.  *)
(* Run acquires resources in stages (volumes, domains, customised disks,   *)
(* running domains, virtual BMCs); each stage undoes its own work when it  *)
(* fails and the deferred functions of Run undo the finished stages.  Each *)
(* call to libvirtd, vbmc or virt-customize is one step, so that a         *)
(* cancelled context, a failing call or the death of the process can fall  *)
(* between any two of them.                                                *)
(*                                                                         *)
(*   vol, dom, vbmc      the volumes, domains and BMCs named after the     *)
(*                       devices, as libvirtd and vbmcd know them          *)
(*   conn, baseImages    r.conn and r.baseImages are not nil               *)
(*   domains, nilDomains the keys of r.domains; r.domains is the nil map   *)
(*   bmcAll              the keys of r.bmcMan.all                          *)
(*   op, pc, todo, err   the method running, where it is, the devices its  *)
(*                       current range loop has left, its named result err *)
(*   ctxDone             the context of the call is cancelled              *)
(*   worker              the goroutines of customizeDomains                *)
(*   lease               libvirtd lists a lease of the management server   *)
(*   created, defined,   the slices of the same names, kept until the call *)
(*   started, added      returns                                           *)
(*   stuckVol, stuckDom, history: the resources whose removal was tried in *)
(*   stuckBmc            this call and refused                             *)
(*   fault               history: a call failed in this call for no reason *)
(*                       the model knows                                   *)
(***************************************************************************)
EXTENDS Naturals

CONSTANTS
  Device,    \* the devices of the topology that are not fake (r.devices)
  Imaged,    \* those with OSImage() # ""
  BMC,       \* those with the bmc attribute
  Overflow,  \* a MAC address or the number of an interface may be too large
  Isolated,  \* a topology may have a device without an interface
  Unprefixed, \* a management server's mgmt_ip may be no prefix
  Function,  \* Function() of each device
  Server,    \* the device name oob-mgmt-server
  WriteSSH,  \* r.sshConfigOut # nil
  WriteBMC   \* r.bmcConfigOut # nil

\* The first values of DeviceFunction; fake nodes are not in Device.
OOBServer == 1
NoFunction == 9

ASSUME RunnerAssumption ==
  /\ Imaged \subseteq Device
  /\ BMC \subseteq Device
  /\ Overflow \in BOOLEAN
  /\ Isolated \in BOOLEAN
  /\ Unprefixed \in BOOLEAN
  /\ Function \in [Device -> OOBServer..NoFunction]
  /\ WriteSSH \in BOOLEAN
  /\ WriteBMC \in BOOLEAN

VARIABLES vol, dom, vbmc, conn, baseImages, domains, nilDomains, bmcAll,
          op, pc, todo, err, ctxDone, worker, lease,
          created, defined, started, added,
          stuckVol, stuckDom, stuckBmc, fault

world == <<vol, dom, vbmc>>
inst == <<conn, baseImages, domains, nilDomains, bmcAll>>
made == <<created, defined, started, added>>
stuck == <<stuckVol, stuckDom, stuckBmc>>
vars == <<vol, dom, vbmc, conn, baseImages, domains, nilDomains, bmcAll,
          op, pc, todo, err, ctxDone, worker, lease,
          created, defined, started, added,
          stuckVol, stuckDom, stuckBmc, fault>>

----------------------------------------------------------------------------
(* States of the parts.                                                    *)

VolState == {"none", "fresh", "dirty", "ready"}
DomState == {"none", "shutoff", "running"}
BmcState == {"none", "stopped", "running"}
WorkerState == {"none", "spawned", "running", "ok", "fail"}

\* No call in progress: between calls, and when there is no process.
Resting == {"dead", "panicked", "idle"}

\* Where the code of Run and Destroy can be.
Working == {"buildInventory", "connect", "download", "createVolumes",
            "uncreate", "defineDomains", "undefine", "spawn", "collect",
            "startDomains", "vbmcAdd", "vbmcCleanup",
            "stopStarted", "writeSSHConfig", "writeBMCConfig",
            "undefineDomains", "deleteVolumes", "stopAll", "deleteAll"}

Volumes == {d \in Device : vol[d] # "none"}
Domains == {d \in Device : dom[d] # "none"}

\* Mutant: the goroutines get a context that does not derive from ctx.
customizeCtxDone_Detached == pc = "collect" /\ err

\* The context that virt-customize runs under: cancelled by the caller, or
\* by customizeDomains itself after the first error it received.
customizeCtxDone == ctxDone \/ (pc = "collect" /\ err)

----------------------------------------------------------------------------
(* The client: main, or a program that uses the package.                   *)

FreshInstance ==
  /\ conn' = FALSE
  /\ baseImages' = FALSE
  /\ domains' = {}
  /\ nilDomains' = FALSE
  /\ bmcAll' = {}

NoCall ==
  /\ op' = "none"
  /\ todo' = {}
  /\ err' = FALSE
  /\ ctxDone' = FALSE
  /\ worker' = [d \in Device |-> "none"]
  /\ lease' = FALSE
  /\ fault' = FALSE
  /\ created' = {} /\ defined' = {} /\ started' = {} /\ added' = {}
  /\ stuckVol' = {} /\ stuckDom' = {} /\ stuckBmc' = {}

Init ==
  /\ vol = [d \in Device |-> "none"]
  /\ dom = [d \in Device |-> "none"]
  /\ vbmc = [d \in Device |-> "none"]
  /\ conn = FALSE /\ baseImages = FALSE
  /\ domains = {} /\ nilDomains = FALSE /\ bmcAll = {}
  /\ op = "none" /\ pc = "dead" /\ todo = {} /\ err = FALSE
  /\ ctxDone = FALSE /\ lease = FALSE /\ fault = FALSE
  /\ worker = [d \in Device |-> "none"]
  /\ created = {} /\ defined = {} /\ started = {} /\ added = {}
  /\ stuckVol = {} /\ stuckDom = {} /\ stuckBmc = {}

\* A new process, or a new Runner in the same one.
NewRunner ==
  /\ pc \in Resting
  /\ pc' = "idle"
  /\ FreshInstance
  /\ NoCall
  /\ UNCHANGED world

Call(method) ==
  /\ pc = "idle"
  /\ op' = method
  /\ pc' = "buildInventory"
  /\ UNCHANGED <<world, inst, made, stuck, todo, err, ctxDone, worker, lease,
                 fault>>

\* Run or Destroy hands its result to the caller.
Return ==
  /\ pc = "returned"
  /\ pc' = "idle"
  /\ NoCall
  /\ UNCHANGED <<world, inst>>

\* SIGINT or SIGTERM: signal.NotifyContext cancels the context.
Cancel ==
  /\ pc \in Working
  /\ ~ctxDone
  /\ ctxDone' = TRUE
  /\ UNCHANGED <<world, inst, made, stuck, op, pc, todo, err, worker, lease,
                 fault>>

\* The process dies, with the commands it started; libvirtd and vbmcd keep
\* what they have.
Kill ==
  /\ pc \in Working
  /\ pc' = "dead"
  /\ FreshInstance
  /\ NoCall
  /\ UNCHANGED world

\* A panic: the deferred functions run, but err is still nil and they undo
\* nothing.
Panic ==
  /\ pc' = "panicked"
  /\ FreshInstance
  /\ NoCall

----------------------------------------------------------------------------
(* Control flow shared by the stages.                                      *)

\* Continue at label l with a loop over the devices in S.
Goto(l, S) ==
  /\ pc' = l
  /\ todo' = S

\* One turn of the loop at label l, for device d; map order is unspecified.
Visit(l, d) ==
  /\ pc = l
  /\ d \in todo
  /\ todo' = todo \ {d}
  /\ pc' = l

\* The loop at label l, if it is one, has come to its end.
Finished(l) ==
  /\ pc = l
  /\ todo = {}

\* Leave the method with the result e.
Leave(e) ==
  /\ Goto("returned", {})
  /\ err' = e

\* A call that failed although nothing the model knows of made it fail is a
\* fault.
Blame(explained) == fault' = (fault \/ ~explained)

\* The first deferred functions of Run: Close, and Free of the base images.
ReleaseBase ==
  /\ conn' = FALSE
  /\ baseImages' = FALSE
  /\ UNCHANGED <<domains, nilDomains, bmcAll>>

\* r.domains = nil, after Free of its values.
ReleaseDomains ==
  /\ domains' = {}
  /\ nilDomains' = TRUE
  /\ UNCHANGED <<conn, baseImages, bmcAll>>

\* Mutant: a stage returns past the deferred functions.
Rollback_Missing == Leave(TRUE)

\* The deferred functions that undo a Run whose defineDomains succeeded.
Rollback ==
  /\ Goto("undefineDomains", Device)
  /\ err' = TRUE

\* vol.Delete(0), whose error is ignored.
DeleteVol(d) ==
  \/ /\ vol' = [vol EXCEPT ![d] = "none"]
     /\ UNCHANGED <<stuckVol, fault>>
  \/ /\ vol[d] # "none"
     /\ stuckVol' = stuckVol \union {d}
     /\ fault' = TRUE
     /\ UNCHANGED vol

\* dom.Destroy() and dom.Undefine(), whose errors are ignored.
RemoveDom(d) ==
  \/ /\ dom' = [dom EXCEPT ![d] = "none"]
     /\ UNCHANGED <<stuckDom, fault>>
  \/ /\ dom[d] # "none"
     /\ \E s \in {dom[d], "shutoff"} : dom' = [dom EXCEPT ![d] = s]
     /\ stuckDom' = stuckDom \union {d}
     /\ fault' = TRUE

----------------------------------------------------------------------------
(* buildInventory and NewConnect.                                          *)

\* Mutant: bmcMan.add replaces a BMC whose name it has.
BuildInventory_Replaces ==
  /\ pc = "buildInventory"
  /\ bmcAll' = bmcAll \union BMC
  /\ Goto("connect", {})
  /\ UNCHANGED <<world, conn, baseImages, domains, nilDomains, made, stuck,
                 op, err, ctxDone, worker, lease, fault>>

BuildInventory ==
  /\ pc = "buildInventory"
  /\ BMC \intersect bmcAll = {}
  /\ bmcAll' = bmcAll \union BMC
  /\ Goto("connect", {})
  /\ UNCHANGED <<world, conn, baseImages, domains, nilDomains, made, stuck,
                 op, err, ctxDone, worker, lease, fault>>

\* bmcMan.add refuses a name it has; a tunnelip that does not parse, a config
\* file that cannot be read or a base MAC of the wrong length are faults.
BuildInventoryErr ==
  /\ pc = "buildInventory"
  /\ \E S \in SUBSET (BMC \ bmcAll) : bmcAll' = bmcAll \union S
  /\ Blame(BMC \intersect bmcAll # {})
  /\ Leave(TRUE)
  /\ UNCHANGED <<world, conn, baseImages, domains, nilDomains, made, stuck,
                 op, ctxDone, worker, lease>>

\* After the devices, with their BMCs, come the links: allocateMAC panics past
\* the last EUI-48, and mustAtoi, in the sort of the interfaces, on a number
\* that is no int.  Modules Inventory and NatSort say when: here it is open.
BuildInventoryPanic ==
  /\ pc = "buildInventory"
  /\ BMC \intersect bmcAll = {}
  /\ Overflow
  /\ Panic
  /\ UNCHANGED world

Connect ==
  /\ pc = "connect"
  /\ conn' = TRUE
  /\ Goto(IF op = "run" THEN "download" ELSE "stopAll", {})
  /\ UNCHANGED <<world, baseImages, domains, nilDomains, bmcAll, made, stuck,
                 op, err, ctxDone, worker, lease, fault>>

\* Destroy does not connect again.
ConnectErr ==
  /\ pc = "connect"
  /\ ~(op = "destroy" /\ conn)
  /\ Blame(FALSE)
  /\ Leave(TRUE)
  /\ UNCHANGED <<world, inst, made, stuck, op, ctxDone, worker, lease>>

----------------------------------------------------------------------------
(* downloadBaseImages as one step (module BaseImages has the details).     *)

DownloadBaseImages ==
  /\ pc = "download"
  /\ baseImages' = TRUE
  /\ Goto("createVolumes", Device)
  /\ UNCHANGED <<world, conn, domains, nilDomains, bmcAll, made, stuck,
                 op, err, ctxDone, worker, lease, fault>>

DownloadBaseImagesErr ==
  /\ pc = "download"
  /\ Blame(ctxDone)
  /\ conn' = FALSE
  /\ Leave(TRUE)
  /\ UNCHANGED <<world, baseImages, domains, nilDomains, bmcAll, made, stuck,
                 op, ctxDone, worker, lease>>

----------------------------------------------------------------------------
(* createVolumes.                                                          *)

\* StorageVolCreateXML fails if the pool has a volume of that name.
CreateVolume(d) ==
  /\ Visit("createVolumes", d)
  /\ vol[d] = "none"
  /\ vol' = [vol EXCEPT ![d] = "fresh"]
  /\ created' = created \union {d}
  /\ UNCHANGED <<dom, vbmc, inst, defined, started, added, stuck,
                 op, err, ctxDone, worker, lease, fault>>

CreateVolumeErr(d) ==
  /\ pc = "createVolumes"
  /\ d \in todo
  /\ Blame(vol[d] # "none")
  /\ err' = TRUE
  /\ Goto("uncreate", created)
  /\ UNCHANGED <<world, inst, made, stuck, op, ctxDone, worker, lease>>

CreateVolumesDone ==
  /\ Finished("createVolumes")
  /\ Goto("defineDomains", Device)
  /\ UNCHANGED <<world, inst, made, stuck, op, err, ctxDone, worker, lease,
                 fault>>

UncreateVolume(d) ==
  /\ Visit("uncreate", d)
  /\ DeleteVol(d)
  /\ UNCHANGED <<dom, vbmc, inst, made, stuckDom, stuckBmc,
                 op, err, ctxDone, worker, lease>>

UncreateDone ==
  /\ Finished("uncreate")
  /\ ReleaseBase
  /\ Leave(TRUE)
  /\ UNCHANGED <<world, made, stuck, op, ctxDone, worker, lease, fault>>

----------------------------------------------------------------------------
(* defineDomains.                                                          *)

\* Mutant: the map is written to without regard to its being nil.
DefineDomain_NilMapWritten(d) ==
  /\ Visit("defineDomains", d)
  /\ dom[d] = "none"
  /\ dom' = [dom EXCEPT ![d] = "shutoff"]
  /\ defined' = defined \union {d}
  /\ domains' = domains \union {d}
  /\ UNCHANGED <<vol, vbmc, conn, baseImages, nilDomains, bmcAll,
                 created, started, added, stuck,
                 op, err, ctxDone, worker, lease, fault>>

\* DomainDefineXMLFlags refuses a name in use: the template has no uuid.
DefineDomain(d) ==
  /\ Visit("defineDomains", d)
  /\ dom[d] = "none"
  /\ ~nilDomains
  /\ dom' = [dom EXCEPT ![d] = "shutoff"]
  /\ defined' = defined \union {d}
  /\ domains' = domains \union {d}
  /\ UNCHANGED <<vol, vbmc, conn, baseImages, nilDomains, bmcAll,
                 created, started, added, stuck,
                 op, err, ctxDone, worker, lease, fault>>

\* r.domains[d.name] = dom, when a call before this one left r.domains nil.
DefineIntoNilMap(d) ==
  /\ pc = "defineDomains"
  /\ d \in todo
  /\ dom[d] = "none"
  /\ nilDomains
  /\ dom' = [dom EXCEPT ![d] = "shutoff"]
  /\ Panic
  /\ UNCHANGED <<vol, vbmc>>

\* Mutant: the function that calls undefineDomains is deferred too early.
DefineDomainErr_DeferredEarly(d) ==
  /\ pc = "defineDomains"
  /\ d \in todo
  /\ Blame(dom[d] # "none")
  /\ Rollback
  /\ UNCHANGED <<world, inst, made, stuck, op, ctxDone, worker, lease>>

DefineDomainErr(d) ==
  /\ pc = "defineDomains"
  /\ d \in todo
  /\ Blame(dom[d] # "none")
  /\ err' = TRUE
  /\ Goto("undefine", defined)
  /\ UNCHANGED <<world, inst, made, stuck, op, ctxDone, worker, lease>>

DefineDomainsDone ==
  /\ Finished("defineDomains")
  /\ Goto("spawn", Imaged)
  /\ UNCHANGED <<world, inst, made, stuck, op, err, ctxDone, worker, lease,
                 fault>>

UndefineDefined(d) ==
  /\ Visit("undefine", d)
  /\ RemoveDom(d)
  /\ UNCHANGED <<vol, vbmc, inst, made, stuckVol, stuckBmc,
                 op, err, ctxDone, worker, lease>>

UndefineDefinedDone ==
  /\ Finished("undefine")
  /\ ReleaseDomains
  /\ Goto("deleteVolumes", Device)
  /\ UNCHANGED <<world, made, stuck, op, err, ctxDone, worker, lease, fault>>

----------------------------------------------------------------------------
(* customizeDomains and its goroutines (customizeDomain).                  *)

Spawn(d) ==
  /\ Visit("spawn", d)
  /\ worker' = [worker EXCEPT ![d] = "spawned"]
  /\ UNCHANGED <<world, inst, made, stuck, op, err, ctxDone, lease, fault>>

\* For a management server, gatherHosts takes the first interface of every
\* device but the oob-mgmt ones.  The edges of the topology are not part of
\* the model: whether a device is without an interface is left open.
SpawnPanic(d) ==
  /\ pc = "spawn"
  /\ d \in todo
  /\ Function[d] = OOBServer
  /\ Isolated
  /\ Panic
  /\ UNCHANGED world

SpawnDone ==
  /\ Finished("spawn")
  /\ Goto("collect", {})
  /\ UNCHANGED <<world, inst, made, stuck, op, err, ctxDone, worker, lease,
                 fault>>

\* virt-customize starts writing to the disk of the domain.
WorkerExec(d) ==
  /\ worker[d] = "spawned"
  /\ ~customizeCtxDone
  /\ worker' = [worker EXCEPT ![d] = "running"]
  /\ vol' = [vol EXCEPT ![d] = "dirty"]
  /\ UNCHANGED <<dom, vbmc, inst, made, stuck, op, pc, todo, err, ctxDone,
                 lease, fault>>

\* MustParseIPPrefix of a mgmt_ip that nobody has validated, in the goroutine:
\* the process ends and no deferred function of Run is executed.
WorkerPanic(d) ==
  /\ worker[d] = "spawned"
  /\ Function[d] = OOBServer
  /\ Unprefixed
  /\ Panic
  /\ UNCHANGED world

WorkerOK(d) ==
  /\ worker[d] = "running"
  /\ worker' = [worker EXCEPT ![d] = "ok"]
  /\ vol' = [vol EXCEPT ![d] = "ready"]
  /\ UNCHANGED <<dom, vbmc, inst, made, stuck, op, pc, todo, err, ctxDone,
                 lease, fault>>

WorkerEnds(d) ==
  /\ worker[d] \in {"spawned", "running"}
  /\ worker' = [worker EXCEPT ![d] = "fail"]
  /\ UNCHANGED <<world, inst, made, stuck, op, pc, todo, err, ctxDone, lease>>

\* The context is cancelled: the command is not started, or is killed.
WorkerKilled(d) ==
  /\ customizeCtxDone
  /\ Blame(TRUE)
  /\ WorkerEnds(d)

\* The udev rules, the temporary file or virt-customize itself fails.
WorkerFails(d) ==
  /\ Blame(FALSE)
  /\ WorkerEnds(d)

\* Mutant: the last result wins.
ErrAfter_LastResult(d) == worker[d] = "fail"

\* What err is after the result of d was received.
ErrAfter(d) == err \/ worker[d] = "fail"

\* Mutant: return at the first error instead of waiting for the others.
AllCollected_FirstError == err \/ \A d \in Imaged : worker[d] = "none"

\* Mutant: one receive too few.
AllCollected_OneLess == \E d \in Imaged : worker[d] = "none"

\* numStarted results were received.
AllCollected == \A d \in Imaged : worker[d] = "none"

Collect(d) ==
  /\ pc = "collect"
  /\ worker[d] \in {"ok", "fail"}
  /\ err' = ErrAfter(d)
  /\ worker' = [worker EXCEPT ![d] = "none"]
  /\ UNCHANGED <<world, inst, made, stuck, op, pc, todo, ctxDone, lease,
                 fault>>

CustomizeDomainsDone ==
  /\ pc = "collect"
  /\ AllCollected
  /\ IF err THEN Rollback
     ELSE Goto("startDomains", Imaged) /\ UNCHANGED err
  /\ UNCHANGED <<world, inst, made, stuck, op, ctxDone, worker, lease, fault>>

----------------------------------------------------------------------------
(* startDomains and bmcMan.startAll.                                       *)

\* Mutant: the devices are not sorted.
NextToStart_Unsorted(d) == d \in todo

\* The devices are sorted by Function, with an unstable sort.
NextToStart(d) == \A e \in todo : Function[d] <= Function[e]

StartDomain(d) ==
  /\ Visit("startDomains", d)
  /\ NextToStart(d)
  /\ dom[d] = "shutoff"
  /\ dom' = [dom EXCEPT ![d] = "running"]
  /\ started' = started \union {d}
  /\ UNCHANGED <<vol, vbmc, inst, created, defined, added, stuck,
                 op, err, ctxDone, worker, lease, fault>>

\* dom.Create() fails: the deferred function stops the domains of this call.
StartDomainErr(d) ==
  /\ pc = "startDomains"
  /\ d \in todo
  /\ NextToStart(d)
  /\ Blame(FALSE)
  /\ err' = TRUE
  /\ Goto("stopStarted", started)
  /\ UNCHANGED <<world, inst, made, stuck, op, ctxDone, worker, lease>>

StartDomainsDone ==
  /\ Finished("startDomains")
  /\ Goto("vbmcAdd", bmcAll)
  /\ UNCHANGED <<world, inst, made, stuck, op, err, ctxDone, worker, lease,
                 fault>>

\* vbmc add refuses a name it has.
VbmcAdd(d) ==
  /\ Visit("vbmcAdd", d)
  /\ ~ctxDone
  /\ vbmc[d] = "none"
  /\ vbmc' = [vbmc EXCEPT ![d] = "stopped"]
  /\ added' = added \union {d}
  /\ UNCHANGED <<vol, dom, inst, created, defined, started, stuck,
                 op, err, ctxDone, worker, lease, fault>>

\* A command that is killed may have done its work already.
VbmcAddErr(d) ==
  /\ pc = "vbmcAdd"
  /\ d \in todo
  /\ \/ UNCHANGED vbmc
     \/ /\ ctxDone /\ vbmc[d] = "none"
        /\ vbmc' = [vbmc EXCEPT ![d] = "stopped"]
  /\ Blame(ctxDone \/ vbmc[d] # "none")
  /\ err' = TRUE
  /\ Goto("vbmcCleanup", {})
  /\ UNCHANGED <<vol, dom, inst, made, stuck, op, ctxDone, worker, lease>>

\* One vbmc start for all names, or none for no names.
VbmcStart ==
  /\ Finished("vbmcAdd")
  /\ added # {} => ~ctxDone
  /\ vbmc' = [d \in Device |-> IF d \in added THEN "running" ELSE vbmc[d]]
  /\ Goto("writeSSHConfig", {})
  /\ UNCHANGED <<vol, dom, inst, made, stuck, op, err, ctxDone, worker, lease,
                 fault>>

VbmcStartErr ==
  /\ Finished("vbmcAdd")
  /\ added # {}
  /\ \E S \in SUBSET added :
       vbmc' = [d \in Device |-> IF d \in S THEN "running" ELSE vbmc[d]]
  /\ Blame(ctxDone)
  /\ err' = TRUE
  /\ Goto("vbmcCleanup", {})
  /\ UNCHANGED <<vol, dom, inst, made, stuck, op, ctxDone, worker, lease>>

\* Mutant: nothing is deleted.
VbmcCleanup_Forgotten ==
  /\ pc = "vbmcCleanup"
  /\ Goto("stopStarted", started)
  /\ UNCHANGED <<world, inst, made, stuck, op, err, ctxDone, worker, lease,
                 fault>>

\* vbmc delete of the names added, with the context of the call: it does not
\* run, or is killed, when the context is cancelled.
VbmcCleanup ==
  /\ pc = "vbmcCleanup"
  /\ \E S \in SUBSET added :
       /\ vbmc' = [d \in Device |-> IF d \in S THEN "none" ELSE vbmc[d]]
       /\ stuckBmc' = IF ctxDone THEN stuckBmc ELSE added \ S
       /\ Blame(ctxDone \/ S = added)
  /\ Goto("stopStarted", started)
  /\ UNCHANGED <<vol, dom, inst, made, stuckVol, stuckDom,
                 op, err, ctxDone, worker, lease>>

StopStarted(d) ==
  /\ Visit("stopStarted", d)
  /\ \/ dom' = [dom EXCEPT ![d] = "shutoff"] /\ Blame(TRUE)
     \/ UNCHANGED dom /\ Blame(FALSE)
  /\ UNCHANGED <<vol, vbmc, inst, made, stuck, op, err, ctxDone, worker,
                 lease>>

StopStartedDone ==
  /\ Finished("stopStarted")
  /\ Rollback
  /\ UNCHANGED <<world, inst, made, stuck, op, ctxDone, worker, lease, fault>>

----------------------------------------------------------------------------
(* writeSSHConfig, with waitForLease, and writeBMCConfig.                  *)

\* libvirtd lists a lease of the management server.
LeaseArrives ==
  /\ pc = "writeSSHConfig" /\ WriteSSH
  /\ Server \in domains
  /\ dom[Server] = "running"
  /\ ~lease
  /\ lease' = TRUE
  /\ UNCHANGED <<world, inst, made, stuck, op, pc, todo, err, ctxDone, worker,
                 fault>>

WriteSSHConfig ==
  /\ pc = "writeSSHConfig"
  /\ WriteSSH => Server \in domains /\ lease
  /\ Goto("writeBMCConfig", {})
  /\ UNCHANGED <<world, inst, made, stuck, op, err, ctxDone, worker, lease,
                 fault>>

\* waitForLease(ctx, nil).
WaitForLeasePanic ==
  /\ pc = "writeSSHConfig" /\ WriteSSH
  /\ Server \notin domains
  /\ Panic
  /\ UNCHANGED world

\* case <-ctx.Done()
WaitForLeaseDone ==
  /\ pc = "writeSSHConfig" /\ WriteSSH
  /\ Server \in domains
  /\ ctxDone /\ ~lease
  /\ Rollback
  /\ UNCHANGED <<world, inst, made, stuck, op, ctxDone, worker, lease, fault>>

\* The query fails, as it must for a server that has no disk image and was
\* not started; or the address it returns or the final Flush is at fault.
WriteSSHConfigErr ==
  /\ pc = "writeSSHConfig" /\ WriteSSH
  /\ Server \in domains
  /\ Blame(dom[Server] # "running")
  /\ Rollback
  /\ UNCHANGED <<world, inst, made, stuck, op, ctxDone, worker, lease>>

WriteBMCConfig ==
  /\ pc = "writeBMCConfig"
  /\ Leave(FALSE)
  /\ UNCHANGED <<world, inst, made, stuck, op, ctxDone, worker, lease, fault>>

WriteBMCConfigErr ==
  /\ pc = "writeBMCConfig" /\ WriteBMC
  /\ Blame(FALSE)
  /\ Rollback
  /\ UNCHANGED <<world, inst, made, stuck, op, ctxDone, worker, lease>>

----------------------------------------------------------------------------
(* bmcMan.stopAll, for Destroy.                                            *)

VbmcStop ==
  /\ pc = "stopAll"
  /\ bmcAll # {} => ~ctxDone
  /\ \A d \in bmcAll : vbmc[d] # "none"
  /\ vbmc' = [d \in Device |-> IF d \in bmcAll THEN "stopped" ELSE vbmc[d]]
  /\ Goto("deleteAll", {})
  /\ UNCHANGED <<vol, dom, inst, made, stuck, op, err, ctxDone, worker, lease,
                 fault>>

\* Mutant: Destroy goes on after a failed vbmc stop.
VbmcStopErr_Ignored ==
  /\ pc = "stopAll"
  /\ bmcAll # {}
  /\ Blame(ctxDone \/ \E d \in bmcAll : vbmc[d] = "none")
  /\ Goto("undefineDomains", Device)
  /\ UNCHANGED <<world, inst, made, stuck, op, err, ctxDone, worker, lease>>

\* vbmc stop works on the names it knows and fails if there is another.
VbmcStopErr ==
  /\ pc = "stopAll"
  /\ bmcAll # {}
  /\ \E S \in SUBSET {d \in bmcAll : vbmc[d] # "none"} :
       vbmc' = [d \in Device |-> IF d \in S THEN "stopped" ELSE vbmc[d]]
  /\ Blame(ctxDone \/ \E d \in bmcAll : vbmc[d] = "none")
  /\ Leave(TRUE)
  /\ UNCHANGED <<vol, dom, inst, made, stuck, op, ctxDone, worker, lease>>

VbmcDelete ==
  /\ pc = "deleteAll"
  /\ bmcAll # {} => ~ctxDone
  /\ vbmc' = [d \in Device |-> IF d \in bmcAll THEN "none" ELSE vbmc[d]]
  /\ Goto("undefineDomains", Device)
  /\ UNCHANGED <<vol, dom, inst, made, stuck, op, err, ctxDone, worker, lease,
                 fault>>

VbmcDeleteErr ==
  /\ pc = "deleteAll"
  /\ bmcAll # {}
  /\ \E S \in SUBSET bmcAll :
       vbmc' = [d \in Device |-> IF d \in S THEN "none" ELSE vbmc[d]]
  /\ Blame(ctxDone)
  /\ Leave(TRUE)
  /\ UNCHANGED <<vol, dom, inst, made, stuck, op, ctxDone, worker, lease>>

----------------------------------------------------------------------------
(* undefineDomains and deleteVolumes, for the deferred functions of Run    *)
(* and for Destroy.                                                        *)

UndefineDomain(d) ==
  /\ Visit("undefineDomains", d)
  /\ RemoveDom(d)
  /\ UNCHANGED <<vol, vbmc, inst, made, stuckVol, stuckBmc,
                 op, err, ctxDone, worker, lease>>

UndefineDomainsDone ==
  /\ Finished("undefineDomains")
  /\ ReleaseDomains
  /\ Goto("deleteVolumes", Device)
  /\ UNCHANGED <<world, made, stuck, op, err, ctxDone, worker, lease, fault>>

\* What follows deleteVolumes: Run fails and lets go of everything, Destroy
\* keeps its connection and, on an error, the base images.
AfterDeleteVolumes(e) ==
  /\ Leave(op = "run" \/ e)
  /\ IF op = "run" THEN ReleaseBase
     ELSE /\ baseImages' = (baseImages /\ e)
          /\ UNCHANGED <<conn, domains, nilDomains, bmcAll>>

\* Mutant: a volume that is not there ends the loop with an error.
DeleteVolume_MissingIsError(d) ==
  /\ pc = "deleteVolumes" /\ d \in todo
  /\ IF vol[d] = "none"
     THEN Leave(TRUE) /\ UNCHANGED <<vol, stuckVol, fault>>
     ELSE Visit("deleteVolumes", d) /\ DeleteVol(d) /\ UNCHANGED err
  /\ UNCHANGED <<dom, vbmc, inst, made, stuckDom, stuckBmc,
                 op, ctxDone, worker, lease>>

DeleteVolume(d) ==
  /\ Visit("deleteVolumes", d)
  /\ DeleteVol(d)
  /\ UNCHANGED <<dom, vbmc, inst, made, stuckDom, stuckBmc,
                 op, err, ctxDone, worker, lease>>

DeleteVolumesDone ==
  /\ Finished("deleteVolumes")
  /\ AfterDeleteVolumes(FALSE)
  /\ UNCHANGED <<world, made, stuck, op, ctxDone, worker, lease, fault>>

\* LookupStoragePoolByName fails, before the loop.
DeleteVolumesErr ==
  /\ pc = "deleteVolumes"
  /\ todo = Device
  /\ stuckVol' = stuckVol \union Volumes
  /\ Blame(FALSE)
  /\ AfterDeleteVolumes(TRUE)
  /\ UNCHANGED <<world, made, stuckDom, stuckBmc, op, ctxDone, worker, lease>>

----------------------------------------------------------------------------
(* The specification.                                                      *)

\* The steps of the goroutine that called Run or Destroy.
Setup ==
  \/ BuildInventory \/ BuildInventoryErr \/ BuildInventoryPanic
  \/ Connect \/ ConnectErr \/ DownloadBaseImages \/ DownloadBaseImagesErr

CreateVolumes ==
  \/ \E d \in Device : CreateVolume(d) \/ CreateVolumeErr(d)
                       \/ UncreateVolume(d)
  \/ CreateVolumesDone \/ UncreateDone

DefineDomains ==
  \/ \E d \in Device : DefineDomain(d) \/ DefineIntoNilMap(d)
                       \/ DefineDomainErr(d) \/ UndefineDefined(d)
  \/ DefineDomainsDone \/ UndefineDefinedDone

CustomizeDomains ==
  \/ \E d \in Device : Spawn(d) \/ SpawnPanic(d) \/ Collect(d)
  \/ SpawnDone \/ CustomizeDomainsDone

StartDomains ==
  \/ \E d \in Device : StartDomain(d) \/ StartDomainErr(d) \/ StopStarted(d)
  \/ StartDomainsDone \/ StopStartedDone

StartAll ==
  \/ \E d \in Device : VbmcAdd(d) \/ VbmcAddErr(d)
  \/ VbmcStart \/ VbmcStartErr \/ VbmcCleanup

WriteConfigs ==
  \/ WriteSSHConfig \/ WaitForLeasePanic \/ WaitForLeaseDone
  \/ WriteBMCConfig \/ WriteBMCConfigErr

StopAll == VbmcStop \/ VbmcStopErr \/ VbmcDelete \/ VbmcDeleteErr

Remove ==
  \/ \E d \in Device : UndefineDomain(d) \/ DeleteVolume(d)
  \/ UndefineDomainsDone \/ DeleteVolumesDone \/ DeleteVolumesErr

Step ==
  \/ Setup \/ CreateVolumes \/ DefineDomains \/ CustomizeDomains
  \/ StartDomains \/ StartAll \/ WriteConfigs \/ StopAll \/ Remove

\* The goroutines of customizeDomains and their virt-customize processes.
Worker(d) ==
  \/ WorkerExec(d) \/ WorkerPanic(d) \/ WorkerOK(d)
  \/ WorkerKilled(d) \/ WorkerFails(d)

\* The rest of the world.
Client ==
  \/ NewRunner \/ Call("run") \/ Call("destroy") \/ Return \/ Cancel \/ Kill

Next ==
  \/ Client
  \/ Step
  \/ \E d \in Device : Worker(d)
  \/ LeaseArrives
  \/ WriteSSHConfigErr

\* Go runs every goroutine that can run and the external commands of Step
\* come to an end.  Nothing is assumed of the client, of the guest that asks
\* for a lease, or of a virt-customize that is not killed.
Fairness ==
  /\ WF_vars(Step)
  /\ \A d \in Device : WF_vars(WorkerKilled(d))

Spec == Init /\ [][Next]_vars /\ Fairness

----------------------------------------------------------------------------
(* Properties.                                                             *)

Returned(method) == pc = "returned" /\ op = method

\* Everything is there, as a Run that succeeds leaves it.
Up ==
  /\ \A d \in Device : vol[d] # "none" /\ dom[d] # "none"
  /\ \A d \in Imaged : vol[d] = "ready" /\ dom[d] = "running"
  /\ \A d \in BMC : vbmc[d] = "running"

\* The variables have their types, and a nil r.domains has no keys.
TypeOK ==
  /\ vol \in [Device -> VolState]
  /\ dom \in [Device -> DomState]
  /\ vbmc \in [Device -> BmcState]
  /\ conn \in BOOLEAN /\ baseImages \in BOOLEAN
  /\ domains \subseteq Device
  /\ nilDomains \in BOOLEAN /\ (nilDomains => domains = {})
  /\ bmcAll \subseteq BMC
  /\ op \in {"none", "run", "destroy"}
  /\ pc \in Resting \union Working \union {"returned"}
  /\ todo \subseteq Device
  /\ err \in BOOLEAN /\ ctxDone \in BOOLEAN /\ lease \in BOOLEAN
  /\ fault \in BOOLEAN
  /\ worker \in [Device -> WorkerState]
  /\ created \subseteq Device /\ defined \subseteq Device
  /\ started \subseteq Device /\ added \subseteq Device
  /\ stuckVol \subseteq Device /\ stuckDom \subseteq Device
  /\ stuckBmc \subseteq Device

\* A Run that returns an error has deleted every volume it created and
\* undefined every domain it defined, except those libvirtd refused to
\* remove, whichever stage failed and whenever it was cancelled.
RollbackComplete ==
  Returned("run") /\ err =>
    /\ \A d \in created : vol[d] = "none" \/ d \in stuckVol
    /\ \A d \in defined : dom[d] = "none" \/ d \in stuckDom

\* A Run that fails and was not cancelled has deleted every virtual BMC it
\* added, except those vbmc refused to delete (the deferred function of
\* startAll); or, if a config output failed after startAll, for which there is
\* no deferred function, it has left all of them running, never some.
BmcRollback ==
  Returned("run") /\ err /\ ~ctxDone =>
    \/ \A d \in added : vbmc[d] = "none" \/ d \in stuckBmc
    \/ (WriteSSH \/ WriteBMC) /\ \A d \in BMC : vbmc[d] = "running"

ForeignUntouched ==
  op = "run" =>
    \A d \in Device :
      /\ vol'[d] # vol[d] => vol[d] = "none" \/ d \in created
      /\ dom'[d] # dom[d] => dom[d] = "none" \/ d \in defined
      /\ vbmc'[d] # vbmc[d] => vbmc[d] = "none" \/ d \in added

\* The deferred functions of Run look volumes and domains up by name, and so
\* does virt-customize: yet a Run never changes a volume, a domain or a BMC
\* that was there before it.
NoForeignChange == [][ForeignUntouched]_vars

\* A Run that returns nil has brought up every device: every disk image is
\* customised to the end and every BMC runs.  No error of a stage, of a
\* goroutine or of the cancelled context is lost on the way.
RunSucceedsFully == Returned("run") /\ ~err => Up

Boots(d) == dom[d] = "shutoff" /\ dom'[d] = "running"

SmallerFirst ==
  \A d \in Device : Boots(d) =>
    \A e \in Imaged : Function[e] < Function[d] => dom[e] = "running"

AllReady ==
  \A d \in Device : Boots(d) => \A e \in Imaged : vol[e] = "ready"

\* startDomains starts a device after all devices with a smaller Function:
\* the management server comes first, then the switches, the hosts last.
StartupOrder == [][SmallerFirst]_vars

\* No domain boots before every disk of the topology is customised.
BootsCustomised == [][AllReady]_vars

\* A goroutine of customizeDomains works on a volume and a shut-off domain of
\* this Run; neither is started or removed before the goroutine is done.
CustomizeExclusive ==
  \A d \in Device :
    worker[d] \in {"spawned", "running"} =>
      /\ d \in created /\ d \in defined
      /\ vol[d] = (IF worker[d] = "running" THEN "dirty" ELSE "fresh")
      /\ dom[d] = "shutoff"

\* When Destroy returns nil there is nothing left of the topology, whatever
\* failed, cancelled or killed calls came before it, except what libvirtd
\* refused to remove.
DestroyNilClean ==
  Returned("destroy") /\ ~err =>
    \A d \in Device :
      /\ vol[d] = "none" \/ d \in stuckVol
      /\ dom[d] = "none" \/ d \in stuckDom
      /\ d \in BMC => vbmc[d] = "none"

\* "Destroy destroys any resources created by a previous Run invocation": a
\* Destroy that returns undisturbed leaves no volume and no domain.
DestroyComplete ==
  Returned("destroy") /\ ~ctxDone /\ ~fault =>
    Volumes = {} /\ Domains = {}

\* A Destroy that nothing disturbs does not leave a topology that is up as it
\* found it, also when the Runner is the one that brought it up.
DestroyAfterRun ==
  Returned("destroy") /\ ~ctxDone /\ ~fault => ~Up \/ Device = {}

\* A Run that ends because its context was cancelled has released the BMCs it
\* registered ("implementations ought to make an effort to clean up and
\* release any previously acquired resources").
CancelReleasesBMC ==
  Returned("run") /\ err /\ ctxDone /\ ~fault =>
    \A d \in added : vbmc[d] = "none"

\* "Run starts up the provided topology or returns an error".
NoPanic == pc # "panicked"

\* Every panic of Run and Destroy has its cause in the topology and its place:
\* numbers too large in buildInventory, where nothing was made yet; no interface
\* or no prefix in customizeDomains of a Run; no management server when a lease
\* of it is waited for.  The one cause that lies with the caller is a Runner
\* that an earlier call left without r.domains, and only without BMCs: with
\* them buildInventory refuses the call.  (The operating system's random
\* numbers and the XML encoder are taken to work.)
PanicExplained ==
  pc # "panicked" /\ pc' = "panicked" =>
    \/ Overflow /\ pc = "buildInventory" /\ created = {} /\ defined = {}
    \/ Isolated /\ pc = "spawn"
    \/ Unprefixed /\ op = "run" /\ pc \in {"spawn", "collect"}
    \/ WriteSSH /\ Server \notin Device /\ pc = "writeSSHConfig"
    \/ BMC = {} /\ nilDomains /\ pc = "defineDomains"

PanicsExplained == [][PanicExplained]_vars

\* A call whose context is cancelled comes to its end, with all goroutines it
\* started: no virt-customize and no wait for a lease holds it up.
CancelledCallReturns ==
  (ctxDone /\ pc \in Working) ~>
    (pc \notin Working /\ \A d \in Device : worker[d] = "none")

=============================================================================
