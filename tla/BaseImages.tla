----------------------------- MODULE BaseImages -----------------------------
(***************************************************************************)
(* downloadBaseImages (runner/libvirt/runner.go) and createVolumeFromURL   *)
(* (volume.go): several runtopo processes share a storage pool and fill it *)
(* with the disk images of their devices.  A process looks the image of    *)
(* each device up in the pool, downloads the missing ones with a goroutine *)
(* each, and receives their results on an unbuffered channel; the first    *)
(* error cancels the other downloads.  A volume is named after the last    *)
(* element of the path of the URL.                                         *)
(*                                                                         *)
(*   source, complete  the pool: the URL a volume was created for, NoURL   *)
(*                     if there is no volume; the names of the volumes     *)
(*                     that hold the whole image                           *)
(*   pc, todo          where each process is, and the devices its first    *)
(*                     loop has left                                       *)
(*   want, have        the keys of wantImages and of haveImages            *)
(*   worker            the goroutines, up to the receipt of their result   *)
(*   err, ctxDone      the named result; the context of Run is cancelled   *)
(***************************************************************************)
EXTENDS Naturals

CONSTANTS
  Proc,    \* the processes
  Device,  \* the devices with OSImage() # ""
  URL,     \* the images
  Name,    \* the volume names
  NoURL,
  Image,   \* OSImage() of each device, in the topology of each process
  Base     \* path.Base(u.Path) of each URL

ASSUME BaseImagesAssumption ==
  /\ NoURL \notin URL
  /\ Image \in [Proc -> [Device -> URL]]
  /\ Base \in [URL -> Name]

VARIABLES source, complete, pc, todo, want, have, worker, err, ctxDone

pool == <<source, complete>>
vars == <<source, complete, pc, todo, want, have, worker, err, ctxDone>>

WorkerState == {"none", "head", "create", "upload", "ok", "fail"}
Active == {"head", "create", "upload"}

NoWorkers == [u \in URL |-> "none"]

Init ==
  /\ source = [n \in Name |-> NoURL]
  /\ complete = {}
  /\ pc = [p \in Proc |-> "idle"]
  /\ todo = [p \in Proc |-> {}]
  /\ want = [p \in Proc |-> {}]
  /\ have = [p \in Proc |-> {}]
  /\ worker = [p \in Proc |-> NoWorkers]
  /\ err = [p \in Proc |-> FALSE]
  /\ ctxDone = [p \in Proc |-> FALSE]

----------------------------------------------------------------------------
(* The call.                                                               *)

Call(p) ==
  /\ pc[p] = "idle"
  /\ pc' = [pc EXCEPT ![p] = "lookup"]
  /\ todo' = [todo EXCEPT ![p] = Device]
  /\ UNCHANGED <<pool, want, have, worker, err, ctxDone>>

\* The process goes on without this call: its Run has come to an end.
Reset(p) ==
  /\ pc' = [pc EXCEPT ![p] = "idle"]
  /\ todo' = [todo EXCEPT ![p] = {}]
  /\ want' = [want EXCEPT ![p] = {}]
  /\ have' = [have EXCEPT ![p] = {}]
  /\ worker' = [worker EXCEPT ![p] = NoWorkers]
  /\ err' = [err EXCEPT ![p] = FALSE]
  /\ ctxDone' = [ctxDone EXCEPT ![p] = FALSE]
  /\ UNCHANGED pool

Return(p) == pc[p] \in {"done", "failed"} /\ Reset(p)

\* The process dies; the pool stays as it is.
Kill(p) == pc[p] \in {"lookup", "collect"} /\ Reset(p)

Cancel(p) ==
  /\ pc[p] \in {"lookup", "collect"}
  /\ ~ctxDone[p]
  /\ ctxDone' = [ctxDone EXCEPT ![p] = TRUE]
  /\ UNCHANGED <<pool, pc, todo, want, have, worker, err>>

----------------------------------------------------------------------------
(* The lookup loop.                                                        *)

Visit(p, d) ==
  /\ pc[p] = "lookup"
  /\ d \in todo[p]
  /\ todo' = [todo EXCEPT ![p] = @ \ {d}]

\* "skip over already present volumes"
LookupFound(p, d) ==
  /\ Visit(p, d)
  /\ source[Base[Image[p][d]]] # NoURL
  /\ have' = [have EXCEPT ![p] = @ \union {Image[p][d]}]
  /\ UNCHANGED <<pool, pc, want, worker, err, ctxDone>>

\* Mutant: the wanted images are keyed by device.
LookupMissing_ByDevice(p, d) ==
  /\ Visit(p, d)
  /\ want' = [want EXCEPT ![p] = @ \union {d}]
  /\ UNCHANGED <<pool, pc, have, worker, err, ctxDone>>

\* Any error of LookupStorageVolByName counts as an absent volume.
LookupMissing(p, d) ==
  /\ Visit(p, d)
  /\ want' = [want EXCEPT ![p] = @ \union {Image[p][d]}]
  /\ UNCHANGED <<pool, pc, have, worker, err, ctxDone>>

\* There is no such pool, or the URL of d does not parse.
LookupErr(p) ==
  /\ pc[p] = "lookup"
  /\ pc' = [pc EXCEPT ![p] = "failed"]
  /\ err' = [err EXCEPT ![p] = TRUE]
  /\ UNCHANGED <<pool, todo, want, have, worker, ctxDone>>

\* One goroutine for each wanted image.
StartDownloads(p) ==
  /\ pc[p] = "lookup"
  /\ todo[p] = {}
  /\ pc' = [pc EXCEPT ![p] = "collect"]
  /\ worker' = [worker EXCEPT ![p] =
                  [u \in URL |-> IF u \in want[p] THEN "head" ELSE "none"]]
  /\ UNCHANGED <<pool, todo, want, have, err, ctxDone>>

----------------------------------------------------------------------------
(* createVolumeFromURL, in a goroutine.                                    *)

\* Mutant: cancel() is not called after the first error.
fetchCtxDone_NoCancel(p) == ctxDone[p]

\* fetchCtx is cancelled with ctx, and by the receiver after an error.
fetchCtxDone(p) == ctxDone[p] \/ err[p]

Becomes(p, u, s) == worker' = [worker EXCEPT ![p][u] = s]

\* fetchImageContentLength.
FetchLength(p, u) ==
  /\ worker[p][u] = "head"
  /\ ~fetchCtxDone(p)
  /\ Becomes(p, u, "create")
  /\ UNCHANGED <<pool, pc, todo, want, have, err, ctxDone>>

\* Mutant: a volume that is there is taken over.
CreateVolume_TakesOver(p, u) ==
  /\ worker[p][u] = "create"
  /\ source' = [source EXCEPT ![Base[u]] = u]
  /\ complete' = complete \ {Base[u]}
  /\ Becomes(p, u, "upload")
  /\ UNCHANGED <<pc, todo, want, have, err, ctxDone>>

\* StorageVolCreateXML refuses a name the pool has.
CreateVolume(p, u) ==
  /\ worker[p][u] = "create"
  /\ source[Base[u]] = NoURL
  /\ source' = [source EXCEPT ![Base[u]] = u]
  /\ Becomes(p, u, "upload")
  /\ UNCHANGED <<complete, pc, todo, want, have, err, ctxDone>>

\* Mutant: the result of stream.Finish is not looked at.
Upload_Unfinished(p, u) ==
  /\ worker[p][u] = "upload"
  /\ Becomes(p, u, "ok")
  /\ UNCHANGED <<pool, pc, todo, want, have, err, ctxDone>>

\* vol.Upload, fetchImage and stream.Finish.
Upload(p, u) ==
  /\ worker[p][u] = "upload"
  /\ complete' = complete \union {Base[u]}
  /\ Becomes(p, u, "ok")
  /\ UNCHANGED <<source, pc, todo, want, have, err, ctxDone>>

\* Any of these steps can fail.  What was created stays: vol.Free gives up
\* the handle only.
DownloadFails(p, u) ==
  /\ worker[p][u] \in Active
  /\ Becomes(p, u, "fail")
  /\ UNCHANGED <<pool, pc, todo, want, have, err, ctxDone>>

----------------------------------------------------------------------------
(* The loop that receives the results.                                     *)

ReceiveOK(p, u) ==
  /\ pc[p] = "collect"
  /\ worker[p][u] = "ok"
  /\ have' = [have EXCEPT ![p] = @ \union {u}]
  /\ Becomes(p, u, "none")
  /\ UNCHANGED <<pool, pc, todo, want, err, ctxDone>>

ReceiveErr(p, u) ==
  /\ pc[p] = "collect"
  /\ worker[p][u] = "fail"
  /\ err' = [err EXCEPT ![p] = TRUE]
  /\ Becomes(p, u, "none")
  /\ UNCHANGED <<pool, pc, todo, want, have, ctxDone>>

\* Mutant: return at the first error.
AllReceived_FirstError(p) == err[p] \/ worker[p] = NoWorkers

\* Mutant: the loop ends with the first result.
AllReceived_One(p) == want[p] = {} \/ \E u \in want[p] : worker[p][u] = "none"

\* numStarted results were received.
AllReceived(p) == worker[p] = NoWorkers

DownloadsDone(p) ==
  /\ pc[p] = "collect"
  /\ AllReceived(p)
  /\ pc' = [pc EXCEPT ![p] = IF err[p] THEN "failed" ELSE "done"]
  /\ UNCHANGED <<pool, todo, want, have, worker, err, ctxDone>>

----------------------------------------------------------------------------
Receive(p) ==
  \/ \E u \in URL : ReceiveOK(p, u) \/ ReceiveErr(p, u)
  \/ DownloadsDone(p)

Download(p, u) ==
  \/ FetchLength(p, u) \/ CreateVolume(p, u) \/ Upload(p, u)
  \/ DownloadFails(p, u)

Next ==
  \E p \in Proc :
    \/ Call(p) \/ Return(p) \/ Kill(p) \/ Cancel(p)
    \/ \E d \in Device : LookupFound(p, d) \/ LookupMissing(p, d)
    \/ LookupErr(p) \/ StartDownloads(p)
    \/ \E u \in URL : Download(p, u)
    \/ Receive(p)

\* A request whose context is cancelled fails and the calls to libvirtd come
\* to an end; nothing is assumed of a server that does not answer.
Fairness ==
  \A p \in Proc :
    /\ WF_vars(Receive(p))
    /\ \A u \in URL : WF_vars(fetchCtxDone(p) /\ DownloadFails(p, u))

Spec == Init /\ [][Next]_vars /\ Fairness

----------------------------------------------------------------------------
(* Properties.                                                             *)

\* The variables have their types: the maps of downloadBaseImages are keyed by
\* URL.
TypeOK ==
  /\ source \in [Name -> URL \union {NoURL}]
  /\ complete \subseteq Name
  /\ pc \in [Proc -> {"idle", "lookup", "collect", "done", "failed"}]
  /\ todo \in [Proc -> SUBSET Device]
  /\ want \in [Proc -> SUBSET URL]
  /\ have \in [Proc -> SUBSET URL]
  /\ worker \in [Proc -> [URL -> WorkerState]]
  /\ err \in [Proc -> BOOLEAN]
  /\ ctxDone \in [Proc -> BOOLEAN]

\* When downloadBaseImages returns nil it has the image of every device: the
\* panic of createVolumes ("we should've failed earlier already") cannot
\* happen, whatever the goroutines and the other processes did.
NoMissingBase ==
  \A p \in Proc : pc[p] = "done" =>
    \A d \in Device : Image[p][d] \in have[p]

\* No goroutine uses the pool or the connection after downloadBaseImages has
\* returned and freed them.
DownloadsJoined ==
  \A p \in Proc : pc[p] # "collect" => worker[p] = NoWorkers

\* An image that this call downloaded is whole and comes from its URL, also
\* when other processes, or other URLs of this one, use the same name.
OwnDownloadComplete ==
  \A p \in Proc : pc[p] = "done" =>
    \A u \in want[p] : source[Base[u]] = u /\ Base[u] \in complete

\* Once a volume holds the whole image of its URL it stays that way: disks
\* of running domains are backed by it.
CompleteStays ==
  [][\A n \in complete : n \in complete' /\ source'[n] = source[n]]_vars

\* After a cancellation or a first error the call ends: the goroutines that
\* are left do not hold it up.
StoppedCallReturns ==
  \A p \in Proc :
    (pc[p] = "collect" /\ (ctxDone[p] \/ err[p])) ~> pc[p] # "collect"

\* A device gets the image its os attribute names, and the whole of it.
NamedImage ==
  \A p \in Proc : pc[p] = "done" =>
    \A d \in Device :
      /\ source[Base[Image[p][d]]] = Image[p][d]
      /\ Base[Image[p][d]] \in complete

=============================================================================
