-------------------------- MODULE BaseImagesProofs --------------------------
(***************************************************************************)
(* What downloadBaseImages guarantees for any number of processes, images  *)
(* and volume names: proofs about module BaseImages.                       *)
(***************************************************************************)
EXTENDS BaseImages, TLAPS

----------------------------------------------------------------------------
(* The inductive invariant.                                                *)

\* Every device that the lookup loop has passed has its image in wantImages
\* or in haveImages.
LookupInv ==
  \A p \in Proc : pc[p] \in {"lookup", "collect", "done"} =>
    \A d \in Device \ todo[p] : Image[p][d] \in want[p] \union have[p]

TodoInv == \A p \in Proc : pc[p] \in {"collect", "done"} => todo[p] = {}

\* A goroutine downloads a wanted image; a volume with a source is created
\* before the upload and whole after it.
WorkerInv ==
  \A p \in Proc : \A u \in URL :
    /\ worker[p][u] # "none" => u \in want[p]
    /\ worker[p][u] \in {"upload", "ok"} => source[Base[u]] = u
    /\ worker[p][u] = "ok" => Base[u] \in complete

\* The results received so far, as long as there was no error.
ReceivedInv ==
  \A p \in Proc : pc[p] = "collect" /\ ~err[p] =>
    \A u \in want[p] : worker[p][u] = "none" =>
      u \in have[p] /\ source[Base[u]] = u /\ Base[u] \in complete

\* A volume that holds a whole image exists.
PoolInv == \A n \in complete : source[n] # NoURL

IInv ==
  /\ TypeOK
  /\ LookupInv
  /\ TodoInv
  /\ WorkerInv
  /\ ReceivedInv
  /\ PoolInv
  /\ DownloadsJoined
  /\ NoMissingBase
  /\ OwnDownloadComplete

USE BaseImagesAssumption
DEF IInv, TypeOK, LookupInv, TodoInv, WorkerInv, ReceivedInv, PoolInv,
    DownloadsJoined, NoMissingBase, OwnDownloadComplete, WorkerState, Active,
    NoWorkers, pool

\* The invariant holds when no call has started.
LEMMA InitIInv == Init => IInv
  BY DEF Init

\* Every step of every process and goroutine keeps it.
LEMMA NextIInv == IInv /\ [Next]_vars => IInv'
<1> SUFFICES ASSUME IInv, [Next]_vars PROVE IInv'
  OBVIOUS
<1>1. ASSUME NEW p \in Proc, Call(p) PROVE IInv'
  BY <1>1 DEF Call
<1>2. ASSUME NEW p \in Proc, Return(p) \/ Kill(p) PROVE IInv'
  <2>1. Reset(p)
    BY <1>2 DEF Return, Kill
  <2>2. TypeOK'
    BY <2>1 DEF Reset
  <2>3. LookupInv' /\ TodoInv' /\ NoMissingBase'
    BY <2>1 DEF Reset
  <2>4. WorkerInv' /\ DownloadsJoined'
    BY <2>1 DEF Reset
  <2>5. ReceivedInv' /\ PoolInv' /\ OwnDownloadComplete'
    BY <2>1 DEF Reset
  <2> QED
    BY <2>2, <2>3, <2>4, <2>5
<1>3. ASSUME NEW p \in Proc, Cancel(p) PROVE IInv'
  BY <1>3 DEF Cancel
<1>4. ASSUME NEW p \in Proc, NEW d \in Device, LookupFound(p, d) PROVE IInv'
  BY <1>4 DEF LookupFound, Visit
<1>5. ASSUME NEW p \in Proc, NEW d \in Device, LookupMissing(p, d) PROVE IInv'
  BY <1>5 DEF LookupMissing, Visit
<1>6. ASSUME NEW p \in Proc, LookupErr(p) PROVE IInv'
  BY <1>6 DEF LookupErr
<1>7. ASSUME NEW p \in Proc, StartDownloads(p) PROVE IInv'
  BY <1>7 DEF StartDownloads
<1>8. ASSUME NEW p \in Proc, NEW u \in URL, FetchLength(p, u) PROVE IInv'
  BY <1>8 DEF FetchLength, Becomes
<1>9. ASSUME NEW p \in Proc, NEW u \in URL, CreateVolume(p, u) PROVE IInv'
  BY <1>9 DEF CreateVolume, Becomes
<1>10. ASSUME NEW p \in Proc, NEW u \in URL, Upload(p, u) PROVE IInv'
  BY <1>10 DEF Upload, Becomes
<1>11. ASSUME NEW p \in Proc, NEW u \in URL, DownloadFails(p, u) PROVE IInv'
  BY <1>11 DEF DownloadFails, Becomes
<1>12. ASSUME NEW p \in Proc, NEW u \in URL, ReceiveOK(p, u) PROVE IInv'
  BY <1>12 DEF ReceiveOK, Becomes
<1>13. ASSUME NEW p \in Proc, NEW u \in URL, ReceiveErr(p, u) PROVE IInv'
  BY <1>13 DEF ReceiveErr, Becomes
<1>14. ASSUME NEW p \in Proc, DownloadsDone(p) PROVE IInv'
  BY <1>14 DEF DownloadsDone, AllReceived
<1>15. CASE UNCHANGED vars
  BY <1>15 DEF vars
<1> HIDE DEF IInv
<1> QED
  BY <1>1, <1>2, <1>3, <1>4, <1>5, <1>6, <1>7, <1>8, <1>9, <1>10, <1>11,
     <1>12, <1>13, <1>14, <1>15, Zenon
  DEF Next, Download, Receive

HIDE BaseImagesAssumption
DEF IInv, TypeOK, LookupInv, TodoInv, WorkerInv, ReceivedInv, PoolInv,
    DownloadsJoined, NoMissingBase, OwnDownloadComplete, WorkerState, Active,
    NoWorkers, pool

----------------------------------------------------------------------------
(* The theorems.                                                           *)

\* The inductive invariant holds in every reachable state.
LEMMA Inductive == Spec => []IInv
  BY InitIInv, NextIInv, PTL DEF Spec

\* The types of the variables.
THEOREM TypeCorrect == Spec => []TypeOK
<1>1. IInv => TypeOK
  BY DEF IInv
<1> QED
  BY <1>1, Inductive, PTL

\* createVolumes never meets a device without its base image: its panic is
\* dead code.
THEOREM BaseIsThere == Spec => []NoMissingBase
<1>1. IInv => NoMissingBase
  BY DEF IInv
<1> QED
  BY <1>1, Inductive, PTL

\* No goroutine of downloadBaseImages outlives it.
THEOREM NoGoroutineLeft == Spec => []DownloadsJoined
<1>1. IInv => DownloadsJoined
  BY DEF IInv
<1> QED
  BY <1>1, Inductive, PTL

\* What a call downloads itself is whole and from the right URL.
THEOREM OwnDownloadIsComplete == Spec => []OwnDownloadComplete
<1>1. IInv => OwnDownloadComplete
  BY DEF IInv
<1> QED
  BY <1>1, Inductive, PTL

\* No process disturbs a whole image, whatever the names of its own images.
THEOREM WholeImagesStay == Spec => CompleteStays
<1> DEFINE Stays == \A n \in complete : n \in complete' /\ source'[n] = source[n]
<1>1. IInv /\ [Next]_vars => [Stays]_vars
  <2> SUFFICES ASSUME IInv, Next PROVE Stays
    OBVIOUS
  <2>1. ASSUME NEW p \in Proc, NEW u \in URL, CreateVolume(p, u) PROVE Stays
    BY <2>1, BaseImagesAssumption DEF CreateVolume, IInv, TypeOK, PoolInv
  <2>2. ASSUME NEW p \in Proc, NEW u \in URL, Upload(p, u) PROVE Stays
    BY <2>2 DEF Upload
  <2>3. UNCHANGED pool => Stays
    BY DEF pool
  <2> QED
    BY <2>1, <2>2, <2>3
    DEF Next, Call, Return, Kill, Reset, Cancel, LookupFound, LookupMissing,
        LookupErr, StartDownloads, Download, FetchLength, DownloadFails,
        Receive, ReceiveOK, ReceiveErr, DownloadsDone
<1> QED
  BY <1>1, Inductive, PTL DEF Spec, CompleteStays

=============================================================================
