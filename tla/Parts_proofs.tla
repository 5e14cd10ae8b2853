---------------------------- MODULE Parts_proofs ----------------------------
(***************************************************************************)
(* Theorems about the smaller parts, for every value of their constants:   *)
(* in each, the invariant of a part, proved in NodeParts_proofs,           *)
(* Placement_proofs or Reads_proofs, holds as long as that part runs.      *)
(***************************************************************************)
EXTENDS Parts, NodeParts_proofs

-----------------------------------------------------------------------------
(* The parts of one node.                                                  *)

(* A graceful stop cuts off no request whose client is still connected,    *)
(* unless the grace period is over: for any number of connections, slots   *)
(* and requests, whatever handlers hang and accepts fail.                  *)
THEOREM ServerDrains == Spec => []DrainKeepsRequests
<1> DEFINE Inv == part = "server" => ServerInv
<1>1. Init => Inv
  BY ServerInit DEF Init
<1>2. Inv /\ [Next]_allVars => Inv'
  <2> SUFFICES ASSUME Inv, [Next]_allVars, part' = "server" PROVE ServerInv'
    OBVIOUS
  <2>1. part = "server" /\ [SV!Next]_serverVars
    BY DEF Next, allVars
  <2> QED BY <2>1, ServerNext
<1>3. Inv => DrainKeepsRequests
  BY DEF DrainKeepsRequests, SV!DrainKeepsRequests, ServerInv
<1> HIDE DEF Inv
<1> QED BY <1>1, <1>2, <1>3, PTL DEF Spec

(* A walk over the pages of list_objects, or of a purge, answers every key *)
(* that stays, whatever is added and removed between its requests: for any *)
(* keys and any positive page size, when a scan by delimiter cannot meet   *)
(* more entries than a page holds and a purge's directory walk sees every  *)
(* key.                                                                    *)
THEOREM PagesListKeys ==
  ASSUME ListingSettings, \A w \in ListWalks : Fits(w)
  PROVE  Spec => []KeysListed
<1> DEFINE Inv == part = "listing" => ListingInv /\ Fits(lister)
<1>1. Init => Inv
  BY ListingInit DEF Init, LS!Init
<1>2. Inv /\ [Next]_allVars => Inv'
  <2> SUFFICES ASSUME Inv, [Next]_allVars, part' = "listing" PROVE ListingInv' /\ Fits(lister)'
    OBVIOUS
  <2>1. part = "listing" /\ [LS!Next]_listingVars
    BY DEF Next, allVars
  <2> QED BY <2>1, ListingNext
<1>3. Inv => KeysListed
  BY DEF KeysListed, LS!KeysListed, ListingInv, Listed
<1> HIDE DEF Inv
<1> QED BY <1>1, <1>2, <1>3, PTL DEF Spec

(* take_token and evict_idle: until all buckets are dropped at once, no    *)
(* client is let through more than Burst + Rate * elapsed times, however   *)
(* often its bucket is forgotten and made again, as long as a bucket is    *)
(* idle only when it is full again.                                        *)
THEOREM RateLimited ==
  ASSUME RateSettings
  PROVE  Spec => []RateHeld
<1>1. CASE IdleIsFull
  <2> DEFINE Inv == part = "rate" => RateInv
  <2>1. Init => Inv
    BY RateInit DEF Init
  <2>2. Inv /\ [Next]_allVars => Inv'
    <3> SUFFICES ASSUME Inv, [Next]_allVars, part' = "rate" PROVE RateInv'
      OBVIOUS
    <3>1. part = "rate" /\ [RL!Next]_rateVars
      BY DEF Next, allVars
    <3> QED BY <1>1, <3>1, RateNext
  <2>3. Inv => RateHeld
    BY EarnedHeld DEF RateHeld
  <2> HIDE DEF Inv
  <2> QED BY <2>1, <2>2, <2>3, PTL DEF Spec
<1>2. CASE ~ IdleIsFull
  <2>1. RateHeld
    BY <1>2 DEF RateHeld, RL!RateHeld, IdleIsFull
  <2> QED BY <2>1, PTL
<1> QED BY <1>1, <1>2

(* Stored bytes stay within the cap and uploads within their budget.       *)
THEOREM LimitsHold == ASSUME AdmissionSettings PROVE Spec => []WithinLimits
<1> DEFINE Inv == part = "admission" => AdmissionInv
<1>1. Init => Inv
  BY AdmissionInit DEF Init
<1>2. Inv /\ [Next]_allVars => Inv'
  <2> SUFFICES ASSUME Inv, [Next]_allVars, part' = "admission" PROVE AdmissionInv'
    OBVIOUS
  <2>1. part = "admission" /\ [AD!Next]_admissionVars
    BY DEF Next, allVars
  <2> QED BY <2>1, AdmissionNext
<1>3. Inv => WithinLimits
  BY LimitsKept DEF WithinLimits
<1> HIDE DEF Inv
<1> QED BY <1>1, <1>2, <1>3, PTL DEF Spec

(* apply_cluster_snapshot and the start of the node: whatever reloads      *)
(* overlap, fail or are cut off by a restart, the worker of the live       *)
(* backend runs and no other is left; reloads made one at a time leave     *)
(* the stored, the live and the built configuration the same.              *)
THEOREM ReloadsSettle ==
  ASSUME ReloadSettings
  PROVE  Spec => []ReloadSettles
<1> DEFINE Inv == part = "reload" => ReloadInv
<1>1. Init => Inv
  BY ReloadInit DEF Init
<1>2. Inv /\ [Next]_allVars => Inv'
  <2> SUFFICES ASSUME Inv, [Next]_allVars, part' = "reload" PROVE ReloadInv'
    OBVIOUS
  <2>1. part = "reload" /\ [RE!Next]_reloadVars
    BY DEF Next, allVars
  <2> QED BY <2>1, ReloadNext
<1>3. Inv => ReloadSettles
  BY ReloadInvGives DEF ReloadSettles
<1> HIDE DEF Inv
<1> QED BY <1>1, <1>2, <1>3, PTL DEF Spec

LEMMA MaintenanceInvariant ==
  ASSUME StoredBlobs
  PROVE  Spec => [](part = "maintenance" => MaintInv)
<1> DEFINE Inv == part = "maintenance" => MaintInv
<1>1. Init => Inv
  BY MaintInit DEF Init
<1>2. Inv /\ [Next]_allVars => Inv'
  <2> SUFFICES ASSUME Inv, [Next]_allVars, part' = "maintenance" PROVE MaintInv'
    OBVIOUS
  <2>1. part = "maintenance" /\ [MT!Next]_maintenanceVars
    BY DEF Next, allVars
  <2> QED BY <2>1, MaintNext
<1> HIDE DEF Inv
<1>3. Spec => []Inv
  BY <1>1, <1>2, PTL DEF Spec
<1> QED BY <1>3 DEF Inv

(* replace_blob_if_unchanged: whatever recompression and migration read    *)
(* and staged while clients overwrote and deleted, an object nobody is     *)
(* writing has the content its row names.                                  *)
THEOREM SwapsKeepObjects == ASSUME StoredBlobs PROVE Spec => []SwapKeepsObject
<1>1. (part = "maintenance" => MaintInv) => SwapKeepsObject
  BY DEF SwapKeepsObject, MaintInv
<1> QED BY <1>1, MaintenanceInvariant, PTL

(* scrub_objects: a report is never about an object that was merely being  *)
(* written, deleted or swapped, or whose dictionary was not yet loaded.    *)
THEOREM AlarmsAreReal == ASSUME StoredBlobs PROVE Spec => []NoFalseAlarm
<1>1. (part = "maintenance" => MaintInv) => NoFalseAlarm
  BY DEF NoFalseAlarm, MaintInv
<1> QED BY <1>1, MaintenanceInvariant, PTL

-----------------------------------------------------------------------------
(* Parts whose invariant is proved in a module of its own.                 *)

LEMMA PlacementInvariant ==
  ASSUME PL!Settings, PM!Settings
  PROVE  Spec => []((part = "placement" => PL!IInv) /\ (part = "multipart" => PM!IInv))
<1> DEFINE Inv == (part = "placement" => PL!IInv) /\ (part = "multipart" => PM!IInv)
<1>1. Init => Inv
  BY PL!InitInv, PM!InitInv DEF Init
<1>2. Inv /\ [Next]_allVars => Inv'
  <2> SUFFICES ASSUME Inv, [Next]_allVars PROVE Inv'
    OBVIOUS
  <2>1. ASSUME part' = "placement" PROVE PL!IInv'
    <3>1. part = "placement" /\ [PL!Next]_placementVars
      BY <2>1 DEF Next, allVars
    <3>2. [PL!Next]_(PL!vars)
      BY <3>1 DEF PL!vars, placementVars
    <3> QED BY <3>1, <3>2, PL!NextInv
  <2>2. ASSUME part' = "multipart" PROVE PM!IInv'
    <3>1. part = "multipart" /\ [PM!Next]_placementVars
      BY <2>2 DEF Next, allVars
    <3>2. [PM!Next]_(PM!vars)
      BY <3>1 DEF PM!vars, placementVars
    <3> QED BY <3>1, <3>2, PM!NextInv
  <2> QED BY <2>1, <2>2
<1> HIDE DEF Inv
<1>3. Spec => []Inv
  BY <1>1, <1>2, PTL DEF Spec
<1> QED BY <1>3 DEF Inv

(* A write of any kind answered with success, forwarded or not, is stored  *)
(* under the class that the node asked resolved, on a node that keeps it.  *)
THEOREM WritesPlaced == ASSUME PL!Settings, PM!Settings PROVE Spec => []PlacedAsResolved
<1>1. (part = "placement" => PL!IInv) /\ (part = "multipart" => PM!IInv) => PlacedAsResolved
  BY PL!Placements, PM!Placements DEF PlacedAsResolved
<1> QED BY <1>1, PlacementInvariant, PTL

(* A delete that reports success has reached every node.                   *)
THEOREM DeletesReachAll == ASSUME PL!Settings, PM!Settings PROVE Spec => []DeletedEverywhere
<1>1. (part = "placement" => PL!IInv) /\ (part = "multipart" => PM!IInv) => DeletedEverywhere
  BY PL!Deletions, PM!Deletions DEF DeletedEverywhere
<1> QED BY <1>1, PlacementInvariant, PTL

(* A bulk delete that reports no failure and nothing left has left nothing *)
(* on any node, where one page takes every key of the prefix.              *)
THEOREM BulkDeletesComplete ==
  ASSUME PL!Settings, PM!Settings, NumKeys <= BatchLimit
  PROVE  Spec => []BulkDeleteComplete
<1>1. ~PL!Pages /\ ~PM!Pages
  BY DEF PL!Pages, PM!Pages, PL!Settings
<1>2. (part = "placement" => PL!IInv) /\ (part = "multipart" => PM!IInv) => BulkDeleteComplete
  BY <1>1, PL!BulkDeletions, PM!BulkDeletions DEF BulkDeleteComplete
<1> QED BY <1>2, PlacementInvariant, PTL

(* The bodies, of both instances.                                          *)
LEMMA ReadsInvariant ==
  ASSUME RD!Settings, RF!Settings
  PROVE  Spec => []((part = "reads" => RD!IInv) /\ (part = "formats" => RF!IInv))
<1> DEFINE Inv == (part = "reads" => RD!IInv) /\ (part = "formats" => RF!IInv)
<1>1. Init => Inv
  BY RD!InitInv, RF!InitInv DEF Init
<1>2. Inv /\ [Next]_allVars => Inv'
  <2> SUFFICES ASSUME Inv, [Next]_allVars PROVE Inv'
    OBVIOUS
  <2>1. ASSUME part' = "reads" PROVE RD!IInv'
    <3>1. part = "reads" /\ [RD!Next]_readsVars
      BY <2>1 DEF Next, allVars
    <3>2. [RD!Next]_(RD!vars)
      BY <3>1 DEF RD!vars, readsVars
    <3> QED BY <3>1, <3>2, RD!NextInv
  <2>2. ASSUME part' = "formats" PROVE RF!IInv'
    <3>1. part = "formats" /\ [RF!Next]_readsVars
      BY <2>2 DEF Next, allVars
    <3>2. [RF!Next]_(RF!vars)
      BY <3>1 DEF RF!vars, readsVars
    <3> QED BY <3>1, <3>2, RF!NextInv
  <2> QED BY <2>1, <2>2
<1> HIDE DEF Inv
<1>3. Spec => []Inv
  BY <1>1, <1>2, PTL DEF Spec
<1> QED BY <1>3 DEF Inv

(* A body is the bytes its Range header asks for, of the one version the   *)
(* request opened, for any objects, formats, ranges and buffer sizes.      *)
THEOREM RangesServed == ASSUME RD!Settings, RF!Settings PROVE Spec => []RangeServed
<1>1. (part = "reads" => RD!IInv) /\ (part = "formats" => RF!IInv) => RangeServed
  BY RD!Serves, RF!Serves DEF RangeServed
<1> QED BY <1>1, ReadsInvariant, PTL

(* The block cache counts exactly what it holds, within both its limits.   *)
THEOREM CacheCounts == ASSUME RD!Settings, RF!Settings PROVE Spec => []CacheAccounted
<1>1. (part = "reads" => RD!IInv) /\ (part = "formats" => RF!IInv) => CacheAccounted
  BY RD!Counts, RF!Counts DEF CacheAccounted
<1> QED BY <1>1, ReadsInvariant, PTL
=============================================================================
