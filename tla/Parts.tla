------------------------------- MODULE Parts -------------------------------
(* The smaller components, each on its own: the parts share no state, so a *)
(* behaviour is one of one part, chosen at the start, while the variables  *)
(* of the others stay switched off.  Placement and Reads are instantiated  *)
(* together with their theorems.                                           *)
EXTENDS NodeParts

CONSTANTS
    \* Placement, once for requests of one object and once for multipart uploads
    Nodes, Writers, Deleters, NumKeys, DotKeys, NoClass, NoNode, DefaultClass, ClassesOf, Rules,
    Contexts, Forwarders, BatchLimit, Stock, MaxUploads, MaxDeletes,
    PlainOps, DeleteOps, PlainWrites, MultipartOps, MultipartWrites,
    \* Reads, once for readers that share the cache and once for every format and range
    Contents, BlockSize, BufferSize, CacheEntries, CacheBytes, ReadAhead, ChunksPerStep, Renames,
    SharedReaders, SharedKept, SharedSpecs, FormatReaders, FormatKept, FormatSpecs

VARIABLES
    part,   \* the part that runs
    store, placed, sess, reqs, home, acked, dels,
    object, file, get, pump, steps, chan, body, client, cache, cacheUsed, renames

PL == INSTANCE Placement_proofs WITH WriteOps <- PlainOps, MaxWrites <- PlainWrites
PM == INSTANCE Placement_proofs WITH WriteOps <- MultipartOps, DeleteOps <- {}, MaxWrites <- MultipartWrites
RD == INSTANCE Reads_proofs WITH
    Readers <- SharedReaders, Kept <- SharedKept, Specs <- SharedSpecs, MaxWrites <- Renames,
    blob <- file, writes <- renames
RF == INSTANCE Reads_proofs WITH
    Readers <- FormatReaders, Kept <- FormatKept, Specs <- FormatSpecs, MaxWrites <- Renames,
    blob <- file, writes <- renames

-----------------------------------------------------------------------------
Off == "off"

PlacementOff ==
    /\ store = Off /\ placed = Off /\ sess = Off /\ reqs = Off /\ home = Off /\ acked = Off /\ dels = Off
MaintenanceOff ==
    /\ row = Off /\ blob = Off /\ lock = Off /\ cursor = Off /\ epoch = Off /\ walk = Off /\ alarms = Off
    /\ dicts = Off /\ loaded = Off /\ trainer = Off /\ harm = Off /\ restarts = Off /\ ops = Off /\ on = Off
ListingOff ==
    /\ rows = Off /\ lister = Off /\ pc = Off /\ after = Off /\ last = Off /\ items = Off /\ folders = Off
    /\ kept = Off /\ keyWrites = Off
AdmissionOff ==
    /\ size = Off /\ keyLock = Off /\ capLock = Off /\ reserved = Off /\ budget = Off /\ up = Off /\ deletes = Off
RateOff == bucket = Off /\ now = Off /\ passed = Off /\ since = Off
ServerOff ==
    /\ loop = Off /\ slots = Off /\ queue = Off /\ conn = Off /\ handler = Off /\ hung = Off /\ requests = Off
    /\ signal = Off /\ graceOver = Off /\ failures = Off
ReloadOff ==
    /\ saved = Off /\ cluster = Off /\ live = Off /\ configs = Off /\ running = Off /\ req = Off /\ overlap = Off
    /\ queued = Off /\ writer = Off /\ logWrites = Off /\ reloads = Off
ReadsOff ==
    /\ object = Off /\ file = Off /\ get = Off /\ pump = Off /\ steps = Off /\ chan = Off /\ body = Off
    /\ client = Off /\ cache = Off /\ cacheUsed = Off /\ renames = Off

Init ==
    \/ /\ part = "placement" /\ PL!Init
       /\ MaintenanceOff /\ ListingOff /\ AdmissionOff /\ RateOff /\ ServerOff /\ ReloadOff /\ ReadsOff
    \/ /\ part = "multipart" /\ PM!Init
       /\ MaintenanceOff /\ ListingOff /\ AdmissionOff /\ RateOff /\ ServerOff /\ ReloadOff /\ ReadsOff
    \/ /\ part = "maintenance" /\ MT!Init
       /\ PlacementOff /\ ListingOff /\ AdmissionOff /\ RateOff /\ ServerOff /\ ReloadOff /\ ReadsOff
    \/ /\ part = "listing" /\ LS!Init
       /\ PlacementOff /\ MaintenanceOff /\ AdmissionOff /\ RateOff /\ ServerOff /\ ReloadOff /\ ReadsOff
    \/ /\ part = "admission" /\ AD!Init
       /\ PlacementOff /\ MaintenanceOff /\ ListingOff /\ RateOff /\ ServerOff /\ ReloadOff /\ ReadsOff
    \/ /\ part = "rate" /\ RL!Init
       /\ PlacementOff /\ MaintenanceOff /\ ListingOff /\ AdmissionOff /\ ServerOff /\ ReloadOff /\ ReadsOff
    \/ /\ part = "server" /\ SV!Init
       /\ PlacementOff /\ MaintenanceOff /\ ListingOff /\ AdmissionOff /\ RateOff /\ ReloadOff /\ ReadsOff
    \/ /\ part = "reload" /\ RE!Init
       /\ PlacementOff /\ MaintenanceOff /\ ListingOff /\ AdmissionOff /\ RateOff /\ ServerOff /\ ReadsOff
    \/ /\ part = "reads" /\ RD!Init
       /\ PlacementOff /\ MaintenanceOff /\ ListingOff /\ AdmissionOff /\ RateOff /\ ServerOff /\ ReloadOff
    \/ /\ part = "formats" /\ RF!Init
       /\ PlacementOff /\ MaintenanceOff /\ ListingOff /\ AdmissionOff /\ RateOff /\ ServerOff /\ ReloadOff

placementVars == <<store, placed, sess, reqs, home, acked, dels>>
readsVars == <<object, file, get, pump, steps, chan, body, client, cache, cacheUsed, renames>>

allVars ==
    <<part, placementVars, maintenanceVars, listingVars, admissionVars, rateVars, serverVars, reloadVars, readsVars>>

Next ==
    \/ /\ part = "placement" /\ PL!Next
       /\ UNCHANGED <<part, maintenanceVars, listingVars, admissionVars, rateVars,
                      serverVars, reloadVars, readsVars>>
    \/ /\ part = "multipart" /\ PM!Next
       /\ UNCHANGED <<part, maintenanceVars, listingVars, admissionVars, rateVars,
                      serverVars, reloadVars, readsVars>>
    \/ /\ part = "maintenance" /\ MT!Next
       /\ UNCHANGED <<part, placementVars, listingVars, admissionVars, rateVars,
                      serverVars, reloadVars, readsVars>>
    \/ /\ part = "listing" /\ LS!Next
       /\ UNCHANGED <<part, placementVars, maintenanceVars, admissionVars, rateVars,
                      serverVars, reloadVars, readsVars>>
    \/ /\ part = "admission" /\ AD!Next
       /\ UNCHANGED <<part, placementVars, maintenanceVars, listingVars, rateVars,
                      serverVars, reloadVars, readsVars>>
    \/ /\ part = "rate" /\ RL!Next
       /\ UNCHANGED <<part, placementVars, maintenanceVars, listingVars, admissionVars,
                      serverVars, reloadVars, readsVars>>
    \/ /\ part = "server" /\ SV!Next
       /\ UNCHANGED <<part, placementVars, maintenanceVars, listingVars, admissionVars,
                      rateVars, reloadVars, readsVars>>
    \/ /\ part = "reload" /\ RE!Next
       /\ UNCHANGED <<part, placementVars, maintenanceVars, listingVars, admissionVars,
                      rateVars, serverVars, readsVars>>
    \/ /\ part = "reads" /\ RD!Next
       /\ UNCHANGED <<part, placementVars, maintenanceVars, listingVars, admissionVars,
                      rateVars, serverVars, reloadVars>>
    \/ /\ part = "formats" /\ RF!Next
       /\ UNCHANGED <<part, placementVars, maintenanceVars, listingVars, admissionVars,
                      rateVars, serverVars, reloadVars>>

\* The fairness of each part's FairSpec, for the part that runs.
Fairness ==
    /\ WF_maintenanceVars(part = "maintenance" /\ MT!ScrubStep)
    /\ WF_maintenanceVars(part = "maintenance" /\ MT!RewriteStep("recompress"))
    /\ WF_maintenanceVars(part = "maintenance" /\ MT!Finish)
    /\ WF_serverVars(part = "server" /\ SV!Loop)
    /\ \A c \in Conns : WF_serverVars(part = "server" /\ SV!Serve(c))
    /\ WF_reloadVars(part = "reload" /\ RE!Write)
    /\ \A r \in DOMAIN Snapshots : WF_reloadVars(part = "reload" /\ RE!Step(r))
    /\ WF_reloadVars(part = "reload" /\ RE!Delivery)
    /\ \A r \in FormatReaders : WF_readsVars(part = "formats" /\ RF!Blocking(r))

Spec == Init /\ [][Next]_allVars
FairSpec == Spec /\ Fairness

-----------------------------------------------------------------------------
(* The properties of the part that runs; its module states and explains    *)
(* them.  What leads away from a state, P ~> ~P, is written []<>~P here.   *)

\* An acknowledged write is stored under the class the asked node resolved
\* (AssignedBackend, forward_put).
PlacedAsResolved ==
    (part = "placement" => PL!PlacedAsResolved) /\ (part = "multipart" => PM!PlacedAsResolved)

\* A delete that succeeds leaves no older copy on any node
\* (combine_delete_results).
DeletedEverywhere ==
    (part = "placement" => PL!DeletedEverywhere) /\ (part = "multipart" => PM!DeletedEverywhere)

\* A bulk delete that reports nothing left has left nothing
\* (delete_objects_by_prefix and _batch of AssignedBackend).
BulkDeleteComplete ==
    (part = "placement" => PL!BulkDeleteComplete) /\ (part = "multipart" => PM!BulkDeleteComplete)

\* scrub_objects reports only objects that are damaged.
NoFalseAlarm == part = "maintenance" => MT!NoFalseAlarm

\* replace_blob_if_unchanged never changes an object.
SwapKeepsObject == part = "maintenance" => MT!SwapKeepsObject

\* A walk over pages of list_objects lists every key that stays.
KeysListed == part = "listing" => LS!KeysListed

\* reserve_capacity keeps stored bytes within the cap, try_acquire uploads
\* within the budget.
WithinLimits == part = "admission" => AD!WithinLimits

\* take_token gives no client more than its rate and burst.
RateHeld == part = "rate" => RL!RateHeld

\* A graceful stop of serve_until cuts off no connected client.
DrainKeepsRequests == part = "server" => SV!DrainKeepsRequests

\* apply_cluster_snapshot leaves one worker and one configuration.
ReloadSettles == part = "reload" => RE!ReloadSettles

\* A GET body is the bytes asked for, of one version
\* (open_object_body_stream).
RangeServed ==
    (part = "reads" => RD!RangeServed) /\ (part = "formats" => RF!RangeServed)

\* BlockDecodeCache counts its bytes and keeps its limits.
CacheAccounted ==
    (part = "reads" => RD!CacheAccounted) /\ (part = "formats" => RF!CacheAccounted)

\* scrub_objects reports damage that stays, and recompress_blobs reaches every
\* outdated blob.
UnreportedHere == part = "maintenance" /\ MT!Unreported
OutdatedHere == part = "maintenance" /\ MT!Outdated
WalksComplete == []<>~UnreportedHere /\ []<>~OutdatedHere

\* serve_until serves queued connections and ends after the signal.
WaitingHere(c) == part = "server" /\ SV!Waiting(c)
DrainingHere == part = "server" /\ SV!Draining
WaitsEnd ==
    /\ \A c \in Conns : []<>~WaitingHere(c)
    /\ []<>~DrainingHere

\* A change recorded in the replication log is delivered across reloads.
UndeliveredHere == part = "reload" /\ RE!Undelivered
LogDrained == []<>~UndeliveredHere

\* A stalled download gives its blocking thread back (fill_while_room).
HoldsThreadHere(r) == part = "formats" /\ RF!HoldsThread(r)
ThreadsReturned == \A r \in FormatReaders : []<>~HoldsThreadHere(r)
=============================================================================
