----------------------------- MODULE NodeParts -----------------------------
(* The smaller components of one node, each an instance over variables of  *)
(* its own.  Parts runs them, one in each behaviour.                       *)

CONSTANTS
    \* Maintenance
    Stored, Limit, SampleDenom, HashOf, Compressible, Modes, MaxOps, MaxDicts,
    \* Listing
    ListKeys, Folder, ListWalks, ScanCap, KeyWrites,
    \* Admission
    Uploads, Cap, MaxInFlight, Unit, UploadDeletes,
    \* RateLimit
    RateClients, Rate, Burst, MaxTracked, IdleAfter, MaxTime,
    \* Server
    Conns, MaxConnections, MaxRequests, MaxHung, MaxFailures,
    \* Reload
    EnvConfig, Snapshots, LogWrites,
    \* bound: restarts, in Maintenance and in Reload
    MaxRestarts

VARIABLES
    row, blob, lock, cursor, epoch, walk, alarms, dicts, loaded, trainer, harm, restarts, ops, on,
    rows, lister, pc, after, last, items, folders, kept, keyWrites,
    size, keyLock, capLock, reserved, budget, up, deletes,
    bucket, now, passed, since,
    loop, slots, queue, conn, handler, hung, requests, signal, graceOver, failures,
    saved, cluster, live, configs, running, req, overlap, queued, writer, logWrites, reloads

MT == INSTANCE Maintenance
LS == INSTANCE Listing WITH
    Keys <- ListKeys, Walks <- ListWalks, MaxWrites <- KeyWrites, walk <- lister, writes <- keyWrites
AD == INSTANCE Admission WITH MaxDeletes <- UploadDeletes
RL == INSTANCE RateLimit WITH Clients <- RateClients
SV == INSTANCE Server
RE == INSTANCE Reload WITH MaxWrites <- LogWrites, writes <- logWrites, restarts <- reloads

maintenanceVars ==
    <<row, blob, lock, cursor, epoch, walk, alarms, dicts, loaded, trainer, harm, restarts, ops, on>>
listingVars == <<rows, lister, pc, after, last, items, folders, kept, keyWrites>>
admissionVars == <<size, keyLock, capLock, reserved, budget, up, deletes>>
rateVars == <<bucket, now, passed, since>>
serverVars == <<loop, slots, queue, conn, handler, hung, requests, signal, graceOver, failures>>
reloadVars ==
    <<saved, cluster, live, configs, running, req, overlap, queued, writer, logWrites, reloads>>
=============================================================================
