------------------------------ MODULE MCParts ------------------------------
(* A small instance of every part.                                         *)
EXTENDS Parts_proofs, TLC

(* Placement: two nodes whose rules disagree. n1 places video on n2 as     *)
(* "cold", n2 would keep it as "ice" and names a node that left for "hot"; *)
(* no node keeps "warm".                                                   *)
Rule(class, keys, hints, node) == [class |-> class, keys |-> keys, hints |-> hints, node |-> node]
MCRules ==
    "n1" :> <<Rule("cold", {1, 2}, {"video"}, "n2")>> @@
    "n2" :> <<Rule("ice", {1, 2}, {"video"}, "nonode"), Rule("hot", {}, {}, "gone")>>
MCClassesOf == "n1" :> {"hot"} @@ "n2" :> {"cold", "ice"}
Ctx(meta, hint) == [hdr |-> "noclass", meta |-> meta, hint |-> hint]
MCContexts == {Ctx("noclass", "none"), Ctx("noclass", "video"), Ctx("warm", "none")}
MCStock == <<[node |-> "n2", key |-> 1, class |-> "cold"]>>

(* Maintenance: equal keys in two buckets, one blob of every generation.   *)
Stale(format, nested) ==
    [ver |-> 1, format |-> format, level |-> 0, dict |-> 0, nested |-> nested, damaged |-> FALSE]
MCStored ==
    <<1, 1>> :> Stale("legacy", TRUE) @@ <<1, 2>> :> Stale("raw", FALSE) @@ <<2, 1>> :> Stale("indexed", FALSE)
MCHashOf == <<1, 1>> :> 0 @@ <<1, 2>> :> 1 @@ <<2, 1>> :> 1
MCCompressible == {<<1, 1>>, <<2, 1>>}

(* Listing: folders within a page's limit; short pages of plain keys.      *)
MCFolder == <<0, 1, 1, 0, 2>>
MCWalks ==
    {[kind |-> "plain", limit |-> 1], [kind |-> "plain", limit |-> 2],
     [kind |-> "folders", limit |-> 5], [kind |-> "purge", limit |-> 4]}

(* Admission: two keys, an overwrite, and an upload larger than the cap.   *)
MCUploads ==
    <<[key |-> 1, size |-> 2], [key |-> 2, size |-> 2], [key |-> 1, size |-> 1], [key |-> 2, size |-> 5]>>

(* Reload: three admin requests, the last one without rules.               *)
Config(mode, peers, rules) == [mode |-> mode, token |-> TRUE, peers |-> peers, rules |-> rules]
MCEnvConfig == Config("replicated", TRUE, FALSE)
MCSnapshots ==
    <<Config("replicated+assigned", TRUE, TRUE), Config("assigned", TRUE, TRUE), Config("assigned", TRUE, FALSE)>>

(* Reads: two readers of one NOSB blob; one reader of every format and     *)
(* range. Some uploads begin with a magic, their size field wrong or, as   *)
(* it happens, right.                                                      *)
Plain(bytes) == [bytes |-> bytes, looks |-> "Raw", says |-> 0]
Magic(bytes, says) == [bytes |-> bytes, looks |-> "Nosi", says |-> says]
File(magic, says, len, bytes, ends, bad) ==
    [magic |-> magic, says |-> says, len |-> len, bytes |-> bytes, ends |-> ends, bad |-> bad]
Shelved(format, len, bad) ==
    [content |-> Plain(<<"a", "a", "b">>), blob |-> File(format, 3, len, <<"a", "a", "b">>, <<2, 3>>, bad)]
MCContents == {Magic(<<"m", "a", "d">>, 3)}
MCSharedKept == {Shelved("Nosb", 3, {})}
MCFormatKept ==
    {Shelved("Nosi", 4, {2}), Shelved("Nosi", 3, {}), Shelved("Nosb", 3, {}), Shelved("Nosz", 4, {}), Shelved("Nosd", 3, {}),
     [content |-> Plain(<<>>), blob |-> File("Raw", 0, 0, <<>>, <<>>, {})],
     [content |-> Plain(<<>>), blob |-> File("Nosi", 0, 9, <<>>, <<>>, {})],
     [content |-> Magic(<<"m", "a">>, 9), blob |-> File("Nosi", 9, 2, <<"m", "a">>, <<>>, {})]}
MCSharedSpecs == {[kind |-> "ignore"], [kind |-> "suffix", n |-> 2],
                  [kind |-> "span", first |-> 2, last |-> -1]}
MCFormatSpecs ==
    {[kind |-> "ignore"]} \cup {[kind |-> "suffix", n |-> n] : n \in 0..4}
        \cup {[kind |-> "span", first |-> f, last |-> l] : f \in 0..3, l \in {-1, 0, 1, 2, 4}}

(* The hypotheses of the theorems hold of this instance.                   *)
ASSUME PlacementSettings == PL!Settings /\ PM!Settings /\ NumKeys <= BatchLimit
ASSUME MaintenanceSettings == StoredBlobs
ASSUME PageSettings == ListingSettings /\ \A w \in ListWalks : Fits(w)
ASSUME LimitSettings == AdmissionSettings /\ RateSettings /\ ReloadSettings
ASSUME ReadSettings == RD!Settings /\ RF!Settings

=============================================================================
