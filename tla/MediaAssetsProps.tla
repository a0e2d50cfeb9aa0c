------------------------- MODULE MediaAssetsProps -------------------------
(* What the media cache promises. *)
EXTENDS MediaAssets

\* A row that says ready names a blob that is in objects/: no commit, eviction,
\* failed attempt or restart leaves a ready row without its file.
ReadyOnDisk ==
    \A t \in Tracks, k \in Kinds :
        Ready(t, k) => asset[t][k].blob \in objects

\* A request that has chosen a stored blob finds the file when it opens it,
\* whatever eviction was under way when it came (mediaAudio.ts: "no stream can
\* ever open a file that eviction is about to reclaim").
LeaseHolds ==
    \A r \in Requests : request[r].at = "opening" => request[r].blob \in objects

\* Nothing walks objects/, so a file there that no row, job or sweep names is
\* lost disk space.  It happens only through a stop of the server between two
\* steps and through an eviction that took the row of a running download.
ObjectsOwned ==
    \A b \in objects \ stranded :
        \/ \E t \in Tracks, k \in Kinds : Ready(t, k) /\ asset[t][k].blob = b
        \/ \E j \in jobs : j.blob = b
        \/ b \in sweep.todo

\* The ledger's weight of a track is the number of its ready assets, except
\* while the track is evicted, after a release that did not match what had
\* become of the track, and after a stop in the middle of an eviction.
LedgerHonest ==
    \A t \in Tracks \ excused :
        \/ t = sweep.track
        \/ Weight(t) = IF ledger[t] = None THEN 0 ELSE ledger[t].weight

=============================================================================
