-------------------------- MODULE PostReplicaProps --------------------------
(***************************************************************************)
(* What the coverage record of a conversation certifies.                   *)
(***************************************************************************)
EXTENDS PostReplica

Current(s) == rows[s].rev = rev[s]

\* The cursor is a certificate: whatever the server had changed up to
\* known_revision inside the published window is stored in its current version
\* (advancePostRevision against savePosts, collectRevisionRange and the page paths).
CursorSound ==
    \A s \in 1..head : Covers(cover, s) /\ rev[s] <= cover.known => Current(s)

\* reached_newest certifies the end: every post beyond the window is newer than
\* the cursor, so that the next catch-up still asks for it.
EndSound ==
    cover # NoCover /\ cover.reachedNewest =>
        \A s \in (cover.newest + 1)..head : rev[s] > cover.known

\* Skipping the catch-up because the revision sums agree misses nothing: the
\* window is then an exact image of the server.
SumSound ==
    cover # NoCover /\ cover.sum = RevisionSum =>
        /\ \A s \in cover.oldest..cover.newest : Current(s)
        /\ cover.reachedNewest => cover.newest = head

\* A published window has both its ends stored and no row outside it, and no
\* window is published over no rows (postCoverageAfterPrefixDelete).
WindowClosed ==
    IF cover = NoCover THEN Stored = {}
    ELSE {cover.oldest, cover.newest} \subseteq Stored /\ Stored \subseteq cover.oldest..cover.newest
=============================================================================
