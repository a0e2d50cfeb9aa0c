---------------------------- MODULE AccessProps ----------------------------
(* What the owned access of the server keeps.                                *)
EXTENDS Access

NormalSets == {NormalizeGrantSet(s) : s \in SUBSET AccessGrant}

Phases == {"idle", "member", "remove", "identity", "authorize", "retry", "allowed", "denied"}

Listings == Users \X Groups \X BOOLEAN

Readings == [row : Rows, flags : SUBSET AccessFlags]

Jobs == [phase : Phases,
         request : SUBSET Requests,
         removal : SUBSET Removals,
         lists : SUBSET Listings,
         unbind : SUBSET Groups,
         sweep : SUBSET Resources,
         todo : SUBSET Rows,
         seen : SUBSET Readings,
         got : SUBSET AccessFlags]

\* The type of the state: every stored grant set is normalised (a row of
\* access_bindings is written by upsertAccessBinding only).
TypeOK ==
    /\ status \in [Users -> {"active", "deactivated", "purged"}]
    /\ groups \subseteq Groups
    /\ members \in [Groups -> SUBSET Users]
    /\ made \subseteq Resources
    /\ bindings \in [Resources -> [Principals -> NormalSets]]
    /\ effective \in [Users -> [Resources -> SUBSET AccessFlags]]
    /\ job \in [Workers -> Jobs]

\* When no request is under way the materialised rows are exactly the live
\* flags, whatever was joined, left, granted, revoked, deleted or purged
\* before: authorize may trust a row, and the lists of a user (which are read
\* from the rows alone, listAccessibleIds) are complete.
Coherent ==
    (\A w \in Workers : job[w] = Idle) =>
        \A u \in Users, r \in Resources : effective[u][r] = Live(u, r)

\* Nobody gains by a grant what its issuer does not hold: the flags a user gets
\* in the step that writes the binding are flags of the issuer, although the
\* effective row that was checked no longer says from which grants and through
\* which groups its flags came (flagsCanIssue against canIssueGrant).
NoEscalation ==
    [][\A w \in Workers : Grant(w) =>
          \A q \in job[w].request, u \in Users :
             LiveIn(members, bindings', u, q.resource)
                \subseteq Live(u, q.resource) \union Live(q.user, q.resource)]_vars

\* The decision a worker has just taken.
Verdict ==
    UNION {{[user |-> q.user, resource |-> q.resource, need |-> Need(q),
             allowed |-> job[w].phase = "allowed"] : q \in job[w].request} :
           w \in {v \in Workers : job[v].phase \in {"allowed", "denied"}}}

Contract == INSTANCE AccessContract WITH verdict <- Verdict

\* Without materialised rows a decision would be taken from the bindings and
\* memberships of the moment, along every live path; the happy path that trusts
\* a row, the retry, and the rematerialisation after each change decide the
\* same (docs/systems/resource-authorization.md, "Owned access").
ImplementsContract == Contract!Spec

\* "Owned-list access is revoked immediately through rematerialization"
\* (docs/systems/resource-authorization.md:46): once the request that took a
\* path away has ended, no row shows more than the live paths.
RevokedAtOnce ==
    (\A w \in Workers : job[w] = Idle) =>
        \A u \in Users, r \in Resources : effective[u][r] \subseteq Live(u, r)
=============================================================================
