------------------------------- MODULE Access -------------------------------
(* Owned access of the server (src/server/services/accessService.ts and its  *)
(* callers): bindings of principals to resources, group memberships, and the *)
(* materialised row per user and resource that the happy path trusts.        *)
(*                                                                           *)
(* A request runs in one worker, statement by statement, and every worker    *)
(* has its own connection to the database: what an administrator changes     *)
(* through the unit of work is one transaction and so one action, everything *)
(* else is a job whose statements other workers can come between.  A write   *)
(* of the handler is followed by the rows it has to rematerialise:           *)
(*   lists   memberships whose bound resources are still to be listed        *)
(*   unbind  deleted groups whose bindings are still to be dropped           *)
(*   sweep   resources to rematerialise for everybody concerned              *)
(*   todo    single rows to rematerialise                                    *)
(*   seen    the live flags just read, not written yet                       *)
(* and they are worked off from the last to the first.  The two reads of     *)
(* liveFlags, the find and the upsert of a grant, the two deletes of a       *)
(* dropped resource, and the departures of a user with the deletion of the   *)
(* groups they empty are taken as one step each.                             *)
EXTENDS AccessGrants

CONSTANTS
    Users, Groups, Resources,
    Special,    \* the groups that are never deleted (wild, announcement)
    Workers     \* the executor's worker threads

ASSUME AccessAssumption ==
    /\ Special \subseteq Groups
    /\ Users \intersect Groups = {}

VARIABLES
    status,     \* users and deleted_users: "active", "deactivated" or "purged"
    groups,     \* groups: the ones that exist
    members,    \* group_members
    made,       \* the resources that have been created
    bindings,   \* access_bindings: resource -> principal -> grants, {} is no row
    effective,  \* access_effective: user -> resource -> flags, {} is no row
    job         \* what each worker is doing

data == <<status, groups, members, made, bindings>>
vars == <<status, groups, members, made, bindings, effective, job>>

Principals == Users \union Groups

(* Requests.                                                                 *)
Requests ==
    [op : {"read", "edit", "drop"}, user : Users, resource : Resources]
    \union [op : {"grant"}, user : Users, resource : Resources,
            principal : Principals, grant : AccessGrant]
    \union [op : {"revoke"}, user : Users, resource : Resources,
            principal : Principals]

Removals == [op : {"deactivate", "purge"}, user : Users]

Rows == Users \X Resources

Idle == [phase |-> "idle", request |-> {}, removal |-> {}, lists |-> {}, unbind |-> {},
         sweep |-> {}, todo |-> {}, seen |-> {}, got |-> {}]

\* Nothing left to rematerialise.
Clear(j) == j.lists = {} /\ j.unbind = {} /\ j.sweep = {} /\ j.todo = {} /\ j.seen = {}

\* Mutant of Need: whoever may edit a resource may revoke its bindings.
NeedToEdit(q) ==
    CASE q.op = "read" -> "read"
      [] q.op \in {"edit", "revoke"} -> "write"
      [] q.op = "drop" -> "own"
      [] q.op = "grant" -> FlagToIssue(q.grant)

Need(q) ==
    CASE q.op = "read" -> "read"
      [] q.op = "edit" -> "write"
      [] q.op \in {"drop", "revoke"} -> "own"
      [] q.op = "grant" -> FlagToIssue(q.grant)

(* The live flags.                                                           *)
LiveIn(m, b, u, r) ==
    UNION {FlagsOfGrantSet(b[r][p]) : p \in {u} \union {g \in Groups : u \in m[g]}}

Live(u, r) == LiveIn(members, bindings, u, r)

\* Rows rematerialised inside the transaction that changes what they show.
Rematerialized(m, b, resources) ==
    [u \in Users |-> [r \in Resources |->
        IF r \in resources THEN LiveIn(m, b, u, r) ELSE effective[u][r]]]

BoundTo(p) == {r \in Resources : bindings[r][p] # {}}

Unbound(p) == [r \in Resources |-> [bindings[r] EXCEPT ![p] = {}]]

Exists(p) == p \in groups \/ (p \in Users /\ status[p] # "purged")

\* The group goes with its last member, unless it is a special one.
Emptied(g, u) == g \in groups \ Special /\ members[g] \subseteq {u}

Init ==
    /\ status = [u \in Users |-> "active"]
    /\ groups = Groups
    /\ members \in [Groups -> SUBSET Users]
    /\ made = {}
    /\ bindings = [r \in Resources |-> [p \in Principals |-> {}]]
    /\ effective = [u \in Users |-> [r \in Resources |-> {}]]
    /\ job = [w \in Workers |-> Idle]

-----------------------------------------------------------------------------
(* Transactions: a new resource is bound to its owner, and an administrator  *)
(* changes a group.                                                          *)

Create(w, u, r, p) ==
    /\ job[w] = Idle
    /\ status[u] = "active"
    /\ r \notin made
    /\ p = u \/ (p \in groups /\ u \in members[p])
    /\ made' = made \union {r}
    /\ bindings' = [bindings EXCEPT ![r][p] = {"owner"}]
    /\ effective' = Rematerialized(members, bindings', {r})
    /\ UNCHANGED <<status, groups, members, job>>

AdminAdd(w, u, g) ==
    /\ job[w] = Idle
    /\ g \in groups
    /\ status[u] = "active"
    /\ members' = [members EXCEPT ![g] = @ \union {u}]
    /\ effective' = [effective EXCEPT ![u] =
                        [r \in Resources |-> IF r \in BoundTo(g)
                                             THEN LiveIn(members', bindings, u, r)
                                             ELSE @[r]]]
    /\ UNCHANGED <<status, groups, made, bindings, job>>

AdminRemove(w, u, g) ==
    /\ job[w] = Idle
    /\ g \in groups
    /\ members' = [members EXCEPT ![g] = @ \ {u}]
    /\ IF Emptied(g, u)
       THEN /\ groups' = groups \ {g}
            /\ bindings' = Unbound(g)
            /\ effective' = Rematerialized(members', bindings', BoundTo(g))
       ELSE /\ UNCHANGED <<groups, bindings>>
            /\ effective' = [effective EXCEPT ![u] =
                                [r \in Resources |-> IF r \in BoundTo(g)
                                                     THEN LiveIn(members', bindings, u, r)
                                                     ELSE @[r]]]
    /\ UNCHANGED <<status, made, job>>

AdminDelete(w, g) ==
    /\ job[w] = Idle
    /\ g \in groups \ Special
    /\ groups' = groups \ {g}
    /\ members' = [members EXCEPT ![g] = {}]
    /\ bindings' = Unbound(g)
    /\ effective' = Rematerialized(members, bindings', BoundTo(g))
    /\ UNCHANGED <<status, made, job>>

-----------------------------------------------------------------------------
(* Memberships changed by statements of their own.                           *)

Join(w, u, g) ==
    /\ job[w] = Idle
    /\ status[u] = "active"
    /\ g \in groups
    /\ members' = [members EXCEPT ![g] = @ \union {u}]
    /\ job' = [job EXCEPT ![w] = [Idle EXCEPT !.phase = "member",
                                              !.lists = {<<u, g, FALSE>>}]]
    /\ UNCHANGED <<status, groups, made, bindings, effective>>

Leave(w, u, g) ==
    /\ job[w] = Idle
    /\ status[u] = "active"
    /\ g \in groups
    /\ u \in members[g]
    /\ members' = [members EXCEPT ![g] = @ \ {u}]
    /\ groups' = IF Emptied(g, u) THEN groups \ {g} ELSE groups
    /\ job' = [job EXCEPT ![w] = [Idle EXCEPT !.phase = "member",
                                              !.lists = {<<u, g, Emptied(g, u)>>}]]
    /\ UNCHANGED <<status, made, bindings, effective>>

\* An account is removed: out of all its groups first.
RemoveAccount(w, q) ==
    /\ job[w] = Idle
    /\ status[q.user] = "active" \/ (status[q.user] = "deactivated" /\ q.op = "purge")
    /\ LET mine == {g \in Groups : q.user \in members[g]}
           gone == {g \in mine : Emptied(g, q.user)}
       IN /\ members' = [g \in Groups |-> members[g] \ {q.user}]
          /\ groups' = groups \ gone
          /\ job' = [job EXCEPT ![w] = [Idle EXCEPT
                        !.phase = "remove",
                        !.removal = {q},
                        !.lists = {<<q.user, g, g \in gone>> : g \in mine}]]
    /\ UNCHANGED <<status, made, bindings, effective>>

\* The end of a membership change, and of a deactivation.
Settle(w) ==
    /\ Clear(job[w])
    /\ \/ job[w].phase = "member" /\ UNCHANGED status
       \/ /\ job[w].phase = "remove"
          /\ \E q \in job[w].removal :
                /\ q.op = "deactivate"
                /\ status' = [status EXCEPT ![q.user] = "deactivated"]
    /\ job' = [job EXCEPT ![w] = Idle]
    /\ UNCHANGED <<groups, members, made, bindings, effective>>

\* A purge drops the account's bindings, and when their rows are
\* rematerialised the identity goes and takes its own rows with it.
PurgeBindings(w) ==
    /\ job[w].phase = "remove"
    /\ Clear(job[w])
    /\ \E q \in job[w].removal :
          /\ q.op = "purge"
          /\ bindings' = Unbound(q.user)
          /\ job' = [job EXCEPT ![w] = [@ EXCEPT !.phase = "identity",
                                                 !.sweep = BoundTo(q.user)]]
    /\ UNCHANGED <<status, groups, members, made, effective>>

PurgeIdentity(w) ==
    /\ job[w].phase = "identity"
    /\ Clear(job[w])
    /\ \E q \in job[w].removal :
          /\ status' = [status EXCEPT ![q.user] = "purged"]
          /\ effective' = [effective EXCEPT ![q.user] = [r \in Resources |-> {}]]
          /\ members' = [g \in Groups |-> members[g] \ {q.user}]
    /\ job' = [job EXCEPT ![w] = Idle]
    /\ UNCHANGED <<groups, made, bindings>>

-----------------------------------------------------------------------------
(* Rematerialisation.                                                        *)

\* onGroupMembershipChanged: the resources bound to the group, for one user
ListBound(w) ==
    /\ job[w].seen = {} /\ job[w].todo = {} /\ job[w].sweep = {} /\ job[w].unbind = {}
    /\ \E l \in job[w].lists :
          job' = [job EXCEPT ![w] = [@ EXCEPT
                    !.lists = job[w].lists \ {l},
                    !.todo = {<<l[1], r>> : r \in BoundTo(l[2])},
                    !.unbind = IF l[3] THEN {l[2]} ELSE {}]]
    /\ UNCHANGED <<status, groups, members, made, bindings, effective>>

\* onGroupDeleted
DropBindings(w) ==
    /\ job[w].seen = {} /\ job[w].todo = {} /\ job[w].sweep = {}
    /\ \E g \in job[w].unbind :
          /\ bindings' = Unbound(g)
          /\ job' = [job EXCEPT ![w] = [@ EXCEPT !.unbind = job[w].unbind \ {g},
                                                 !.sweep = BoundTo(g)]]
    /\ UNCHANGED <<status, groups, members, made, effective>>

\* Mutant of RematerializeResource: the users who only have a row are left out.
RematerializeBound(w) ==
    /\ job[w].seen = {} /\ job[w].todo = {}
    /\ \E r \in job[w].sweep :
          job' = [job EXCEPT ![w] = [@ EXCEPT
                    !.sweep = job[w].sweep \ {r},
                    !.todo = {row \in Users \X {r} : Live(row[1], r) # {}}]]
    /\ UNCHANGED <<status, groups, members, made, bindings, effective>>

\* rematerializeResource: whoever a binding reaches, and whoever has a row
RematerializeResource(w) ==
    /\ job[w].seen = {} /\ job[w].todo = {}
    /\ \E r \in job[w].sweep :
          job' = [job EXCEPT ![w] = [@ EXCEPT
                    !.sweep = job[w].sweep \ {r},
                    !.todo = {row \in Users \X {r} :
                                 effective[row[1]][r] # {} \/ Live(row[1], r) # {}}]]
    /\ UNCHANGED <<status, groups, members, made, bindings, effective>>

ReadLive(w) ==
    /\ job[w].seen = {}
    /\ \E row \in job[w].todo :
          job' = [job EXCEPT ![w] = [@ EXCEPT
                    !.todo = job[w].todo \ {row},
                    !.seen = {[row |-> row, flags |-> Live(row[1], row[2])]}]]
    /\ UNCHANGED <<status, groups, members, made, bindings, effective>>

\* A row needs its user: writing one for a purged account fails the request.
WriteRow(w) ==
    \E s \in job[w].seen :
       LET u == s.row[1]
           refused == status[u] = "purged" /\ s.flags # {}
       IN /\ effective' = IF refused
                          THEN effective
                          ELSE [effective EXCEPT ![u][s.row[2]] = s.flags]
          /\ job' = [job EXCEPT ![w] = IF refused
                                       THEN Idle
                                       ELSE [@ EXCEPT !.seen = {}, !.got = s.flags]]
          /\ UNCHANGED data

-----------------------------------------------------------------------------
(* Requests on a resource: authorize, then act, then answer with a snapshot  *)
(* that is authorized for reading.                                           *)

Request(w, q) ==
    /\ job[w] = Idle
    /\ status[q.user] = "active"
    /\ q.resource \in made
    /\ job' = [job EXCEPT ![w] = [Idle EXCEPT !.phase = "authorize", !.request = {q}]]
    /\ UNCHANGED <<status, groups, members, made, bindings, effective>>

\* authorize: a row that satisfies the need is trusted, otherwise the row is
\* computed again.
Authorize(w) ==
    /\ job[w].phase = "authorize"
    /\ Clear(job[w])
    /\ \E q \in job[w].request :
          job' = [job EXCEPT ![w] =
                    IF Need(q) \in effective[q.user][q.resource]
                    THEN [@ EXCEPT !.phase = "allowed"]
                    ELSE [@ EXCEPT !.phase = "retry",
                                   !.todo = {<<q.user, q.resource>>}]]
    /\ UNCHANGED <<status, groups, members, made, bindings, effective>>

Retry(w) ==
    /\ job[w].phase = "retry"
    /\ Clear(job[w])
    /\ \E q \in job[w].request :
          job' = [job EXCEPT ![w].phase =
                    IF Need(q) \in job[w].got /\ effective[q.user][q.resource] # {}
                    THEN "allowed"
                    ELSE "denied"]
    /\ UNCHANGED <<status, groups, members, made, bindings, effective>>

Deny(w) ==
    /\ job[w].phase = "denied"
    /\ job' = [job EXCEPT ![w] = Idle]
    /\ UNCHANGED <<status, groups, members, made, bindings, effective>>

\* What follows the change: the rows of the resource, then the snapshot.
Answering(q) == [op |-> "read", user |-> q.user, resource |-> q.resource]

Read(w) ==
    /\ job[w].phase = "allowed"
    /\ \E q \in job[w].request :
          /\ q.op \in {"read", "edit"}
          /\ job' = [job EXCEPT ![w] =
                        IF q.op = "read"
                        THEN Idle
                        ELSE [Idle EXCEPT !.phase = "authorize",
                                          !.request = {Answering(q)}]]
    /\ UNCHANGED <<status, groups, members, made, bindings, effective>>

Drop(w) ==
    /\ job[w].phase = "allowed"
    /\ \E q \in job[w].request :
          /\ q.op = "drop"
          /\ bindings' = [bindings EXCEPT ![q.resource] = [p \in Principals |-> {}]]
          /\ effective' = [u \in Users |-> [effective[u] EXCEPT ![q.resource] = {}]]
    /\ job' = [job EXCEPT ![w] = Idle]
    /\ UNCHANGED <<status, groups, members, made>>

Rebound(w, q) ==
    job' = [job EXCEPT ![w] = [Idle EXCEPT !.phase = "authorize",
                                           !.request = {Answering(q)},
                                           !.sweep = {q.resource}]]

Grant(w) ==
    /\ job[w].phase = "allowed"
    /\ \E q \in job[w].request :
          /\ q.op = "grant"
          /\ IF Exists(q.principal)
             THEN /\ bindings' = [bindings EXCEPT ![q.resource][q.principal] =
                                     MergeIncomingGrant(@, q.grant)]
                  /\ Rebound(w, q)
             ELSE /\ UNCHANGED bindings
                  /\ job' = [job EXCEPT ![w] = Idle]
    /\ UNCHANGED <<status, groups, members, made, effective>>

Revoke(w) ==
    /\ job[w].phase = "allowed"
    /\ \E q \in job[w].request :
          /\ q.op = "revoke"
          /\ IF q.principal # q.user
             THEN /\ bindings' = [bindings EXCEPT ![q.resource][q.principal] = {}]
                  /\ Rebound(w, q)
             ELSE /\ UNCHANGED bindings
                  /\ job' = [job EXCEPT ![w] = Idle]
    /\ UNCHANGED <<status, groups, members, made, effective>>

Step(w) ==
    \/ \E u \in Users, r \in Resources, p \in Principals : Create(w, u, r, p)
    \/ \E u \in Users, g \in Groups :
          AdminAdd(w, u, g) \/ AdminRemove(w, u, g) \/ Join(w, u, g) \/ Leave(w, u, g)
    \/ \E g \in Groups : AdminDelete(w, g)
    \/ \E q \in Removals : RemoveAccount(w, q)
    \/ \E q \in Requests : Request(w, q)
    \/ Settle(w) \/ PurgeBindings(w) \/ PurgeIdentity(w)
    \/ ListBound(w) \/ DropBindings(w) \/ RematerializeResource(w)
    \/ ReadLive(w) \/ WriteRow(w)
    \/ Authorize(w) \/ Retry(w) \/ Deny(w)
    \/ Read(w) \/ Drop(w) \/ Grant(w) \/ Revoke(w)

Next == \E w \in Workers : Step(w)

Spec == Init /\ [][Next]_vars
=============================================================================
