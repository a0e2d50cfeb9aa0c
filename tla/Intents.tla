------------------------------ MODULE Intents ------------------------------
(***************************************************************************)
(* One decision of one user - the pin or mute of a conversation, a draft,  *)
(* a setting, or how far a conversation has been read - on several devices *)
(* of that user and on the server (src/client/repo/assignment.ts,          *)
(* watermark.ts, src/client/data/repository.ts,                            *)
(* src/client/interact/{conversations,versionedSettings,remoteLifecycle}.ts,*)
(* src/server/data/{conversations,userConfig}.ts).                         *)
(*                                                                         *)
(* A value is told apart by who decided it, its stamp and, for a read      *)
(* position, the sequence of the post.  A stamp is what the device's clock *)
(* says, but always past every stamp the device knows.                     *)
(***************************************************************************)
EXTENDS Naturals, Sequences, SequencesExt

CONSTANTS Devices,
          Kinds,       \* "flag": last stamp wins; "read": furthest post wins
          None,
          MaxStamp,    \* stamps
          MaxSeq,      \* sequences of posts
          MaxWrites,   \* decisions of the user
          MaxLosses,   \* lost connections
          Admits       \* "overtaking": the answers of two workers leave in the other order

ASSUME IntentsAssumption == /\ None \notin Devices
                            /\ Kinds \subseteq {"flag", "read"}
                            /\ {MaxStamp, MaxSeq, MaxWrites, MaxLosses} \subseteq Nat

VARIABLES kind,      \* which of the two this decision is
          row,       \* the row of convs_user or user_config
          asked,     \* requests under way or queued, per device
          done,      \* jobs that have run, in the order of their commits
          local,     \* Assignment per device: base and proposal
          online,    \* devices with a connection
          down,      \* frames under way to each device
          phase,     \* RecoveryPhase per device
          parked,    \* queuedEvents per device
          last,      \* history: the newest decision of each device
          top,       \* history: the largest stamp and sequence of row so far
          writes, losses

device == <<local, phase, parked, last>>
counters == <<writes, losses>>
intentVars == <<kind, row, asked, done, device, online, down, top, counters>>

Decisions == [by : Devices \cup {None}, at : 0 .. MaxStamp, seq : 0 .. MaxSeq]
Undecided == [by |-> None, at |-> 0, seq |-> 0]
Assignments == [base : Decisions, proposal : Decisions \cup {None}]

Asking(op, v, merge) == [op |-> op, v |-> v, merge |-> merge, live |-> TRUE]
Event(v) == [kind |-> "event", v |-> v]
Answer(op, v, merge) == [kind |-> "answer", op |-> op, v |-> v, merge |-> merge]

IntentInit ==
  /\ kind \in Kinds
  /\ row = Undecided
  /\ asked = [d \in Devices |-> <<>>]
  /\ done = <<>>
  /\ local = [d \in Devices |-> [base |-> Undecided, proposal |-> None]]
  /\ online = Devices
  /\ down = [d \in Devices |-> <<>>]
  /\ phase = [d \in Devices |-> "idle"]
  /\ parked = [d \in Devices |-> <<>>]
  /\ last = [d \in Devices |-> None]
  /\ top = [at |-> 0, seq |-> 0]
  /\ writes = 0
  /\ losses = 0

-----------------------------------------------------------------------------
(* Assignments (Values) and watermarks. *)

\* Assignments.resolved.
Resolved(a) == IF a.proposal # None /\ a.proposal.at > a.base.at THEN a.proposal ELSE a.base

Base(v) == [base |-> v, proposal |-> None]

\* Mutant of Reconciled: whatever the server says settles the proposal.
ReconciledByAny(a, v) == Base(v)

\* Mutant of Reconciled: an equal stamp keeps the proposal.
ReconciledStrictly(a, v) ==
  IF a.proposal = None \/ a.proposal.at < v.at THEN Base(v) ELSE [a EXCEPT !.base = v]

\* Assignments.reconcile: the base is what arrives, a proposal stays if it is newer.
Reconciled(a, v) ==
  IF a.proposal = None \/ a.proposal.at <= v.at THEN Base(v) ELSE [a EXCEPT !.base = v]

\* keepWatermarkProposal and reconcileConversationRead.
ReconciledRead(a, v, merge) ==
  LET keep == /\ a.proposal # None
              /\ IF merge = "furthest" THEN a.proposal.seq > v.seq ELSE a.proposal.at > v.at
  IN IF keep THEN [a EXCEPT !.base = v] ELSE Base(v)

\* What an answer to a write does to the local row.
Acknowledged(a, v, merge) ==
  IF kind = "read" THEN ReconciledRead(a, v, merge) ELSE Reconciled(a, v)

\* chooseFurthestRead of the server.
Further(v) == v.seq > row.seq \/ (v.seq = row.seq /\ v.at >= row.at)

\* Whether the server takes v: upsert ... WHERE excluded >= stored, markConversationRead.
Taken(v, merge) == IF kind = "read" /\ merge = "furthest" THEN Further(v) ELSE v.at >= row.at

-----------------------------------------------------------------------------
(* Devices. *)

\* Assignments.propose: the stamp is past the base and past the proposal it replaces.
Known(a) == IF a.proposal = None THEN a.base.at
            ELSE IF a.proposal.at > a.base.at THEN a.proposal.at ELSE a.base.at

\* Assignments.propose keeps the base; setConversationFlag, setVersionedValue, saveDraft.
Proposed(a, v) == [base |-> a.base, proposal |-> v]

\* setPendingConversationRead: offline a read position only moves forward.
Worthwhile(d, seq) == d \in online \/ seq > Resolved(local[d]).seq

\* setConversationPinned, setConversationMuted, saveConversationDraft, writeUserSetting,
\* markConversationRead: propose, and send if there is a connection.
Write(d, at, seq) ==
  /\ writes < MaxWrites
  /\ at > Known(local[d])
  /\ IF kind = "flag" THEN seq = 0
     ELSE /\ seq > 0
          /\ Worthwhile(d, seq)
  /\ LET v == [by |-> d, at |-> at, seq |-> seq]
     IN /\ local' = [local EXCEPT ![d] = Proposed(@, v)]
        /\ last' = [last EXCEPT ![d] = v]
        /\ asked' = IF d \in online
                    THEN [asked EXCEPT ![d] = Append(@, Asking("write", v, "override"))]
                    ELSE asked
  /\ writes' = writes + 1
  /\ UNCHANGED <<kind, row, done, online, down, phase, parked, top, losses>>

\* upsertConversationInTransaction: what a list or an event says of the user's state.
Upserted(a, v) == Reconciled(a, v)

\* Parked events are applied in the order they came.
Replayed(a, events) == FoldLeft(Upserted, a, events)

\* The connection is lost: what is on its way may reach the server, no answer comes back,
\* and a recovery under way runs to its end without the server.
Disconnect(d) ==
  /\ d \in online
  /\ losses < MaxLosses
  /\ losses' = losses + 1
  /\ online' = online \ {d}
  /\ down' = [down EXCEPT ![d] = <<>>]
  /\ \E reach \in 0 .. Len(asked[d]) :
        asked' = [asked EXCEPT ![d] = [n \in 1 .. reach |-> [asked[d][n] EXCEPT !.live = FALSE]]]
  /\ done' = [n \in DOMAIN done |-> IF done[n].to = d THEN [done[n] EXCEPT !.live = FALSE] ELSE done[n]]
  /\ local' = [local EXCEPT ![d] = Replayed(@, parked[d])]
  /\ parked' = [parked EXCEPT ![d] = <<>>]
  /\ phase' = [phase EXCEPT ![d] = "idle"]
  /\ UNCHANGED <<kind, row, last, top, writes>>

\* The connection is back: recovery begins with the list of conversations.
Connect(d) ==
  /\ d \notin online
  /\ online' = online \cup {d}
  /\ phase' = [phase EXCEPT ![d] = "refreshing-access"]
  /\ asked' = [asked EXCEPT ![d] = Append(@, Asking("list", Undecided, "override"))]
  /\ UNCHANGED <<kind, row, done, local, parked, last, down, top, counters>>

Arrives(d) == down[d] # <<>> /\ down' = [down EXCEPT ![d] = Tail(@)]

\* An event: at once, or parked while a recovery runs.
ReceiveEvent(d) ==
  /\ Arrives(d)
  /\ LET m == Head(down[d])
     IN /\ m.kind = "event"
        /\ IF phase[d] = "idle"
           THEN local' = [local EXCEPT ![d] = Upserted(@, m.v)] /\ UNCHANGED parked
           ELSE parked' = [parked EXCEPT ![d] = Append(@, m.v)] /\ UNCHANGED local
  /\ UNCHANGED <<kind, row, asked, done, online, phase, last, top, counters>>

\* The answer to a write the user has just made.
ReceiveWritten(d) ==
  /\ Arrives(d)
  /\ LET m == Head(down[d])
     IN /\ m.kind = "answer" /\ m.op = "write"
        /\ local' = [local EXCEPT ![d] = Acknowledged(@, m.v, m.merge)]
  /\ UNCHANGED <<kind, row, asked, done, online, phase, parked, last, top, counters>>

\* The end of a recovery, from the row a.
Replays(d, a) == /\ local' = [local EXCEPT ![d] = Replayed(a, parked[d])]
                 /\ parked' = [parked EXCEPT ![d] = <<>>]
                 /\ phase' = [phase EXCEPT ![d] = "idle"]

\* The list has arrived: saveConversations, then what is pending is sent.
ReceiveList(d) ==
  /\ Arrives(d)
  /\ LET m == Head(down[d])
         a == Upserted(local[d], m.v)
     IN /\ m.kind = "answer" /\ m.op = "list"
        /\ \/ /\ Resolved(a) = a.proposal
              /\ local' = [local EXCEPT ![d] = a]
              /\ phase' = [phase EXCEPT ![d] = "flushing-proposals"]
              /\ asked' = [asked EXCEPT ![d] = Append(@, Asking("flush", a.proposal, "furthest"))]
              /\ UNCHANGED parked
           \/ /\ Resolved(a) # a.proposal
              /\ Replays(d, a)
              /\ UNCHANGED asked
  /\ UNCHANGED <<kind, row, done, online, last, top, counters>>

\* The answer of the flush: its recovery goes on to the parked events.
ReceiveFlushed(d) ==
  /\ Arrives(d)
  /\ LET m == Head(down[d])
     IN /\ m.kind = "answer" /\ m.op = "flush"
        /\ Replays(d, Acknowledged(local[d], m.v, m.merge))
  /\ UNCHANGED <<kind, row, asked, done, online, last, top, counters>>

-----------------------------------------------------------------------------
(* The server. *)

Larger(m, n) == IF m > n THEN m ELSE n

\* A worker runs a request: the row, and what the answer and the event will say.
Serve(d, n) ==
  /\ LET r == asked[d][n]
         taken == r.op # "list" /\ Taken(r.v, r.merge)
         now == IF taken THEN r.v ELSE row
     IN /\ row' = now
        /\ top' = [at |-> Larger(top.at, now.at), seq |-> Larger(top.seq, now.seq)]
        /\ done' = Append(done, [to |-> d, live |-> r.live, op |-> r.op, merge |-> r.merge, v |-> now,
                                 told |-> r.op # "list" /\ (taken \/ kind = "flag")])
        /\ asked' = [asked EXCEPT ![d] = RemoveAt(@, n)]
  /\ UNCHANGED <<kind, device, online, down, counters>>

\* The end of a job reaches the coordinator: its event for all, its answer for one.
Publish(n) ==
  /\ n = 1 \/ "overtaking" \in Admits
  /\ LET j == done[n]
     IN down' = [d \in Devices |->
                   down[d] \o (IF j.told /\ d \in online THEN <<Event(j.v)>> ELSE <<>>)
                           \o (IF j.live /\ j.to = d THEN <<Answer(j.op, j.v, j.merge)>> ELSE <<>>)]
  /\ done' = RemoveAt(done, n)
  /\ UNCHANGED <<kind, row, asked, device, online, top, counters>>

-----------------------------------------------------------------------------
Receive(d) == ReceiveEvent(d) \/ ReceiveWritten(d) \/ ReceiveList(d) \/ ReceiveFlushed(d)

IntentNext ==
  \/ \E d \in Devices :
       \/ \E at \in 1 .. MaxStamp, seq \in 0 .. MaxSeq : Write(d, at, seq)
       \/ Disconnect(d)
       \/ Connect(d)
       \/ Receive(d)
       \/ \E n \in DOMAIN asked[d] : Serve(d, n)
  \/ \E n \in DOMAIN done : Publish(n)

IntentSpec == IntentInit /\ [][IntentNext]_intentVars
=============================================================================
