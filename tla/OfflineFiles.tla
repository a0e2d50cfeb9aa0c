---------------------------- MODULE OfflineFiles ----------------------------
(***************************************************************************)
(* One logical file of the offline store (src/client/data/files.ts,        *)
(* ExtentFileStore) as the tabs of a browser read, replace, resize and     *)
(* delete it, and the orphan collection that the quota controller starts.  *)
(*                                                                         *)
(* A head names a physical generation; its bytes are extents in another    *)
(* IndexedDB store.  One IndexedDB transaction is one step; between two    *)
(* of them a tab may die, which frees its Web Locks and keeps the          *)
(* database.  Collecting orphans takes no lock.                            *)
(*                                                                         *)
(* Bytes come in units.  A unit holds the stamp of the call that wrote it: *)
(* a generation's own number, that of a later write, or 0 for grown room.  *)
(***************************************************************************)
EXTENDS Naturals, Sequences, FiniteSets

CONSTANTS Tabs,
          ExtentSize,  \* EXTENT_SIZE, in units
          Batch,       \* MAX_EXTENTS_PER_TRANSACTION
          MaxSize,     \* bound: units of a file
          MaxMade,     \* bound: generations and writes
          Kinds,       \* which calls are made
          Admits,      \* "slowWrite": a generation outlives ORPHAN_GRACE_MS while it is written
          None

ASSUME StoreAssumption == /\ {ExtentSize, Batch} \subseteq Nat \ {0}
                          /\ {MaxSize, MaxMade} \subseteq Nat
                          /\ Kinds \subseteq {"read", "replace", "write", "grow", "shrink", "delete"}

Least(m, n) == IF m < n THEN m ELSE n

VARIABLES head,     \* FileHead: gen, size, op ("none" when complete), target, sum
          extents,  \* <<gen, index>> -> units
          young,    \* generations younger than ORPHAN_GRACE_MS
          made,     \* counter behind physicalId and stamps
          job       \* per tab, the call under way

vars == <<head, extents, young, made, job>>

Stamps == 1 .. MaxMade
Sizes == 0 .. MaxSize

Heads == [gen : Stamps, size : Sizes, op : {"none", "grow", "shrink"}, target : Sizes, sum : BOOLEAN]

ASSUME NoneAssumption == None \notin Heads

Requests == {r \in [kind : {"replace"}, size : Sizes, sum : BOOLEAN]
                 \cup [kind : {"grow", "shrink"}, size : Sizes]
                 \cup [kind : {"write"}, from : Sizes, to : Sizes]
                 \cup [kind : {"read", "delete"}] :
               r.kind \in Kinds /\ (r.kind = "write" => r.from < r.to)}

\* A job: the step it is at, its request, the generation or stamp in its hands, a position,
\* how many extents it deletes, the head it has pinned, what it has read, what it collects.
Idle == [at |-> "idle", req |-> None, gen |-> 0, next |-> 0, count |-> 0,
         pinned |-> None, got |-> <<>>, keys |-> {}]

Init == /\ head = None
        /\ extents = <<>>
        /\ young = {}
        /\ made = 0
        /\ job = [t \in Tabs |-> Idle]

-----------------------------------------------------------------------------
(* Heads, extents and locks. *)

Mutating == head # None /\ head.op # "none"

Complete(gen, size, sum) == [gen |-> gen, size |-> size, op |-> "none",
                             target |-> size, sum |-> sum]

ExtentCount(size) == (size + ExtentSize - 1) \div ExtentSize
ExtentLength(size, e) == Least(ExtentSize, size - e * ExtentSize)

\* Units stored of an extent, 0 when it is missing.
Have(gen, e) == IF <<gen, e>> \in DOMAIN extents THEN Len(extents[<<gen, e>>]) ELSE 0

PutPhysicalExtent(gen, e, units) ==
  extents' = [k \in DOMAIN extents \cup {<<gen, e>>} |->
                IF k = <<gen, e>> THEN units ELSE extents[k]]

Erase(keys) == extents' = [k \in DOMAIN extents \ keys |-> extents[k]]

\* One transaction of deletePhysical.
Window(gen, from, count) == {<<gen, e>> : e \in from .. Least(from + Batch, count) - 1}

Exclusive == {"recover", "body", "fill", "drop", "resize", "put"}

\* Mutant of Unlocked: readers do not stop a writer.
UnlockedForWriters == \A t \in Tabs : job[t].at \notin Exclusive

\* The file's Web Lock can be had exclusively; or shared.
Unlocked == \A t \in Tabs : job[t].at \notin Exclusive \cup {"reading"}

Shareable == \A t \in Tabs : job[t].at \notin Exclusive

Becomes(t, j) == job' = [job EXCEPT ![t] = j]
Goes(t, at) == job' = [job EXCEPT ![t].at = at]
Ends(t) == Becomes(t, Idle)

\* The last part of a call: the extents of a generation go, batch by batch.
Dropping(gen, count) ==
  IF count = 0 THEN Idle ELSE [Idle EXCEPT !.at = "drop", !.gen = gen, !.count = count]

\* withFileLock, readHead, and the choice recoverHead makes.
Begin(t) ==
  /\ job[t] = Idle /\ Unlocked
  /\ \E r \in Requests :
        Becomes(t, [Idle EXCEPT !.at = IF Mutating THEN "recover" ELSE "body", !.req = r])
  /\ UNCHANGED <<head, extents, young, made>>

-----------------------------------------------------------------------------
(* Growing and shrinking: a journal in the head, and its (re)application. *)

Resizing(t) == job[t].at \in {"recover", "resize"}

Short == {e \in 0 .. ExtentCount(head.target) - 1 :
            Have(head.gen, e) < ExtentLength(head.target, e)}

GrowExtent(t) ==
  /\ Resizing(t) /\ head.op = "grow" /\ Short # {}
  /\ \E e \in Short :
        /\ \A x \in Short : e <= x
        /\ PutPhysicalExtent(head.gen, e,
             [i \in 1 .. ExtentLength(head.target, e) |->
                IF i <= Have(head.gen, e) THEN extents[<<head.gen, e>>][i] ELSE 0])
  /\ UNCHANGED <<head, young, made, job>>

\* What a shrink leaves of its last extent.
Boundary == ExtentCount(head.target) - 1
BoundaryLong == /\ head.target > 0
                /\ Have(head.gen, Boundary) > ExtentLength(head.target, Boundary)

CutBoundary(t) ==
  /\ Resizing(t) /\ head.op = "shrink" /\ BoundaryLong
  /\ PutPhysicalExtent(head.gen, Boundary,
       SubSeq(extents[<<head.gen, Boundary>>], 1, ExtentLength(head.target, Boundary)))
  /\ UNCHANGED <<head, young, made, job>>

Start(t) == ExtentCount(head.target) + job[t].next

DropTail(t) ==
  /\ Resizing(t) /\ head.op = "shrink" /\ ~BoundaryLong
  /\ Start(t) < ExtentCount(head.size)
  /\ Erase(Window(head.gen, Start(t), ExtentCount(head.size)))
  /\ job' = [job EXCEPT ![t].next = @ + Batch]
  /\ UNCHANGED <<head, young, made>>

Applied(t) == IF head.op = "grow" THEN Short = {}
              ELSE ~BoundaryLong /\ Start(t) >= ExtentCount(head.size)

\* recoverHead publishes the new size without a checksum.
CompleteResize(t) ==
  /\ Resizing(t) /\ Applied(t)
  /\ head' = Complete(head.gen, head.target, FALSE)
  /\ IF job[t].at = "recover" THEN job' = [job EXCEPT ![t].at = "body", ![t].next = 0]
     ELSE Ends(t)
  /\ UNCHANGED <<extents, young, made>>

\* grow and shrink up to the journal: what is refused or nothing to do ends here.
Resize(t) ==
  /\ job[t].at = "body" /\ job[t].req.kind \in {"grow", "shrink"} /\ head # None
  /\ LET op == job[t].req.kind  size == job[t].req.size
     IN IF IF op = "grow" THEN size <= head.size ELSE size >= head.size
        THEN Ends(t) /\ UNCHANGED head
        ELSE /\ head' = [head EXCEPT !.op = op, !.target = size, !.sum = FALSE]
             /\ Goes(t, "resize")
  /\ UNCHANGED <<extents, young, made>>

\* A file that does not exist: grow creates it empty first, shrink refuses.
ResizeNothing(t) ==
  /\ job[t].at = "body" /\ job[t].req.kind \in {"grow", "shrink"} /\ head = None
  /\ IF job[t].req.kind = "grow"
     THEN /\ made < MaxMade /\ made' = made + 1
          /\ young' = young \cup {made + 1}
          /\ head' = Complete(made + 1, 0, FALSE)
          /\ UNCHANGED job
     ELSE Ends(t) /\ UNCHANGED <<head, young, made>>
  /\ UNCHANGED extents
-----------------------------------------------------------------------------
(* replace: a new generation is filled, published by its head, and the old one dropped. *)

BeginReplace(t) ==
  /\ job[t].at = "body" /\ job[t].req.kind = "replace"
  /\ made < MaxMade /\ made' = made + 1
  /\ young' = young \cup {made + 1}
  /\ job' = [job EXCEPT ![t].at = "fill", ![t].gen = made + 1, ![t].pinned = head]
  /\ UNCHANGED <<head, extents>>

\* GenerationWriter.write: the tail extent is stored again with every chunk.
Fill(t) ==
  /\ job[t].at = "fill" /\ job[t].next < job[t].req.size
  /\ PutPhysicalExtent(job[t].gen, job[t].next \div ExtentSize,
       [i \in 1 .. (job[t].next % ExtentSize) + 1 |-> job[t].gen])
  /\ job' = [job EXCEPT ![t].next = @ + 1]
  /\ UNCHANGED <<head, young, made>>

\* The source ends early, is too long or breaks off, or a put exceeds the quota.
FillFails(t) ==
  /\ job[t].at = "fill"
  /\ Becomes(t, Dropping(job[t].gen, ExtentCount(job[t].req.size)))
  /\ UNCHANGED <<head, extents, young, made>>

Publish(t) ==
  /\ job[t].at = "fill" /\ job[t].next = job[t].req.size
  /\ head' = Complete(job[t].gen, job[t].req.size, job[t].req.sum)
  /\ LET old == job[t].pinned
     IN Becomes(t, IF old = None THEN Idle ELSE Dropping(old.gen, ExtentCount(old.size)))
  /\ UNCHANGED <<extents, young, made>>

\* deletePhysical, one batch.
Drop(t) ==
  /\ job[t].at = "drop"
  /\ Erase(Window(job[t].gen, job[t].next, job[t].count))
  /\ Becomes(t, IF job[t].next + Batch >= job[t].count THEN Idle
                ELSE [job[t] EXCEPT !.next = @ + Batch])
  /\ UNCHANGED <<head, young, made>>

-----------------------------------------------------------------------------
(* write, delete, read. *)

\* Mutant of Disavowed: the checksum is left to the end.
DisavowedLater(h) == h

Disavowed(h) == [h EXCEPT !.sum = FALSE]

\* write up to the loss of the checksum; a missing file or a write past its end is refused.
BeginWrite(t) ==
  /\ job[t].at = "body" /\ job[t].req.kind = "write"
  /\ IF head = None \/ job[t].req.to > head.size
     THEN Ends(t) /\ UNCHANGED <<head, made>>
     ELSE /\ made < MaxMade /\ made' = made + 1
          /\ head' = Disavowed(head)
          /\ job' = [job EXCEPT ![t].at = "put", ![t].gen = made + 1, ![t].next = job[t].req.from]
  /\ UNCHANGED <<extents, young>>

PutUnits(t) ==
  /\ job[t].at = "put"
  /\ LET e == job[t].next \div ExtentSize
         end == Least(job[t].req.to, (e + 1) * ExtentSize)
         units == extents[<<head.gen, e>>]
     IN /\ PutPhysicalExtent(head.gen, e,
             [i \in DOMAIN units |-> IF e * ExtentSize + i \in job[t].next + 1 .. end
                                     THEN job[t].gen ELSE units[i]])
        /\ IF end = job[t].req.to THEN Ends(t) ELSE job' = [job EXCEPT ![t].next = end]
  /\ UNCHANGED <<head, young, made>>

Delete(t) ==
  /\ job[t].at = "body" /\ job[t].req.kind = "delete"
  /\ head' = None
  /\ Becomes(t, IF head = None THEN Idle ELSE Dropping(head.gen, ExtentCount(head.size)))
  /\ UNCHANGED <<extents, young, made>>

\* ensureComplete lets its lock go before the reading asks for a shared one.
EnsureComplete(t) ==
  /\ job[t].at = "body" /\ job[t].req.kind = "read"
  /\ Goes(t, "waiting")
  /\ UNCHANGED <<head, extents, young, made>>

\* read, readAll and stream pin the head they find for as long as they run.
PinHead(t) ==
  /\ job[t].at = "waiting" /\ Shareable
  /\ IF head = None THEN Ends(t)
     ELSE job' = [job EXCEPT ![t].at = "reading", ![t].pinned = head]
  /\ UNCHANGED <<head, extents, young, made>>

\* readUnlocked: an extent at a time; a missing one is an error, and behind a short one the
\* loop makes no progress.
ReadExtent(t) ==
  /\ job[t].at = "reading" /\ Len(job[t].got) < job[t].pinned.size
  /\ LET n == Len(job[t].got)
         key == <<job[t].pinned.gen, n \div ExtentSize>>
         from == n % ExtentSize
     IN IF key \notin DOMAIN extents THEN Ends(t)
        ELSE job' = [job EXCEPT ![t].got = @ \o
               SubSeq(extents[key], from + 1,
                      Least(Len(extents[key]), from + job[t].pinned.size - n))]
  /\ UNCHANGED <<head, extents, young, made>>

EndRead(t) ==
  /\ job[t].at = "reading" /\ Len(job[t].got) = job[t].pinned.size
  /\ Ends(t)
  /\ UNCHANGED <<head, extents, young, made>>

-----------------------------------------------------------------------------
(* Orphans, time, and the end of a tab. *)

\* Mutant of Orphaned: no grace for a generation that is being written.
OrphanedAtOnce(gen) == head = None \/ gen # head.gen

Orphaned(gen) == (head = None \/ gen # head.gen) /\ gen \notin young

\* The transaction of collectOrphans that looks; it takes no lock.
CollectOrphans(t) ==
  /\ job[t] = Idle
  /\ LET keys == {k \in DOMAIN extents : Orphaned(k[1])}
     IN /\ keys # {}
        /\ Becomes(t, [Idle EXCEPT !.at = "collect", !.keys = keys])
  /\ UNCHANGED <<head, extents, young, made>>

\* deletePhysicalKeys, one batch.
Sweep(t) ==
  /\ job[t].at = "collect"
  /\ \E keys \in SUBSET job[t].keys :
        /\ Cardinality(keys) = Least(Batch, Cardinality(job[t].keys))
        /\ Erase(keys)
        /\ Becomes(t, IF keys = job[t].keys THEN Idle ELSE [job[t] EXCEPT !.keys = @ \ keys])
  /\ UNCHANGED <<head, young, made>>

\* ORPHAN_GRACE_MS "must exceed the longest realistic single write/replace duration".
Age(gen) ==
  /\ gen \in young
  /\ \/ \A t \in Tabs : job[t].at = "fill" => job[t].gen # gen
     \/ "slowWrite" \in Admits
  /\ young' = young \ {gen}
  /\ UNCHANGED <<head, extents, made, job>>

Crash(t) == /\ job[t] # Idle
            /\ Ends(t)
            /\ UNCHANGED <<head, extents, young, made>>

-----------------------------------------------------------------------------
Step(t) ==
  \/ Begin(t)
  \/ GrowExtent(t) \/ CutBoundary(t) \/ DropTail(t) \/ CompleteResize(t)
  \/ Resize(t) \/ ResizeNothing(t)
  \/ BeginReplace(t) \/ Fill(t) \/ FillFails(t) \/ Publish(t) \/ Drop(t)
  \/ BeginWrite(t) \/ PutUnits(t) \/ Delete(t)
  \/ EnsureComplete(t) \/ PinHead(t) \/ ReadExtent(t) \/ EndRead(t)
  \/ CollectOrphans(t) \/ Sweep(t) \/ Crash(t)

Next == (\E t \in Tabs : Step(t)) \/ \E gen \in Stamps : Age(gen)

Spec == Init /\ [][Next]_vars
=============================================================================
