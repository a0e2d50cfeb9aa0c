------------------------- MODULE OfflineFilesProofs -------------------------
(***************************************************************************)
(* For any number of tabs and any sizes: a complete head always has its    *)
(* whole generation, a reader gets what the head it pinned holds, and      *)
(* every call is one step on the content of the file.                      *)
(*                                                                         *)
(* IInv says where the extents are: that publication, the size journal and *)
(* the collection of orphans do not get in each other's way.  ContentInv   *)
(* says what is in them; it rests on IInv, step by step.                   *)
(***************************************************************************)
EXTENDS OfflineFilesProps, TLAPS

Steps == Exclusive \cup {"idle", "waiting", "reading", "collect"}

Jobs == [at : Steps, req : Requests \cup {None}, gen : 0 .. MaxMade, next : Nat, count : Nat,
         pinned : Heads \cup {None}, got : Seq(Nat), keys : SUBSET (Nat \X Nat)]

\* What extent e of a file of n units holds.
Filled(n, e) == IF e < ExtentCount(n) THEN ExtentLength(n, e) ELSE 0

\* A generation has exactly the extents of a file of n units.
Holds(gen, n) == \A e \in Nat : Have(gen, e) = Filled(n, e)

StoreTyped ==
  /\ head \in Heads \cup {None}
  /\ made \in 0 .. MaxMade
  /\ young \subseteq 1 .. made
  /\ head # None => head.gen \in 1 .. made
  /\ \A k \in DOMAIN extents : k \in (1 .. made) \X Nat /\ extents[k] \in Seq(Nat)

JobsTyped == job \in [Tabs -> Jobs]

\* A grow under way has stored no extent beyond what it is to become; a shrink has kept at
\* least that much, and never had anything behind its old end.
GrowOk == head.size <= head.target /\ \A e \in Nat : Have(head.gen, e) <= Filled(head.target, e)

ShrinkOk ==
  /\ head.target <= head.size
  /\ \A e \in Nat :
        /\ Have(head.gen, e) >= Filled(head.target, e)
        /\ e + 1 < ExtentCount(head.target) => Have(head.gen, e) = Filled(head.target, e)
        /\ e >= ExtentCount(head.size) => Have(head.gen, e) = 0

HeadOk ==
  /\ head # None /\ head.op = "none" => Holds(head.gen, head.size)
  /\ head # None /\ head.op = "grow" => GrowOk
  /\ head # None /\ head.op = "shrink" => ShrinkOk

\* One tab at a time changes the file, and none while it is read.
OneWriter == \A t, u \in Tabs :
  t # u /\ job[t].at \in Exclusive => job[u].at \notin Exclusive \cup {"reading"}

\* Which step finds the head complete, and which a journal; a reader has pinned some head.
AtRightTime(j) ==
  /\ j.at \in {"body", "fill", "put"} => ~Mutating
  /\ j.at \in {"recover", "resize"} => Mutating
  /\ j.at \in {"recover", "body"} => j.req \in Requests
  /\ j.at = "body" => j.next = 0
  /\ j.at = "reading" => j.pinned \in Heads

\* A shrink has deleted everything between the new end and its position.
TailGone(j) ==
  j.at \in {"recover", "resize"} /\ head # None /\ head.op = "shrink" =>
     \A e \in Nat : e >= ExtentCount(head.target) /\ e < ExtentCount(head.target) + j.next
                       => Have(head.gen, e) = 0

\* The generation in the making is nobody else's, young, and stored as far as it is filled.
FillOk(j) ==
  j.at = "fill" =>
     /\ j.req.size \in Sizes /\ j.req.sum \in BOOLEAN
     /\ j.pinned = head /\ (head # None => head.gen # j.gen)
     /\ j.gen \in young
     /\ j.next <= j.req.size
     /\ Holds(j.gen, j.next)

PutOk(j) ==
  j.at = "put" => /\ head # None
                  /\ j.req.to \in Nat /\ j.next < j.req.to /\ j.req.to <= head.size

\* Nobody deletes extents of the head or of a generation in the making.
DropOk(j) == j.at = "drop" /\ head # None => head.gen # j.gen

SweepOk(j) ==
  j.at = "collect" =>
     \A k \in j.keys : /\ k[1] <= made
                       /\ head # None => head.gen # k[1]
                       /\ \A u \in Tabs : job[u].at = "fill" => job[u].gen # k[1]

JobOk(j) == AtRightTime(j) /\ TailGone(j) /\ FillOk(j) /\ PutOk(j) /\ DropOk(j) /\ SweepOk(j)

IInv == /\ StoreTyped /\ JobsTyped
        /\ HeadOk /\ OneWriter
        /\ \A t \in Tabs : JobOk(job[t])
-----------------------------------------------------------------------------
(* Arithmetic of extents. *)

LEMMA SizeIsPositive == ExtentSize \in Nat \ {0}
  BY StoreAssumption

LEMMA BatchIsPositive == Batch \in Nat \ {0}
  BY StoreAssumption

\* Multiples of the extent size keep their order.
LEMMA Scale == ASSUME NEW a \in Nat, NEW b \in Nat, a <= b PROVE a * ExtentSize <= b * ExtentSize
  BY SizeIsPositive

\* One extent more.
LEMMA Another == ASSUME NEW a \in Nat PROVE (a + 1) * ExtentSize = (a * ExtentSize) + ExtentSize /\ a * ExtentSize \in Nat
  BY SizeIsPositive

\* A position is so many whole extents and a rest.
LEMMA Div == ASSUME NEW n \in Nat PROVE
   /\ n \div ExtentSize \in Nat /\ n % ExtentSize \in 0 .. ExtentSize - 1 
   /\ n = ((n \div ExtentSize) * ExtentSize) + (n % ExtentSize)
  BY SizeIsPositive

\* An extent exists when its first unit does.
LEMMA CountLess == ASSUME NEW n \in Nat, NEW e \in Nat PROVE e < ExtentCount(n) <=> e * ExtentSize < n
<1> DEFINE c == (n + ExtentSize - 1) \div ExtentSize
           r == (n + ExtentSize - 1) % ExtentSize
<1>1. c \in Nat /\ r \in 0 .. ExtentSize - 1 /\ n + ExtentSize - 1 = (c * ExtentSize) + r
  BY Div, SizeIsPositive
<1>2. ExtentCount(n) = c
  BY DEF ExtentCount
<1> HIDE DEF c, r
<1>3. ASSUME e < c PROVE e * ExtentSize < n
  <2>1. (e + 1) * ExtentSize <= c * ExtentSize
    BY <1>1, <1>3, Scale
  <2>2. (e + 1) * ExtentSize = e * ExtentSize + ExtentSize
    BY SizeIsPositive
  <2>3. e * ExtentSize \in Nat /\ c * ExtentSize \in Nat
    BY <1>1, SizeIsPositive
  <2> QED
    BY <2>1, <2>2, <2>3, <1>1, SizeIsPositive
<1>4. ASSUME e >= c PROVE e * ExtentSize >= n
  <2>1. c * ExtentSize <= e * ExtentSize
    BY <1>1, <1>4, Scale
  <2>3. e * ExtentSize \in Nat /\ c * ExtentSize \in Nat
    BY <1>1, SizeIsPositive
  <2> QED
    BY <2>1, <2>3, <1>1, SizeIsPositive
<1>5. e * ExtentSize \in Nat
  BY SizeIsPositive
<1> QED
  BY <1>1, <1>2, <1>3, <1>4, <1>5

\* What extent e holds, without the division.
LEMMA FilledIs == ASSUME NEW n \in Nat, NEW e \in Nat
                  PROVE Filled(n, e) = IF e * ExtentSize < n THEN Least(ExtentSize, n - e * ExtentSize) ELSE 0
  BY CountLess DEF Filled, ExtentLength

\* No extent holds more than its size.
LEMMA FilledNat == ASSUME NEW n \in Nat, NEW e \in Nat PROVE Filled(n, e) \in 0 .. ExtentSize
<1>1. e * ExtentSize \in Nat
  BY SizeIsPositive
<1> QED
  BY <1>1, FilledIs, SizeIsPositive DEF Least

\* A longer file has no shorter extent.
LEMMA FilledMonotone == ASSUME NEW m \in Nat, NEW n \in Nat, m <= n, NEW e \in Nat
                        PROVE Filled(m, e) <= Filled(n, e)
<1>1. e * ExtentSize \in Nat
  BY SizeIsPositive
<1> QED
  BY <1>1, FilledIs, SizeIsPositive DEF Least

\* Every extent but the last is full.
LEMMA FilledInner == ASSUME NEW n \in Nat, NEW e \in Nat, e + 1 < ExtentCount(n)
                     PROVE Filled(n, e) = ExtentSize
<1>1. (e + 1) * ExtentSize < n
  BY CountLess
<1>2. (e + 1) * ExtentSize = e * ExtentSize + ExtentSize /\ e * ExtentSize \in Nat
  BY SizeIsPositive
<1> QED
  BY <1>1, <1>2, FilledIs, SizeIsPositive DEF Least

\* One unit more lengthens one extent by one.
LEMMA FilledNext == ASSUME NEW n \in Nat, NEW e \in Nat
   PROVE Filled(n + 1, e) = IF e = n \div ExtentSize THEN (n % ExtentSize) + 1 ELSE Filled(n, e)
<1> DEFINE q == n \div ExtentSize
           r == n % ExtentSize
<1>1. q \in Nat /\ r \in 0 .. ExtentSize - 1 /\ n = (q * ExtentSize) + r
  BY Div
<1> DEFINE p == e * ExtentSize
           o == q * ExtentSize
<1>2. p \in Nat /\ o \in Nat
  BY <1>1, SizeIsPositive
<1>3. Filled(n, e) = IF p < n THEN Least(ExtentSize, n - p) ELSE 0
  BY FilledIs
<1>4. Filled(n + 1, e) = IF p < n + 1 THEN Least(ExtentSize, (n + 1) - p) ELSE 0
  BY FilledIs
<1>5. n = o + r
  BY <1>1
<1>6. e < q => p + ExtentSize <= o
  BY Scale, <1>1, Another
<1>7. e > q => o + ExtentSize <= p
  BY Scale, <1>1, Another
<1>8. e = q => p = o
  OBVIOUS
<1> HIDE DEF p, o, q, r
<1>9. Filled(n + 1, e) = IF e = q THEN r + 1 ELSE Filled(n, e)
  <2>1. CASE e = q
    BY <1>1, <1>2, <1>3, <1>4, <1>5, <1>8, <2>1, SizeIsPositive DEF Least
  <2>2. CASE e < q
    BY <1>1, <1>2, <1>3, <1>4, <1>5, <1>6, <2>2, SizeIsPositive DEF Least
  <2>3. CASE e > q
    BY <1>1, <1>2, <1>3, <1>4, <1>5, <1>7, <2>3, SizeIsPositive DEF Least
  <2> QED
    BY <1>1, <2>1, <2>2, <2>3
<1> QED
  BY <1>9 DEF q, r
-----------------------------------------------------------------------------
(* What a transaction on extents does to one of them. *)

Stored == \A k \in DOMAIN extents : k \in Nat \X Nat /\ extents[k] \in Seq(Nat)

LEMMA StoredFromType == ASSUME StoreTyped PROVE Stored /\ made \in Nat
  BY StoreAssumption DEF StoreTyped, Stored

\* A length is a number.
LEMMA HaveNat == ASSUME Stored, NEW g \in Nat, NEW e \in Nat PROVE Have(g, e) \in Nat
  BY DEF Have, Stored

\* Storing an extent changes that extent and no other.
LEMMA PutHave ==
  ASSUME Stored, NEW g \in Nat, NEW e \in Nat, NEW units \in Seq(Nat),
         PutPhysicalExtent(g, e, units)
  PROVE  \A h, x \in Nat : Have(h, x)' = IF h = g /\ x = e THEN Len(units) ELSE Have(h, x)
<1> SUFFICES ASSUME NEW h \in Nat, NEW x \in Nat
             PROVE Have(h, x)' = IF h = g /\ x = e THEN Len(units) ELSE Have(h, x)
  OBVIOUS
<1>1. DOMAIN extents' = DOMAIN extents \cup {<<g, e>>}
  BY DEF PutPhysicalExtent
<1>2. \A k \in DOMAIN extents' : extents'[k] = IF k = <<g, e>> THEN units ELSE extents[k]
  BY DEF PutPhysicalExtent
<1>3. <<h, x>> = <<g, e>> <=> h = g /\ x = e
  OBVIOUS
<1> QED
  BY <1>1, <1>2, <1>3 DEF Have

\* ... and keeps the store well formed.
LEMMA PutTyped ==
  ASSUME StoreTyped, NEW g \in 1 .. made, NEW e \in Nat, NEW units \in Seq(Nat),
         PutPhysicalExtent(g, e, units), UNCHANGED made
  PROVE  \A k \in DOMAIN extents' : k \in (1 .. made') \X Nat /\ extents'[k] \in Seq(Nat)
<1>1. DOMAIN extents' = DOMAIN extents \cup {<<g, e>>}
  BY DEF PutPhysicalExtent
<1>2. \A k \in DOMAIN extents' : extents'[k] = IF k = <<g, e>> THEN units ELSE extents[k]
  BY DEF PutPhysicalExtent
<1>3. \A k \in DOMAIN extents : k \in (1 .. made) \X Nat /\ extents[k] \in Seq(Nat)
  BY DEF StoreTyped
<1>4. <<g, e>> \in (1 .. made) \X Nat
  OBVIOUS
<1> QED
  BY <1>1, <1>2, <1>3, <1>4

\* Deleting extents deletes those.
LEMMA EraseHave ==
  ASSUME NEW keys, Erase(keys)
  PROVE  \A h, x \in Nat : Have(h, x)' = IF <<h, x>> \in keys THEN 0 ELSE Have(h, x)
  BY DEF Erase, Have

LEMMA EraseTyped ==
  ASSUME StoreTyped, NEW keys, Erase(keys), UNCHANGED made
  PROVE  \A k \in DOMAIN extents' : k \in (1 .. made') \X Nat /\ extents'[k] \in Seq(Nat)
  BY DEF Erase, StoreTyped

\* A batch of deletePhysical.
LEMMA WindowHas ==
  ASSUME NEW g \in Nat, NEW a \in Nat, NEW c \in Nat, NEW h \in Nat, NEW x \in Nat
  PROVE  <<h, x>> \in Window(g, a, c) <=> h = g /\ a <= x /\ x < a + Batch /\ x < c
<1>1. <<h, x>> \in Window(g, a, c) <=> h = g /\ x \in a .. Least(a + Batch, c) - 1
  BY DEF Window
<1>2. x \in a .. Least(a + Batch, c) - 1 <=> a <= x /\ x < a + Batch /\ x < c
  BY BatchIsPositive DEF Least
<1> QED
  BY <1>1, <1>2

\* A number of extents is a number.
LEMMA CountNat == ASSUME NEW n \in Nat PROVE ExtentCount(n) \in Nat
  BY Div, SizeIsPositive DEF ExtentCount

\* A longer file has no fewer extents.
LEMMA CountMonotone == ASSUME NEW m \in Nat, NEW n \in Nat, m <= n
                       PROVE ExtentCount(m) <= ExtentCount(n)
<1>1. ExtentCount(m) \in Nat /\ ExtentCount(n) \in Nat
  BY CountNat
<1>2. SUFFICES ASSUME ExtentCount(n) < ExtentCount(m) PROVE FALSE
  BY <1>1
<1> DEFINE e == ExtentCount(n)
<1>3. e * ExtentSize < m /\ ~(e * ExtentSize < n)
  BY <1>1, <1>2, CountLess
<1>4. e * ExtentSize \in Nat
  BY <1>1, Another
<1> QED
  BY <1>3, <1>4

\* The sizes of a file are numbers.
LEMMA SizesAre == /\ Sizes \subseteq Nat
                  /\ \A h \in Heads : h.size \in Nat /\ h.target \in Nat /\ h.gen \in Nat
                                      /\ h.op \in {"none", "grow", "shrink"}
  BY StoreAssumption DEF Sizes, Heads, Stamps

LEMMA HeadIs == ASSUME StoreTyped, head # None
                PROVE /\ head \in Heads /\ head.size \in Nat /\ head.target \in Nat
                      /\ head.gen \in 1 .. made /\ head.gen \in Nat
                      /\ head.op \in {"none", "grow", "shrink"}
  BY SizesAre, StoredFromType DEF StoreTyped

\* What a request carries.
LEMMA RequestIs ==
  ASSUME NEW r \in Requests
  PROVE  /\ r.kind = "replace" => r.size \in Sizes /\ r.sum \in BOOLEAN
         /\ r.kind \in {"grow", "shrink"} => r.size \in Sizes
         /\ r.kind = "write" => r.from \in Sizes /\ r.to \in Sizes /\ r.from < r.to
  BY DEF Requests
-----------------------------------------------------------------------------
(* What the other tabs are doing meanwhile. *)

\* The step of a tab, as a change of its job.
LEMMA JobsStayTyped ==
  ASSUME JobsTyped, NEW t \in Tabs, NEW j \in Jobs, job' = [job EXCEPT ![t] = j]
  PROVE  /\ JobsTyped'
         /\ job'[t] = j
         /\ \A u \in Tabs : u # t => job'[u] = job[u]
  BY DEF JobsTyped

LEMMA JobIs == ASSUME JobsTyped, NEW t \in Tabs PROVE job[t] \in Jobs
  BY DEF JobsTyped

\* While one tab works on the file the others only wait or collect orphans; what they
\* have collected stays orphaned.
LEMMA Bystanders ==
  ASSUME IInv, NEW t \in Tabs, NEW j \in Jobs, job' = [job EXCEPT ![t] = j],
         job[t].at \in Exclusive, made' \in Nat, made <= made',
         head' # None => \/ head # None /\ head'.gen = head.gen
                         \/ head'.gen \in Nat /\ head'.gen > made
                         \/ job[t].at = "fill" /\ head'.gen = job[t].gen,
         j.at = "fill" => \/ j.gen > made
                          \/ job[t].at = "fill" /\ j.gen = job[t].gen
  PROVE  /\ OneWriter'
         /\ \A u \in Tabs : u # t => JobOk(job[u])'
<1>1. job'[t] = j /\ \A u \in Tabs : u # t => job'[u] = job[u]
  BY JobsStayTyped DEF IInv
<1>2. \A u \in Tabs : u # t => job[u].at \notin Exclusive \cup {"reading"}
  BY DEF IInv, OneWriter
<1>3. OneWriter'
  BY <1>1, <1>2, Zenon DEF OneWriter
<1>4. ASSUME NEW u \in Tabs, u # t PROVE JobOk(job[u])'
  <2>1. job'[u] = job[u] /\ job[u].at \notin Exclusive \cup {"reading"}
    BY <1>1, <1>2, <1>4
  <2>2. SweepOk(job[u])
    BY DEF IInv, JobOk
  <2>3. made \in Nat
    BY StoredFromType DEF IInv
  <2>4. job[u] \in Jobs
    BY JobIs DEF IInv
  <2>5. \A v \in Tabs : job'[v].at = "fill" =>
           \/ job'[v].gen > made
           \/ job[v].at = "fill" /\ job'[v].gen = job[v].gen
    BY <1>1
  <2>6. SweepOk(job[u])'
    <3>1. SUFFICES ASSUME job[u].at = "collect", NEW k \in job[u].keys
                   PROVE  /\ k[1] <= made'
                          /\ head' # None => head'.gen # k[1]
                          /\ \A v \in Tabs : job'[v].at = "fill" => job'[v].gen # k[1]
      BY <2>1 DEF SweepOk
    <3>2. k[1] \in Nat
      BY <2>4 DEF Jobs
    <3>3. /\ k[1] <= made
          /\ head # None => head.gen # k[1]
          /\ \A v \in Tabs : job[v].at = "fill" => job[v].gen # k[1]
      BY <2>2, <3>1 DEF SweepOk
    <3>4. k[1] <= made'
      BY <2>3, <3>2, <3>3
    <3>5. head' # None => head'.gen # k[1]
      BY <2>3, <3>2, <3>3
    <3>6. ASSUME NEW v \in Tabs, job'[v].at = "fill" PROVE job'[v].gen # k[1]
      BY <2>3, <2>5, <3>2, <3>3, <3>6
    <3> QED
      BY <3>4, <3>5, <3>6
  <2>7. /\ AtRightTime(job[u])' /\ TailGone(job[u])' /\ FillOk(job[u])'
        /\ PutOk(job[u])' /\ DropOk(job[u])'
    BY <2>1 DEF AtRightTime, TailGone, FillOk, PutOk, DropOk, Exclusive
  <2> QED
    BY <2>6, <2>7 DEF JobOk
<1> QED
  BY <1>3, <1>4

\* A step that moves neither the head nor an extent of it, nor one of a generation in
\* the making, leaves the head as good as it was and every other tab where it is.
LEMMA Elsewhere ==
  ASSUME IInv, NEW t \in Tabs, NEW j \in Jobs, job' = [job EXCEPT ![t] = j],
         UNCHANGED <<head, young, made>>, j.at # "fill",
         head # None => \A e \in Nat : Have(head.gen, e)' = Have(head.gen, e),
         \A u \in Tabs : u # t /\ job[u].at = "fill" =>
            \A e \in Nat : Have(job[u].gen, e)' = Have(job[u].gen, e)
  PROVE  /\ HeadOk'
         /\ \A u \in Tabs : u # t => JobOk(job[u])'
<1>1. job'[t] = j /\ \A u \in Tabs : u # t => job'[u] = job[u]
  BY JobsStayTyped DEF IInv
<1>2. head' = head /\ young' = young /\ made' = made
  OBVIOUS
<1>3. HeadOk'
  <2>1. HeadOk
    BY DEF IInv
  <2>2. CASE head = None
    BY <1>2, <2>2 DEF HeadOk
  <2>3. CASE head # None
    <3>1. \A e \in Nat : Have(head.gen, e)' = Have(head.gen, e)
      BY <2>3
    <3> QED
      BY <1>2, <2>1, <3>1 DEF HeadOk, Holds, GrowOk, ShrinkOk
  <2> QED
    BY <2>2, <2>3
<1>4. ASSUME NEW u \in Tabs, u # t PROVE JobOk(job[u])'
  <2>1. job'[u] = job[u] /\ JobOk(job[u])
    BY <1>1, <1>4 DEF IInv
  <2>2. AtRightTime(job[u])' /\ PutOk(job[u])' /\ DropOk(job[u])'
    BY <1>2, <2>1 DEF JobOk, AtRightTime, PutOk, DropOk, Mutating
  <2>3. TailGone(job[u])'
    BY <1>2, <2>1 DEF JobOk, TailGone
  <2>4. FillOk(job[u])'
    <3>1. CASE job[u].at # "fill"
      BY <2>1, <3>1 DEF FillOk
    <3>2. CASE job[u].at = "fill"
      <4>1. FillOk(job[u])
        BY <2>1 DEF JobOk
      <4>2. \A e \in Nat : Have(job[u].gen, e)' = Have(job[u].gen, e)
        BY <1>4, <3>2
      <4> QED
        BY <1>2, <2>1, <4>1, <4>2 DEF FillOk, Holds
    <3> QED
      BY <3>1, <3>2
  <2>5. SweepOk(job[u])'
    <3>1. \A v \in Tabs : job'[v].at = "fill" => job[v].at = "fill" /\ job'[v].gen = job[v].gen
      BY <1>1
    <3>2. SweepOk(job[u])
      BY <2>1 DEF JobOk
    <3> QED
      BY <1>2, <2>1, <3>1, <3>2 DEF SweepOk
  <2> QED
    BY <2>2, <2>3, <2>4, <2>5 DEF JobOk
<1> QED
  BY <1>3, <1>4

\* The same of a step that changes nothing but its job.
LEMMA OwnJobOnly ==
  ASSUME IInv, NEW t \in Tabs, NEW j \in Jobs, job' = [job EXCEPT ![t] = j],
         UNCHANGED <<head, extents, young, made>>, j.at # "fill"
  PROVE  /\ StoreTyped' /\ JobsTyped' /\ HeadOk'
         /\ \A u \in Tabs : u # t => JobOk(job[u])'
<1>1. \A g, e \in Nat : Have(g, e)' = Have(g, e)
  BY DEF Have
<1>2. head # None => head.gen \in Nat
  BY HeadIs DEF IInv
<1>3. \A u \in Tabs : job[u].gen \in Nat
  BY JobIs, StoreAssumption DEF IInv, Jobs
<1>4. StoreTyped'
  BY DEF IInv, StoreTyped
<1>5. JobsTyped'
  BY JobsStayTyped DEF IInv
<1>6. /\ head # None => \A e \in Nat : Have(head.gen, e)' = Have(head.gen, e)
      /\ \A u \in Tabs : u # t /\ job[u].at = "fill" =>
            \A e \in Nat : Have(job[u].gen, e)' = Have(job[u].gen, e)
  BY DEF Have
<1> QED
  BY <1>4, <1>5, <1>6, Elsewhere
-----------------------------------------------------------------------------
(* Steps that change nothing but the job of their tab. *)

\* A tab that does nothing disturbs nobody.
LEMMA IdleIs == Idle \in Jobs /\ Idle.at = "idle"
  BY StoreAssumption DEF Idle, Jobs, Steps

LEMMA DroppingIs ==
  ASSUME NEW g \in 0 .. MaxMade, NEW c \in Nat
  PROVE  /\ Dropping(g, c) \in Jobs
         /\ \/ Dropping(g, c).at = "idle"
            \/ Dropping(g, c).at = "drop" /\ Dropping(g, c).gen = g
<1> DEFINE j == [Idle EXCEPT !.at = "drop", !.gen = g, !.count = c]
<1>1. j \in Jobs /\ j.at = "drop" /\ j.gen = g
  BY IdleIs DEF Idle, Jobs, Steps, Exclusive
<1>2. Dropping(g, c) = Idle \/ Dropping(g, c) = j
  BY DEF Dropping
<1> QED
  BY <1>1, <1>2, IdleIs, Zenon

\* The invariant from its parts.
LEMMA Together ==
  ASSUME StoreTyped', JobsTyped', HeadOk', OneWriter', NEW t \in Tabs, JobOk(job[t])',
         \A u \in Tabs : u # t => JobOk(job[u])'
  PROVE  IInv'
  BY DEF IInv

\* No exclusive job appears, and none that reads beside one.
LEMMA NoNewWriter ==
  ASSUME IInv, NEW t \in Tabs, NEW j \in Jobs, job' = [job EXCEPT ![t] = j],
         \/ j.at \notin Exclusive \cup {"reading"}
         \/ job[t].at \in Exclusive
         \/ Unlocked
         \/ j.at = "reading" /\ Shareable
  PROVE  OneWriter'
<1>1. job'[t] = j /\ \A u \in Tabs : u # t => job'[u] = job[u]
  BY JobsStayTyped DEF IInv
<1>2. OneWriter
  BY DEF IInv
<1>3. "reading" \notin Exclusive
  BY DEF Exclusive
<1> QED
  BY ZenonT(30), <1>1, <1>2, <1>3 DEF OneWriter, Unlocked, Shareable

\* A job that is not about the content of the file is in order.
LEMMA EasyJob ==
  ASSUME NEW t \in Tabs, job'[t].at \in {"idle", "waiting", "reading"},
         job'[t].at = "reading" => job'[t].pinned \in Heads
  PROVE  JobOk(job[t])'
  BY DEF JobOk, AtRightTime, TailGone, FillOk, PutOk, DropOk, SweepOk

LEMMA BeginKeeps == ASSUME IInv, NEW t \in Tabs, Begin(t) PROVE IInv'
<1>1. PICK r \in Requests :
         job' = [job EXCEPT ![t] = [Idle EXCEPT !.at = IF Mutating THEN "recover" ELSE "body",
                                                !.req = r]]
  BY DEF Begin, Becomes
<1> DEFINE j == [Idle EXCEPT !.at = IF Mutating THEN "recover" ELSE "body", !.req = r]
<1>2. j \in Jobs /\ j.at = (IF Mutating THEN "recover" ELSE "body") /\ j.req = r /\ j.next = 0
  BY IdleIs DEF Jobs, Idle, Steps, Exclusive
<1>3. UNCHANGED <<head, extents, young, made>> /\ Unlocked /\ job' = [job EXCEPT ![t] = j]
  BY <1>1 DEF Begin
<1> HIDE DEF j
<1>4. job'[t] = j
  BY <1>2, <1>3, JobsStayTyped DEF IInv
<1>5. /\ StoreTyped' /\ JobsTyped' /\ HeadOk'
      /\ \A u \in Tabs : u # t => JobOk(job[u])'
  BY <1>2, <1>3, OwnJobOnly
<1>6. OneWriter'
  BY <1>2, <1>3, NoNewWriter
<1>7. Mutating' = Mutating
  BY <1>3 DEF Mutating
<1>9. JobOk(job[t])'
  <2>1. AtRightTime(job[t])'
    BY <1>2, <1>4, <1>7 DEF AtRightTime
  <2>2. TailGone(job[t])'
    BY <1>2, <1>3, <1>4, HeadIs, CountNat DEF TailGone, IInv
  <2> QED
    BY <1>2, <1>4, <2>1, <2>2 DEF JobOk, FillOk, PutOk, DropOk, SweepOk
<1> QED
  BY <1>5, <1>6, <1>9, Together

LEMMA EndKeeps ==
  ASSUME IInv, NEW t \in Tabs, Ends(t), UNCHANGED <<head, extents, young, made>>
  PROVE  IInv'
<1>1. job' = [job EXCEPT ![t] = Idle]
  BY DEF Ends, Becomes
<1>2. /\ StoreTyped' /\ JobsTyped' /\ HeadOk'
      /\ \A u \in Tabs : u # t => JobOk(job[u])'
  BY <1>1, IdleIs, OwnJobOnly
<1>3. OneWriter'
  BY <1>1, IdleIs, NoNewWriter DEF Exclusive
<1>4. JobOk(job[t])'
  BY <1>1, IdleIs, EasyJob, JobsStayTyped DEF IInv
<1> QED
  BY <1>2, <1>3, <1>4, Together

LEMMA CrashKeeps == ASSUME IInv, NEW t \in Tabs, Crash(t) PROVE IInv'
  BY EndKeeps DEF Crash

LEMMA EndReadKeeps == ASSUME IInv, NEW t \in Tabs, EndRead(t) PROVE IInv'
  BY EndKeeps DEF EndRead

LEMMA EnsureCompleteKeeps == ASSUME IInv, NEW t \in Tabs, EnsureComplete(t) PROVE IInv'
<1> DEFINE j == [job[t] EXCEPT !.at = "waiting"]
<1>1. j \in Jobs /\ j.at = "waiting"
  BY JobIs DEF IInv, Jobs, Steps
<1>2. job' = [job EXCEPT ![t] = j] /\ UNCHANGED <<head, extents, young, made>>
  BY DEF EnsureComplete, Goes
<1> HIDE DEF j
<1>3. /\ StoreTyped' /\ JobsTyped' /\ HeadOk'
      /\ \A u \in Tabs : u # t => JobOk(job[u])'
  BY <1>1, <1>2, OwnJobOnly
<1>4. OneWriter'
  BY <1>1, <1>2, NoNewWriter DEF Exclusive
<1>5. JobOk(job[t])'
  BY <1>1, <1>2, EasyJob, JobsStayTyped DEF IInv
<1> QED
  BY <1>3, <1>4, <1>5, Together

LEMMA PinHeadKeeps == ASSUME IInv, NEW t \in Tabs, PinHead(t) PROVE IInv'
<1>1. CASE head = None
  BY <1>1, EndKeeps DEF PinHead
<1>2. CASE head # None
  <2> DEFINE j == [job[t] EXCEPT !.at = "reading", !.pinned = head]
  <2>1. j \in Jobs /\ j.at = "reading" /\ j.pinned \in Heads
    BY <1>2, JobIs, HeadIs DEF IInv, Jobs, Steps
  <2>2. job' = [job EXCEPT ![t] = j] /\ UNCHANGED <<head, extents, young, made>> /\ Shareable
    BY <1>2 DEF PinHead
  <2> HIDE DEF j
  <2>3. /\ StoreTyped' /\ JobsTyped' /\ HeadOk'
        /\ \A u \in Tabs : u # t => JobOk(job[u])'
    BY <2>1, <2>2, OwnJobOnly
  <2>4. OneWriter'
    BY <2>1, <2>2, NoNewWriter
  <2>5. JobOk(job[t])'
    BY <2>1, <2>2, EasyJob, JobsStayTyped DEF IInv
  <2> QED
    BY <2>3, <2>4, <2>5, Together
<1> QED
  BY <1>1, <1>2

LEMMA FillFailsKeeps == ASSUME IInv, NEW t \in Tabs, FillFails(t) PROVE IInv'
<1> DEFINE g == job[t].gen
           c == ExtentCount(job[t].req.size)
           j == Dropping(g, c)
<1>1. FillOk(job[t]) /\ job[t].at = "fill" /\ job[t] \in Jobs
  BY JobIs DEF IInv, JobOk, FillFails
<1>2. g \in 0 .. MaxMade /\ c \in Nat
  BY <1>1, CountNat, SizesAre DEF Jobs, FillOk
<1>3. job' = [job EXCEPT ![t] = j] /\ UNCHANGED <<head, extents, young, made>>
  BY DEF FillFails, Becomes
<1> HIDE DEF c
<1>4. j \in Jobs /\ (j.at = "idle" \/ (j.at = "drop" /\ j.gen = g))
  BY <1>2, DroppingIs
<1>5. head # None => head.gen # g
  BY <1>1 DEF FillOk
<1> HIDE DEF j, g
<1>6. job'[t] = j
  BY <1>3, <1>4, JobsStayTyped DEF IInv
<1>7. /\ StoreTyped' /\ JobsTyped' /\ HeadOk'
      /\ \A u \in Tabs : u # t => JobOk(job[u])'
  BY <1>3, <1>4, OwnJobOnly
<1>8. OneWriter'
  BY <1>1, <1>3, <1>4, NoNewWriter DEF Exclusive
<1>9. JobOk(job[t])'
  BY <1>3, <1>4, <1>5, <1>6 DEF JobOk, AtRightTime, TailGone, FillOk, PutOk, DropOk, SweepOk
<1> QED
  BY <1>7, <1>8, <1>9, Together

LEMMA ReadExtentKeeps == ASSUME IInv, NEW t \in Tabs, ReadExtent(t) PROVE IInv'
<1> DEFINE n == Len(job[t].got)
           key == <<job[t].pinned.gen, n \div ExtentSize>>
           from == n % ExtentSize
           part == SubSeq(extents[key], from + 1,
                          Least(Len(extents[key]), from + job[t].pinned.size - n))
           j == [job[t] EXCEPT !.got = @ \o part]
<1>1. CASE key \notin DOMAIN extents
  BY <1>1, EndKeeps DEF ReadExtent
<1>2. CASE key \in DOMAIN extents
  <2>1. job[t].at = "reading" /\ n < job[t].pinned.size /\ job[t] \in Jobs
    BY JobIs DEF ReadExtent, IInv
  <2>2. job[t].pinned \in Heads
    BY <2>1 DEF IInv, JobOk, AtRightTime
  <2>3. job' = [job EXCEPT ![t] = j] /\ UNCHANGED <<head, extents, young, made>>
    BY <1>2 DEF ReadExtent
  <2>4. n \in Nat /\ job[t].pinned.size \in Nat /\ from \in Nat
    BY <2>1, <2>2, SizesAre, Div DEF Jobs
  <2>5. extents[key] \in Seq(Nat)
    BY <1>2 DEF IInv, StoreTyped
  <2>6. part \in Seq(Nat)
    <3> DEFINE s == extents[key]
               end == Least(Len(s), from + job[t].pinned.size - n)
    <3>1. end \in Nat /\ end <= Len(s)
      BY SMTT(30), <2>1, <2>4, <2>5 DEF Least
    <3>2. \A i \in 1 .. Len(s) : s[i] \in Nat
      BY <2>5
    <3> HIDE DEF end, s, from
    <3>3. SubSeq(s, from + 1, end) \in Seq(Nat)
      BY <2>4, <2>5, <3>1, <3>2 DEF s
    <3> QED
      BY <3>3 DEF end, s
  <2> HIDE DEF part
  <2>7. j \in Jobs /\ j.at = "reading" /\ j.pinned \in Heads
    <3> DEFINE got == job[t].got \o part
    <3>1. got \in Seq(Nat)
      BY <2>1, <2>6 DEF Jobs
    <3>2. j = [job[t] EXCEPT !.got = got]
      OBVIOUS
    <3> HIDE DEF got, j
    <3> QED
      BY <2>1, <2>2, <3>1, <3>2 DEF Jobs
  <2> HIDE DEF j
  <2>8. /\ StoreTyped' /\ JobsTyped' /\ HeadOk'
        /\ \A u \in Tabs : u # t => JobOk(job[u])'
    BY <2>3, <2>7, OwnJobOnly
  <2>9. OneWriter'
    <3>1. job'[t] = j /\ \A u \in Tabs : u # t => job'[u] = job[u]
      BY <2>3, <2>7, JobsStayTyped DEF IInv
    <3>2. \A u \in Tabs : job'[u].at = job[u].at
      BY <2>1, <2>7, <3>1
    <3> QED
      BY <3>2 DEF OneWriter, IInv
  <2>10. JobOk(job[t])'
    BY <2>3, <2>7, EasyJob, JobsStayTyped DEF IInv
  <2> QED
    BY <2>8, <2>9, <2>10, Together
<1> QED
  BY <1>1, <1>2

\* What looks orphaned belongs neither to the head nor to a generation in the making,
\* because that one is young.
LEMMA CollectOrphansKeeps == ASSUME IInv, NEW t \in Tabs, CollectOrphans(t) PROVE IInv'
<1> DEFINE orphans == {k \in DOMAIN extents : Orphaned(k[1])}
           j == [Idle EXCEPT !.at = "collect", !.keys = orphans]
<1>1. job' = [job EXCEPT ![t] = j] /\ UNCHANGED <<head, extents, young, made>>
  BY DEF CollectOrphans, Becomes
<1>2. \A k \in DOMAIN extents : k \in (1 .. made) \X Nat /\ made \in Nat
  BY StoredFromType DEF IInv, StoreTyped
<1>3. orphans \subseteq Nat \X Nat
  BY <1>2
<1>4. \A k \in orphans : /\ k[1] <= made
                         /\ head # None => head.gen # k[1]
                         /\ k[1] \notin young
  BY <1>2 DEF Orphaned
<1>5. \A u \in Tabs : job[u].at = "fill" => job[u].gen \in young
  BY DEF IInv, JobOk, FillOk
<1> HIDE DEF orphans
<1>6. j \in Jobs /\ j.at = "collect" /\ j.keys = orphans
  BY <1>3, IdleIs DEF Idle, Jobs, Steps
<1> HIDE DEF j
<1>7. job'[t] = j /\ \A u \in Tabs : u # t => job'[u] = job[u]
  BY <1>1, <1>6, JobsStayTyped DEF IInv
<1>8. /\ StoreTyped' /\ JobsTyped' /\ HeadOk'
      /\ \A u \in Tabs : u # t => JobOk(job[u])'
  BY <1>1, <1>6, OwnJobOnly
<1>9. OneWriter'
  BY <1>1, <1>6, NoNewWriter DEF Exclusive
<1>10. JobOk(job[t])'
  <2>1. \A u \in Tabs : job'[u].at = "fill" => job[u].at = "fill" /\ job'[u].gen = job[u].gen
    BY <1>6, <1>7
  <2>2. SweepOk(job[t])'
    BY <1>1, <1>4, <1>5, <1>6, <1>7, <2>1 DEF SweepOk
  <2> QED
    BY <1>6, <1>7, <2>2 DEF JobOk, AtRightTime, TailGone, FillOk, PutOk, DropOk
<1> QED
  BY <1>8, <1>9, <1>10, Together

\* Deleting extents of other generations harms nobody.
LEMMA ErasedElsewhere ==
  ASSUME IInv, NEW t \in Tabs, NEW j \in Jobs, job' = [job EXCEPT ![t] = j],
         NEW keys, Erase(keys), UNCHANGED <<head, young, made>>, j.at # "fill",
         \A k \in keys : /\ head # None => head.gen # k[1]
                         /\ \A u \in Tabs : u # t /\ job[u].at = "fill" => job[u].gen # k[1]
  PROVE  /\ StoreTyped' /\ JobsTyped' /\ HeadOk'
         /\ \A u \in Tabs : u # t => JobOk(job[u])'
<1>1. \A g, e \in Nat : Have(g, e)' = IF <<g, e>> \in keys THEN 0 ELSE Have(g, e)
  BY EraseHave
<1>2. \A k \in DOMAIN extents' : k \in (1 .. made') \X Nat /\ extents'[k] \in Seq(Nat)
  BY EraseTyped DEF IInv
<1>3. StoreTyped'
  BY <1>2 DEF IInv, StoreTyped
<1>4. JobsTyped'
  BY JobsStayTyped DEF IInv
<1>5. ASSUME head # None, NEW e \in Nat PROVE Have(head.gen, e)' = Have(head.gen, e)
  <2>1. <<head.gen, e>> \notin keys
    BY <1>5
  <2>2. \A g, x : <<g, x>> \notin keys => Have(g, x)' = Have(g, x)
    BY DEF Erase, Have
  <2> QED
    BY <2>1 DEF Erase, Have
<1>6. ASSUME NEW u \in Tabs, u # t, job[u].at = "fill", NEW e \in Nat
      PROVE  Have(job[u].gen, e)' = Have(job[u].gen, e)
  <2>1. <<job[u].gen, e>> \notin keys
    BY <1>6
  <2>2. job'[u] = job[u]
    BY <1>6, JobsStayTyped DEF IInv
  <2> QED
    BY <2>1, <2>2 DEF Erase, Have
<1> QED
  BY <1>3, <1>4, <1>5, <1>6, Elsewhere

LEMMA SweepKeeps == ASSUME IInv, NEW t \in Tabs, Sweep(t) PROVE IInv'
<1>1. PICK keys \in SUBSET job[t].keys :
        /\ Erase(keys)
        /\ job' = [job EXCEPT ![t] = IF keys = job[t].keys THEN Idle
                                     ELSE [job[t] EXCEPT !.keys = @ \ keys]]
  BY DEF Sweep, Becomes
<1>2. job[t].at = "collect" /\ UNCHANGED <<head, young, made>>
  BY DEF Sweep
<1> DEFINE j == IF keys = job[t].keys THEN Idle ELSE [job[t] EXCEPT !.keys = @ \ keys]
<1>3. job' = [job EXCEPT ![t] = j]
  BY <1>1
<1>4. /\ j \in Jobs
      /\ j.at = "idle" \/ (j.at = "collect" /\ j.keys \subseteq job[t].keys)
  <2>1. CASE keys = job[t].keys
    BY <2>1, IdleIs
  <2>2. CASE keys # job[t].keys
    <3>1. job[t] \in Jobs
      BY JobIs DEF IInv
    <3> QED
      BY <1>2, <2>2, <3>1 DEF Jobs
  <2> QED
    BY <2>1, <2>2
<1> HIDE DEF j
<1>5. \A k \in job[t].keys : /\ k[1] <= made
                             /\ head # None => head.gen # k[1]
                             /\ \A u \in Tabs : job[u].at = "fill" => job[u].gen # k[1]
  BY <1>2 DEF IInv, JobOk, SweepOk
<1>6. /\ StoreTyped' /\ JobsTyped' /\ HeadOk'
      /\ \A u \in Tabs : u # t => JobOk(job[u])'
  <2>1. \A k \in keys : /\ head # None => head.gen # k[1]
                        /\ \A u \in Tabs : u # t /\ job[u].at = "fill" => job[u].gen # k[1]
    BY <1>5
  <2>2. j.at # "fill"
    BY <1>4
  <2>3. Erase(keys)
    BY <1>1
  <2> QED
    BY <1>2, <1>3, <1>4, <2>1, <2>2, <2>3, ErasedElsewhere
<1>7. job'[t] = j /\ \A u \in Tabs : u # t => job'[u] = job[u]
  BY <1>3, <1>4, JobsStayTyped DEF IInv
<1>8. OneWriter'
  BY <1>3, <1>4, NoNewWriter DEF Exclusive
<1>9. JobOk(job[t])'
  <2>1. \A u \in Tabs : job'[u].at = "fill" => job[u].at = "fill" /\ job'[u].gen = job[u].gen
    BY <1>4, <1>7
  <2>2. SweepOk(job[t])'
    BY <1>2, <1>4, <1>5, <1>7, <2>1 DEF SweepOk
  <2> QED
    BY <1>4, <1>7, <2>2 DEF JobOk, AtRightTime, TailGone, FillOk, PutOk, DropOk
<1> QED
  BY <1>6, <1>8, <1>9, Together

LEMMA DropKeeps == ASSUME IInv, NEW t \in Tabs, Drop(t) PROVE IInv'
<1> DEFINE keys == Window(job[t].gen, job[t].next, job[t].count)
           j == IF job[t].next + Batch >= job[t].count THEN Idle
                ELSE [job[t] EXCEPT !.next = @ + Batch]
<1>1. /\ job[t].at = "drop" /\ UNCHANGED <<head, young, made>> /\ Erase(keys)
      /\ job' = [job EXCEPT ![t] = j]
  BY DEF Drop, Becomes
<1>2. job[t] \in Jobs
  BY JobIs DEF IInv
<1>3. /\ j \in Jobs
      /\ j.at = "idle" \/ (j.at = "drop" /\ j.gen = job[t].gen)
  <2>1. CASE job[t].next + Batch >= job[t].count
    BY <2>1, IdleIs
  <2>2. CASE ~(job[t].next + Batch >= job[t].count)
    <3> DEFINE next == job[t].next + Batch
    <3>1. next \in Nat
      BY <1>2, BatchIsPositive DEF Jobs
    <3>2. j = [job[t] EXCEPT !.next = next]
      BY <2>2
    <3> HIDE DEF next, j
    <3> QED
      BY <1>1, <1>2, <3>1, <3>2 DEF Jobs
  <2> QED
    BY <2>1, <2>2
<1>4. \A k \in keys : k[1] = job[t].gen
  BY DEF Window
<1>5. head # None => head.gen # job[t].gen
  BY <1>1 DEF IInv, JobOk, DropOk
<1>6. \A u \in Tabs : u # t => job[u].at # "fill"
  BY <1>1 DEF IInv, OneWriter, Exclusive
<1> HIDE DEF j, keys
<1>7. /\ StoreTyped' /\ JobsTyped' /\ HeadOk'
      /\ \A u \in Tabs : u # t => JobOk(job[u])'
  BY <1>1, <1>3, <1>4, <1>5, <1>6, ErasedElsewhere
<1>8. job'[t] = j
  BY <1>1, <1>3, JobsStayTyped DEF IInv
<1>9. OneWriter'
  BY <1>1, <1>3, NoNewWriter DEF Exclusive
<1>10. JobOk(job[t])'
  BY <1>1, <1>3, <1>5, <1>8 DEF JobOk, AtRightTime, TailGone, FillOk, PutOk, DropOk, SweepOk
<1> QED
  BY <1>7, <1>9, <1>10, Together

\* A generation that is being written does not age.
LEMMA AgeKeeps == ASSUME IInv, Admits = {}, NEW gen \in Stamps, Age(gen) PROVE IInv'
<1>1. /\ young' = young \ {gen} /\ UNCHANGED <<head, extents, made, job>>
      /\ \A t \in Tabs : job[t].at = "fill" => job[t].gen # gen
  BY DEF Age
<1>2. StoreTyped' /\ JobsTyped' /\ HeadOk' /\ OneWriter'
  BY <1>1 DEF IInv, StoreTyped, JobsTyped, HeadOk, Holds, GrowOk, ShrinkOk, Have, OneWriter
<1>3. ASSUME NEW t \in Tabs PROVE JobOk(job[t])'
  BY <1>1 DEF IInv, JobOk, AtRightTime, TailGone, FillOk, PutOk, DropOk, SweepOk, Holds, Have,
              Mutating
<1> QED
  BY <1>2, <1>3 DEF IInv
-----------------------------------------------------------------------------
(* Steps of the tab that has the file to itself. *)

LEMMA Alone ==
  ASSUME IInv, NEW t \in Tabs, NEW j \in Jobs, job' = [job EXCEPT ![t] = j],
         job[t].at \in Exclusive, made <= made',
         head' # None => \/ head # None /\ head'.gen = head.gen
                         \/ head'.gen > made
                         \/ job[t].at = "fill" /\ head'.gen = job[t].gen,
         j.at = "fill" => \/ j.gen > made
                          \/ job[t].at = "fill" /\ j.gen = job[t].gen,
         StoreTyped', HeadOk', JobOk(job[t])'
  PROVE  IInv'
<1>1. made' \in Nat /\ (head' # None => head'.gen \in Nat)
  BY StoreAssumption, SizesAre DEF StoreTyped
<1>2. OneWriter' /\ \A u \in Tabs : u # t => JobOk(job[u])'
  BY <1>1, Bystanders
<1>3. JobsTyped'
  BY JobsStayTyped DEF IInv
<1> QED
  BY <1>2, <1>3, Together

LEMMA SameJob == ASSUME JobsTyped, NEW t \in Tabs PROVE job = [job EXCEPT ![t] = job[t]]
  BY DEF JobsTyped

\* An extent that is stored has its key in the store.
LEMMA HaveUnits ==
  ASSUME Stored, NEW g \in Nat, NEW e \in Nat, Have(g, e) > 0
  PROVE  /\ <<g, e>> \in DOMAIN extents
         /\ extents[<<g, e>>] \in Seq(Nat)
         /\ Len(extents[<<g, e>>]) = Have(g, e)
  BY DEF Have, Stored

LEMMA GrowExtentKeeps == ASSUME IInv, NEW t \in Tabs, GrowExtent(t) PROVE IInv'
<1>1. /\ job[t].at \in {"recover", "resize"} /\ head.op = "grow" /\ Short # {}
      /\ UNCHANGED <<head, young, made, job>>
  BY DEF GrowExtent, Resizing
<1>2. head # None
  BY <1>1 DEF IInv, JobOk, AtRightTime, Mutating
<1>3. /\ head \in Heads /\ head.gen \in 1 .. made /\ head.gen \in Nat /\ head.target \in Nat
      /\ ExtentCount(head.target) \in Nat
  BY <1>2, HeadIs, CountNat DEF IInv
<1>4. PICK e \in Short :
         PutPhysicalExtent(head.gen, e,
           [i \in 1 .. ExtentLength(head.target, e) |->
              IF i <= Have(head.gen, e) THEN extents[<<head.gen, e>>][i] ELSE 0])
  BY DEF GrowExtent
<1> DEFINE n == ExtentLength(head.target, e)
           units == [i \in 1 .. n |->
                       IF i <= Have(head.gen, e) THEN extents[<<head.gen, e>>][i] ELSE 0]
<1>5. e \in Nat /\ n = Filled(head.target, e) /\ n \in Nat
  <2>1. e \in Nat /\ e < ExtentCount(head.target)
    BY <1>3 DEF Short
  <2>2. n = Filled(head.target, e)
    BY <2>1 DEF Filled
  <2> HIDE DEF n
  <2>3. Filled(head.target, e) \in 0 .. ExtentSize
    BY <1>3, <2>1, FilledNat
  <2> QED
    BY <2>1, <2>2, <2>3, SizeIsPositive
<1>6. Stored
  BY StoredFromType DEF IInv
<1> HIDE DEF n
<1>7. units \in Seq(Nat) /\ Len(units) = n
  <2>1. ASSUME NEW i \in 1 .. n, i <= Have(head.gen, e)
        PROVE  extents[<<head.gen, e>>][i] \in Nat
    <3>1. Have(head.gen, e) \in Nat
      BY <1>3, <1>5, <1>6, HaveNat
    <3>2. Have(head.gen, e) > 0 /\ i \in 1 .. Have(head.gen, e)
      BY <1>5, <2>1, <3>1
    <3>3. /\ extents[<<head.gen, e>>] \in Seq(Nat)
          /\ Len(extents[<<head.gen, e>>]) = Have(head.gen, e)
      BY <1>3, <1>5, <1>6, <3>2, HaveUnits
    <3> QED
      BY <3>2, <3>3
  <2>2. \A i \in 1 .. n : units[i] \in Nat
    BY <2>1
  <2> QED
    BY <1>5, <2>2
<1>4a. PutPhysicalExtent(head.gen, e, units)
  BY <1>4 DEF n
<1> HIDE DEF units
<1>8. \A h, x \in Nat : Have(h, x)' = IF h = head.gen /\ x = e THEN Len(units) ELSE Have(h, x)
  BY <1>3, <1>4a, <1>5, <1>6, <1>7, PutHave
<1>9. StoreTyped'
  BY <1>1, <1>3, <1>4a, <1>5, <1>7, PutTyped DEF IInv, StoreTyped
<1>10. GrowOk
  BY <1>1, <1>2 DEF IInv, HeadOk
<1>11. \A x \in Nat : Have(head.gen, x)' <= Filled(head.target, x)
  <2> SUFFICES ASSUME NEW x \in Nat PROVE Have(head.gen, x)' <= Filled(head.target, x)
    OBVIOUS
  <2>1. Have(head.gen, x)' = IF x = e THEN Len(units) ELSE Have(head.gen, x)
    BY <1>1, <1>3, <1>8 DEF Have
  <2>2. Have(head.gen, x) <= Filled(head.target, x)
    BY <1>10 DEF GrowOk
  <2> QED
    BY <1>5, <1>7, <2>1, <2>2
<1>12. HeadOk'
  BY <1>1, <1>10, <1>11 DEF HeadOk, GrowOk
<1>13. JobOk(job[t])'
  <2>1. AtRightTime(job[t])
    BY DEF IInv, JobOk
  <2> QED
    BY <1>1, <2>1 DEF JobOk, AtRightTime, TailGone, FillOk, PutOk, DropOk, SweepOk, Mutating
<1>14. job[t] \in Jobs /\ job' = [job EXCEPT ![t] = job[t]] /\ made <= made'
  BY <1>1, JobIs, SameJob, StoredFromType DEF IInv
<1> QED
  BY <1>1, <1>2, <1>9, <1>12, <1>13, <1>14, Alone DEF Exclusive

\* What a journal of the head gives the step that applies it.
LEMMA Journal ==
  ASSUME IInv, NEW t \in Tabs, job[t].at \in {"recover", "resize"}
  PROVE  /\ head # None /\ head \in Heads /\ head.gen \in 1 .. made /\ head.gen \in Nat
         /\ head.op \in {"grow", "shrink"}
         /\ head.size \in Nat /\ head.target \in Nat
         /\ ExtentCount(head.size) \in Nat /\ ExtentCount(head.target) \in Nat
         /\ job[t] \in Jobs /\ job[t].next \in Nat /\ job[t].at \in Exclusive
         /\ made \in Nat /\ Stored
<1>1. head # None /\ head.op # "none"
  BY DEF IInv, JobOk, AtRightTime, Mutating
<1>2. job[t] \in Jobs /\ job[t].next \in Nat
  BY JobIs DEF IInv, Jobs
<1> QED
  BY <1>1, <1>2, HeadIs, CountNat, StoredFromType DEF IInv, Exclusive

LEMMA CutBoundaryKeeps == ASSUME IInv, NEW t \in Tabs, CutBoundary(t) PROVE IInv'
<1>1. /\ job[t].at \in {"recover", "resize"} /\ head.op = "shrink" /\ BoundaryLong
      /\ UNCHANGED <<head, young, made, job>>
  BY DEF CutBoundary, Resizing
<1>2. /\ head # None /\ head \in Heads /\ head.gen \in 1 .. made /\ head.gen \in Nat
      /\ head.size \in Nat /\ head.target \in Nat
      /\ ExtentCount(head.size) \in Nat /\ ExtentCount(head.target) \in Nat
      /\ made \in Nat /\ Stored /\ job[t] \in Jobs
  BY <1>1, Journal
<1>3. ShrinkOk
  BY <1>1, <1>2 DEF IInv, HeadOk
<1>4. Boundary \in Nat /\ Boundary + 1 = ExtentCount(head.target)
  <2>1. 0 * ExtentSize = 0
    BY SizeIsPositive
  <2>2. 0 < ExtentCount(head.target)
    BY <1>1, <1>2, <2>1, CountLess DEF BoundaryLong
  <2> QED
    BY <1>2, <2>2 DEF Boundary
<1> DEFINE b == Boundary
           n == ExtentLength(head.target, b)
           units == SubSeq(extents[<<head.gen, b>>], 1, n)
<1>5. PutPhysicalExtent(head.gen, b, units) /\ Have(head.gen, b) > n
  BY DEF CutBoundary, BoundaryLong
<1>6. n = Filled(head.target, b) /\ n \in Nat
  <2>1. n = Filled(head.target, b)
    BY <1>2, <1>4 DEF Filled
  <2>2. Filled(head.target, b) \in 0 .. ExtentSize
    BY <1>2, <1>4, FilledNat
  <2> HIDE DEF n
  <2> QED
    BY <2>1, <2>2, SizeIsPositive
<1>7. b \in Nat /\ b + 1 = ExtentCount(head.target)
  BY <1>4
<1> HIDE DEF n, b
<1>8. units \in Seq(Nat) /\ Len(units) = n
  <2>1. /\ extents[<<head.gen, b>>] \in Seq(Nat)
        /\ Len(extents[<<head.gen, b>>]) > n
    <3>1. Have(head.gen, b) \in Nat
      BY <1>2, <1>7, HaveNat
    <3>2. Have(head.gen, b) > 0
      BY <1>5, <1>6, <3>1
    <3> QED
      BY <1>2, <1>5, <1>7, <3>2, HaveUnits
  <2> QED
    BY <1>6, <2>1
<1> HIDE DEF units
<1>9. \A h, x \in Nat : Have(h, x)' = IF h = head.gen /\ x = b THEN n ELSE Have(h, x)
  BY <1>2, <1>5, <1>7, <1>8, PutHave
<1>10. StoreTyped'
  BY <1>1, <1>2, <1>5, <1>7, <1>8, PutTyped DEF IInv, StoreTyped
<1>11. ASSUME NEW x \in Nat
       PROVE  /\ Have(head.gen, x)' = IF x = b THEN n ELSE Have(head.gen, x)
              /\ Have(head.gen, x)' >= Filled(head.target, x)
              /\ x + 1 < ExtentCount(head.target) => Have(head.gen, x)' = Filled(head.target, x)
              /\ x >= ExtentCount(head.size) => Have(head.gen, x)' = 0
  <2>1. Have(head.gen, x)' = IF x = b THEN n ELSE Have(head.gen, x)
    BY <1>1, <1>2, <1>9 DEF Have
  <2>2. /\ Have(head.gen, x) >= Filled(head.target, x)
        /\ x + 1 < ExtentCount(head.target) => Have(head.gen, x) = Filled(head.target, x)
        /\ x >= ExtentCount(head.size) => Have(head.gen, x) = 0
    BY <1>3 DEF ShrinkOk
  <2>3. ExtentCount(head.target) <= ExtentCount(head.size)
    BY <1>2, <1>3, CountMonotone DEF ShrinkOk
  <2> QED
    BY <1>2, <1>6, <1>7, <2>1, <2>2, <2>3
<1>12. HeadOk'
  BY <1>1, <1>3, <1>11 DEF HeadOk, ShrinkOk
<1>13. JobOk(job[t])'
  <2>1. AtRightTime(job[t]) /\ TailGone(job[t])
    BY DEF IInv, JobOk
  <2>2. AtRightTime(job[t])'
    BY <1>1, <2>1 DEF AtRightTime, Mutating
  <2>3. TailGone(job[t])'
    <3> SUFFICES ASSUME NEW e \in Nat, e >= ExtentCount(head.target),
                        e < ExtentCount(head.target) + job[t].next
                 PROVE  Have(head.gen, e)' = 0
      BY <1>1 DEF TailGone
    <3>1. Have(head.gen, e) = 0
      BY <1>1, <1>2, <2>1 DEF TailGone
    <3>2. e # b
      BY <1>2, <1>7
    <3> QED
      BY <1>11, <3>1, <3>2
  <2> QED
    BY <1>1, <2>2, <2>3 DEF JobOk, FillOk, PutOk, DropOk, SweepOk
<1>14. job[t] \in Jobs /\ job' = [job EXCEPT ![t] = job[t]] /\ made <= made'
  BY <1>1, JobIs, SameJob, StoredFromType DEF IInv
<1> QED
  BY <1>1, <1>2, <1>10, <1>12, <1>13, <1>14, Alone DEF Exclusive

LEMMA DropTailKeeps == ASSUME IInv, NEW t \in Tabs, DropTail(t) PROVE IInv'
<1> DEFINE keys == Window(head.gen, Start(t), ExtentCount(head.size))
           next == job[t].next + Batch
           j == [job[t] EXCEPT !.next = next]
<1>1. /\ job[t].at \in {"recover", "resize"} /\ head.op = "shrink"
      /\ UNCHANGED <<head, young, made>> /\ Erase(keys)
      /\ job' = [job EXCEPT ![t].next = @ + Batch]
  BY DEF DropTail, Resizing
<1>2. /\ head # None /\ head \in Heads /\ head.gen \in 1 .. made /\ head.gen \in Nat
      /\ head.size \in Nat /\ head.target \in Nat
      /\ ExtentCount(head.size) \in Nat /\ ExtentCount(head.target) \in Nat
      /\ made \in Nat /\ Stored /\ job[t] \in Jobs /\ job[t].next \in Nat
  BY <1>1, Journal
<1>3. ShrinkOk
  BY <1>1, <1>2 DEF IInv, HeadOk
<1>4. job' = [job EXCEPT ![t] = j]
  BY <1>1
<1>5. next \in Nat
  BY <1>2, BatchIsPositive
<1>6. Start(t) \in Nat /\ Start(t) = ExtentCount(head.target) + job[t].next
  BY <1>2 DEF Start
<1> HIDE DEF next
<1>7. j \in Jobs /\ j.at = job[t].at /\ j.next = next
  BY <1>2, <1>5 DEF Jobs
<1> HIDE DEF j
<1>8. job'[t] = j
  BY <1>4, <1>7, JobsStayTyped DEF IInv
<1>9. \A h, x \in Nat : Have(h, x)' = IF <<h, x>> \in keys THEN 0 ELSE Have(h, x)
  BY <1>1, EraseHave
<1>10. ASSUME NEW x \in Nat
       PROVE  Have(head.gen, x)' =
                IF Start(t) <= x /\ x < Start(t) + Batch /\ x < ExtentCount(head.size)
                THEN 0 ELSE Have(head.gen, x)
  <2>1. <<head.gen, x>> \in keys <=> /\ Start(t) <= x /\ x < Start(t) + Batch
                                     /\ x < ExtentCount(head.size)
    BY <1>2, <1>6, WindowHas
  <2>2. Have(head.gen, x)' = IF <<head.gen, x>> \in keys THEN 0 ELSE Have(head.gen, x)
    BY <1>1, <1>2, <1>9 DEF Have
  <2> QED
    BY <2>1, <2>2
<1> HIDE DEF keys
<1>11. StoreTyped'
  BY <1>1, EraseTyped DEF IInv, StoreTyped
<1>12. ASSUME NEW x \in Nat
       PROVE  /\ Have(head.gen, x)' >= Filled(head.target, x)
              /\ x + 1 < ExtentCount(head.target) => Have(head.gen, x)' = Filled(head.target, x)
              /\ x >= ExtentCount(head.size) => Have(head.gen, x)' = 0
  <2>1. /\ Have(head.gen, x) >= Filled(head.target, x)
        /\ x + 1 < ExtentCount(head.target) => Have(head.gen, x) = Filled(head.target, x)
        /\ x >= ExtentCount(head.size) => Have(head.gen, x) = 0
    BY <1>3 DEF ShrinkOk
  <2>2. x >= ExtentCount(head.target) => Filled(head.target, x) = 0
    BY <1>2 DEF Filled
  <2> QED
    BY <1>2, <1>6, <1>10, <2>1, <2>2
<1>13. HeadOk'
  BY <1>1, <1>3, <1>12 DEF HeadOk, ShrinkOk
<1>14. JobOk(job[t])'
  <2>1. AtRightTime(job[t]) /\ TailGone(job[t])
    BY DEF IInv, JobOk
  <2>2. AtRightTime(job[t])'
    <3>1. Mutating'
      BY <1>1, <1>2 DEF Mutating
    <3>2. j.at = "recover" => j.req \in Requests
      BY <1>7, <1>8, <2>1 DEF AtRightTime, j
    <3> QED
      BY <1>1, <1>7, <1>8, <3>1, <3>2 DEF AtRightTime
  <2>3. TailGone(job[t])'
    <3> SUFFICES ASSUME NEW e \in Nat, e >= ExtentCount(head.target),
                        e < ExtentCount(head.target) + next
                 PROVE  Have(head.gen, e)' = 0
      BY <1>1, <1>7, <1>8 DEF TailGone
    <3>1. e < ExtentCount(head.target) + job[t].next => Have(head.gen, e) = 0
      BY <1>1, <1>2, <2>1 DEF TailGone
    <3>2. e >= ExtentCount(head.size) => Have(head.gen, e)' = 0
      BY <1>12
    <3> QED
      BY <1>2, <1>6, <1>10, <3>1, <3>2, BatchIsPositive DEF next
  <2> QED
    BY <1>1, <1>7, <1>8, <2>2, <2>3 DEF JobOk, FillOk, PutOk, DropOk, SweepOk
<1>15. made <= made'
  BY <1>1, <1>2
<1> QED
  BY <1>1, <1>2, <1>4, <1>7, <1>11, <1>13, <1>14, <1>15, Alone DEF Exclusive

\* A journal that has nothing left to apply leaves a complete generation of the new size.
LEMMA AppliedHolds ==
  ASSUME IInv, NEW t \in Tabs, Resizing(t), Applied(t)
  PROVE  Holds(head.gen, head.target)
<1>1. job[t].at \in {"recover", "resize"}
  BY DEF Resizing
<1>2. /\ head # None /\ head.gen \in Nat /\ head.size \in Nat /\ head.target \in Nat
      /\ ExtentCount(head.size) \in Nat /\ ExtentCount(head.target) \in Nat
      /\ job[t].next \in Nat /\ Stored /\ head.op \in {"grow", "shrink"}
  BY <1>1, Journal
<1> SUFFICES ASSUME NEW e \in Nat PROVE Have(head.gen, e) = Filled(head.target, e)
  BY DEF Holds
<1>3. Have(head.gen, e) \in Nat /\ Filled(head.target, e) \in Nat
  <2>1. Have(head.gen, e) \in Nat
    BY <1>2, HaveNat
  <2>2. Filled(head.target, e) \in 0 .. ExtentSize
    BY <1>2, FilledNat
  <2> QED
    BY <2>1, <2>2, SizeIsPositive
<1>4. CASE head.op = "grow"
  <2>1. Have(head.gen, e) <= Filled(head.target, e)
    BY <1>2, <1>4 DEF IInv, HeadOk, GrowOk
  <2>2. CASE e < ExtentCount(head.target)
    <3>1. ~(Have(head.gen, e) < ExtentLength(head.target, e))
      BY <1>2, <1>4, <2>2 DEF Applied, Short
    <3>2. Filled(head.target, e) = ExtentLength(head.target, e)
      BY <2>2 DEF Filled
    <3> QED
      BY <1>3, <2>1, <3>1, <3>2
  <2>3. CASE ~(e < ExtentCount(head.target))
    BY <1>3, <2>1, <2>3 DEF Filled
  <2> QED
    BY <2>2, <2>3
<1>5. CASE head.op = "shrink"
  <2>1. /\ Have(head.gen, e) >= Filled(head.target, e)
        /\ e + 1 < ExtentCount(head.target) => Have(head.gen, e) = Filled(head.target, e)
        /\ e >= ExtentCount(head.size) => Have(head.gen, e) = 0
    BY <1>2, <1>5 DEF IInv, HeadOk, ShrinkOk
  <2>2. ~BoundaryLong /\ Start(t) >= ExtentCount(head.size)
    BY <1>5 DEF Applied
  <2>3. CASE e >= ExtentCount(head.target)
    <3>1. Filled(head.target, e) = 0
      BY <1>2, <2>3 DEF Filled
    <3>2. e < ExtentCount(head.target) + job[t].next => Have(head.gen, e) = 0
      BY <1>1, <1>2, <1>5, <2>3 DEF IInv, JobOk, TailGone
    <3> QED
      BY <1>2, <2>1, <2>2, <3>1, <3>2 DEF Start
  <2>4. CASE e + 1 = ExtentCount(head.target)
    <3>1. e = Boundary
      BY <1>2, <2>4 DEF Boundary
    <3>2. head.target > 0
      <4>1. e < ExtentCount(head.target)
        BY <1>2, <2>4
      <4>2. e * ExtentSize < head.target
        BY <1>2, <4>1, CountLess
      <4>3. e * ExtentSize \in Nat
        BY Another
      <4> QED
        BY <1>2, <4>2, <4>3
    <3>3. ~(Have(head.gen, e) > ExtentLength(head.target, e))
      BY <2>2, <3>1, <3>2 DEF BoundaryLong
    <3>4. Filled(head.target, e) = ExtentLength(head.target, e)
      BY <1>2, <2>4 DEF Filled
    <3> QED
      BY <1>3, <2>1, <3>3, <3>4
  <2> QED
    BY <1>2, <2>1, <2>3, <2>4
<1> QED
  BY <1>2, <1>4, <1>5

LEMMA CompleteIs ==
  ASSUME NEW g \in Stamps, NEW n \in Sizes, NEW sum \in BOOLEAN
  PROVE  /\ Complete(g, n, sum) \in Heads
         /\ Complete(g, n, sum) # None
         /\ Complete(g, n, sum).gen = g
         /\ Complete(g, n, sum).size = n
         /\ Complete(g, n, sum).op = "none"
<1>1. /\ Complete(g, n, sum) \in Heads
      /\ Complete(g, n, sum).gen = g
      /\ Complete(g, n, sum).size = n
      /\ Complete(g, n, sum).op = "none"
  BY DEF Complete, Heads
<1> QED
  BY <1>1, NoneAssumption

\* What the body of a call finds.
LEMMA Body ==
  ASSUME IInv, NEW t \in Tabs, job[t].at = "body"
  PROVE  /\ ~Mutating /\ job[t].req \in Requests /\ job[t].next = 0
         /\ job[t] \in Jobs /\ job[t].at \in Exclusive /\ made \in Nat /\ Stored
         /\ head # None => /\ head \in Heads /\ head.gen \in 1 .. made /\ head.gen \in Nat
                           /\ head.size \in Nat /\ head.op = "none"
                           /\ Holds(head.gen, head.size)
<1>1. ~Mutating /\ job[t].req \in Requests /\ job[t].next = 0
  BY DEF IInv, JobOk, AtRightTime
<1>2. job[t] \in Jobs /\ job[t].at \in Exclusive
  BY JobIs DEF IInv, Exclusive
<1>3. ASSUME head # None
      PROVE  /\ head \in Heads /\ head.gen \in 1 .. made /\ head.gen \in Nat
             /\ head.size \in Nat /\ head.op = "none"
             /\ Holds(head.gen, head.size)
  BY <1>1, <1>3, HeadIs DEF IInv, HeadOk, Mutating
<1>4. made \in Nat /\ Stored
  BY StoredFromType DEF IInv
<1> QED
  BY <1>1, <1>2, <1>3, <1>4

LEMMA CompleteResizeKeeps == ASSUME IInv, NEW t \in Tabs, CompleteResize(t) PROVE IInv'
<1>1. /\ job[t].at \in {"recover", "resize"} /\ Resizing(t) /\ Applied(t)
      /\ head' = Complete(head.gen, head.target, FALSE)
      /\ UNCHANGED <<extents, young, made>>
  BY DEF CompleteResize, Resizing
<1>2. /\ head # None /\ head \in Heads /\ head.gen \in 1 .. made /\ head.gen \in Nat
      /\ made \in Nat /\ Stored /\ job[t] \in Jobs /\ job[t].at \in Exclusive
  BY <1>1, Journal
<1>3. /\ head' \in Heads /\ head' # None /\ head'.gen = head.gen
      /\ head'.size = head.target /\ head'.op = "none"
  <2>1. head.gen \in Stamps /\ head.target \in Sizes
    BY <1>2 DEF Heads
  <2> QED
    BY ZenonT(30), <1>1, <2>1, CompleteIs
<1>4. StoreTyped'
  BY <1>1, <1>2, <1>3 DEF IInv, StoreTyped
<1>5. Holds(head.gen, head.target)
  BY <1>1, AppliedHolds
<1>6. HeadOk'
  <2>1. ASSUME NEW e \in Nat PROVE Have(head.gen, e)' = Filled(head.target, e)
    BY <1>1, <1>3, <1>5 DEF Holds, Have
  <2> QED
    BY <1>3, <2>1 DEF HeadOk, Holds
<1> DEFINE j == IF job[t].at = "recover" THEN [job[t] EXCEPT !.at = "body", !.next = 0] ELSE Idle
<1>7. job' = [job EXCEPT ![t] = j]
  <2>1. CASE job[t].at = "recover"
    BY <2>1 DEF CompleteResize
  <2>2. CASE job[t].at # "recover"
    BY <2>2 DEF CompleteResize, Ends, Becomes
  <2> QED
    BY <2>1, <2>2
<1>8. /\ j \in Jobs
      /\ \/ j.at = "idle"
         \/ j.at = "body" /\ j.req \in Requests /\ j.next = 0
  <2>1. CASE job[t].at = "recover"
    <3>1. job[t].req \in Requests
      BY <2>1 DEF IInv, JobOk, AtRightTime
    <3> QED
      BY <1>2, <2>1, <3>1 DEF Jobs, Steps, Exclusive
  <2>2. CASE job[t].at # "recover"
    BY <2>2, IdleIs
  <2> QED
    BY <2>1, <2>2
<1> HIDE DEF j
<1>9. job'[t] = j
  BY <1>7, <1>8, JobsStayTyped DEF IInv
<1>10. JobOk(job[t])'
  BY <1>3, <1>8, <1>9
     DEF JobOk, AtRightTime, TailGone, FillOk, PutOk, DropOk, SweepOk, Mutating
<1>11. made <= made' /\ j.at # "fill"
  BY <1>1, <1>2, <1>8
<1> QED
  BY <1>2, <1>3, <1>4, <1>6, <1>7, <1>8, <1>10, <1>11, Alone

LEMMA ResizeKeeps == ASSUME IInv, NEW t \in Tabs, Resize(t) PROVE IInv'
<1>1. /\ job[t].at = "body" /\ job[t].req.kind \in {"grow", "shrink"} /\ head # None
      /\ UNCHANGED <<extents, young, made>>
  BY DEF Resize
<1>2. /\ ~Mutating /\ job[t].req \in Requests /\ job[t].next = 0
      /\ job[t] \in Jobs /\ job[t].at \in Exclusive /\ made \in Nat /\ Stored
      /\ head \in Heads /\ head.gen \in 1 .. made /\ head.gen \in Nat
      /\ head.size \in Nat /\ head.op = "none" /\ Holds(head.gen, head.size)
  BY <1>1, Body
<1> DEFINE op == job[t].req.kind
           size == job[t].req.size
           refused == IF op = "grow" THEN size <= head.size ELSE size >= head.size
<1>3. CASE refused
  <2>1. Ends(t) /\ UNCHANGED head
    BY <1>3 DEF Resize
  <2> QED
    BY <1>1, <2>1, EndKeeps
<1>4. CASE ~refused
  <2> DEFINE j == [job[t] EXCEPT !.at = "resize"]
  <2>1. /\ head' = [head EXCEPT !.op = op, !.target = size, !.sum = FALSE]
        /\ job' = [job EXCEPT ![t] = j]
    BY <1>4 DEF Resize, Goes
  <2>2. size \in Sizes /\ op \in {"grow", "shrink"}
    BY <1>1, <1>2, RequestIs
  <2>3. size \in Nat
    BY <2>2, SizesAre
  <2>4. op = "grow" => head.size < size
    BY <1>2, <1>4, <2>3
  <2>5. op = "shrink" => size < head.size
    BY <1>2, <1>4, <2>3
  <2> HIDE DEF op, size, refused
  <2>6. /\ head' \in Heads /\ head' # None /\ head'.gen = head.gen /\ head'.size = head.size
        /\ head'.op = op /\ head'.target = size
    <3>1. /\ head' \in Heads /\ head'.gen = head.gen /\ head'.size = head.size
          /\ head'.op = op /\ head'.target = size
      BY <1>2, <2>1, <2>2 DEF Heads
    <3> QED
      BY <3>1, NoneAssumption
  <2>7. j \in Jobs /\ j.at = "resize" /\ j.next = 0
    BY <1>2 DEF Jobs, Steps, Exclusive
  <2> HIDE DEF j
  <2>8. job'[t] = j
    BY <2>1, <2>7, JobsStayTyped DEF IInv
  <2>9. StoreTyped'
    BY <1>1, <1>2, <2>6 DEF IInv, StoreTyped
  <2>10. ASSUME NEW e \in Nat PROVE Have(head.gen, e)' = Filled(head.size, e)
    BY <1>1, <1>2, <2>6, <2>10 DEF Holds, Have
  <2>10a. job' = [job EXCEPT ![t] = j] /\ made <= made' /\ j.at # "fill" /\ head # None
    BY <1>1, <1>2, <2>1, <2>7
  <2>11. CASE op = "grow"
    <3>1. \A e \in Nat : Filled(head.size, e) <= Filled(size, e)
      BY <1>2, <2>3, <2>4, <2>11, FilledMonotone
    <3>2. GrowOk'
      BY <1>2, <2>3, <2>4, <2>6, <2>10, <2>11, <3>1 DEF GrowOk
    <3>3. HeadOk'
      BY <2>6, <2>11, <3>2 DEF HeadOk
    <3>4. JobOk(job[t])'
      BY <2>6, <2>7, <2>8, <2>11
         DEF JobOk, AtRightTime, TailGone, FillOk, PutOk, DropOk, SweepOk, Mutating
    <3> QED
      BY <1>2, <2>6, <2>7, <2>9, <2>10a, <3>3, <3>4, Alone
  <2>12. CASE op = "shrink"
    <3>1. ASSUME NEW e \in Nat
          PROVE  /\ Filled(head.size, e) >= Filled(size, e)
                 /\ e + 1 < ExtentCount(size) => Filled(head.size, e) = Filled(size, e)
                 /\ e >= ExtentCount(head.size) => Filled(head.size, e) = 0
      <4>1. Filled(size, e) <= Filled(head.size, e)
        BY <1>2, <2>3, <2>5, <2>12, FilledMonotone
      <4>2. Filled(size, e) \in 0 .. ExtentSize /\ Filled(head.size, e) \in 0 .. ExtentSize
        BY <1>2, <2>3, FilledNat
      <4>3. ExtentCount(size) <= ExtentCount(head.size)
        BY <1>2, <2>3, <2>5, <2>12, CountMonotone
      <4>4. ExtentCount(size) \in Nat /\ ExtentCount(head.size) \in Nat
        BY <1>2, <2>3, CountNat
      <4>5. e + 1 < ExtentCount(size) => Filled(head.size, e) = Filled(size, e)
        BY <1>2, <2>3, <4>3, <4>4, FilledInner
      <4>6. e >= ExtentCount(head.size) => Filled(head.size, e) = 0
        BY <4>4 DEF Filled
      <4> QED
        BY <4>1, <4>2, <4>5, <4>6, SizeIsPositive
    <3>2. ShrinkOk'
      BY <1>2, <2>3, <2>5, <2>6, <2>10, <2>12, <3>1 DEF ShrinkOk
    <3>3. HeadOk'
      BY <2>6, <2>12, <3>2 DEF HeadOk
    <3>4. TailGone(job[t])'
      BY <2>3, <2>6, <2>7, <2>8, CountNat DEF TailGone
    <3>5. JobOk(job[t])'
      BY <2>6, <2>7, <2>8, <2>12, <3>4
         DEF JobOk, AtRightTime, FillOk, PutOk, DropOk, SweepOk, Mutating
    <3> QED
      BY <1>2, <2>6, <2>7, <2>9, <2>10a, <3>3, <3>5, Alone
  <2> QED
    BY <2>2, <2>11, <2>12
<1> QED
  BY <1>3, <1>4

\* A generation nobody has made yet has no extents.
LEMMA Fresh ==
  ASSUME IInv, NEW e \in Nat
  PROVE  Have(made + 1, e) = 0 /\ Filled(0, e) = 0
<1>1. <<made + 1, e>> \notin DOMAIN extents
  BY StoredFromType DEF IInv, StoreTyped
<1>2. Filled(0, e) = 0
  <2>1. e * ExtentSize \in Nat
    BY Another
  <2>2. ~(e < ExtentCount(0))
    BY <2>1, CountLess
  <2> QED
    BY <2>2 DEF Filled
<1> QED
  BY <1>1, <1>2 DEF Have

\* The next generation or stamp.
LEMMA Making ==
  ASSUME StoreTyped, made < MaxMade, made' = made + 1
  PROVE  /\ made \in Nat /\ made' \in 0 .. MaxMade
         /\ made + 1 \in Stamps /\ made + 1 \in 0 .. MaxMade /\ made + 1 \in 1 .. made'
         /\ 1 .. made \subseteq 1 .. made' /\ young \cup {made + 1} \subseteq 1 .. made'
         /\ \A k \in DOMAIN extents : k \in (1 .. made') \X Nat /\ extents[k] \in Seq(Nat)
<1>1. made \in Nat /\ MaxMade \in Nat
  BY StoredFromType, StoreAssumption
<1>2. /\ made' \in 0 .. MaxMade
      /\ made + 1 \in Stamps /\ made + 1 \in 0 .. MaxMade /\ made + 1 \in 1 .. made'
      /\ 1 .. made \subseteq 1 .. made'
  BY <1>1 DEF Stamps
<1>3. young \cup {made + 1} \subseteq 1 .. made'
  BY <1>2 DEF StoreTyped
<1>4. \A k \in DOMAIN extents : k \in (1 .. made') \X Nat /\ extents[k] \in Seq(Nat)
  BY <1>2 DEF StoreTyped
<1> QED
  BY <1>1, <1>2, <1>3, <1>4

LEMMA ResizeNothingKeeps == ASSUME IInv, NEW t \in Tabs, ResizeNothing(t) PROVE IInv'
<1>1. job[t].at = "body" /\ head = None /\ UNCHANGED extents
  BY DEF ResizeNothing
<1>2. CASE job[t].req.kind # "grow"
  BY <1>1, <1>2, EndKeeps DEF ResizeNothing
<1>3. CASE job[t].req.kind = "grow"
  <2>1. /\ made < MaxMade /\ made' = made + 1 /\ young' = young \cup {made + 1}
        /\ head' = Complete(made + 1, 0, FALSE) /\ job' = job
    BY <1>3 DEF ResizeNothing
  <2>2. /\ job[t].req \in Requests /\ job[t].next = 0
        /\ job[t] \in Jobs /\ job[t].at \in Exclusive /\ made \in Nat /\ Stored
    BY <1>1, Body
  <2>3. made + 1 \in Stamps /\ 0 \in Sizes
    BY <2>1, Making, StoreAssumption DEF IInv, Sizes
  <2>4. head' \in Heads /\ head' # None /\ head'.gen = made + 1 /\ head'.size = 0
        /\ head'.op = "none"
    BY <2>1, <2>3, CompleteIs
  <2>5. StoreTyped'
    BY <1>1, <2>1, <2>4, Making, Zenon DEF IInv, StoreTyped
  <2>6. HeadOk'
    <3>1. ASSUME NEW e \in Nat PROVE Have(head.gen, e)' = Filled(0, e)
      BY <1>1, <2>4, Fresh DEF Have
    <3> QED
      BY <2>4, <3>1 DEF HeadOk, Holds
  <2>7. JobOk(job[t])'
    BY <1>1, <2>1, <2>2, <2>4
       DEF JobOk, AtRightTime, TailGone, FillOk, PutOk, DropOk, SweepOk, Mutating
  <2>8. job' = [job EXCEPT ![t] = job[t]]
    BY <2>1, SameJob DEF IInv
  <2>9. head'.gen > made /\ made <= made' /\ job[t].at # "fill"
    <3>1. made' = made + 1 /\ job[t].at = "body" /\ made \in Nat /\ head'.gen = made + 1
      BY <1>1, <2>1, <2>2, <2>4
    <3> QED
      BY <3>1
  <2> QED
    BY <2>2, <2>5, <2>6, <2>7, <2>8, <2>9, Alone
<1> QED
  BY <1>2, <1>3

LEMMA BeginReplaceKeeps == ASSUME IInv, NEW t \in Tabs, BeginReplace(t) PROVE IInv'
<1> DEFINE j == [job[t] EXCEPT !.at = "fill", !.gen = made + 1, !.pinned = head]
<1>1. /\ job[t].at = "body" /\ job[t].req.kind = "replace"
      /\ made < MaxMade /\ made' = made + 1 /\ young' = young \cup {made + 1}
      /\ UNCHANGED <<head, extents>>
  BY DEF BeginReplace
<1>2. job' = [job EXCEPT ![t] = j]
  BY DEF BeginReplace
<1>3. /\ ~Mutating /\ job[t].req \in Requests /\ job[t].next = 0
      /\ job[t] \in Jobs /\ job[t].at \in Exclusive /\ made \in Nat
      /\ (head # None => head.gen \in 1 .. made)
  BY <1>1, Body
<1>4. job[t].req.size \in Sizes /\ job[t].req.sum \in BOOLEAN /\ job[t].req.size \in Nat
  BY <1>1, <1>3, RequestIs, SizesAre
<1>5. /\ j \in Jobs /\ j.at = "fill" /\ j.gen = made + 1 /\ j.pinned = head /\ j.next = 0
      /\ j.req = job[t].req
  <2>1. made + 1 \in 0 .. MaxMade /\ head \in Heads \cup {None}
    BY <1>1, Making DEF IInv, StoreTyped
  <2> QED
    BY <1>3, <2>1 DEF Jobs, Steps, Exclusive
<1> HIDE DEF j
<1>6. job'[t] = j
  BY <1>2, <1>5, JobsStayTyped DEF IInv
<1>7. StoreTyped'
  <2>1. /\ made' \in 0 .. MaxMade /\ young' \subseteq 1 .. made'
        /\ (head # None => head.gen \in 1 .. made')
        /\ \A k \in DOMAIN extents : k \in (1 .. made') \X Nat /\ extents[k] \in Seq(Nat)
    BY <1>1, <1>3, Making DEF IInv
  <2> QED
    BY <1>1, <2>1 DEF IInv, StoreTyped
<1>8. HeadOk'
  BY <1>1 DEF IInv, HeadOk, Holds, GrowOk, ShrinkOk, Have
<1>9. JobOk(job[t])'
  <2>1. ~Mutating'
    BY <1>1, <1>3 DEF Mutating
  <2>2. ASSUME NEW e \in Nat PROVE Have(job[t].gen, e)' = Filled(0, e)
    <3>1. Have(made + 1, e) = 0 /\ Filled(0, e) = 0
      BY Fresh
    <3>2. job'[t].gen = made + 1
      BY <1>5, <1>6
    <3> QED
      BY <1>1, <3>1, <3>2 DEF Have
  <2>3. FillOk(job[t])'
    <3>1. head # None => head.gen # made + 1
      BY <1>3
    <3>2. /\ job'[t].at = "fill" /\ job'[t].gen = made + 1 /\ job'[t].next = 0
          /\ job'[t].req = job[t].req /\ job'[t].pinned = head
      BY <1>5, <1>6
    <3>3. made + 1 \in young' /\ 0 <= job[t].req.size
      BY <1>1, <1>4
    <3>4. head' = head
      BY <1>1
    <3> QED
      BY <1>4, <2>2, <3>1, <3>2, <3>3, <3>4 DEF FillOk, Holds
  <2> QED
    BY <1>5, <1>6, <2>1, <2>3 DEF JobOk, AtRightTime, TailGone, PutOk, DropOk, SweepOk
<1>10. made <= made' /\ j.gen > made /\ (head' # None => head # None /\ head'.gen = head.gen)
  BY <1>1, <1>3, <1>5
<1> QED
  BY <1>2, <1>3, <1>5, <1>7, <1>8, <1>9, <1>10, Alone

\* What a generation in the making gives the steps that fill and publish it.
LEMMA Filling ==
  ASSUME IInv, NEW t \in Tabs, job[t].at = "fill"
  PROVE  /\ job[t] \in Jobs /\ job[t].at \in Exclusive /\ ~Mutating
         /\ job[t].req.size \in Sizes /\ job[t].req.size \in Nat /\ job[t].req.sum \in BOOLEAN
         /\ job[t].pinned = head /\ (head # None => head.gen # job[t].gen)
         /\ job[t].gen \in young /\ job[t].gen \in 1 .. made /\ job[t].gen \in Nat
         /\ job[t].gen \in Stamps
         /\ job[t].next \in Nat /\ job[t].next <= job[t].req.size
         /\ Holds(job[t].gen, job[t].next)
         /\ made \in Nat /\ Stored
<1>1. FillOk(job[t]) /\ AtRightTime(job[t]) /\ job[t] \in Jobs
  BY JobIs DEF IInv, JobOk
<1>2. made \in Nat /\ made <= MaxMade /\ MaxMade \in Nat /\ Stored
  BY StoredFromType, StoreAssumption DEF IInv, StoreTyped
<1>3. job[t].gen \in 1 .. made
  BY <1>1 DEF FillOk, IInv, StoreTyped
<1>4. job[t].gen \in Nat /\ job[t].gen \in Stamps
  BY <1>2, <1>3 DEF Stamps
<1>5. job[t].next \in Nat
  BY <1>1 DEF Jobs
<1> QED
  BY <1>1, <1>2, <1>3, <1>4, <1>5, SizesAre DEF FillOk, AtRightTime, Exclusive

LEMMA FillKeeps == ASSUME IInv, NEW t \in Tabs, Fill(t) PROVE IInv'
<1> DEFINE g == job[t].gen
           n == job[t].next
           e == n \div ExtentSize
           units == [i \in 1 .. (n % ExtentSize) + 1 |-> g]
           next == n + 1
           j == [job[t] EXCEPT !.next = next]
<1>1. /\ job[t].at = "fill" /\ n < job[t].req.size
      /\ PutPhysicalExtent(g, e, units)
      /\ UNCHANGED <<head, young, made>>
  BY DEF Fill
<1>2. job' = [job EXCEPT ![t] = j]
  BY DEF Fill
<1>3. /\ job[t] \in Jobs /\ job[t].at \in Exclusive /\ ~Mutating
      /\ job[t].req.size \in Sizes /\ job[t].req.size \in Nat /\ job[t].req.sum \in BOOLEAN
      /\ job[t].pinned = head /\ (head # None => head.gen # g)
      /\ g \in young /\ g \in 1 .. made /\ g \in Nat
      /\ n \in Nat /\ Holds(g, n) /\ made \in Nat /\ Stored
  BY <1>1, Filling
<1>4. e \in Nat /\ n % ExtentSize \in Nat
  BY <1>3, Div, SizeIsPositive
<1>5. next \in Nat /\ next <= job[t].req.size
  BY <1>1, <1>3
<1>6. units \in Seq(Nat) /\ Len(units) = (n % ExtentSize) + 1
  BY <1>3, <1>4
<1> HIDE DEF units
<1>7. \A h, x \in Nat : Have(h, x)' = IF h = g /\ x = e THEN Len(units) ELSE Have(h, x)
  BY SMTT(30), <1>1, <1>3, <1>4, <1>6, PutHave
<1>8. StoreTyped'
  BY <1>1, <1>3, <1>4, <1>6, PutTyped DEF IInv, StoreTyped
<1>9. \A x \in Nat : Filled(next, x) = IF x = e THEN (n % ExtentSize) + 1 ELSE Filled(n, x)
  BY <1>3, FilledNext
<1> HIDE DEF next
<1>10. /\ j \in Jobs /\ j.at = "fill" /\ j.gen = g /\ j.next = next /\ j.req = job[t].req
       /\ j.pinned = job[t].pinned
  BY <1>1, <1>3, <1>5 DEF Jobs
<1> HIDE DEF j
<1>11. job'[t] = j
  BY <1>2, <1>10, JobsStayTyped DEF IInv
<1>12. HeadOk'
  <2>1. CASE head = None
    BY <1>1, <2>1 DEF HeadOk
  <2>2. CASE head # None
    <3>1. head.gen \in Nat /\ head.op = "none" /\ Holds(head.gen, head.size)
      BY <1>3, <2>2, HeadIs DEF IInv, HeadOk, Mutating
    <3>2. ASSUME NEW x \in Nat PROVE Have(head.gen, x)' = Have(head.gen, x)
      <4>1. Have(head.gen, x)' = Have(head.gen, x)
        BY <1>1, <1>3, <1>7, <2>2, <3>1 DEF Have
      <4> QED
        BY <4>1
    <3> QED
      BY <1>1, <3>1, <3>2 DEF HeadOk, Holds
  <2> QED
    BY <2>1, <2>2
<1>13. JobOk(job[t])'
  <2>1. ~Mutating'
    BY <1>1, <1>3 DEF Mutating
  <2>2. ASSUME NEW x \in Nat PROVE Have(job[t].gen, x)' = Filled(next, x)
    <3>1. Have(g, x) = Filled(n, x)
      BY <1>3 DEF Holds
    <3>2. job'[t].gen = g
      BY <1>10, <1>11
    <3>3. Have(job[t].gen, x)' = IF x = e THEN Len(units) ELSE Have(g, x)
      BY <1>3, <1>4, <1>7, <3>2 DEF Have
    <3> QED
      BY <1>6, <1>9, <3>1, <3>3
  <2>3. FillOk(job[t])'
    BY <1>1, <1>3, <1>5, <1>10, <1>11, <2>2 DEF FillOk, Holds
  <2> QED
    BY <1>10, <1>11, <2>1, <2>3 DEF JobOk, AtRightTime, TailGone, PutOk, DropOk, SweepOk
<1>14. made <= made' /\ (head' # None => head # None /\ head'.gen = head.gen)
  BY <1>1, <1>3
<1> QED
  BY <1>1, <1>2, <1>3, <1>8, <1>10, <1>12, <1>13, <1>14, Alone

LEMMA PublishKeeps == ASSUME IInv, NEW t \in Tabs, Publish(t) PROVE IInv'
<1> DEFINE g == job[t].gen
           old == job[t].pinned
           j == IF old = None THEN Idle ELSE Dropping(old.gen, ExtentCount(old.size))
<1>1. /\ job[t].at = "fill" /\ job[t].next = job[t].req.size
      /\ UNCHANGED <<extents, young, made>>
  BY DEF Publish
<1>2. job' = [job EXCEPT ![t] = j]
  BY DEF Publish, Becomes
<1>3. /\ job[t] \in Jobs /\ job[t].at \in Exclusive
      /\ job[t].req.size \in Sizes /\ job[t].req.sum \in BOOLEAN
      /\ old = head /\ (head # None => head.gen # g)
      /\ g \in 1 .. made /\ g \in Stamps
      /\ Holds(g, job[t].req.size) /\ made \in Nat
  BY <1>1, Filling
<1>4. /\ head' \in Heads /\ head' # None /\ head'.gen = g
      /\ head'.size = job[t].req.size /\ head'.op = "none"
  BY <1>3, CompleteIs DEF Publish
<1>5. j \in Jobs /\ (j.at = "idle" \/ (j.at = "drop" /\ j.gen # g))
  <2>1. CASE head = None
    BY <1>3, <2>1, IdleIs
  <2>2. CASE head # None
    <3>1. head.gen \in 0 .. MaxMade /\ ExtentCount(head.size) \in Nat
      BY <2>2, HeadIs, CountNat, StoreAssumption DEF IInv, Heads, Stamps
    <3>2. j = Dropping(head.gen, ExtentCount(head.size))
      BY <1>3, <2>2
    <3> HIDE DEF j
    <3> QED
      BY <1>3, <2>2, <3>1, <3>2, DroppingIs
  <2> QED
    BY <2>1, <2>2
<1> HIDE DEF j
<1>6. job'[t] = j
  BY <1>2, <1>5, JobsStayTyped DEF IInv
<1>7. StoreTyped'
  BY <1>1, <1>3, <1>4 DEF IInv, StoreTyped
<1>8. HeadOk'
  <2>1. ASSUME NEW e \in Nat PROVE Have(head.gen, e)' = Filled(job[t].req.size, e)
    BY <1>1, <1>3, <1>4 DEF Holds, Have
  <2> QED
    BY <1>4, <2>1 DEF HeadOk, Holds
<1>9. JobOk(job[t])'
  BY <1>4, <1>5, <1>6 DEF JobOk, AtRightTime, TailGone, FillOk, PutOk, DropOk, SweepOk
<1>10. made <= made' /\ j.at # "fill"
  BY <1>1, <1>3, <1>5
<1> QED
  BY <1>1, <1>2, <1>3, <1>4, <1>5, <1>7, <1>8, <1>9, <1>10, Alone

LEMMA DeleteKeeps == ASSUME IInv, NEW t \in Tabs, Delete(t) PROVE IInv'
<1> DEFINE j == IF head = None THEN Idle ELSE Dropping(head.gen, ExtentCount(head.size))
<1>1. /\ job[t].at = "body" /\ head' = None /\ UNCHANGED <<extents, young, made>>
  BY DEF Delete
<1>2. job' = [job EXCEPT ![t] = j]
  BY DEF Delete, Becomes
<1>3. job[t].at \in Exclusive /\ made \in Nat
  BY <1>1, Body
<1>4. j \in Jobs /\ j.at \in {"idle", "drop"}
  <2>1. CASE head = None
    BY <2>1, IdleIs
  <2>2. CASE head # None
    <3>1. head.gen \in 0 .. MaxMade /\ ExtentCount(head.size) \in Nat
      BY <2>2, HeadIs, CountNat, StoreAssumption DEF IInv, Heads, Stamps
    <3>2. j = Dropping(head.gen, ExtentCount(head.size))
      BY <2>2
    <3> HIDE DEF j
    <3> QED
      BY <3>1, <3>2, DroppingIs
  <2> QED
    BY <2>1, <2>2
<1> HIDE DEF j
<1>5. job'[t] = j
  BY <1>2, <1>4, JobsStayTyped DEF IInv
<1>6. StoreTyped' /\ HeadOk'
  BY <1>1 DEF IInv, StoreTyped, HeadOk
<1>7. JobOk(job[t])'
  BY <1>1, <1>4, <1>5 DEF JobOk, AtRightTime, TailGone, FillOk, PutOk, DropOk, SweepOk
<1>8. made <= made' /\ j.at # "fill" /\ head' = None
  BY <1>1, <1>3, <1>4
<1> QED
  BY <1>2, <1>3, <1>4, <1>6, <1>7, <1>8, Alone

LEMMA BeginWriteKeeps == ASSUME IInv, NEW t \in Tabs, BeginWrite(t) PROVE IInv'
<1>1. /\ job[t].at = "body" /\ job[t].req.kind = "write" /\ UNCHANGED <<extents, young>>
  BY DEF BeginWrite
<1> DEFINE refused == head = None \/ job[t].req.to > head.size
<1>2. CASE refused
  <2>1. Ends(t) /\ UNCHANGED <<head, made>>
    BY <1>2 DEF BeginWrite
  <2> QED
    BY <1>1, <2>1, EndKeeps
<1>3. CASE ~refused
  <2> DEFINE j == [job[t] EXCEPT !.at = "put", !.gen = made + 1, !.next = job[t].req.from]
  <2>1. made < MaxMade /\ made' = made + 1
    BY <1>3 DEF BeginWrite
  <2>2. head' = [head EXCEPT !.sum = FALSE] /\ head # None
    BY <1>3 DEF BeginWrite, Disavowed
  <2>3. job' = [job EXCEPT ![t] = j]
    BY <1>3 DEF BeginWrite
  <2>4. /\ job[t].req \in Requests /\ job[t] \in Jobs /\ job[t].at \in Exclusive
        /\ head \in Heads /\ head.gen \in 1 .. made /\ head.gen \in Nat /\ made \in Nat
        /\ head.size \in Nat /\ head.op = "none" /\ Holds(head.gen, head.size)
    BY <1>1, <2>2, Body
  <2>5. /\ job[t].req.from \in Nat /\ job[t].req.to \in Nat
        /\ job[t].req.from < job[t].req.to /\ job[t].req.to <= head.size
    <3>1. /\ job[t].req.from \in Nat /\ job[t].req.to \in Nat
          /\ job[t].req.from < job[t].req.to
      BY <1>1, <2>4, RequestIs, SizesAre
    <3> QED
      BY <1>3, <2>2, <2>4, <3>1
  <2>6. /\ head' \in Heads /\ head' # None /\ head'.gen = head.gen /\ head'.size = head.size
        /\ head'.op = "none"
    <3>1. /\ head' \in Heads /\ head'.gen = head.gen /\ head'.size = head.size
          /\ head'.op = "none"
      BY <2>2, <2>4 DEF Heads
    <3> QED
      BY <3>1, NoneAssumption
  <2>7. /\ j \in Jobs /\ j.at = "put" /\ j.next = job[t].req.from /\ j.req = job[t].req
    <3>1. made + 1 \in 0 .. MaxMade
      BY <2>1, Making DEF IInv
    <3> QED
      BY <2>4, <2>5, <3>1 DEF Jobs, Steps, Exclusive
  <2> HIDE DEF j
  <2>8. job'[t] = j
    BY <2>3, <2>7, JobsStayTyped DEF IInv
  <2>9. StoreTyped'
    <3>1. /\ made' \in 0 .. MaxMade /\ young \subseteq 1 .. made' /\ head.gen \in 1 .. made'
          /\ \A k \in DOMAIN extents : k \in (1 .. made') \X Nat /\ extents[k] \in Seq(Nat)
      BY <2>1, <2>4, Making DEF IInv, StoreTyped
    <3> QED
      BY <1>1, <2>6, <3>1 DEF StoreTyped
  <2>10. HeadOk'
    <3>1. ASSUME NEW e \in Nat PROVE Have(head.gen, e)' = Filled(head.size, e)
      BY <1>1, <2>4, <2>6 DEF Holds, Have
    <3> QED
      BY <2>6, <3>1 DEF HeadOk, Holds
  <2>11. JobOk(job[t])'
    BY <2>5, <2>6, <2>7, <2>8
       DEF JobOk, AtRightTime, TailGone, FillOk, PutOk, DropOk, SweepOk, Mutating
  <2>12. made <= made' /\ j.at # "fill" /\ head # None
    BY <2>1, <2>2, <2>4, <2>7
  <2> QED
    BY <2>3, <2>4, <2>6, <2>7, <2>9, <2>10, <2>11, <2>12, Alone
<1> QED
  BY <1>2, <1>3

\* Writing in place changes units, never the length of an extent.
LEMMA PutUnitsKeeps == ASSUME IInv, NEW t \in Tabs, PutUnits(t) PROVE IInv'
<1> DEFINE n == job[t].next
           e == n \div ExtentSize
           to == job[t].req.to
           end == Least(to, (e + 1) * ExtentSize)
           old == extents[<<head.gen, e>>]
           units == [i \in DOMAIN old |-> IF e * ExtentSize + i \in n + 1 .. end
                                          THEN job[t].gen ELSE old[i]]
           j == IF end = to THEN Idle ELSE [job[t] EXCEPT !.next = end]
<1>1. /\ job[t].at = "put" /\ PutPhysicalExtent(head.gen, e, units)
      /\ UNCHANGED <<head, young, made>>
  BY DEF PutUnits
<1>2. job' = [job EXCEPT ![t] = j]
  <2>1. IF end = to THEN Ends(t) ELSE job' = [job EXCEPT ![t].next = end]
    BY DEF PutUnits
  <2>2. CASE end = to
    BY <2>1, <2>2 DEF Ends, Becomes
  <2>3. CASE end # to
    BY <2>1, <2>3
  <2> QED
    BY <2>2, <2>3
<1>3. job[t] \in Jobs /\ n \in Nat /\ job[t].gen \in Nat /\ job[t].at \in Exclusive
  BY <1>1, JobIs, StoreAssumption DEF IInv, Jobs, Exclusive
<1>4. ~Mutating /\ head # None /\ to \in Nat /\ n < to /\ to <= head.size
  BY <1>1 DEF IInv, JobOk, AtRightTime, PutOk
<1>5. /\ head.gen \in 1 .. made /\ head.gen \in Nat /\ head.size \in Nat /\ head.op = "none"
      /\ Holds(head.gen, head.size) /\ made \in Nat /\ Stored
  BY <1>4, HeadIs, StoredFromType DEF IInv, HeadOk, Mutating
<1>6. /\ e \in Nat /\ e * ExtentSize \in Nat /\ (e + 1) * ExtentSize \in Nat
      /\ e * ExtentSize <= n
  <2>1. e \in Nat /\ n % ExtentSize \in 0 .. ExtentSize - 1
        /\ n = (e * ExtentSize) + (n % ExtentSize)
    BY <1>3, Div
  <2> HIDE DEF e, n
  <2>2. e * ExtentSize \in Nat /\ (e + 1) * ExtentSize = (e * ExtentSize) + ExtentSize
    BY <2>1, Another
  <2> DEFINE p == e * ExtentSize
  <2>3. p \in Nat
    BY <2>2
  <2> HIDE DEF p
  <2>4. p <= n
    BY <2>1, <2>3, SizeIsPositive DEF p
  <2>5. p + ExtentSize \in Nat
    BY <2>3, SizeIsPositive
  <2> QED
    BY <2>1, <2>2, <2>4, <2>5 DEF p
<1> HIDE DEF e, n, to
<1>7. Have(head.gen, e) = Filled(head.size, e) /\ Have(head.gen, e) > 0
  <2>1. e < ExtentCount(head.size)
    BY <1>3, <1>4, <1>5, <1>6, CountLess
  <2>2. Have(head.gen, e) = Filled(head.size, e)
    BY <1>5, <1>6 DEF Holds
  <2>3. Filled(head.size, e) = Least(ExtentSize, head.size - e * ExtentSize)
    BY <2>1 DEF Filled, ExtentLength
  <2> DEFINE p == e * ExtentSize
  <2>4. p \in Nat /\ p <= n
    BY <1>6
  <2> HIDE DEF p
  <2>5. Least(ExtentSize, head.size - p) > 0
    BY <1>3, <1>4, <1>5, <2>4, SizeIsPositive DEF Least
  <2> QED
    BY <2>2, <2>3, <2>5 DEF p
<1>8. old \in Seq(Nat) /\ Len(old) = Have(head.gen, e)
  BY <1>5, <1>6, <1>7, HaveUnits
<1> HIDE DEF old
<1>9. units \in Seq(Nat) /\ Len(units) = Have(head.gen, e)
  <2>1. \A i \in DOMAIN old : units[i] \in Nat
    BY <1>3, <1>8
  <2>2. DOMAIN old = 1 .. Len(old) /\ Len(old) \in Nat
    BY <1>8
  <2> HIDE DEF end
  <2> QED
    BY <1>8, <2>1, <2>2
<1> HIDE DEF units
<1>10. \A h, x \in Nat : Have(h, x)' = IF h = head.gen /\ x = e THEN Len(units) ELSE Have(h, x)
  BY <1>1, <1>5, <1>6, <1>9, PutHave
<1>11. StoreTyped'
  BY <1>1, <1>5, <1>6, <1>9, PutTyped DEF IInv, StoreTyped
<1>12. HeadOk'
  <2>1. ASSUME NEW x \in Nat PROVE Have(head.gen, x)' = Filled(head.size, x)
    <3>1. Have(head.gen, x)' = IF x = e THEN Len(units) ELSE Have(head.gen, x)
      BY <1>1, <1>5, <1>10 DEF Have
    <3> QED
      BY <1>5, <1>9, <3>1 DEF Holds
  <2> QED
    BY <1>1, <1>5, <2>1 DEF HeadOk, Holds
<1>13. end \in Nat /\ (end # to => end < to)
  BY <1>4, <1>6 DEF Least
<1> HIDE DEF end
<1>14. /\ j \in Jobs
       /\ \/ j.at = "idle"
          \/ j.at = "put" /\ j.req = job[t].req /\ j.next < to
  <2>1. CASE end = to
    BY <2>1, IdleIs
  <2>2. CASE end # to
    BY <1>1, <1>3, <1>13, <2>2 DEF Jobs
  <2> QED
    BY <2>1, <2>2
<1> HIDE DEF j
<1>15. job'[t] = j
  BY <1>2, <1>14, JobsStayTyped DEF IInv
<1>16. JobOk(job[t])'
  <2>1. ~Mutating'
    BY <1>1, <1>4 DEF Mutating
  <2> QED
    BY <1>1, <1>4, <1>14, <1>15, <2>1
       DEF JobOk, AtRightTime, TailGone, FillOk, PutOk, DropOk, SweepOk, to
<1>17. made <= made' /\ j.at # "fill" /\ (head' # None => head # None /\ head'.gen = head.gen)
  BY <1>1, <1>5, <1>14
<1> QED
  BY <1>2, <1>3, <1>11, <1>12, <1>14, <1>16, <1>17, Alone
-----------------------------------------------------------------------------
(* The invariant. *)

LEMMA Initially == Init => IInv
<1> SUFFICES ASSUME Init PROVE IInv
  OBVIOUS
<1>1. StoreTyped
  BY StoreAssumption DEF Init, StoreTyped
<1>2. job \in [Tabs -> Jobs] /\ \A t \in Tabs : job[t].at = "idle"
  BY IdleIs DEF Init
<1>3. HeadOk /\ OneWriter /\ \A t \in Tabs : JobOk(job[t])
  BY <1>2 DEF Init, HeadOk, OneWriter, Exclusive, JobOk, AtRightTime, TailGone, FillOk, PutOk,
              DropOk, SweepOk
<1> QED
  BY <1>1, <1>2, <1>3 DEF IInv, JobsTyped

LEMMA Invariance == ASSUME Admits = {} PROVE IInv /\ [Next]_vars => IInv'
<1> SUFFICES ASSUME IInv, [Next]_vars PROVE IInv'
  OBVIOUS
<1>1. ASSUME NEW t \in Tabs, Step(t) PROVE IInv'
  BY <1>1, BeginKeeps, GrowExtentKeeps, CutBoundaryKeeps, DropTailKeeps, CompleteResizeKeeps,
     ResizeKeeps, ResizeNothingKeeps, BeginReplaceKeeps, FillKeeps, FillFailsKeeps,
     PublishKeeps, DropKeeps, BeginWriteKeeps, PutUnitsKeeps, DeleteKeeps,
     EnsureCompleteKeeps, PinHeadKeeps, ReadExtentKeeps, EndReadKeeps, CollectOrphansKeeps,
     SweepKeeps, CrashKeeps, Zenon
     DEF Step
<1>2. ASSUME NEW gen \in Stamps, Age(gen) PROVE IInv'
  BY <1>2, AgeKeeps
<1>3. ASSUME UNCHANGED vars PROVE IInv'
  BY <1>3 DEF vars, IInv, StoreTyped, JobsTyped, HeadOk, Holds, GrowOk, ShrinkOk, Have, OneWriter,
              JobOk, AtRightTime, TailGone, FillOk, PutOk, DropOk, SweepOk, Mutating
<1> QED
  BY <1>1, <1>2, <1>3 DEF Next

\* Behind a complete head the whole generation is stored: replacements, resizes and their
\* journals, writes, deletions and the orphan collection of any number of tabs, and their
\* crashes, cannot take an extent of it away, as long as ORPHAN_GRACE_MS keeps its promise.
THEOREM GenerationIsComplete == ASSUME Admits = {} PROVE Spec => []GenerationComplete
<1>1. IInv => GenerationComplete
  <2> SUFFICES ASSUME IInv, head # None, ~Mutating,
                      NEW e \in 0 .. ExtentCount(head.size) - 1
               PROVE  Have(head.gen, e) = ExtentLength(head.size, e)
    BY DEF GenerationComplete
  <2>1. Holds(head.gen, head.size) /\ ExtentCount(head.size) \in Nat
    BY HeadIs, CountNat DEF IInv, HeadOk, Mutating
  <2>2. e \in Nat /\ e < ExtentCount(head.size)
    BY <2>1
  <2> QED
    BY <2>1, <2>2 DEF Holds, Filled
<1> QED
  BY <1>1, Initially, Invariance, PTL DEF Spec

-----------------------------------------------------------------------------
(* What the file holds, and what each call does to it. *)

\* Unit n of extent e of a generation, 0 where nothing is stored.
At(g, e, n) == IF n <= Have(g, e) THEN extents[<<g, e>>][n] ELSE 0

\* A complete head has no other size in mind, and under a journal no checksum is left.
HeadSum == head # None => /\ head.op = "none" => head.target = head.size
                          /\ head.op # "none" => ~head.sum

\* A generation in the making holds nothing but its own units.
FillMine(j) ==
  j.at = "fill" => \A e \in Nat : \A n \in 1 .. Have(j.gen, e) : At(j.gen, e, n) = j.gen

\* Writing in place has taken the checksum away before the first unit.
PutMine(j) == j.at = "put" => ~head.sum /\ j.gen \in Stamps

\* The head stays while it is read, and what has been read of it is what it holds.
ReadOk(j) ==
  j.at = "reading" =>
     /\ head # None /\ head = j.pinned
     /\ j.pinned.op = "none" => /\ Len(j.got) <= head.size
                                /\ \A i \in 1 .. Len(j.got) : j.got[i] = Units[i]

\* A call that has not begun to read has read nothing.
Unread(j) == j.at \in {"recover", "body", "waiting"} => j.got = <<>>

ContentOk(j) == FillMine(j) /\ PutMine(j) /\ Unread(j) /\ ReadOk(j)

ContentInv == HeadSum /\ \A t \in Tabs : ContentOk(job[t])
-----------------------------------------------------------------------------
(* Positions in the file. *)

\* The extent and the place in it of position i.
LEMMA Place ==
  ASSUME NEW i \in Nat, i >= 1
  PROVE  /\ (i - 1) \div ExtentSize \in Nat
         /\ ((i - 1) % ExtentSize) + 1 \in 1 .. ExtentSize
         /\ i = (((i - 1) \div ExtentSize) * ExtentSize) + (((i - 1) % ExtentSize) + 1)
<1> DEFINE q == (i - 1) \div ExtentSize
           r == (i - 1) % ExtentSize
<1>1. q \in Nat /\ r \in 0 .. ExtentSize - 1 /\ i - 1 = (q * ExtentSize) + r
  BY Div
<1>2. q * ExtentSize \in Nat
  BY <1>1, Another
<1> DEFINE p == q * ExtentSize
<1> HIDE DEF q, r
<1>3. p \in Nat /\ i - 1 = p + r
  BY <1>1, <1>2
<1> HIDE DEF p
<1>4. i = p + (r + 1) /\ r + 1 \in 1 .. ExtentSize
  BY <1>1, <1>3, SizeIsPositive
<1> QED
  BY <1>1, <1>4 DEF p, q, r

\* A position lies in one extent.
LEMMA OnePlace ==
  ASSUME NEW e \in Nat, NEW x \in Nat, NEW n \in 1 .. ExtentSize,
         e * ExtentSize < (x * ExtentSize) + n, (x * ExtentSize) + n <= (e + 1) * ExtentSize
  PROVE  x = e
<1>1. e < x => (e + 1) * ExtentSize <= x * ExtentSize
  BY Scale
<1>2. x < e => (x + 1) * ExtentSize <= e * ExtentSize
  BY Scale
<1>3. /\ (e + 1) * ExtentSize = (e * ExtentSize) + ExtentSize /\ e * ExtentSize \in Nat
      /\ (x + 1) * ExtentSize = (x * ExtentSize) + ExtentSize /\ x * ExtentSize \in Nat
  BY Another
<1> DEFINE p == e * ExtentSize
           q == x * ExtentSize
<1>4. /\ p \in Nat /\ q \in Nat /\ p < q + n /\ q + n <= p + ExtentSize
      /\ (e < x => p + ExtentSize <= q) /\ (x < e => q + ExtentSize <= p)
  BY <1>1, <1>2, <1>3
<1> HIDE DEF p, q
<1>5. ~(e < x) /\ ~(x < e)
  BY <1>4, SizeIsPositive
<1> QED
  BY <1>5

\* Position x * ExtentSize + n, and no other, is place n of extent x.
LEMMA PlaceOf ==
  ASSUME NEW x \in Nat, NEW n \in 1 .. ExtentSize, NEW i, i = (x * ExtentSize) + n
  PROVE  /\ i \in Nat /\ i >= 1
         /\ (i - 1) \div ExtentSize = x /\ ((i - 1) % ExtentSize) + 1 = n
<1>1. x * ExtentSize \in Nat /\ n \in Nat /\ n >= 1 /\ n <= ExtentSize
  BY Another, SizeIsPositive
<1> DEFINE q == x * ExtentSize
<1>2. i = q + n /\ q \in Nat
  BY <1>1
<1> HIDE DEF q
<1>3. i \in Nat /\ i >= 1
  BY <1>1, <1>2
<1> DEFINE e == (i - 1) \div ExtentSize
           m == ((i - 1) % ExtentSize) + 1
<1>4. e \in Nat /\ m \in 1 .. ExtentSize /\ i = (e * ExtentSize) + m
  BY <1>3, Place
<1> HIDE DEF e, m
<1>5. e * ExtentSize \in Nat /\ (x + 1) * ExtentSize = q + ExtentSize
  BY <1>4, Another DEF q
<1> DEFINE p == e * ExtentSize
<1>6. p \in Nat /\ i = p + m
  BY <1>4, <1>5
<1> HIDE DEF p
<1>7. q < p + m /\ p + m <= q + ExtentSize
  BY <1>1, <1>2, <1>4, <1>6, SizeIsPositive
<1>8. e = x
  BY <1>4, <1>5, <1>7, OnePlace DEF p, q
<1>9. p = q
  BY <1>8 DEF p, q
<1>10. m = n
  BY <1>1, <1>2, <1>4, <1>6, <1>9, SizeIsPositive
<1> QED
  BY <1>3, <1>8, <1>10 DEF e, m

\* The units of the file, without the division.
LEMMA UnitsAre ==
  Units = [i \in 1 .. head.target |->
             At(head.gen, (i - 1) \div ExtentSize, ((i - 1) % ExtentSize) + 1)]
  BY DEF Units, At

\* An extent that is as long as in a file of m units has nothing beyond position m.
LEMMA Beyond ==
  ASSUME NEW m \in Nat, NEW x \in Nat, NEW n \in 1 .. ExtentSize
  PROVE  n <= Filled(m, x) <=> (x * ExtentSize) + n <= m
<1>1. x * ExtentSize \in Nat
  BY Another
<1>2. Filled(m, x) = IF x * ExtentSize < m THEN Least(ExtentSize, m - x * ExtentSize) ELSE 0
  BY FilledIs
<1> DEFINE p == x * ExtentSize
<1>3. p \in Nat /\ Filled(m, x) = IF p < m THEN Least(ExtentSize, m - p) ELSE 0
  BY <1>1, <1>2
<1> HIDE DEF p
<1>4. n <= Filled(m, x) <=> p + n <= m
  BY <1>3, SizeIsPositive DEF Least
<1> QED
  BY <1>4 DEF p

\* Storing an extent stores its units.
LEMMA PutAt ==
  ASSUME Stored, NEW g \in Nat, NEW e \in Nat, NEW units \in Seq(Nat),
         PutPhysicalExtent(g, e, units)
  PROVE  \A h, x \in Nat : \A n \in Nat \ {0} : At(h, x, n)' =
            IF h = g /\ x = e THEN (IF n <= Len(units) THEN units[n] ELSE 0) ELSE At(h, x, n)
<1> SUFFICES ASSUME NEW h \in Nat, NEW x \in Nat, NEW n \in Nat \ {0}
             PROVE At(h, x, n)' =
                IF h = g /\ x = e THEN (IF n <= Len(units) THEN units[n] ELSE 0) ELSE At(h, x, n)
  OBVIOUS
<1>1. DOMAIN extents' = DOMAIN extents \cup {<<g, e>>}
  BY DEF PutPhysicalExtent
<1>2. \A k \in DOMAIN extents' : extents'[k] = IF k = <<g, e>> THEN units ELSE extents[k]
  BY DEF PutPhysicalExtent
<1>3. <<h, x>> = <<g, e>> <=> h = g /\ x = e
  OBVIOUS
<1>4. Have(h, x)' = IF h = g /\ x = e THEN Len(units) ELSE Have(h, x)
  BY PutHave
<1>5. CASE h = g /\ x = e
  BY <1>1, <1>2, <1>4, <1>5 DEF At
<1>6. CASE ~(h = g /\ x = e)
  <2>1. CASE <<h, x>> \in DOMAIN extents
    BY <1>1, <1>2, <1>3, <1>4, <1>6, <2>1 DEF At
  <2>2. CASE <<h, x>> \notin DOMAIN extents
    <3>1. Have(h, x) = 0 /\ Have(h, x)' = 0
      BY <1>4, <1>6, <2>2 DEF Have
    <3>2. ~(n <= 0)
      OBVIOUS
    <3> QED
      BY <1>6, <3>1, <3>2 DEF At
  <2> QED
    BY <2>1, <2>2
<1> QED
  BY <1>5, <1>6

\* What place n of extent x is to the file.
LEMMA UnitIs ==
  ASSUME NEW x \in Nat, NEW n \in 1 .. ExtentSize, head.target \in Nat,
         (x * ExtentSize) + n <= head.target
  PROVE  Units[(x * ExtentSize) + n] = At(head.gen, x, n)
<1> DEFINE i == (x * ExtentSize) + n
<1>1. /\ i \in Nat /\ i >= 1 /\ i <= head.target
      /\ (i - 1) \div ExtentSize = x /\ ((i - 1) % ExtentSize) + 1 = n
  BY PlaceOf
<1> HIDE DEF i
<1>2. i \in 1 .. head.target
  BY <1>1
<1>3. Units[i] = At(head.gen, x, n)
  BY <1>1, <1>2, UnitsAre
<1> QED
  BY <1>3 DEF i

\* What the file holds after a step that leaves its extents so.
Lays(g, m, f) ==
  /\ f = [i \in 1 .. m |-> f[i]]
  /\ \A x \in Nat : \A n \in 1 .. ExtentSize :
        (x * ExtentSize) + n <= m => At(g, x, n)' = f[(x * ExtentSize) + n]

LEMMA UnitsBecome ==
  ASSUME NEW g, head'.gen = g, NEW m \in Nat, head'.target = m, NEW f, Lays(g, m, f)
  PROVE  Units' = f
<1>1. Units' = [i \in 1 .. m |-> At(g, (i - 1) \div ExtentSize, ((i - 1) % ExtentSize) + 1)']
  BY DEF Units, At
<1>2. ASSUME NEW i \in 1 .. m
      PROVE  At(g, (i - 1) \div ExtentSize, ((i - 1) % ExtentSize) + 1)' = f[i]
  <2>1. PICK x \in Nat, n \in 1 .. ExtentSize :
           x = (i - 1) \div ExtentSize /\ n = ((i - 1) % ExtentSize) + 1 /\ i = (x * ExtentSize) + n
    BY Place
  <2>2. (x * ExtentSize) + n <= m
    BY <2>1
  <2>3. At(g, x, n)' = f[(x * ExtentSize) + n]
    BY <2>2 DEF Lays
  <2> QED
    BY <2>1, <2>3
<1> QED
  BY <1>1, <1>2 DEF Lays

LEMMA UnitsFunction == Units = [i \in 1 .. head.target |-> Units[i]]
  BY DEF Units

\* A step that touches no unit of the file leaves what it holds.
LEMMA SameUnits ==
  ASSUME NEW g, head.gen = g, head' = head, head.target \in Nat,
         \A x \in Nat : \A n \in 1 .. ExtentSize :
            (x * ExtentSize) + n <= head.target => At(g, x, n)' = At(g, x, n)
  PROVE  Units' = Units
<1>1. PICK f : f = Units
  OBVIOUS
<1>2. PICK m \in Nat : m = head.target
  OBVIOUS
<1>3. f = [i \in 1 .. m |-> f[i]]
  BY <1>1, <1>2, UnitsFunction
<1>4. ASSUME NEW x \in Nat, NEW n \in 1 .. ExtentSize, (x * ExtentSize) + n <= m
      PROVE  At(g, x, n)' = f[(x * ExtentSize) + n]
  BY <1>1, <1>2, <1>4, UnitIs
<1>5. head'.gen = g /\ head'.target = m
  BY <1>2
<1>6. Units' = f
  <2>1. Lays(g, m, f)
    BY <1>3, <1>4 DEF Lays
  <2> QED
    BY <1>5, <2>1, UnitsBecome
<1> QED
  BY <1>1, <1>6

\* So does one that changes neither the head nor an extent.
LEMMA Untouched == ASSUME UNCHANGED <<head, extents>> PROVE Units' = Units
  BY DEF Units, Have
-----------------------------------------------------------------------------
(* Steps as the file sees them. *)

File == IF head = None THEN None ELSE [units |-> Units, sum |-> head.sum]

\* What a step of a tab is to the file: nothing, or one step of the contract.
Effect == \/ File' = File
          \/ Contract!Publish \/ Contract!Remove \/ Contract!Create \/ Contract!Resize
          \/ Contract!Disavow \/ Contract!Overwrite

\* A file that exists is one.
LEMMA FileIs == ASSUME IInv, ContentInv, head # None
                PROVE File = [units |-> Units, sum |-> head.sum] /\ File # None
<1>1. /\ head \in Heads /\ head.sum \in BOOLEAN /\ Stored /\ head.gen \in Nat
      /\ head.target \in Nat
  BY HeadIs, StoredFromType DEF IInv, Heads
<1>2. PICK g \in Nat, m \in Nat : g = head.gen /\ m = head.target
  BY <1>1
<1>3. Units = [i \in 1 .. m |-> At(g, (i - 1) \div ExtentSize, ((i - 1) % ExtentSize) + 1)]
  BY <1>2, UnitsAre
<1>4. ASSUME NEW i \in 1 .. m
      PROVE  At(g, (i - 1) \div ExtentSize, ((i - 1) % ExtentSize) + 1) \in Nat
  <2>1. PICK x \in Nat, n \in 1 .. ExtentSize :
           x = (i - 1) \div ExtentSize /\ n = ((i - 1) % ExtentSize) + 1
    <3>1. i \in Nat /\ i >= 1
      OBVIOUS
    <3> QED
      BY <3>1, Place
  <2>2. At(g, x, n) \in Nat
    <3>1. CASE n <= Have(g, x)
      <4>0. n \in Nat /\ n >= 1
        BY SizeIsPositive
      <4>1. n \in Nat /\ n >= 1 /\ Have(g, x) \in Nat
        BY <1>1, <4>0, HaveNat
      <4>2. Have(g, x) > 0
        BY <3>1, <4>1
      <4>3. extents[<<g, x>>] \in Seq(Nat) /\ Len(extents[<<g, x>>]) = Have(g, x)
        BY <1>1, <4>2, HaveUnits
      <4> QED
        BY <3>1, <4>1, <4>3 DEF At
    <3>2. CASE ~(n <= Have(g, x))
      BY <3>2 DEF At
    <3> QED
      BY <3>1, <3>2
  <2> QED
    BY <2>1, <2>2
<1>5. Units \in Seq(Nat)
  BY <1>3, <1>4
<1> QED
  BY <1>1, <1>5, ContentAssumption DEF File

LEMMA Others ==
  ASSUME JobsTyped, NEW t \in Tabs, NEW j, job' = [job EXCEPT ![t] = j]
  PROVE  job'[t] = j /\ \A u \in Tabs : u # t => job'[u] = job[u]
  BY DEF JobsTyped

\* A job that is not about units of the file says nothing of them.
LEMMA NoContent ==
  ASSUME NEW t \in Tabs, job'[t].at \notin {"fill", "put", "reading"},
         job'[t].at \in {"recover", "body", "waiting"} => job'[t].got = <<>>
  PROVE  ContentOk(job[t])'
  BY DEF ContentOk, FillMine, PutMine, Unread, ReadOk

\* A step that leaves the head and what it holds.
LEMMA Quiet ==
  ASSUME ContentInv, NEW t \in Tabs, \A u \in Tabs : u # t => job'[u] = job[u],
         head' = head, head # None => Units' = Units,
         \A u \in Tabs : u # t /\ job[u].at = "fill" => FillMine(job[u])',
         ContentOk(job[t])'
  PROVE  ContentInv' /\ File' = File
<1>1. File' = File
  BY DEF File
<1>2. HeadSum'
  BY DEF ContentInv, HeadSum
<1>3. ASSUME NEW u \in Tabs, u # t PROVE ContentOk(job[u])'
  <2>1. job'[u] = job[u] /\ ContentOk(job[u])
    BY <1>3 DEF ContentInv
  <2>2. FillMine(job[u])'
    <3>1. CASE job[u].at = "fill"
      BY <1>3, <3>1
    <3>2. CASE job[u].at # "fill"
      BY <2>1, <3>2 DEF FillMine
    <3> QED
      BY <3>1, <3>2
  <2>3. PutMine(job[u])'
    BY <2>1 DEF ContentOk, PutMine
  <2>4. ReadOk(job[u])'
    <3>1. SUFFICES ASSUME job[u].at = "reading" PROVE ReadOk(job[u])'
      BY <2>1 DEF ReadOk
    <3>2. ReadOk(job[u])
      BY <2>1 DEF ContentOk
    <3>3. Units' = Units
      BY <2>1, <3>1, <3>2 DEF ReadOk
    <3> QED
      BY <2>1, <3>2, <3>3 DEF ReadOk
  <2>5. Unread(job[u])'
    BY <2>1 DEF ContentOk, Unread
  <2> QED
    BY <2>2, <2>3, <2>4, <2>5 DEF ContentOk
<1> QED
  BY <1>1, <1>2, <1>3 DEF ContentInv

\* A step that changes neither the head nor an extent.
LEMMA OwnContent ==
  ASSUME ContentInv, NEW t \in Tabs, \A u \in Tabs : u # t => job'[u] = job[u],
         UNCHANGED <<head, extents>>, ContentOk(job[t])'
  PROVE  ContentInv' /\ Effect
<1>1. ASSUME NEW u \in Tabs, u # t PROVE FillMine(job[u])'
  <2>1. FillMine(job[u])
    BY DEF ContentInv, ContentOk
  <2> QED
    BY <1>1, <2>1 DEF FillMine, At, Have
<1>2. Units' = Units /\ head' = head
  BY Untouched
<1> QED
  BY <1>1, <1>2, Quiet DEF Effect

\* A step of the tab that has the file to itself: no other one holds units in its hands.
LEMMA Writer ==
  ASSUME IInv, NEW t \in Tabs, \A u \in Tabs : u # t => job'[u] = job[u],
         ContentInv, job[t].at \in Exclusive, HeadSum', ContentOk(job[t])'
  PROVE  ContentInv'
<1>1. ASSUME NEW u \in Tabs, u # t PROVE ContentOk(job[u])'
  <2>1. job[u].at \notin Exclusive \cup {"reading"}
    BY <1>1 DEF IInv, OneWriter
  <2>2. job'[u] = job[u]
    BY <1>1
  <2>3. job'[u].at \notin {"fill", "put", "reading"}
    BY <2>1, <2>2 DEF Exclusive
  <2>4. Unread(job[u])
    BY DEF ContentInv, ContentOk
  <2> QED
    BY <2>2, <2>3, <2>4, NoContent DEF Unread
<1> QED
  BY <1>1 DEF ContentInv
-----------------------------------------------------------------------------
(* Calls that do nothing to the file, or not yet. *)

LEMMA BeginContent == ASSUME IInv, ContentInv, NEW t \in Tabs, Begin(t) PROVE ContentInv' /\ Effect
<1>1. PICK r \in Requests :
         job' = [job EXCEPT ![t] = [Idle EXCEPT !.at = IF Mutating THEN "recover" ELSE "body",
                                                !.req = r]]
  BY DEF Begin, Becomes
<1> DEFINE j == [Idle EXCEPT !.at = IF Mutating THEN "recover" ELSE "body", !.req = r]
<1>2. j.at \in {"recover", "body"} /\ j.got = <<>>
  BY DEF Idle
<1> HIDE DEF j
<1>3. job'[t] = j /\ \A u \in Tabs : u # t => job'[u] = job[u]
  BY <1>1, Others DEF IInv, j
<1> QED
  BY <1>2, <1>3, NoContent, OwnContent DEF Begin

\* A call that ends with neither.
LEMMA EndContent ==
  ASSUME IInv, ContentInv, NEW t \in Tabs, Ends(t), UNCHANGED <<head, extents>>
  PROVE  ContentInv' /\ Effect
<1>1. job'[t] = Idle /\ \A u \in Tabs : u # t => job'[u] = job[u]
  BY Others DEF IInv, Ends, Becomes
<1>2. job'[t].at = "idle"
  BY <1>1 DEF Idle
<1> QED
  BY <1>1, <1>2, NoContent, OwnContent

\* Deleting what nothing refers to any more comes later, too.
LEMMA FillFailsContent ==
  ASSUME IInv, ContentInv, NEW t \in Tabs, FillFails(t) PROVE ContentInv' /\ Effect
<1>1. /\ job'[t] = Dropping(job[t].gen, ExtentCount(job[t].req.size))
      /\ \A u \in Tabs : u # t => job'[u] = job[u]
      /\ UNCHANGED <<head, extents>>
  BY Others DEF IInv, FillFails, Becomes
<1>2. job'[t].at \in {"idle", "drop"}
  BY <1>1 DEF Dropping, Idle
<1> QED
  BY <1>1, <1>2, NoContent, OwnContent

LEMMA EnsureCompleteContent ==
  ASSUME IInv, ContentInv, NEW t \in Tabs, EnsureComplete(t) PROVE ContentInv' /\ Effect
<1>1. /\ job' = [job EXCEPT ![t] = [job[t] EXCEPT !.at = "waiting"]]
      /\ UNCHANGED <<head, extents>>
  BY DEF EnsureComplete, Goes
<1>2. /\ job'[t] = [job[t] EXCEPT !.at = "waiting"]
      /\ \A u \in Tabs : u # t => job'[u] = job[u]
  BY <1>1, Others DEF IInv
<1>3. job'[t].at = "waiting" /\ job'[t].got = <<>>
  <2>1. job[t].got = <<>>
    BY DEF EnsureComplete, ContentInv, ContentOk, Unread
  <2> QED
    BY <1>2, <2>1, JobIs DEF IInv, Jobs
<1> QED
  BY <1>1, <1>2, <1>3, NoContent, OwnContent

LEMMA CollectOrphansContent ==
  ASSUME IInv, ContentInv, NEW t \in Tabs, CollectOrphans(t) PROVE ContentInv' /\ Effect
<1>1. PICK keys : job' = [job EXCEPT ![t] = [Idle EXCEPT !.at = "collect", !.keys = keys]]
  BY DEF CollectOrphans, Becomes
<1> DEFINE j == [Idle EXCEPT !.at = "collect", !.keys = keys]
<1>2. j.at = "collect"
  BY DEF Idle
<1> HIDE DEF j
<1>3. job'[t] = j /\ \A u \in Tabs : u # t => job'[u] = job[u]
  BY <1>1, Others DEF IInv, j
<1> QED
  BY <1>2, <1>3, NoContent, OwnContent DEF CollectOrphans

\* A new generation has no units yet.
LEMMA BeginReplaceContent ==
  ASSUME IInv, ContentInv, NEW t \in Tabs, BeginReplace(t) PROVE ContentInv' /\ Effect
<1> DEFINE j == [job[t] EXCEPT !.at = "fill", !.gen = made + 1, !.pinned = head]
<1>1. job' = [job EXCEPT ![t] = j] /\ UNCHANGED <<head, extents>>
  BY DEF BeginReplace
<1>2. job'[t] = j /\ \A u \in Tabs : u # t => job'[u] = job[u]
  BY <1>1, Others DEF IInv
<1>3. job'[t].at = "fill" /\ job'[t].gen = made + 1
  BY <1>2, JobIs DEF IInv, Jobs
<1>4. \A e \in Nat : Have(made + 1, e) = 0
  BY Fresh
<1>5. PICK g : g = made + 1
  OBVIOUS
<1>6. \A e \in Nat : Have(g, e)' = 0
  BY <1>1, <1>4, <1>5 DEF Have
<1>7. job'[t].gen = g
  BY <1>3, <1>5
<1>8. FillMine(job[t])'
  <2>1. \A e \in Nat : Have(job[t].gen, e)' = 0
    BY <1>6, <1>7 DEF Have
  <2> QED
    BY <2>1 DEF FillMine
<1>9. ContentOk(job[t])'
  BY <1>3, <1>8 DEF ContentOk, PutMine, Unread, ReadOk
<1> QED
  BY <1>1, <1>2, <1>9, OwnContent
-----------------------------------------------------------------------------
(* Reading. *)

\* A reader starts with nothing of the head it pins.
LEMMA PinHeadContent ==
  ASSUME IInv, ContentInv, NEW t \in Tabs, PinHead(t) PROVE ContentInv' /\ Effect
<1>1. CASE head = None
  BY <1>1, EndContent DEF PinHead
<1>2. CASE head # None
  <2> DEFINE j == [job[t] EXCEPT !.at = "reading", !.pinned = head]
  <2>1. job' = [job EXCEPT ![t] = j] /\ UNCHANGED <<head, extents>>
    BY <1>2 DEF PinHead
  <2>2. j.at = "reading" /\ j.pinned = head /\ j.got = <<>>
    <3>1. job[t].got = <<>>
      BY DEF PinHead, ContentInv, ContentOk, Unread
    <3> QED
      BY <3>1, JobIs DEF IInv, Jobs
  <2> HIDE DEF j
  <2>3. job'[t] = j /\ \A u \in Tabs : u # t => job'[u] = job[u]
    BY <2>1, Others DEF IInv
  <2>4. head.target = head.size \/ head.op # "none"
    BY <1>2 DEF ContentInv, HeadSum
  <2>5. head.size \in Nat /\ Len(<<>>) = 0
    BY <1>2, HeadIs DEF IInv
  <2>6. \A i \in 1 .. 0 : FALSE
    OBVIOUS
  <2>7. ReadOk(job[t])'
    BY <1>2, <2>1, <2>2, <2>3, <2>5, <2>6 DEF ReadOk
  <2>8. ContentOk(job[t])'
    BY <2>2, <2>3, <2>7 DEF ContentOk, FillMine, PutMine, Unread
  <2> QED
    BY <2>1, <2>3, <2>8, OwnContent
<1> QED
  BY <1>1, <1>2

\* The rest of a stored extent, from a place in it.
LEMMA ExtentRest ==
  ASSUME NEW p \in Nat, NEW from \in Nat, NEW size \in Nat, p + from < size, from < ExtentSize,
         NEW len, len = IF p < size THEN Least(ExtentSize, size - p) ELSE 0
  PROVE  /\ len \in Nat /\ from < len /\ len <= ExtentSize /\ p + len <= size
         /\ Least(len, from + size - (p + from)) = len
  BY SizeIsPositive DEF Least

LEMMA RestOf ==
  ASSUME NEW s \in Seq(Nat), NEW from \in Nat, from < Len(s)
  PROVE  /\ SubSeq(s, from + 1, Len(s)) \in Seq(Nat)
         /\ Len(SubSeq(s, from + 1, Len(s))) = Len(s) - from
         /\ \A m \in 1 .. Len(s) - from : SubSeq(s, from + 1, Len(s))[m] = s[from + m]
<1>1. \A m \in from + 1 .. Len(s) : s[m] \in Nat
  OBVIOUS
<1> QED
  BY <1>1

\* Where a unit of what has been read comes from.
LEMMA Joined ==
  ASSUME NEW got \in Seq(Nat), NEW rest \in Seq(Nat)
  PROVE  /\ Len(got \o rest) = Len(got) + Len(rest)
         /\ \A i \in 1 .. Len(got) + Len(rest) :
               \/ i \in 1 .. Len(got) /\ (got \o rest)[i] = got[i]
               \/ \E m \in 1 .. Len(rest) : i = Len(got) + m /\ (got \o rest)[i] = rest[m]
<1>1. Len(rest) \in Nat /\ Len(got) \in Nat
  OBVIOUS
<1>2. Len(got \o rest) = Len(got) + Len(rest)
  OBVIOUS
<1>3. ASSUME NEW i \in 1 .. Len(got) + Len(rest)
      PROVE  \/ i \in 1 .. Len(got) /\ (got \o rest)[i] = got[i]
             \/ \E m \in 1 .. Len(rest) : i = Len(got) + m /\ (got \o rest)[i] = rest[m]
  <2>0. i \in Nat /\ i >= 1 /\ i <= Len(got) + Len(rest)
    BY <1>1
  <2>1. CASE i <= Len(got)
    BY <1>1, <2>0, <2>1
  <2>2. CASE ~(i <= Len(got))
    <3>0. i - Len(got) \in Nat
      BY <1>1, <2>0, <2>2
    <3>1. PICK m \in Nat : m = i - Len(got)
      BY <3>0
    <3>2. m \in 1 .. Len(rest) /\ i = Len(got) + m
      BY <1>1, <2>0, <2>2, <3>1
    <3>3. (got \o rest)[Len(got) + m] = rest[m]
      BY <3>2
    <3> QED
      BY <3>2, <3>3
  <2> QED
    BY <2>1, <2>2
<1> QED
  BY <1>2, <1>3

\* A sequence that is the one up to position p, and the units of an extent from there.
Joins(all, got, s, p) ==
  /\ Len(all) = p + Len(s)
  /\ \A i \in 1 .. p + Len(s) : \/ i \in 1 .. Len(got) /\ all[i] = got[i]
                              \/ \E m \in 1 .. Len(s) : i = p + m /\ all[i] = s[m]

\* Adding the rest of an extent to what has been read of the file up to it.
LEMMA Appended ==
  ASSUME NEW got \in Seq(Nat), NEW s \in Seq(Nat), NEW p \in Nat, NEW from \in Nat,
         Len(got) = p + from, from < Len(s)
  PROVE  Joins(got \o SubSeq(s, from + 1, Len(s)), got, s, p)
<1>1. PICK n \in Nat : n = Len(got)
  OBVIOUS
<1>1a. PICK k \in Nat : k = Len(s)
  OBVIOUS
<1>2. PICK part \in Seq(Nat) :
         /\ part = SubSeq(s, from + 1, Len(s)) /\ Len(part) = k - from
         /\ \A m \in 1 .. k - from : part[m] = s[from + m]
  BY <1>1a, RestOf
<1>3. PICK all : all = got \o part
  OBVIOUS
<1>4. /\ Len(all) = n + (k - from)
      /\ \A i \in 1 .. n + (k - from) :
            \/ i \in 1 .. n /\ all[i] = got[i]
            \/ \E m \in 1 .. k - from : i = n + m /\ all[i] = part[m]
  <2>1. /\ Len(all) = Len(got) + Len(part)
        /\ \A i \in 1 .. Len(got) + Len(part) :
              \/ i \in 1 .. Len(got) /\ all[i] = got[i]
              \/ \E m \in 1 .. Len(part) : i = Len(got) + m /\ all[i] = part[m]
    BY <1>3, Joined, Zenon
  <2>2. Len(part) = k - from
    BY <1>2
  <2> QED
    BY <1>1, <2>1, <2>2, Zenon
<1>5. n = p + from /\ from < k
  BY <1>1, <1>1a
<1>6. n + (k - from) = p + k
  BY <1>5
<1>7. ASSUME NEW i \in 1 .. p + k
      PROVE  \/ i \in 1 .. n /\ all[i] = got[i]
             \/ \E m \in 1 .. k : i = p + m /\ all[i] = s[m]
  <2>1. CASE i \in 1 .. n /\ all[i] = got[i]
    BY <2>1
  <2>2. ASSUME NEW m \in 1 .. k - from, i = n + m, all[i] = part[m]
        PROVE  \E x \in 1 .. k : i = p + x /\ all[i] = s[x]
    <3>1. from + m \in 1 .. k
      BY <1>5
    <3>2. i = p + (from + m)
      BY <1>5, <2>2
    <3>3. all[i] = s[from + m]
      BY <1>2, <2>2
    <3> QED
      BY <3>1, <3>2, <3>3, Zenon
  <2> QED
    BY <1>4, <1>6, <2>1, <2>2
<1> QED
  BY <1>1, <1>1a, <1>2, <1>3, <1>4, <1>6, <1>7 DEF Joins

\* What the next extent adds to what has been read of a complete head.
LEMMA ReadsOn ==
  ASSUME IInv, ContentInv, head # None, head.op = "none",
         NEW got \in Seq(Nat), NEW n \in Nat, NEW e \in Nat, NEW from \in Nat
  PROVE  /\ n = Len(got) /\ n < head.size /\ \A i \in 1 .. n : got[i] = Units[i]
         /\ n = (e * ExtentSize) + from /\ from < ExtentSize
         /\ <<head.gen, e>> \in DOMAIN extents
         => \E part :
               /\ part = SubSeq(extents[<<head.gen, e>>], from + 1,
                                Least(Len(extents[<<head.gen, e>>]), from + head.size - n))
               /\ Len(got \o part) <= head.size
               /\ \A i \in 1 .. Len(got \o part) : (got \o part)[i] = Units[i]
<1>1. SUFFICES ASSUME n = Len(got), n < head.size, \A i \in 1 .. n : got[i] = Units[i],
                      n = (e * ExtentSize) + from, from < ExtentSize,
                      <<head.gen, e>> \in DOMAIN extents
               PROVE  \E part :
                         /\ part = SubSeq(extents[<<head.gen, e>>], from + 1,
                                Least(Len(extents[<<head.gen, e>>]), from + head.size - n))
                         /\ Len(got \o part) <= head.size
                         /\ \A i \in 1 .. Len(got \o part) : (got \o part)[i] = Units[i]
  OBVIOUS
<1>2. PICK g \in Nat : g = head.gen
  BY HeadIs DEF IInv
<1>3. PICK size \in Nat : size = head.size /\ head.target = size
  BY HeadIs DEF IInv, ContentInv, HeadSum
<1>4. PICK s \in Seq(Nat) : s = extents[<<g, e>>]
  BY <1>1, <1>2 DEF IInv, StoreTyped
<1>5. Len(s) = Have(g, e)
  BY <1>1, <1>2, <1>4 DEF Have
<1>6. PICK p \in Nat : p = e * ExtentSize
  BY Another
<1>7. Len(s) = IF p < size THEN Least(ExtentSize, size - p) ELSE 0
  <2>1. Have(g, e) = Filled(size, e)
    BY <1>2, <1>3 DEF IInv, HeadOk, Holds
  <2>2. Filled(size, e) = IF e * ExtentSize < size THEN Least(ExtentSize, size - e * ExtentSize) ELSE 0
    BY FilledIs
  <2> QED
    BY <1>5, <1>6, <2>1, <2>2
<1>8. n = p + from /\ p + from < size /\ from < ExtentSize
  BY <1>1, <1>3, <1>6
<1>9. PICK k \in Nat : k = Len(s)
  OBVIOUS
<1>10. /\ from < k /\ k <= ExtentSize /\ p + k <= size
       /\ Least(k, from + size - (p + from)) = k
  <2>1. k = IF p < size THEN Least(ExtentSize, size - p) ELSE 0
    BY <1>7, <1>9
  <2> QED
    BY <1>8, <2>1, ExtentRest
<1>11. SubSeq(extents[<<head.gen, e>>], from + 1,
              Least(Len(extents[<<head.gen, e>>]), from + head.size - n)) = SubSeq(s, from + 1, k)
  BY <1>2, <1>3, <1>4, <1>8, <1>9, <1>10
<1>12. ASSUME NEW m \in 1 .. k PROVE Units[p + m] = s[m]
  <2>1. m \in 1 .. ExtentSize /\ p + m <= size /\ m <= k
    BY <1>10, SizeIsPositive
  <2>2. Units[p + m] = At(head.gen, e, m)
    BY <1>3, <1>6, <2>1, UnitIs
  <2> QED
    BY <1>2, <1>4, <1>5, <1>9, <2>1, <2>2 DEF At
<1>13. from < Len(s) /\ Len(got) = p + from
  BY <1>1, <1>8, <1>9, <1>10
<1>14. Joins(got \o SubSeq(s, from + 1, Len(s)), got, s, p)
  BY <1>13, Appended
<1>15. /\ Len(got \o SubSeq(s, from + 1, k)) = p + k
       /\ \A i \in 1 .. p + k : (got \o SubSeq(s, from + 1, k))[i] = Units[i]
  BY <1>1, <1>9, <1>12, <1>14, Zenon DEF Joins
<1>16. p + k <= head.size
  BY <1>3, <1>10
<1> QED
  BY <1>11, <1>15, <1>16, Zenon

LEMMA ReadExtentContent ==
  ASSUME IInv, ContentInv, NEW t \in Tabs, ReadExtent(t) PROVE ContentInv' /\ Effect
<1>1. PICK n : n = Len(job[t].got)
  OBVIOUS
<1>2. PICK e, from : e = n \div ExtentSize /\ from = n % ExtentSize
  OBVIOUS
<1> DEFINE key == <<job[t].pinned.gen, e>>
<1>3. job[t].at = "reading" /\ n < job[t].pinned.size /\ UNCHANGED <<head, extents>>
  BY <1>1 DEF ReadExtent
<1>4. CASE key \notin DOMAIN extents
  <2>1. Ends(t)
    BY <1>1, <1>2, <1>4 DEF ReadExtent
  <2> QED
    BY <1>3, <2>1, EndContent
<1>5. CASE key \in DOMAIN extents
  <2>1. PICK part : part = SubSeq(extents[key], from + 1,
                                  Least(Len(extents[key]), from + job[t].pinned.size - n))
    OBVIOUS
  <2>2. job' = [job EXCEPT ![t].got = @ \o part]
    BY <1>1, <1>2, <1>5, <2>1 DEF ReadExtent
  <2>3. job[t] \in Jobs
    BY JobIs DEF IInv
  <2> DEFINE j == [job[t] EXCEPT !.got = job[t].got \o part]
  <2>4. /\ j.at = "reading" /\ j.pinned = job[t].pinned /\ j.got = job[t].got \o part
        /\ job[t].got \in Seq(Nat)
    BY <1>3, <2>3 DEF Jobs
  <2>5. job' = [job EXCEPT ![t] = j]
    BY <2>2
  <2> HIDE DEF j
  <2>6. job'[t] = j /\ \A u \in Tabs : u # t => job'[u] = job[u]
    BY <2>5, Others DEF IInv
  <2>7. ReadOk(job[t])
    BY DEF ContentInv, ContentOk
  <2>8. head # None /\ head = job[t].pinned
    BY <1>3, <2>7 DEF ReadOk
  <2>9. Units' = Units
    BY <1>3, Untouched
  <2>10. CASE head.op # "none"
    <3>1. ReadOk(job[t])'
      BY <1>3, <2>4, <2>6, <2>8, <2>10 DEF ReadOk
    <3>2. ContentOk(job[t])'
      BY <2>4, <2>6, <3>1 DEF ContentOk, FillMine, PutMine, Unread
    <3> QED
      BY <1>3, <2>6, <3>2, OwnContent
  <2>11. CASE head.op = "none"
    <3>1. PICK got \in Seq(Nat) : got = job[t].got
      BY <2>4
    <3>2. n = Len(got) /\ n \in Nat /\ n < head.size /\ \A i \in 1 .. n : got[i] = Units[i]
      BY <1>1, <1>3, <2>7, <2>8, <2>11, <3>1 DEF ReadOk
    <3>3. /\ Len(got \o part) <= head.size
          /\ \A i \in 1 .. Len(got \o part) : (got \o part)[i] = Units[i]
      <4>1. /\ e \in Nat /\ from \in 0 .. ExtentSize - 1 /\ n = (e * ExtentSize) + from
        BY <1>2, <3>2, Div
      <4>2. from \in Nat /\ from < ExtentSize
        BY <4>1, SizeIsPositive
      <4>3. <<head.gen, e>> \in DOMAIN extents
        BY <1>5, <2>8
      <4>4. part = SubSeq(extents[<<head.gen, e>>], from + 1,
                     Least(Len(extents[<<head.gen, e>>]), from + head.size - n))
        BY <2>1, <2>8
      <4>5. \E rest :
               /\ rest = SubSeq(extents[<<head.gen, e>>], from + 1,
                                Least(Len(extents[<<head.gen, e>>]), from + head.size - n))
               /\ Len(got \o rest) <= head.size
               /\ \A i \in 1 .. Len(got \o rest) : (got \o rest)[i] = Units[i]
        BY <2>8, <2>11, <3>2, <4>1, <4>2, <4>3, ReadsOn, Zenon
      <4> QED
        BY <4>4, <4>5
    <3>4. j.got = got \o part
      BY <2>4, <3>1
    <3>5. ReadOk(job[t])'
      BY <1>3, <2>4, <2>6, <2>8, <2>9, <3>3, <3>4 DEF ReadOk
    <3>6. ContentOk(job[t])'
      BY <2>4, <2>6, <3>5 DEF ContentOk, FillMine, PutMine, Unread
    <3> QED
      BY <1>3, <2>6, <3>6, OwnContent
  <2> QED
    BY <2>10, <2>11
<1> QED
  BY <1>4, <1>5
-----------------------------------------------------------------------------
(* Deleting extents nothing refers to. *)

\* Extents of other generations are not what the file holds.
LEMMA ErasedContent ==
  ASSUME IInv, ContentInv, NEW t \in Tabs, \A u \in Tabs : u # t => job'[u] = job[u],
         NEW keys, Erase(keys), head' = head, ContentOk(job[t])',
         \A k \in keys : /\ head # None => head.gen # k[1]
                         /\ \A u \in Tabs : u # t /\ job[u].at = "fill" => job[u].gen # k[1]
  PROVE  ContentInv' /\ Effect
<1>1. ASSUME NEW g, \A k \in keys : g # k[1], NEW x, NEW n \in Nat \ {0}
      PROVE  Have(g, x)' = Have(g, x) /\ At(g, x, n)' = At(g, x, n)
  <2>1. <<g, x>> \notin keys
    BY <1>1
  <2> QED
    BY <2>1 DEF Erase, Have, At
<1>2. ASSUME head # None PROVE Units' = Units
  <2>1. PICK g : g = head.gen
    OBVIOUS
  <2>2. head.target \in Nat
    BY <1>2, HeadIs DEF IInv
  <2>3. \A k \in keys : g # k[1]
    BY <1>2, <2>1
  <2>4. \A x \in Nat : \A n \in 1 .. ExtentSize : At(g, x, n)' = At(g, x, n)
    BY <1>1, <2>3, SizeIsPositive
  <2> QED
    BY <2>1, <2>2, <2>4, SameUnits
<1>3. ASSUME NEW u \in Tabs, u # t, job[u].at = "fill" PROVE FillMine(job[u])'
  <2>1. PICK g : g = job[u].gen
    OBVIOUS
  <2>2. job'[u].gen = g
    BY <1>3, <2>1
  <2>3. \A k \in keys : g # k[1]
    BY <1>3, <2>1
  <2>4. \A x \in Nat : \A n \in 1 .. Have(g, x) : At(g, x, n) = g
    BY <1>3, <2>1 DEF ContentInv, ContentOk, FillMine
  <2>5. ASSUME NEW x \in Nat, NEW n \in 1 .. Have(g, x)' PROVE At(g, x, n)' = g
    <3>1. \A m \in Nat \ {0} : Have(g, x)' = Have(g, x) /\ At(g, x, m)' = At(g, x, m)
      BY <1>1, <2>3
    <3>2. Have(g, x)' = Have(g, x)
      BY <1>1, <2>3
    <3>3. Have(g, x) \in Nat
      <4>1. g \in Nat
        BY <2>1, JobIs, StoreAssumption DEF IInv, Jobs
      <4>2. Stored
        BY StoredFromType DEF IInv
      <4> QED
        BY <4>1, <4>2, HaveNat
    <3>4. PICK k \in Nat : k = Have(g, x) /\ n \in 1 .. k
      BY <3>2, <3>3
    <3> QED
      BY <2>4, <3>1, <3>4
  <2> QED
    BY <2>2, <2>5 DEF FillMine, At, Have
<1> QED
  BY <1>2, <1>3, Quiet DEF Effect

LEMMA SweepContent == ASSUME IInv, ContentInv, NEW t \in Tabs, Sweep(t) PROVE ContentInv' /\ Effect
<1>1. PICK keys \in SUBSET job[t].keys :
        /\ Erase(keys)
        /\ job' = [job EXCEPT ![t] = IF keys = job[t].keys THEN Idle
                                     ELSE [job[t] EXCEPT !.keys = @ \ keys]]
  BY DEF Sweep, Becomes
<1> DEFINE j == IF keys = job[t].keys THEN Idle ELSE [job[t] EXCEPT !.keys = @ \ keys]
<1>2. job[t].at = "collect" /\ head' = head
  BY DEF Sweep
<1>3. j.at \in {"idle", "collect"}
  BY <1>2, JobIs DEF IInv, Jobs, Idle
<1> HIDE DEF j
<1>4. job'[t] = j /\ \A u \in Tabs : u # t => job'[u] = job[u]
  BY <1>1, Others DEF IInv, j
<1>5. ContentOk(job[t])'
  BY <1>3, <1>4, NoContent
<1>6. \A k \in keys : /\ head # None => head.gen # k[1]
                      /\ \A u \in Tabs : u # t /\ job[u].at = "fill" => job[u].gen # k[1]
  BY <1>2 DEF IInv, JobOk, SweepOk
<1> QED
  BY <1>1, <1>2, <1>4, <1>5, <1>6, ErasedContent

LEMMA DropContent == ASSUME IInv, ContentInv, NEW t \in Tabs, Drop(t) PROVE ContentInv' /\ Effect
<1> DEFINE keys == Window(job[t].gen, job[t].next, job[t].count)
           j == IF job[t].next + Batch >= job[t].count THEN Idle
                ELSE [job[t] EXCEPT !.next = @ + Batch]
<1>1. /\ job[t].at = "drop" /\ head' = head /\ Erase(keys)
      /\ job' = [job EXCEPT ![t] = j]
  BY DEF Drop, Becomes
<1>2. j.at \in {"idle", "drop"}
  BY <1>1, JobIs DEF IInv, Jobs, Idle
<1>3. \A k \in keys : k[1] = job[t].gen
  BY DEF Window
<1>4. head # None => head.gen # job[t].gen
  BY <1>1 DEF IInv, JobOk, DropOk
<1>5. \A u \in Tabs : u # t => job[u].at # "fill"
  BY <1>1 DEF IInv, OneWriter, Exclusive
<1> HIDE DEF j, keys
<1>6. job'[t] = j /\ \A u \in Tabs : u # t => job'[u] = job[u]
  BY <1>1, Others DEF IInv
<1>7. ContentOk(job[t])'
  BY <1>2, <1>6, NoContent
<1> QED
  BY <1>1, <1>3, <1>4, <1>5, <1>6, <1>7, ErasedContent

\* Time is nothing to the file.
LEMMA AgeContent == ASSUME ContentInv, NEW gen \in Stamps, Age(gen) PROVE ContentInv' /\ Effect
<1>1. UNCHANGED <<head, extents, job>>
  BY DEF Age
<1>2. Units' = Units
  BY <1>1, Untouched
<1> QED
  BY <1>1, <1>2 DEF Effect, File, ContentInv, HeadSum, ContentOk, FillMine, PutMine, Unread, ReadOk,
                    At, Have
-----------------------------------------------------------------------------
(* Applying a size journal. *)

\* A step that stores an extent of the head, or deletes some, in the part the file has not.
LEMMA JournalStep ==
  ASSUME IInv, ContentInv, NEW t \in Tabs, job[t].at \in {"recover", "resize"},
         \A u \in Tabs : u # t => job'[u] = job[u],
         job'[t].at = job[t].at, job'[t].got = job[t].got, head' = head,
         NEW g, g = head.gen,
         \A x \in Nat : \A n \in 1 .. ExtentSize :
            (x * ExtentSize) + n <= head.target => At(g, x, n)' = At(g, x, n)
  PROVE  ContentInv' /\ Effect
<1>1. head # None /\ head.target \in Nat /\ job[t].at \in Exclusive
  BY Journal
<1>2. Units' = Units
  BY <1>1, SameUnits
<1>3. Unread(job[t])
  BY DEF ContentInv, ContentOk
<1>4. ContentOk(job[t])'
  BY <1>3, NoContent DEF Unread
<1>5. HeadSum'
  BY DEF ContentInv, HeadSum
<1>6. ContentInv'
  BY <1>1, <1>4, <1>5, Writer
<1>7. File' = File
  BY <1>2 DEF File
<1> QED
  BY <1>6, <1>7 DEF Effect

\* Growing fills extents up with zeros, which is what missing units count as.
LEMMA GrowExtentContent ==
  ASSUME IInv, ContentInv, NEW t \in Tabs, GrowExtent(t) PROVE ContentInv' /\ Effect
<1>1. /\ job[t].at \in {"recover", "resize"} /\ head.op = "grow" /\ Short # {}
      /\ head' = head /\ job' = job
  BY DEF GrowExtent, Resizing
<1>2. /\ head # None /\ head.gen \in Nat /\ head.target \in Nat /\ Stored
      /\ ExtentCount(head.target) \in Nat
  BY <1>1, Journal
<1>3. PICK e \in Short :
         PutPhysicalExtent(head.gen, e,
           [i \in 1 .. ExtentLength(head.target, e) |->
              IF i <= Have(head.gen, e) THEN extents[<<head.gen, e>>][i] ELSE 0])
  BY DEF GrowExtent
<1>4. PICK g \in Nat : g = head.gen
  BY <1>2
<1>5. e \in Nat /\ e < ExtentCount(head.target) /\ Have(g, e) < ExtentLength(head.target, e)
  BY <1>2, <1>4 DEF Short
<1>6. ExtentLength(head.target, e) = Filled(head.target, e)
  BY <1>5 DEF Filled
<1>7. PICK k \in Nat : k = Filled(head.target, e)
  <2>1. Filled(head.target, e) \in 0 .. ExtentSize
    BY <1>2, <1>5, FilledNat
  <2> QED
    BY <2>1, SizeIsPositive
<1>8. Have(g, e) \in Nat /\ Have(g, e) < k
  BY <1>2, <1>5, <1>6, <1>7, HaveNat
<1>9. PICK units : units = [i \in 1 .. k |-> IF i <= Have(g, e) THEN extents[<<g, e>>][i] ELSE 0]
  OBVIOUS
<1>10. units \in Seq(Nat) /\ Len(units) = k
  <2>1. ASSUME NEW i \in 1 .. k, i <= Have(g, e) PROVE extents[<<g, e>>][i] \in Nat
    <3>1. Have(g, e) > 0 /\ i \in 1 .. Have(g, e)
      BY <1>8, <2>1
    <3>2. extents[<<g, e>>] \in Seq(Nat) /\ Len(extents[<<g, e>>]) = Have(g, e)
      BY <1>2, <1>5, <3>1, HaveUnits
    <3> QED
      BY <3>1, <3>2
  <2>2. \A i \in 1 .. k : units[i] \in Nat
    BY <1>9, <2>1
  <2> QED
    BY <1>9, <2>2
<1>11. PutPhysicalExtent(g, e, units)
  BY <1>3, <1>4, <1>6, <1>7, <1>9
<1>12. \A n \in Nat \ {0} : (IF n <= k THEN units[n] ELSE 0) = At(g, e, n)
  <2> SUFFICES ASSUME NEW n \in Nat \ {0} PROVE (IF n <= k THEN units[n] ELSE 0) = At(g, e, n)
    OBVIOUS
  <2>1. CASE n <= k
    <3>1. units[n] = IF n <= Have(g, e) THEN extents[<<g, e>>][n] ELSE 0
      BY <1>9, <2>1
    <3> QED
      BY <2>1, <3>1 DEF At
  <2>2. CASE ~(n <= k)
    BY <1>8, <2>2 DEF At
  <2> QED
    BY <2>1, <2>2
<1>13. ASSUME NEW x \in Nat, NEW n \in 1 .. ExtentSize PROVE At(g, x, n)' = At(g, x, n)
  <2>1. n \in Nat \ {0}
    BY SizeIsPositive
  <2>2. At(g, x, n)' = IF x = e THEN (IF n <= Len(units) THEN units[n] ELSE 0) ELSE At(g, x, n)
    BY <1>2, <1>5, <1>10, <1>11, <2>1, PutAt
  <2> QED
    BY <1>10, <1>12, <2>1, <2>2
<1> QED
  BY <1>1, <1>4, <1>13, JournalStep

\* Cutting the last extent off at the new size takes no unit of the file.
LEMMA CutBoundaryContent ==
  ASSUME IInv, ContentInv, NEW t \in Tabs, CutBoundary(t) PROVE ContentInv' /\ Effect
<1>1. /\ job[t].at \in {"recover", "resize"} /\ BoundaryLong /\ head' = head /\ job' = job
  BY DEF CutBoundary, Resizing
<1>2. /\ head # None /\ head.gen \in Nat /\ head.target \in Nat /\ Stored
      /\ ExtentCount(head.target) \in Nat
  BY <1>1, Journal
<1>3. PICK g \in Nat : g = head.gen
  BY <1>2
<1>4. PICK m \in Nat : m = head.target
  BY <1>2
<1>5. m > 0
  BY <1>1, <1>4 DEF BoundaryLong
<1>6. ExtentCount(m) > 0
  <2>1. 0 * ExtentSize = 0
    BY SizeIsPositive
  <2> QED
    BY <1>2, <1>4, <1>5, <2>1, CountLess
<1>7. PICK e \in Nat : e = Boundary
  BY <1>2, <1>4, <1>6 DEF Boundary
<1>8. ExtentLength(m, e) = Filled(m, e)
  BY <1>2, <1>4, <1>7 DEF Boundary, Filled
<1>9. PICK k \in Nat : k = Filled(m, e)
  BY FilledNat, SizeIsPositive
<1>10. Have(g, e) \in Nat /\ k < Have(g, e)
  BY <1>1, <1>2, <1>3, <1>4, <1>7, <1>8, <1>9, HaveNat DEF BoundaryLong
<1>11. PICK s \in Seq(Nat) : s = extents[<<g, e>>] /\ Len(s) = Have(g, e)
  BY <1>2, <1>10, HaveUnits
<1>12. PICK units : units = SubSeq(s, 1, k)
  OBVIOUS
<1>13. units \in Seq(Nat) /\ Len(units) = k /\ \A n \in 1 .. k : units[n] = s[n]
  <2>1. k \in Nat /\ k <= Len(s) /\ Len(s) \in Nat
    BY <1>10, <1>11
  <2>2. \A n \in 1 .. k : s[n] \in Nat
    BY <2>1
  <2>3. units \in Seq(Nat)
    BY <1>12, <2>1, <2>2
  <2>4. Len(units) = k
    BY <1>12, <2>1
  <2>5. ASSUME NEW n \in 1 .. k PROVE units[n] = s[n]
    BY <1>12, <2>1
  <2> QED
    BY <2>3, <2>4, <2>5
<1>14. PutPhysicalExtent(g, e, units)
  BY <1>3, <1>4, <1>7, <1>8, <1>9, <1>11, <1>12 DEF CutBoundary
<1>15. ASSUME NEW x \in Nat, NEW n \in 1 .. ExtentSize, (x * ExtentSize) + n <= m
       PROVE  At(g, x, n)' = At(g, x, n)
  <2>1. n \in Nat \ {0}
    BY SizeIsPositive
  <2>2. At(g, x, n)' = IF x = e THEN (IF n <= Len(units) THEN units[n] ELSE 0) ELSE At(g, x, n)
    BY <1>2, <1>13, <1>14, <2>1, PutAt
  <2>3. CASE x = e
    <3>1. n <= k
      BY <1>9, <1>15, <2>3, Beyond
    <3>2. At(g, e, n) = s[n]
      BY <1>10, <1>11, <2>1, <3>1 DEF At
    <3> QED
      BY <1>13, <2>1, <2>2, <2>3, <3>1, <3>2
  <2> QED
    BY <2>2, <2>3
<1> QED
  BY <1>1, <1>3, <1>4, <1>15, JournalStep

\* What a shrink deletes begins behind the last extent of the new size.
LEMMA DropTailContent ==
  ASSUME IInv, ContentInv, NEW t \in Tabs, DropTail(t) PROVE ContentInv' /\ Effect
<1> DEFINE keys == Window(head.gen, Start(t), ExtentCount(head.size))
           j == [job[t] EXCEPT !.next = @ + Batch]
<1>1. /\ job[t].at \in {"recover", "resize"} /\ head' = head /\ Erase(keys)
      /\ job' = [job EXCEPT ![t] = j]
  BY DEF DropTail, Resizing
<1>2. /\ head # None /\ head.gen \in Nat /\ head.target \in Nat
      /\ ExtentCount(head.target) \in Nat /\ ExtentCount(head.size) \in Nat
      /\ job[t] \in Jobs /\ job[t].next \in Nat
  BY <1>1, Journal
<1>3. j.at = job[t].at /\ j.got = job[t].got
  BY <1>2 DEF Jobs
<1>4. Start(t) \in Nat /\ Start(t) >= ExtentCount(head.target)
  BY <1>2 DEF Start
<1>5. PICK g \in Nat : g = head.gen
  BY <1>2
<1>6. ASSUME NEW x \in Nat, NEW n \in 1 .. ExtentSize, (x * ExtentSize) + n <= head.target
      PROVE  At(g, x, n)' = At(g, x, n)
  <2>1. x < ExtentCount(head.target)
    <3>1. x * ExtentSize \in Nat /\ n \in Nat /\ n > 0
      BY Another, SizeIsPositive
    <3>2. x * ExtentSize < head.target
      BY <1>2, <1>6, <3>1
    <3> QED
      BY <1>2, <3>2, CountLess
  <2>2. <<g, x>> \notin keys
    BY <1>2, <1>4, <1>5, <2>1, WindowHas
  <2> QED
    BY <1>1, <2>2 DEF Erase, At, Have
<1> HIDE DEF j, keys
<1>7. job'[t] = j /\ \A u \in Tabs : u # t => job'[u] = job[u]
  BY <1>1, Others DEF IInv
<1>8. job'[t].at = job[t].at /\ job'[t].got = job[t].got
  BY <1>3, <1>7
<1> QED
  BY <1>1, <1>5, <1>6, <1>7, <1>8, JournalStep

\* Applied, the journal makes the size it meant the size of the file.
LEMMA CompleteResizeContent ==
  ASSUME IInv, ContentInv, NEW t \in Tabs, CompleteResize(t) PROVE ContentInv' /\ Effect
<1>1. /\ job[t].at \in {"recover", "resize"} /\ UNCHANGED extents
      /\ head' = Complete(head.gen, head.target, FALSE)
  BY DEF CompleteResize, Resizing
<1>2. /\ head # None /\ head.gen \in Nat /\ head.target \in Nat /\ head.op \in {"grow", "shrink"}
      /\ head \in Heads /\ job[t] \in Jobs /\ job[t].at \in Exclusive
  BY <1>1, Journal
<1>3. /\ head' # None /\ head'.gen = head.gen /\ head'.target = head.target
      /\ head'.size = head.target /\ head'.sum = FALSE /\ head'.op = "none"
  <2>1. head.gen \in Stamps /\ head.target \in Sizes
    BY <1>2 DEF Heads
  <2>2. head' # None
    BY <1>1, <2>1, CompleteIs
  <2> QED
    BY <1>1, <2>2 DEF Complete
<1>4. Units' = Units
  BY <1>1, <1>3 DEF Units, Have
<1>5. head.sum = FALSE
  BY <1>2 DEF ContentInv, HeadSum, Heads
<1>6. File' = File
  BY <1>2, <1>3, <1>4, <1>5 DEF File
<1>7. HeadSum'
  BY <1>3 DEF HeadSum
<1> DEFINE j == IF job[t].at = "recover" THEN [job[t] EXCEPT !.at = "body", !.next = 0] ELSE Idle
<1>8. job' = [job EXCEPT ![t] = j]
  <2>1. CASE job[t].at = "recover"
    BY <2>1 DEF CompleteResize
  <2>2. CASE job[t].at # "recover"
    BY <2>2 DEF CompleteResize, Ends, Becomes
  <2> QED
    BY <2>1, <2>2
<1>9. j.at \in {"body", "idle"} /\ j.got = <<>>
  <2>1. CASE job[t].at = "recover"
    <3>1. job[t].got = <<>>
      BY <2>1 DEF ContentInv, ContentOk, Unread
    <3> QED
      BY <1>2, <2>1, <3>1 DEF Jobs
  <2>2. CASE job[t].at # "recover"
    BY <2>2 DEF Idle
  <2> QED
    BY <2>1, <2>2
<1> HIDE DEF j
<1>10. job'[t] = j /\ \A u \in Tabs : u # t => job'[u] = job[u]
  BY <1>8, Others DEF IInv
<1>11. ContentOk(job[t])'
  BY <1>9, <1>10, NoContent
<1> QED
  BY <1>2, <1>6, <1>7, <1>10, <1>11, Writer DEF Effect

\* The journal is the resize: what both sizes have stays, the rest counts as zero.
LEMMA ResizeContent ==
  ASSUME IInv, ContentInv, NEW t \in Tabs, Resize(t) PROVE ContentInv' /\ Effect
<1>1. /\ job[t].at = "body" /\ job[t].req.kind \in {"grow", "shrink"} /\ head # None
      /\ UNCHANGED extents
  BY DEF Resize
<1>2. /\ job[t].req \in Requests /\ job[t] \in Jobs /\ job[t].at \in Exclusive
      /\ head \in Heads /\ head.gen \in Nat /\ head.size \in Nat /\ head.op = "none"
      /\ Holds(head.gen, head.size)
  BY <1>1, Body
<1> DEFINE op == job[t].req.kind
           size == job[t].req.size
           refused == IF op = "grow" THEN size <= head.size ELSE size >= head.size
<1>3. CASE refused
  <2>1. Ends(t) /\ UNCHANGED head
    BY <1>3 DEF Resize
  <2> QED
    BY <1>1, <2>1, EndContent
<1>4. CASE ~refused
  <2> DEFINE j == [job[t] EXCEPT !.at = "resize"]
  <2>1. /\ head' = [head EXCEPT !.op = op, !.target = size, !.sum = FALSE]
        /\ job' = [job EXCEPT ![t] = j]
    BY <1>4 DEF Resize, Goes
  <2>2. size \in Sizes /\ op \in {"grow", "shrink"}
    BY <1>1, <1>2, RequestIs
  <2>3. PICK m \in Nat : m = size /\ m \in 0 .. MaxSize
    BY <2>2, SizesAre DEF Sizes
  <2> HIDE DEF op, size, refused
  <2>4. /\ head' # None /\ head'.gen = head.gen /\ head'.target = m
        /\ head'.op = op /\ head'.sum = FALSE
    <3>1. /\ head' \in Heads /\ head'.gen = head.gen /\ head'.target = m
          /\ head'.op = op /\ head'.sum = FALSE
      BY <1>2, <2>1, <2>2, <2>3 DEF Heads
    <3> QED
      BY <3>1, NoneAssumption
  <2>5. PICK g \in Nat : g = head.gen
    BY <1>2
  <2>6. PICK n \in Nat : n = head.size /\ head.target = n
    BY <1>1, <1>2 DEF ContentInv, HeadSum
  <2>7. PICK old : old = Units
    OBVIOUS
  <2>8. DOMAIN old = 1 .. n
    BY <2>6, <2>7, UnitsFunction
  <2>9. PICK f : f = [i \in 1 .. m |-> IF i \in 1 .. n THEN old[i] ELSE 0]
    OBVIOUS
  <2>10. ASSUME NEW x \in Nat, NEW i \in 1 .. ExtentSize, (x * ExtentSize) + i <= m
         PROVE  At(g, x, i)' = f[(x * ExtentSize) + i]
    <3>1. At(g, x, i)' = At(g, x, i)
      BY <1>1 DEF At, Have
    <3>2. PICK p \in Nat : p = (x * ExtentSize) + i /\ p >= 1
      BY PlaceOf
    <3>3. f[p] = IF p <= n THEN old[p] ELSE 0
      BY <2>9, <2>10, <3>2
    <3>4. CASE p <= n
      <4>1. Units[(x * ExtentSize) + i] = At(head.gen, x, i)
        BY <2>6, <3>2, <3>4, UnitIs
      <4> QED
        BY <2>5, <2>7, <3>1, <3>2, <3>3, <3>4, <4>1
    <3>5. CASE ~(p <= n)
      <4>1. ~(i <= Filled(n, x))
        BY <3>2, <3>5, Beyond
      <4>2. Have(g, x) = Filled(n, x)
        BY <1>2, <2>5, <2>6 DEF Holds
      <4>3. At(g, x, i) = 0
        BY <4>1, <4>2 DEF At
      <4> QED
        BY <3>1, <3>2, <3>3, <3>5, <4>3
    <3> QED
      BY <3>4, <3>5
  <2>11. f = [i \in 1 .. m |-> f[i]]
    BY <2>9
  <2>12. Units' = f
    <3>1. head'.gen = g /\ head'.target = m
      BY <2>4, <2>5
    <3>2. Lays(g, m, f)
      BY <2>10, <2>11 DEF Lays
    <3> QED
      BY <3>1, <3>2, UnitsBecome
  <2>13. File = [units |-> old, sum |-> head.sum] /\ File' = [units |-> f, sum |-> FALSE]
    BY <1>1, <2>4, <2>7, <2>12 DEF File
  <2>14. File # None
    BY <1>1, <1>2, FileIs
  <2>15. File' = [units |-> [i \in 1 .. m |-> IF i \in DOMAIN File.units THEN File.units[i] ELSE 0],
                  sum |-> FALSE]
    BY <2>8, <2>9, <2>13
  <2>16. Contract!Resize
    BY <2>3, <2>14, <2>15 DEF Contract!Resize, File
  <2>17. HeadSum'
    BY <2>2, <2>4 DEF HeadSum
  <2>18. j.at = "resize"
    BY <1>2 DEF Jobs
  <2> HIDE DEF j
  <2>19. job'[t] = j /\ \A u \in Tabs : u # t => job'[u] = job[u]
    BY <2>1, Others DEF IInv
  <2>20. ContentOk(job[t])'
    BY <2>18, <2>19, NoContent
  <2> QED
    BY <1>2, <2>16, <2>17, <2>19, <2>20, Writer DEF Effect
<1> QED
  BY <1>3, <1>4

LEMMA ResizeNothingContent ==
  ASSUME IInv, ContentInv, NEW t \in Tabs, ResizeNothing(t) PROVE ContentInv' /\ Effect
<1>1. job[t].at = "body" /\ head = None /\ UNCHANGED extents
  BY DEF ResizeNothing
<1>2. CASE job[t].req.kind # "grow"
  BY <1>1, <1>2, EndContent DEF ResizeNothing
<1>3. CASE job[t].req.kind = "grow"
  <2>1. /\ made < MaxMade /\ made' = made + 1
        /\ head' = Complete(made + 1, 0, FALSE) /\ job' = job
    BY <1>3 DEF ResizeNothing
  <2>2. made + 1 \in Stamps /\ 0 \in Sizes
    BY <2>1, Making, StoreAssumption DEF IInv, Sizes
  <2>3. head' # None
    BY <2>1, <2>2, CompleteIs
  <2>4. head'.op = "none" /\ head'.target = 0 /\ head'.size = 0 /\ head'.sum = FALSE
    BY <2>1 DEF Complete
  <2>5. Units' = <<>>
    BY <2>4 DEF Units
  <2>6. File = None /\ File' = [units |-> <<>>, sum |-> FALSE]
    BY <1>1, <2>3, <2>4, <2>5 DEF File
  <2>7. Contract!Create
    BY <2>6 DEF Contract!Create, File
  <2>8. HeadSum'
    BY <2>4 DEF HeadSum
  <2>9. ContentOk(job[t])'
    <3>1. job[t].got = <<>>
      BY <1>1 DEF ContentInv, ContentOk, Unread
    <3> QED
      BY <1>1, <2>1, <3>1, NoContent
  <2>10. job[t].at \in Exclusive
    BY <1>1 DEF Exclusive
  <2> QED
    BY <2>1, <2>7, <2>8, <2>9, <2>10, Writer DEF Effect
<1> QED
  BY <1>2, <1>3
-----------------------------------------------------------------------------
(* Replacing the file. *)

\* A generation in the making is filled beside the file.
LEMMA FillContent == ASSUME IInv, ContentInv, NEW t \in Tabs, Fill(t) PROVE ContentInv' /\ Effect
<1>1. PICK g \in Nat : g = job[t].gen
  BY Filling DEF Fill
<1>2. PICK n \in Nat : n = job[t].next
  BY Filling DEF Fill
<1>3. PICK e, k : e = n \div ExtentSize /\ k = (n % ExtentSize) + 1
  OBVIOUS
<1>4. PICK units : units = [i \in 1 .. k |-> g]
  OBVIOUS
<1> DEFINE j == [job[t] EXCEPT !.next = @ + 1]
<1>5. /\ job[t].at = "fill" /\ head' = head /\ job' = [job EXCEPT ![t] = j]
      /\ PutPhysicalExtent(g, e, units)
  BY <1>1, <1>2, <1>3, <1>4 DEF Fill
<1>6. /\ job[t] \in Jobs /\ job[t].at \in Exclusive
      /\ (head # None => head.gen # g) /\ Stored
  BY <1>1, <1>5, Filling
<1>7. e \in Nat /\ k \in Nat
  BY <1>2, <1>3, Div, SizeIsPositive
<1>8. units \in Seq(Nat) /\ Len(units) = k /\ \A i \in 1 .. k : units[i] = g
  BY <1>1, <1>4, <1>7
<1>9. \A h, x \in Nat : \A m \in Nat \ {0} : At(h, x, m)' =
         IF h = g /\ x = e THEN (IF m <= Len(units) THEN units[m] ELSE 0) ELSE At(h, x, m)
  BY <1>1, <1>5, <1>6, <1>7, <1>8, PutAt
<1>10. \A h, x \in Nat : Have(h, x)' = IF h = g /\ x = e THEN Len(units) ELSE Have(h, x)
  BY <1>1, <1>5, <1>6, <1>7, <1>8, PutHave
<1>11. head # None => Units' = Units
  <2>1. SUFFICES ASSUME head # None PROVE Units' = Units
    OBVIOUS
  <2>2. head.gen \in Nat /\ head.target \in Nat
    BY <2>1, HeadIs DEF IInv
  <2>3. PICK h \in Nat : h = head.gen /\ h # g
    BY <1>6, <2>1, <2>2
  <2>4. \A x \in Nat : \A m \in 1 .. ExtentSize : At(h, x, m)' = At(h, x, m)
    BY <1>9, <2>3, SizeIsPositive
  <2> QED
    BY <1>5, <2>2, <2>3, <2>4, SameUnits
<1>12. j.at = "fill" /\ j.gen = g
  BY <1>1, <1>5, <1>6 DEF Jobs
<1> HIDE DEF j
<1>13. job'[t] = j /\ \A u \in Tabs : u # t => job'[u] = job[u]
  BY <1>5, Others DEF IInv
<1>14. \A x \in Nat : \A m \in 1 .. Have(g, x) : At(g, x, m) = g
  BY <1>1, <1>5 DEF ContentInv, ContentOk, FillMine
<1>15. ASSUME NEW x \in Nat, NEW m \in 1 .. Have(g, x)' PROVE At(g, x, m)' = g
  <2>1. CASE x = e
    <3>1. Have(g, x)' = k
      BY <1>1, <1>8, <1>10, <2>1
    <3>2. m \in 1 .. k /\ m \in Nat \ {0}
      BY <1>7, <1>15, <3>1
    <3>3. At(g, x, m)' = IF m <= Len(units) THEN units[m] ELSE 0
      BY <1>1, <1>9, <2>1, <3>2
    <3> QED
      BY <1>8, <3>2, <3>3
  <2>2. CASE x # e
    <3>1. Have(g, x)' = Have(g, x) /\ Have(g, x) \in Nat
      BY <1>1, <1>6, <1>10, <2>2, HaveNat
    <3>2. PICK l \in Nat : l = Have(g, x) /\ m \in 1 .. l
      BY <1>15, <3>1
    <3>3. m \in Nat \ {0}
      BY <3>2
    <3>4. At(g, x, m)' = At(g, x, m)
      BY <1>1, <1>9, <2>2, <3>3
    <3> QED
      BY <1>14, <3>2, <3>4
  <2> QED
    BY <2>1, <2>2
<1>16. FillMine(job[t])'
  <2>1. job'[t].gen = g
    BY <1>12, <1>13
  <2> QED
    BY <1>15, <2>1 DEF FillMine, At, Have
<1>17. ContentOk(job[t])'
  BY <1>12, <1>13, <1>16 DEF ContentOk, PutMine, Unread, ReadOk
<1>18. HeadSum'
  BY <1>5 DEF ContentInv, HeadSum
<1>19. ContentInv'
  BY <1>6, <1>13, <1>17, <1>18, Writer
<1>20. File' = File
  BY <1>5, <1>11 DEF File
<1> QED
  BY <1>19, <1>20 DEF Effect

\* The head of the new generation makes it the file, all of it at once.
LEMMA PublishContent ==
  ASSUME IInv, ContentInv, NEW t \in Tabs, Publish(t) PROVE ContentInv' /\ Effect
<1> DEFINE old == job[t].pinned
           j == IF old = None THEN Idle ELSE Dropping(old.gen, ExtentCount(old.size))
<1>1. /\ job[t].at = "fill" /\ job[t].next = job[t].req.size /\ UNCHANGED extents
      /\ head' = Complete(job[t].gen, job[t].req.size, job[t].req.sum)
      /\ job' = [job EXCEPT ![t] = j]
  BY DEF Publish, Becomes
<1>2. /\ job[t].at \in Exclusive
      /\ job[t].req.size \in Sizes /\ job[t].req.size \in Nat /\ job[t].req.sum \in BOOLEAN
      /\ job[t].gen \in Stamps /\ job[t].gen \in Nat
      /\ Holds(job[t].gen, job[t].req.size)
  BY <1>1, Filling
<1>3. PICK g \in Nat : g = job[t].gen
  BY <1>2
<1>4. PICK m \in Nat : m = job[t].req.size
  BY <1>2
<1>5. PICK sum \in BOOLEAN : sum = job[t].req.sum
  BY <1>2
<1>6. /\ head' # None /\ head'.gen = g /\ head'.target = m /\ head'.size = m
      /\ head'.op = "none" /\ head'.sum = sum
  <2>1. head' # None
    BY <1>1, <1>2, CompleteIs
  <2> QED
    BY <1>1, <1>3, <1>4, <1>5, <2>1 DEF Complete
<1>7. j.at \in {"idle", "drop"}
  BY DEF Dropping, Idle
<1> HIDE DEF j
<1>8. PICK f : f = [i \in 1 .. m |-> g]
  OBVIOUS
<1>9. ASSUME NEW x \in Nat, NEW n \in 1 .. ExtentSize, (x * ExtentSize) + n <= m
      PROVE  At(g, x, n)' = f[(x * ExtentSize) + n]
  <2>1. n <= Filled(m, x)
    BY <1>9, Beyond
  <2>2. Have(g, x) = Filled(m, x)
    BY <1>2, <1>3, <1>4 DEF Holds
  <2>3. Filled(m, x) \in Nat
    <3>1. Filled(m, x) \in 0 .. ExtentSize
      BY FilledNat
    <3> QED
      BY <3>1, SizeIsPositive
  <2>4. n \in 1 .. Have(g, x)
    BY <2>1, <2>2, <2>3, SizeIsPositive
  <2>5. At(g, x, n) = g
    BY <1>1, <1>3, <2>4 DEF ContentInv, ContentOk, FillMine
  <2>6. At(g, x, n)' = At(g, x, n)
    BY <1>1 DEF At, Have
  <2>7. PICK p \in Nat : p = (x * ExtentSize) + n /\ p >= 1
    BY PlaceOf
  <2>8. f[p] = g
    BY <1>8, <1>9, <2>7
  <2> QED
    BY <2>5, <2>6, <2>7, <2>8
<1>10. Units' = f
  <2>1. Lays(g, m, f)
    BY <1>8, <1>9 DEF Lays
  <2> QED
    BY <1>6, <2>1, UnitsBecome
<1>11. File' = [units |-> [i \in 1 .. m |-> g], sum |-> sum]
  BY <1>6, <1>8, <1>10 DEF File
<1>12. g \in Stamps /\ m \in 0 .. MaxSize
  BY <1>2, <1>3, <1>4 DEF Sizes
<1>13. Contract!Publish
  BY <1>11, <1>12 DEF Contract!Publish, File
<1>14. job'[t] = j /\ \A u \in Tabs : u # t => job'[u] = job[u]
  BY <1>1, Others DEF IInv
<1>15. ContentOk(job[t])'
  BY <1>7, <1>14, NoContent
<1>16. HeadSum'
  BY <1>6 DEF HeadSum
<1> QED
  BY <1>2, <1>13, <1>14, <1>15, <1>16, Writer DEF Effect

LEMMA DeleteContent ==
  ASSUME IInv, ContentInv, NEW t \in Tabs, Delete(t) PROVE ContentInv' /\ Effect
<1> DEFINE j == IF head = None THEN Idle ELSE Dropping(head.gen, ExtentCount(head.size))
<1>1. job[t].at = "body" /\ head' = None /\ job' = [job EXCEPT ![t] = j]
  BY DEF Delete, Becomes
<1>2. j.at \in {"idle", "drop"}
  BY DEF Dropping, Idle
<1> HIDE DEF j
<1>3. job'[t] = j /\ \A u \in Tabs : u # t => job'[u] = job[u]
  BY <1>1, Others DEF IInv
<1>4. ContentOk(job[t])' /\ HeadSum'
  BY <1>1, <1>2, <1>3, NoContent DEF HeadSum
<1>5. job[t].at \in Exclusive
  BY <1>1 DEF Exclusive
<1>6. ContentInv'
  BY <1>3, <1>4, <1>5, Writer
<1>7. File' = None
  BY <1>1 DEF File
<1>8. CASE head = None
  BY <1>6, <1>7, <1>8 DEF Effect, File
<1>9. CASE head # None
  <2>1. File # None
    BY <1>9, FileIs
  <2>2. Contract!Remove
    BY <1>7, <2>1 DEF Contract!Remove, File
  <2> QED
    BY <1>6, <2>2 DEF Effect
<1> QED
  BY <1>8, <1>9
-----------------------------------------------------------------------------
(* Writing in place. *)

LEMMA NoSum ==
  ASSUME NEW u, NEW b, NEW f, f = [units |-> u, sum |-> b], NEW c, NEW g, g = [units |-> u, sum |-> c]
  PROVE  [f EXCEPT !.sum = c] = g
  OBVIOUS

\* The checksum goes first.
LEMMA BeginWriteContent ==
  ASSUME IInv, ContentInv, NEW t \in Tabs, BeginWrite(t) PROVE ContentInv' /\ Effect
<1>1. job[t].at = "body" /\ UNCHANGED extents
  BY DEF BeginWrite
<1> DEFINE refused == head = None \/ job[t].req.to > head.size
<1>2. CASE refused
  <2>1. Ends(t) /\ UNCHANGED head
    BY <1>2 DEF BeginWrite
  <2> QED
    BY <1>1, <2>1, EndContent
<1>3. CASE ~refused
  <2> DEFINE j == [job[t] EXCEPT !.at = "put", !.gen = made + 1, !.next = job[t].req.from]
  <2>1. made < MaxMade /\ made' = made + 1 /\ head # None
    BY <1>3 DEF BeginWrite
  <2>2. head' = [head EXCEPT !.sum = FALSE] /\ job' = [job EXCEPT ![t] = j]
    BY <1>3 DEF BeginWrite, Disavowed
  <2>3. /\ job[t] \in Jobs /\ job[t].at \in Exclusive /\ head \in Heads /\ made \in Nat
    BY <1>1, <2>1, Body
  <2>4. /\ head' # None /\ head'.gen = head.gen /\ head'.size = head.size
        /\ head'.target = head.target /\ head'.op = head.op /\ head'.sum = FALSE
    <3>1. /\ head' \in Heads /\ head'.gen = head.gen /\ head'.size = head.size
          /\ head'.target = head.target /\ head'.op = head.op /\ head'.sum = FALSE
      BY <2>2, <2>3 DEF Heads
    <3> QED
      BY <3>1, NoneAssumption
  <2>5. j.at = "put" /\ j.gen = made + 1
    BY <2>3 DEF Jobs
  <2> HIDE DEF j
  <2>6. job'[t] = j /\ \A u \in Tabs : u # t => job'[u] = job[u]
    BY <2>2, Others DEF IInv
  <2>7. made + 1 \in Stamps
    BY <2>1, Making DEF IInv
  <2>8. Units' = Units
    BY <1>1, <2>4 DEF Units, Have
  <2>9. File' = [File EXCEPT !.sum = FALSE] /\ File # None
    <3>1. File = [units |-> Units, sum |-> head.sum] /\ File # None
      BY <2>1, FileIs
    <3>2. File' = [units |-> Units, sum |-> FALSE]
      BY <2>4, <2>8 DEF File
    <3> QED
      <4>1. PICK f, u, b, g : f = File /\ u = Units /\ b = head.sum /\ g = File'
        OBVIOUS
      <4>2. f = [units |-> u, sum |-> b] /\ g = [units |-> u, sum |-> FALSE] /\ f # None
        BY <3>1, <3>2, <4>1
      <4>3. [f EXCEPT !.sum = FALSE] = g
        BY <4>2, NoSum
      <4> QED
        BY <4>1, <4>2, <4>3
  <2>10. Contract!Disavow
    BY <2>9 DEF Contract!Disavow, File
  <2>11. HeadSum'
    BY <2>1, <2>4 DEF ContentInv, HeadSum
  <2>12. PutMine(job[t])'
    BY <2>4, <2>5, <2>6, <2>7 DEF PutMine
  <2>13. ContentOk(job[t])'
    BY <2>5, <2>6, <2>12 DEF ContentOk, FillMine, Unread, ReadOk
  <2> QED
    BY <2>3, <2>6, <2>10, <2>11, <2>13, Writer DEF Effect
<1> QED
  BY <1>2, <1>3

\* One extent's worth of a write.
LEMMA PutUnitsContent ==
  ASSUME IInv, ContentInv, NEW t \in Tabs, PutUnits(t) PROVE ContentInv' /\ Effect
<1>1. /\ job[t].at = "put" /\ head' = head /\ job[t] \in Jobs /\ job[t].at \in Exclusive
      /\ ~head.sum /\ job[t].gen \in Stamps /\ job[t].gen \in Nat
  BY JobIs, StoreAssumption DEF PutUnits, IInv, Jobs, Exclusive, ContentInv, ContentOk, PutMine, Stamps
<1>2. head # None /\ ~Mutating /\ job[t].req.to \in Nat /\ job[t].next < job[t].req.to
      /\ job[t].req.to <= head.size
  BY <1>1 DEF IInv, JobOk, AtRightTime, PutOk
<1>3. /\ head.gen \in Nat /\ head.size \in Nat /\ head.target = head.size
      /\ Holds(head.gen, head.size) /\ Stored
  BY <1>2, HeadIs, StoredFromType DEF IInv, HeadOk, Mutating, ContentInv, HeadSum
<1>4. PICK g \in Nat : g = head.gen
  BY <1>3
<1>5. PICK size \in Nat : size = head.size
  BY <1>3
<1>6. PICK n \in Nat : n = job[t].next
  BY <1>1 DEF Jobs
<1>7. PICK to \in Nat : to = job[t].req.to
  BY <1>2
<1>8. PICK s \in Stamps : s = job[t].gen /\ s \in Nat
  BY <1>1
<1>9. n < to /\ to <= size
  BY <1>2, <1>5, <1>6, <1>7
<1>10. PICK e \in Nat : e = n \div ExtentSize
  BY Div
<1>11. PICK p \in Nat, q \in Nat : p = e * ExtentSize /\ q = (e + 1) * ExtentSize
  BY Another
<1>12. q = p + ExtentSize /\ p <= n /\ n < q
  <2>1. n % ExtentSize \in 0 .. ExtentSize - 1 /\ n = (e * ExtentSize) + (n % ExtentSize)
    BY <1>10, Div
  <2>2. PICK r \in Nat : r = n % ExtentSize
    BY <2>1, SizeIsPositive
  <2>3. n = p + r /\ r < ExtentSize
    BY <1>11, <2>1, <2>2, SizeIsPositive
  <2>4. q = p + ExtentSize
    BY <1>11, Another
  <2> QED
    BY <2>3, <2>4, SizeIsPositive
<1>13. PICK end \in Nat : end = Least(to, q)
  BY DEF Least
<1>14. n < end /\ end <= to /\ end <= q /\ end <= size
  BY <1>9, <1>12, <1>13 DEF Least
<1>15. PICK old : old = extents[<<g, e>>]
  OBVIOUS
<1>16. PICK k \in Nat : k = Have(g, e)
  BY <1>3, HaveNat
<1>17. PICK units : units = [i \in DOMAIN old |-> IF p + i \in n + 1 .. end THEN s ELSE old[i]]
  OBVIOUS
<1>18. PutPhysicalExtent(g, e, units)
  BY <1>4, <1>6, <1>7, <1>8, <1>10, <1>11, <1>13, <1>15, <1>17 DEF PutUnits
<1>19. k = Filled(size, e) /\ k > 0
  <2>1. k = Filled(size, e)
    BY <1>3, <1>4, <1>5, <1>16 DEF Holds
  <2>2. 1 <= Filled(size, e)
    <3>1. 1 \in 1 .. ExtentSize /\ (e * ExtentSize) + 1 <= size
      BY <1>9, <1>11, <1>12, SizeIsPositive
    <3> QED
      BY <3>1, Beyond
  <2> QED
    BY <2>1, <2>2
<1>20. old \in Seq(Nat) /\ Len(old) = k /\ DOMAIN old = 1 .. k
  <2>1. extents[<<g, e>>] \in Seq(Nat) /\ Len(extents[<<g, e>>]) = k
    BY <1>3, <1>16, <1>19, HaveUnits
  <2>2. old \in Seq(Nat) /\ Len(old) = k
    BY <1>15, <2>1
  <2> QED
    BY <2>2
<1>21. /\ units \in Seq(Nat) /\ Len(units) = k
       /\ \A i \in 1 .. k : units[i] = IF p + i \in n + 1 .. end THEN s ELSE old[i]
  <2>1. \A i \in 1 .. k : units[i] = IF p + i \in n + 1 .. end THEN s ELSE old[i]
    BY <1>17, <1>20
  <2>2. \A i \in 1 .. k : units[i] \in Nat
    BY <1>8, <1>20, <2>1
  <2>3. units \in Seq(Nat) /\ Len(units) = k
    BY <1>17, <1>20, <2>2
  <2> QED
    BY <2>1, <2>3
<1>22. PICK was : was = Units
  OBVIOUS
<1>23. DOMAIN was = 1 .. size
  BY <1>3, <1>5, <1>22, UnitsFunction
<1>24. PICK f : f = [i \in 1 .. size |-> IF i \in n + 1 .. end THEN s ELSE was[i]]
  OBVIOUS
<1>25. ASSUME NEW x \in Nat, NEW i \in 1 .. ExtentSize, (x * ExtentSize) + i <= size
       PROVE  At(g, x, i)' = f[(x * ExtentSize) + i]
  <2>1. PICK o \in Nat : o = (x * ExtentSize) + i /\ o >= 1
    BY PlaceOf
  <2>2. f[o] = IF o \in n + 1 .. end THEN s ELSE was[o]
    BY <1>24, <1>25, <2>1
  <2>3. was[o] = At(g, x, i)
    <3>1. Units[(x * ExtentSize) + i] = At(head.gen, x, i)
      BY <1>3, <1>5, <1>25, UnitIs
    <3> QED
      BY <1>4, <1>22, <2>1, <3>1
  <2>4. i \in Nat \ {0}
    BY SizeIsPositive
  <2>5. At(g, x, i)' = IF x = e THEN (IF i <= Len(units) THEN units[i] ELSE 0) ELSE At(g, x, i)
    BY <1>3, <1>18, <1>21, <2>4, PutAt
  <2>6. CASE x = e
    <3>1. i <= k
      BY <1>19, <1>25, <2>6, Beyond
    <3>2. At(g, x, i)' = units[i] /\ i \in 1 .. k
      BY <1>21, <2>4, <2>5, <2>6, <3>1
    <3>3. At(g, x, i) = old[i]
      BY <1>15, <1>16, <2>6, <3>1 DEF At
    <3>4. o = p + i
      BY <1>11, <2>1, <2>6
    <3> QED
      BY <1>21, <2>1, <2>2, <2>3, <3>2, <3>3, <3>4
  <2>7. CASE x # e
    <3>1. o \notin n + 1 .. end
      <4>1. SUFFICES ASSUME o \in n + 1 .. end PROVE FALSE
        OBVIOUS
      <4>2. p < o /\ o <= q
        BY <1>12, <1>14, <4>1
      <4>3. e * ExtentSize < (x * ExtentSize) + i /\ (x * ExtentSize) + i <= (e + 1) * ExtentSize
        BY <1>11, <2>1, <4>2
      <4> QED
        BY <2>7, <4>3, OnePlace
    <3> QED
      BY <2>1, <2>2, <2>3, <2>5, <2>7, <3>1
  <2> QED
    BY <2>6, <2>7
<1>26. Units' = f
  <2>1. Lays(g, size, f)
    BY <1>24, <1>25 DEF Lays
  <2>2. head'.gen = g /\ head'.target = size
    BY <1>1, <1>3, <1>4, <1>5
  <2> QED
    BY <2>1, <2>2, UnitsBecome
<1>27. File = [units |-> was, sum |-> head.sum] /\ File # None /\ ~File.sum
  <2>1. File = [units |-> was, sum |-> head.sum] /\ File # None
    BY <1>2, <1>22, FileIs
  <2> QED
    BY <1>1, <2>1
<1>28. File' = [units |-> f, sum |-> head.sum]
  BY <1>1, <1>2, <1>26 DEF File
<1>29. /\ n + 1 \in DOMAIN File.units /\ end \in DOMAIN File.units
       /\ File' = [File EXCEPT !.units =
                     [i \in DOMAIN File.units |-> IF i \in n + 1 .. end THEN s ELSE @[i]]]
  <2>1. File.units = was
    BY <1>27
  <2>2. n + 1 \in 1 .. size /\ end \in 1 .. size
    BY <1>9, <1>14
  <2>3. File' = [File EXCEPT !.units = f]
    BY <1>27, <1>28
  <2>4. f = [i \in DOMAIN File.units |-> IF i \in n + 1 .. end THEN s ELSE File.units[i]]
    BY <1>23, <1>24, <2>1
  <2> QED
    BY <1>23, <2>1, <2>2, <2>3, <2>4
<1>30. Contract!Overwrite
  <2>1. \E a, b \in DOMAIN File.units :
           File' = [File EXCEPT !.units =
                      [i \in DOMAIN File.units |-> IF i \in a .. b THEN s ELSE File.units[i]]]
    BY <1>29
  <2>2. \E x \in Stamps, a, b \in DOMAIN File.units :
           File' = [File EXCEPT !.units =
                      [i \in DOMAIN File.units |-> IF i \in a .. b THEN x ELSE File.units[i]]]
    BY <1>8, <2>1
  <2> QED
    BY <1>27, <2>2, Zenon DEF Contract!Overwrite, File
<1> DEFINE j == IF end = to THEN Idle ELSE [job[t] EXCEPT !.next = end]
<1>31. job' = [job EXCEPT ![t] = j]
  <2>1. IF end = to THEN Ends(t) ELSE job' = [job EXCEPT ![t].next = end]
    BY <1>6, <1>7, <1>10, <1>11, <1>13 DEF PutUnits
  <2>2. CASE end = to
    BY <2>1, <2>2 DEF Ends, Becomes
  <2>3. CASE end # to
    BY <2>1, <2>3
  <2> QED
    BY <2>2, <2>3
<1>32. \/ j.at = "idle"
       \/ j.at = "put" /\ j.gen = job[t].gen
  BY <1>1 DEF Jobs, Idle
<1> HIDE DEF j
<1>33. job'[t] = j /\ \A u \in Tabs : u # t => job'[u] = job[u]
  BY <1>31, Others DEF IInv
<1>34. ContentOk(job[t])'
  BY <1>1, <1>32, <1>33 DEF ContentOk, FillMine, PutMine, Unread, ReadOk
<1>35. HeadSum'
  BY <1>1 DEF ContentInv, HeadSum
<1> QED
  BY <1>1, <1>30, <1>33, <1>34, <1>35, Writer DEF Effect
-----------------------------------------------------------------------------
(* What readers get, and the contract. *)

LEMMA ContentInitially == Init => ContentInv
<1> SUFFICES ASSUME Init PROVE ContentInv
  OBVIOUS
<1>1. \A t \in Tabs : job[t].at = "idle"
  BY DEF Init, Idle
<1> QED
  BY <1>1 DEF Init, ContentInv, HeadSum, ContentOk, FillMine, PutMine, Unread, ReadOk

LEMMA EveryStep == ASSUME IInv, ContentInv, [Next]_vars PROVE ContentInv' /\ Effect
<1>1. ASSUME NEW t \in Tabs, Step(t) PROVE ContentInv' /\ Effect
  <2>1. EndRead(t) \/ Crash(t) => Ends(t) /\ UNCHANGED <<head, extents>>
    BY DEF EndRead, Crash
  <2> QED
    BY <1>1, <2>1, BeginContent, GrowExtentContent, CutBoundaryContent, DropTailContent,
       CompleteResizeContent, ResizeContent, ResizeNothingContent, BeginReplaceContent,
       FillContent, FillFailsContent, PublishContent, DropContent, BeginWriteContent,
       PutUnitsContent, DeleteContent, EnsureCompleteContent, PinHeadContent,
       ReadExtentContent, CollectOrphansContent, SweepContent, EndContent, Zenon
       DEF Step
<1>2. ASSUME NEW gen \in Stamps, Age(gen) PROVE ContentInv' /\ Effect
  BY <1>2, AgeContent
<1>3. ASSUME UNCHANGED vars PROVE ContentInv' /\ Effect
  <2>1. UNCHANGED <<head, extents, job>>
    BY <1>3 DEF vars
  <2>2. Units' = Units
    BY <2>1, Untouched
  <2> QED
    BY <2>1, <2>2 DEF Effect, File, ContentInv, HeadSum, ContentOk, FillMine, PutMine, Unread,
                      ReadOk, At, Have
<1> QED
  BY <1>1, <1>2, <1>3 DEF Next

\* A reader that has pinned a complete head gets what that head holds and nothing else,
\* whatever other tabs ask for, wherever they die, and whatever is collected meanwhile.
THEOREM ReaderGetsWhole == ASSUME Admits = {} PROVE Spec => []ReadsWhole
<1>1. IInv /\ ContentInv => ReadsWhole
  <2> SUFFICES ASSUME IInv, ContentInv, NEW t \in Tabs,
                      job[t].at = "reading", job[t].pinned.op = "none"
               PROVE  head = job[t].pinned /\ job[t].got = SubSeq(Units, 1, Len(job[t].got))
    BY DEF ReadsWhole
  <2>1. PICK got \in Seq(Nat) : got = job[t].got
    BY JobIs DEF IInv, Jobs
  <2>2. PICK n \in Nat : n = Len(got)
    OBVIOUS
  <2>3. /\ head # None /\ head = job[t].pinned /\ n <= head.size
        /\ \A i \in 1 .. n : got[i] = Units[i]
    BY <2>1, <2>2 DEF ContentInv, ContentOk, ReadOk
  <2>4. SubSeq(Units, 1, n) = [i \in 1 .. n |-> Units[i]]
    OBVIOUS
  <2>5. got = [i \in 1 .. n |-> got[i]]
    BY <2>2
  <2> QED
    BY <2>1, <2>2, <2>3, <2>4, <2>5
<1>2. Init => IInv /\ ContentInv
  BY Initially, ContentInitially
<1>3. IInv /\ ContentInv /\ [Next]_vars => (IInv /\ ContentInv)'
  BY Invariance, EveryStep
<1> QED
  BY <1>1, <1>2, <1>3, PTL DEF Spec

\* Every call takes effect on the file in one step, a write in place one extent at a time
\* and only after the checksum is gone: the store implements its contract.
THEOREM StoreImplementsContract == ASSUME Admits = {} PROVE Spec => ImplementsContract
<1>1. Init => Contract!Init
  BY DEF Init, Contract!Init
<1>2. IInv /\ ContentInv /\ [Next]_vars => [Contract!Next]_File
  BY EveryStep DEF Effect, Contract!Next, File
<1>3. Init => IInv /\ ContentInv
  BY Initially, ContentInitially
<1>4. IInv /\ ContentInv /\ [Next]_vars => (IInv /\ ContentInv)'
  BY Invariance, EveryStep
<1> QED
  BY <1>1, <1>2, <1>3, <1>4, PTL DEF Spec, ImplementsContract, Contract!Spec, File
=============================================================================
