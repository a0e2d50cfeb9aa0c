------------------------- MODULE ExecutorPoolProofs -------------------------
(***************************************************************************)
(* The pool for any number of jobs and slots and whatever dies.  A worker  *)
(* runs one job at a time: a slot has one token, which is the job on its   *)
(* way to the worker, the job it runs, or the result on its way back.  A   *)
(* job waits in one place and has not run while it waits: the pool         *)
(* implements JobContract.  What is written becomes known: a slot keeps    *)
(* pending whatever its worker has or has ended.                           *)
(***************************************************************************)
EXTENDS ExecutorPoolProps, FiniteSetTheorems, TLAPS

\* No message of a type is in a channel; at most one is.
Free(s, type) == \A p \in 1 .. Len(s) : s[p].type # type
Once(s, type) == \A p, q \in 1 .. Len(s) : s[p].type = type /\ s[q].type = type => p = q

Work == [alive : BOOLEAN, running : SUBSET (Jobs \cup {NoJob})]

Typed == /\ slot \in [Slots -> SlotStates]
         /\ inbox \in [Slots -> Seq(Messages)]
         /\ outbox \in [Slots -> Seq(Messages)]
         /\ worker \in [Slots -> Work]

\* The token of a slot is in one place, and in none while the slot is idle.
Token(i) ==
  /\ Once(inbox[i], "job") /\ Once(outbox[i], "done")
  /\ \A j, k \in worker[i].running : j = k
  /\ worker[i].running # {} => Free(inbox[i], "job")
  /\ Free(outbox[i], "done") \/ (worker[i].running = {} /\ Free(inbox[i], "job"))
  /\ slot[i].busy \/ /\ worker[i].running = {}
                     /\ Free(inbox[i], "job") /\ Free(outbox[i], "done")

IInv == Typed /\ \A i \in Slots : Token(i)
-----------------------------------------------------------------------------
(* Messages in channels. *)

\* A message of another type leaves a channel as it was.
LEMMA AppendOther ==
  ASSUME NEW s \in Seq(Messages), NEW m \in Messages, NEW type, m.type # type
  PROVE  /\ Append(s, m) \in Seq(Messages)
         /\ Free(Append(s, m), type) <=> Free(s, type)
         /\ Once(s, type) => Once(Append(s, m), type)
<1> DEFINE r == Append(s, m)
<1>1. /\ r \in Seq(Messages) /\ Len(s) \in Nat /\ Len(r) = Len(s) + 1
      /\ r[Len(s) + 1] = m /\ \A p \in 1 .. Len(s) : r[p] = s[p]
  OBVIOUS
<1> HIDE DEF r
<1>2. Free(r, type) <=> Free(s, type)
  BY <1>1 DEF Free
<1>3. Once(s, type) => Once(r, type)
  BY <1>1 DEF Once
<1> QED
  BY <1>1, <1>2, <1>3 DEF r

\* The first message of its type is the only one.
LEMMA AppendFirst ==
  ASSUME NEW s \in Seq(Messages), NEW m \in Messages, NEW type, Free(s, type)
  PROVE  Append(s, m) \in Seq(Messages) /\ Once(Append(s, m), type)
<1> DEFINE r == Append(s, m)
<1>1. /\ r \in Seq(Messages) /\ Len(s) \in Nat /\ Len(r) = Len(s) + 1
      /\ r[Len(s) + 1] = m /\ \A p \in 1 .. Len(s) : r[p] = s[p]
  OBVIOUS
<1> HIDE DEF r
<1>2. Once(r, type)
  BY <1>1 DEF Once, Free
<1> QED
  BY <1>1, <1>2 DEF r

\* Taking a message adds none, and taking the only one of its type leaves none.
LEMMA TailLeaves ==
  ASSUME NEW s \in Seq(Messages), s # <<>>, NEW type
  PROVE  /\ Tail(s) \in Seq(Messages) /\ Head(s) \in Messages
         /\ Free(s, type) => Free(Tail(s), type)
         /\ Once(s, type) => Once(Tail(s), type)
         /\ Head(s).type = type => ~Free(s, type)
         /\ Once(s, type) /\ Head(s).type = type => Free(Tail(s), type)
<1> DEFINE r == Tail(s)
<1>1. /\ r \in Seq(Messages) /\ Len(s) \in Nat /\ Len(s) > 0 /\ Len(r) = Len(s) - 1
      /\ Head(s) = s[1] /\ s[1] \in Messages /\ \A p \in 1 .. Len(r) : r[p] = s[p + 1]
  OBVIOUS
<1> HIDE DEF r
<1>2. Free(s, type) => Free(r, type)
  BY <1>1 DEF Free
<1>3. Once(s, type) => Once(r, type)
  <2> SUFFICES ASSUME Once(s, type), NEW p \in 1 .. Len(r), NEW q \in 1 .. Len(r),
                      r[p].type = type, r[q].type = type
               PROVE  p = q
    BY DEF Once
  <2>1. p + 1 \in 1 .. Len(s) /\ q + 1 \in 1 .. Len(s)
    BY <1>1
  <2>2. s[p + 1].type = type /\ s[q + 1].type = type
    BY <1>1
  <2>3. p + 1 = q + 1
    BY <2>1, <2>2 DEF Once
  <2> QED
    BY <1>1, <2>3
<1>4. Head(s).type = type => ~Free(s, type)
  BY <1>1 DEF Free
<1>5. Once(s, type) /\ Head(s).type = type => Free(r, type)
  BY <1>1 DEF Once, Free
<1> QED
  BY <1>1, <1>2, <1>3, <1>4, <1>5 DEF r

LEMMA EmptyChannel ==
  ASSUME NEW s \in Seq(Messages), Len(s) = 0, NEW type
  PROVE  Free(s, type) /\ Once(s, type)
  BY DEF Free, Once

LEMMA NoMessages == <<>> \in Seq(Messages) /\ Len(<<>>) = 0
  OBVIOUS

\* The messages there are.
LEMMA MessageIs ==
  ASSUME NEW j \in Jobs \cup {NoJob}, NEW type \in {"job", "done", "rpc", "rpc-result", "error", "shutdown"}
  PROVE  Message(type, j) \in Messages /\ Message(type, j).type = type /\ Message(type, j).job = j
  BY DEF Message, Messages

\* A message to a worker either joins its inbox or is lost with the worker.
LEMMA DeliverOther ==
  ASSUME Typed, NEW i \in Slots, NEW m \in Messages, m.type # "job"
  PROVE  /\ Deliver(i, m) \in Seq(Messages)
         /\ Free(inbox[i], "job") => Free(Deliver(i, m), "job")
         /\ Once(inbox[i], "job") => Once(Deliver(i, m), "job")
<1>1. inbox[i] \in Seq(Messages)
  BY DEF Typed
<1> QED
  BY <1>1, AppendOther DEF Deliver

LEMMA DeliverJob ==
  ASSUME Typed, NEW i \in Slots, NEW m \in Messages, Free(inbox[i], "job"), Once(inbox[i], "job")
  PROVE  Deliver(i, m) \in Seq(Messages) /\ Once(Deliver(i, m), "job")
<1>1. inbox[i] \in Seq(Messages)
  BY DEF Typed
<1> QED
  BY <1>1, AppendFirst DEF Deliver
-----------------------------------------------------------------------------
(* One lemma per step. *)

\* What the steps leave alone of other slots they keep.
LEMMA OtherToken ==
  ASSUME NEW i \in Slots, Token(i), inbox'[i] = inbox[i], outbox'[i] = outbox[i],
         worker'[i] = worker[i], slot'[i] = slot[i]
  PROVE  Token(i)'
  BY DEF Token

LEMMA SlotOf ==
  ASSUME Typed, NEW i \in Slots
  PROVE  /\ slot[i] \in SlotStates /\ worker[i] \in Work
         /\ inbox[i] \in Seq(Messages) /\ outbox[i] \in Seq(Messages)
  BY DEF Typed

\* Submitting marks the slot.
LEMMA SubmitKeeps == ASSUME IInv, NEW j \in Jobs, Submit(j) PROVE IInv'
<1>1. Typed /\ \A k \in Slots : Token(k)
  BY DEF IInv
<1> DEFINE i == Chosen
<1>2. UNCHANGED <<outbox, worker>>
  BY DEF Submit
<1>3. CASE slot[i].busy
  <2>1. slot' = [slot EXCEPT ![i].queue = Append(@, j)] /\ inbox' = inbox
    BY <1>3 DEF Submit
  <2> HIDE DEF i
  <2>2. Typed'
    <3> DEFINE r == [slot[i] EXCEPT !.queue = Append(@, j)]
    <3>1. ASSUME i \in Slots PROVE r \in SlotStates
      <4>1. slot[i] \in SlotStates
        BY <1>1, <3>1, SlotOf
      <4>2. Append(slot[i].queue, j) \in Seq(Jobs)
        BY <4>1 DEF SlotStates
      <4> QED
        BY <4>1, <4>2 DEF SlotStates
    <3>2. slot' = [slot EXCEPT ![i] = r]
      BY <2>1
    <3> HIDE DEF r
    <3> QED
      BY <1>1, <1>2, <2>1, <3>1, <3>2 DEF Typed
  <2>3. \A k \in Slots : slot'[k].busy = slot[k].busy
    BY <1>1, <2>1, SlotOf DEF Typed, SlotStates
  <2> QED
    BY <1>1, <1>2, <2>1, <2>2, <2>3 DEF IInv, Token
<1>4. CASE ~slot[i].busy
  <2> DEFINE m == Message("job", j)
  <2>1. /\ slot' = [slot EXCEPT ![i] = Occupied(@, j)]
        /\ inbox' = [inbox EXCEPT ![i] = Deliver(i, m)]
    BY <1>4 DEF Submit
  <2>2. m \in Messages
    BY MessageIs
  <2> HIDE DEF i, m
  <2>3. ASSUME i \in Slots PROVE Deliver(i, m) \in Seq(Messages) /\ Once(Deliver(i, m), "job")
    BY <1>1, <1>4, <2>2, <2>3, DeliverJob DEF Token
  <2>4. ASSUME i \in Slots PROVE Occupied(slot[i], j) \in SlotStates /\ Occupied(slot[i], j).busy
    BY <1>1, <2>4, SlotOf DEF Occupied, SlotStates
  <2>5. Typed'
    BY <1>1, <1>2, <2>1, <2>3, <2>4 DEF Typed
  <2>6. ASSUME NEW k \in Slots PROVE Token(k)'
    <3>1. CASE k # i
      BY <1>1, <1>2, <2>1, <3>1, OtherToken DEF Typed
    <3>2. CASE k = i
      <4>1. slot'[k].busy /\ inbox'[k] = Deliver(i, m) /\ Once(Deliver(i, m), "job")
        BY <1>1, <2>1, <2>3, <2>4, <3>2 DEF Typed
      <4>2. outbox'[k] = outbox[k] /\ worker'[k] = worker[k]
        BY <1>2
      <4>3. worker[k].running = {} /\ Free(outbox[k], "done") /\ Once(outbox[k], "done")
        BY <1>1, <1>4, <3>2 DEF Token
      <4> QED
        BY <4>1, <4>2, <4>3 DEF Token
    <3> QED
      BY <3>1, <3>2
  <2> QED
    BY <2>5, <2>6 DEF IInv
<1> QED
  BY <1>3, <1>4

LEMMA TakeJobKeeps == ASSUME IInv, NEW i \in Slots, TakeJob(i) PROVE IInv'
<1>1. Typed /\ \A k \in Slots : Token(k)
  BY DEF IInv
<1> DEFINE j == Head(inbox[i]).job
           w == [worker[i] EXCEPT !.running = @ \cup {j}]
<1>2. /\ inbox[i] # <<>> /\ Head(inbox[i]).type = "job"
      /\ UNCHANGED <<slot, outbox>>
      /\ worker' = [worker EXCEPT ![i] = w]
      /\ inbox' = [inbox EXCEPT ![i] = Tail(@)]
  BY DEF TakeJob
<1>3. /\ inbox[i] \in Seq(Messages) /\ Tail(inbox[i]) \in Seq(Messages)
      /\ Head(inbox[i]) \in Messages
      /\ ~Free(inbox[i], "job") /\ Once(inbox[i], "job") /\ Free(Tail(inbox[i]), "job")
      /\ Once(Tail(inbox[i]), "job")
  BY <1>1, <1>2, SlotOf, TailLeaves DEF Token
<1>4. /\ worker[i].running = {} /\ Free(outbox[i], "done") /\ Once(outbox[i], "done")
      /\ slot[i].busy
  BY <1>1, <1>3 DEF Token
<1>5. j \in Jobs \cup {NoJob}
  BY <1>2, <1>3 DEF Messages
<1> HIDE DEF j
<1>6. w \in Work /\ w.running = {j}
  BY <1>1, <1>4, <1>5, SlotOf DEF Work
<1> HIDE DEF w
<1>7. Typed'
  BY <1>1, <1>2, <1>3, <1>6 DEF Typed
<1>8. ASSUME NEW k \in Slots PROVE Token(k)'
  <2>1. CASE k # i
    BY <1>1, <1>2, <2>1, OtherToken DEF Typed
  <2>2. CASE k = i
    <3>1. /\ inbox'[k] = Tail(inbox[i]) /\ worker'[k] = w /\ outbox'[k] = outbox[i]
          /\ slot'[k] = slot[i]
      BY <1>1, <1>2, <2>2 DEF Typed
    <3> QED
      BY <1>3, <1>4, <1>6, <3>1 DEF Token
  <2> QED
    BY <2>1, <2>2
<1> QED
  BY <1>7, <1>8 DEF IInv

\* What a step of job or coordinator that only posts a message leaves in order.
LEMMA TransactionKeeps ==
  ASSUME IInv, NEW i \in Slots, NEW j \in Jobs, NEW commits \in BOOLEAN, Transaction(i, j, commits)
  PROVE  IInv'
<1>1. UNCHANGED <<slot, inbox, outbox, worker>>
  BY DEF Transaction
<1> QED
  BY <1>1 DEF IInv, Typed, Token

LEMMA CallCoordinatorKeeps ==
  ASSUME IInv, NEW i \in Slots, NEW j \in Jobs, CallCoordinator(i, j) PROVE IInv'
<1>1. Typed /\ \A k \in Slots : Token(k)
  BY DEF IInv
<1> DEFINE m == Message("rpc", j)
<1>2. /\ outbox' = [outbox EXCEPT ![i] = Append(@, m)]
      /\ UNCHANGED <<slot, inbox, worker>>
  BY DEF CallCoordinator
<1>3. m \in Messages /\ m.type # "done"
  BY MessageIs
<1> HIDE DEF m
<1>4. /\ Append(outbox[i], m) \in Seq(Messages)
      /\ Free(Append(outbox[i], m), "done") <=> Free(outbox[i], "done")
      /\ Once(outbox[i], "done") => Once(Append(outbox[i], m), "done")
  BY <1>1, <1>3, SlotOf, AppendOther
<1>5. Typed'
  BY <1>1, <1>2, <1>4 DEF Typed
<1>6. ASSUME NEW k \in Slots PROVE Token(k)'
  <2>1. CASE k # i
    BY <1>1, <1>2, <2>1, OtherToken DEF Typed
  <2>2. CASE k = i
    <3>1. outbox'[k] = Append(outbox[i], m)
      BY <1>1, <1>2, <2>2 DEF Typed
    <3> QED
      BY <1>1, <1>2, <1>4, <2>2, <3>1 DEF Token
  <2> QED
    BY <2>1, <2>2
<1> QED
  BY <1>5, <1>6 DEF IInv

LEMMA TakeRpcResultKeeps == ASSUME IInv, NEW i \in Slots, TakeRpcResult(i) PROVE IInv'
<1>1. Typed /\ \A k \in Slots : Token(k)
  BY DEF IInv
<1>2. /\ inbox[i] # <<>> /\ inbox' = [inbox EXCEPT ![i] = Tail(@)]
      /\ UNCHANGED <<slot, outbox, worker>>
  BY DEF TakeRpcResult
<1>3. /\ Tail(inbox[i]) \in Seq(Messages)
      /\ Free(inbox[i], "job") => Free(Tail(inbox[i]), "job")
      /\ Once(inbox[i], "job") => Once(Tail(inbox[i]), "job")
  BY <1>1, <1>2, SlotOf, TailLeaves
<1>4. Typed'
  BY <1>1, <1>2, <1>3 DEF Typed
<1>5. ASSUME NEW k \in Slots PROVE Token(k)'
  <2>1. CASE k # i
    BY <1>1, <1>2, <2>1, OtherToken DEF Typed
  <2>2. CASE k = i
    <3>1. inbox'[k] = Tail(inbox[i])
      BY <1>1, <1>2, <2>2 DEF Typed
    <3> QED
      BY <1>1, <1>2, <1>3, <2>2, <3>1 DEF Token
  <2> QED
    BY <2>1, <2>2
<1> QED
  BY <1>4, <1>5 DEF IInv

\* The job that runs was the token; its result is.
LEMMA FinishKeeps == ASSUME IInv, NEW i \in Slots, NEW j \in Jobs, Finish(i, j) PROVE IInv'
<1>1. Typed /\ \A k \in Slots : Token(k)
  BY DEF IInv
<1> DEFINE m == Message("done", j)
           w == [worker[i] EXCEPT !.running = @ \ {j}]
<1>2. /\ j \in worker[i].running
      /\ worker' = [worker EXCEPT ![i] = w]
      /\ outbox' = [outbox EXCEPT ![i] = Append(@, m)]
      /\ UNCHANGED <<slot, inbox>>
  BY DEF Finish, Running
<1>3. /\ Free(inbox[i], "job") /\ Once(inbox[i], "job") /\ Free(outbox[i], "done")
      /\ slot[i].busy /\ \A k \in worker[i].running : k = j
  BY <1>1, <1>2 DEF Token
<1>4. w \in Work /\ w.running = {}
  BY <1>1, <1>3, SlotOf DEF Work
<1>5. m \in Messages
  BY MessageIs
<1> HIDE DEF m, w
<1>6. Append(outbox[i], m) \in Seq(Messages) /\ Once(Append(outbox[i], m), "done")
  BY <1>1, <1>3, <1>5, SlotOf, AppendFirst
<1>7. Typed'
  BY <1>1, <1>2, <1>4, <1>6 DEF Typed
<1>8. ASSUME NEW k \in Slots PROVE Token(k)'
  <2>1. CASE k # i
    BY <1>1, <1>2, <2>1, OtherToken DEF Typed
  <2>2. CASE k = i
    <3>1. /\ inbox'[k] = inbox[i] /\ worker'[k] = w /\ outbox'[k] = Append(outbox[i], m)
          /\ slot'[k] = slot[i]
      BY <1>1, <1>2, <2>2 DEF Typed
    <3> QED
      BY <1>3, <1>4, <1>6, <3>1 DEF Token
  <2> QED
    BY <2>1, <2>2
<1> QED
  BY <1>7, <1>8 DEF IInv

\* Taking a message of the worker.
LEMMA OutboxTail ==
  ASSUME IInv, NEW i \in Slots, outbox[i] # <<>>, outbox' = [outbox EXCEPT ![i] = Tail(@)],
         UNCHANGED <<slot, inbox, worker>>
  PROVE  IInv'
<1>1. Typed /\ \A k \in Slots : Token(k)
  BY DEF IInv
<1>2. /\ Tail(outbox[i]) \in Seq(Messages)
      /\ Free(outbox[i], "done") => Free(Tail(outbox[i]), "done")
      /\ Once(outbox[i], "done") => Once(Tail(outbox[i]), "done")
  BY <1>1, SlotOf, TailLeaves
<1>3. Typed'
  BY <1>1, <1>2 DEF Typed
<1>4. ASSUME NEW k \in Slots PROVE Token(k)'
  <2>1. CASE k # i
    BY <1>1, <2>1, OtherToken DEF Typed
  <2>2. CASE k = i
    <3>1. outbox'[k] = Tail(outbox[i])
      BY <1>1, <2>2 DEF Typed
    <3> QED
      BY <1>1, <1>2, <2>2, <3>1 DEF Token
  <2> QED
    BY <2>1, <2>2
<1> QED
  BY <1>3, <1>4 DEF IInv

LEMMA RpcReturnsKeeps ==
  ASSUME IInv, NEW i \in Slots, NEW j \in Jobs, RpcReturns(i, j) PROVE IInv'
<1>1. Typed /\ \A k \in Slots : Token(k)
  BY DEF IInv
<1> DEFINE m == Message("rpc-result", j)
<1>2. /\ inbox' = [inbox EXCEPT ![i] = Deliver(i, m)]
      /\ UNCHANGED <<slot, outbox, worker>>
  BY DEF RpcReturns
<1>3. m \in Messages /\ m.type # "job"
  BY MessageIs
<1> HIDE DEF m
<1>4. /\ Deliver(i, m) \in Seq(Messages)
      /\ Free(inbox[i], "job") => Free(Deliver(i, m), "job")
      /\ Once(inbox[i], "job") => Once(Deliver(i, m), "job")
  BY <1>1, <1>3, DeliverOther
<1>5. Typed'
  BY <1>1, <1>2, <1>4 DEF Typed
<1>6. ASSUME NEW k \in Slots PROVE Token(k)'
  <2>1. CASE k # i
    BY <1>1, <1>2, <2>1, OtherToken DEF Typed
  <2>2. CASE k = i
    <3>1. inbox'[k] = Deliver(i, m)
      BY <1>1, <1>2, <2>2 DEF Typed
    <3> QED
      BY <1>1, <1>2, <1>4, <2>2, <3>1 DEF Token
  <2> QED
    BY <2>1, <2>2
<1> QED
  BY <1>5, <1>6 DEF IInv

LEMMA DiesKeeps == ASSUME IInv, NEW i \in Slots, Dies(i) PROVE IInv'
<1>1. Typed /\ \A k \in Slots : Token(k)
  BY DEF IInv
<1> DEFINE m == Message("error", NoJob)
           w == [alive |-> FALSE, running |-> {}]
<1>2. /\ worker' = [worker EXCEPT ![i] = w] /\ inbox' = [inbox EXCEPT ![i] = <<>>]
      /\ outbox' = [outbox EXCEPT ![i] = Append(@, m)] /\ UNCHANGED slot
  BY DEF Dies
<1>3. m \in Messages /\ m.type # "done"
  BY MessageIs
<1>4. w \in Work /\ w.running = {}
  BY DEF Work
<1> HIDE DEF m, w
<1>5. /\ Append(outbox[i], m) \in Seq(Messages)
      /\ Free(Append(outbox[i], m), "done") <=> Free(outbox[i], "done")
      /\ Once(outbox[i], "done") => Once(Append(outbox[i], m), "done")
  BY <1>1, <1>3, SlotOf, AppendOther
<1>6. Typed'
  BY <1>1, <1>2, <1>4, <1>5, NoMessages DEF Typed
<1>7. ASSUME NEW k \in Slots PROVE Token(k)'
  <2>1. CASE k # i
    BY <1>1, <1>2, <2>1, OtherToken DEF Typed
  <2>2. CASE k = i
    <3>1. /\ inbox'[k] = <<>> /\ worker'[k] = w /\ outbox'[k] = Append(outbox[i], m)
          /\ slot'[k] = slot[i]
      BY <1>1, <1>2, <2>2 DEF Typed
    <3>2. Free(inbox'[k], "job") /\ Once(inbox'[k], "job")
      BY <3>1, NoMessages, EmptyChannel
    <3> QED
      BY <1>1, <1>4, <1>5, <2>2, <3>1, <3>2 DEF Token
  <2> QED
    BY <2>1, <2>2
<1> QED
  BY <1>6, <1>7 DEF IInv

LEMMA ExitKeeps == ASSUME IInv, NEW i \in Slots, Exit(i) PROVE IInv'
<1>1. Typed /\ \A k \in Slots : Token(k)
  BY DEF IInv
<1> DEFINE w == [alive |-> FALSE, running |-> {}]
<1>2. /\ worker' = [worker EXCEPT ![i] = w] /\ inbox' = [inbox EXCEPT ![i] = <<>>]
      /\ UNCHANGED <<slot, outbox>>
  BY DEF Exit
<1>3. w \in Work /\ w.running = {}
  BY DEF Work
<1> HIDE DEF w
<1>4. Typed'
  BY <1>1, <1>2, <1>3, NoMessages DEF Typed
<1>5. ASSUME NEW k \in Slots PROVE Token(k)'
  <2>1. CASE k # i
    BY <1>1, <1>2, <2>1, OtherToken DEF Typed
  <2>2. CASE k = i
    <3>1. inbox'[k] = <<>> /\ worker'[k] = w
      BY <1>1, <1>2, <2>2 DEF Typed
    <3>2. Free(inbox'[k], "job") /\ Once(inbox'[k], "job")
      BY <3>1, NoMessages, EmptyChannel
    <3> QED
      BY <1>1, <1>2, <1>3, <2>2, <3>1, <3>2 DEF Token
  <2> QED
    BY <2>1, <2>2
<1> QED
  BY <1>4, <1>5 DEF IInv

\* A process that has just started its workers has no token anywhere.
LEMMA FreshKeeps == ASSUME FreshMemory PROVE IInv'
<1> DEFINE w == [alive |-> TRUE, running |-> {}]
<1>1. /\ slot' = [k \in Slots |-> FreshSlot] /\ inbox' = [k \in Slots |-> <<>>]
      /\ outbox' = [k \in Slots |-> <<>>] /\ worker' = [k \in Slots |-> w]
  BY DEF FreshMemory
<1>2. w \in Work /\ w.running = {}
  BY DEF Work
<1>3. FreshSlot \in SlotStates
  BY DEF FreshSlot, SlotStates
<1> HIDE DEF w
<1>4. Typed'
  BY <1>1, <1>2, <1>3, NoMessages DEF Typed
<1>5. ASSUME NEW k \in Slots PROVE Token(k)'
  <2>1. inbox'[k] = <<>> /\ outbox'[k] = <<>> /\ worker'[k] = w
    BY <1>1
  <2>2. /\ Free(inbox'[k], "job") /\ Once(inbox'[k], "job")
        /\ Free(outbox'[k], "done") /\ Once(outbox'[k], "done")
    BY <2>1, NoMessages, EmptyChannel
  <2> QED
    BY <1>2, <2>1, <2>2 DEF Token
<1> QED
  BY <1>4, <1>5 DEF IInv

LEMMA TakeErrorKeeps == ASSUME IInv, NEW i \in Slots, TakeError(i) PROVE IInv'
<1>1. CASE slot[i].pending # {}
  BY <1>1, FreshKeeps DEF TakeError
<1>2. CASE slot[i].pending = {}
  BY <1>2, OutboxTail DEF TakeError
<1> QED
  BY <1>1, <1>2

LEMMA StopKeeps == ASSUME IInv, Stop PROVE IInv'
<1>1. Typed /\ \A k \in Slots : Token(k)
  BY DEF IInv
<1> DEFINE m == Message("shutdown", NoJob)
<1>2. inbox' = [k \in Slots |-> Deliver(k, m)] /\ UNCHANGED <<slot, outbox, worker>>
  BY DEF Stop
<1>3. m \in Messages /\ m.type # "job"
  BY MessageIs
<1> HIDE DEF m
<1>4. ASSUME NEW k \in Slots
      PROVE  /\ inbox'[k] = Deliver(k, m)
             /\ Deliver(k, m) \in Seq(Messages)
             /\ Free(inbox[k], "job") => Free(Deliver(k, m), "job")
             /\ Once(inbox[k], "job") => Once(Deliver(k, m), "job")
  BY <1>1, <1>2, <1>3, DeliverOther
<1>5. Typed'
  BY <1>1, <1>2, <1>4 DEF Typed
<1>6. ASSUME NEW k \in Slots PROVE Token(k)'
  BY <1>1, <1>2, <1>4 DEF Token
<1> QED
  BY <1>5, <1>6 DEF IInv

\* The result was the token: the slot is free, and what it starts next is the only job.
LEMMA TakeDoneKeeps == ASSUME IInv, NEW i \in Slots, TakeDone(i) PROVE IInv'
<1>1. Typed /\ \A k \in Slots : Token(k)
  BY DEF IInv
<1> DEFINE j == Head(outbox[i]).job
           r == Freed(slot[i], j)
           started == r.pending \ (slot[i].pending \ {j})
           m == Message("job", CHOOSE k \in started : TRUE)
           post == IF started = {} THEN inbox[i] ELSE Deliver(i, m)
<1>2. /\ outbox[i] # <<>> /\ Head(outbox[i]).type = "done"
      /\ outbox' = [outbox EXCEPT ![i] = Tail(@)] /\ UNCHANGED worker
  BY DEF TakeDone
<1>3. slot' = [slot EXCEPT ![i] = r] /\ inbox' = [inbox EXCEPT ![i] = post]
  BY DEF TakeDone
<1>4. /\ Tail(outbox[i]) \in Seq(Messages)
      /\ ~Free(outbox[i], "done") /\ Free(Tail(outbox[i]), "done")
      /\ Once(Tail(outbox[i]), "done")
  BY <1>1, <1>2, SlotOf, TailLeaves DEF Token
<1>5. worker[i].running = {} /\ Free(inbox[i], "job") /\ Once(inbox[i], "job")
  BY <1>1, <1>4 DEF Token
<1>6. /\ slot[i] \in SlotStates /\ slot[i].pending \subseteq Jobs /\ slot[i].queue \in Seq(Jobs)
      /\ inbox[i] \in Seq(Messages)
  BY <1>1, SlotOf DEF SlotStates
<1> DEFINE free == [slot[i] EXCEPT !.busy = FALSE, !.pending = @ \ {j}]
<1> HIDE DEF j
<1>7. /\ r \in SlotStates
      /\ r.busy \/ started = {}
  <2>1. free \in SlotStates /\ free.pending = slot[i].pending \ {j} /\ free.queue = slot[i].queue
    BY <1>6 DEF SlotStates
  <2>2. CASE slot[i].queue = <<>>
    <3>1. r = free
      BY <2>2 DEF Freed
    <3> QED
      BY <2>1, <3>1
  <2>3. CASE slot[i].queue # <<>>
    <3> DEFINE rest == Tail(slot[i].queue)
               next == Head(slot[i].queue)
               short == [free EXCEPT !.queue = rest]
    <3>1. rest \in Seq(Jobs) /\ next \in Jobs
      BY <1>6, <2>3
    <3>2. r = Occupied(short, next)
      BY <2>3, <2>1 DEF Freed
    <3> HIDE DEF rest, next, free, r
    <3>3. short \in SlotStates
      BY <2>1, <3>1 DEF SlotStates
    <3> HIDE DEF short
    <3>4. Occupied(short, next) \in SlotStates /\ Occupied(short, next).busy
      BY <3>1, <3>3 DEF Occupied, SlotStates
    <3> QED
      BY <3>2, <3>4
  <2> QED
    BY <2>2, <2>3
<1> HIDE DEF r
<1>8. post \in Seq(Messages) /\ Once(post, "job") /\ (started = {} => post = inbox[i])
  <2>1. CASE started = {}
    BY <1>5, <1>6, <2>1
  <2>2. CASE started # {}
    <3>1. (CHOOSE k \in started : TRUE) \in Jobs
      BY <1>7, <2>2 DEF SlotStates
    <3>2. m \in Messages
      BY <3>1, MessageIs
    <3> HIDE DEF m
    <3>3. Deliver(i, m) \in Seq(Messages) /\ Once(Deliver(i, m), "job")
      BY <1>1, <1>5, <3>2, DeliverJob
    <3> QED
      BY <2>2, <3>3
  <2> QED
    BY <2>1, <2>2
<1> HIDE DEF post, started
<1>9. Typed'
  BY <1>1, <1>2, <1>3, <1>4, <1>7, <1>8 DEF Typed
<1>10. ASSUME NEW k \in Slots PROVE Token(k)'
  <2>1. CASE k # i
    BY <1>1, <1>2, <1>3, <2>1, OtherToken DEF Typed
  <2>2. CASE k = i
    <3>1. /\ inbox'[k] = post /\ slot'[k] = r /\ outbox'[k] = Tail(outbox[i])
          /\ worker'[k] = worker[i]
      BY <1>1, <1>2, <1>3, <2>2 DEF Typed
    <3> QED
      BY <1>4, <1>5, <1>7, <1>8, <3>1 DEF Token
  <2> QED
    BY <2>1, <2>2
<1> QED
  BY <1>9, <1>10 DEF IInv
-----------------------------------------------------------------------------
(* The invariant. *)

LEMMA Initially == Init => IInv
<1> SUFFICES ASSUME Init PROVE IInv
  OBVIOUS
<1> DEFINE w == [alive |-> TRUE, running |-> {}]
<1>1. /\ slot = [k \in Slots |-> FreshSlot] /\ inbox = [k \in Slots |-> <<>>]
      /\ outbox = [k \in Slots |-> <<>>] /\ worker = [k \in Slots |-> w]
  BY DEF Init
<1>2. w \in Work /\ w.running = {}
  BY DEF Work
<1>3. FreshSlot \in SlotStates
  BY DEF FreshSlot, SlotStates
<1> HIDE DEF w
<1>4. Typed
  BY <1>1, <1>2, <1>3, NoMessages DEF Typed
<1>5. ASSUME NEW k \in Slots PROVE Token(k)
  <2>1. inbox[k] = <<>> /\ outbox[k] = <<>> /\ worker[k] = w
    BY <1>1
  <2>2. /\ Free(inbox[k], "job") /\ Once(inbox[k], "job")
        /\ Free(outbox[k], "done") /\ Once(outbox[k], "done")
    BY <2>1, NoMessages, EmptyChannel
  <2> QED
    BY <1>2, <2>1, <2>2 DEF Token
<1> QED
  BY <1>4, <1>5 DEF IInv

LEMMA Invariance == IInv /\ [Next]_vars => IInv'
<1> SUFFICES ASSUME IInv, [Next]_vars PROVE IInv'
  OBVIOUS
<1>1. ASSUME NEW j \in Jobs, Submit(j) PROVE IInv'
  BY <1>1, SubmitKeeps
<1>2. ASSUME NEW i \in Slots, WorkerStep(i) PROVE IInv'
  BY <1>2, TakeJobKeeps, TakeRpcResultKeeps, TransactionKeeps, CallCoordinatorKeeps, FinishKeeps,
     Zenon DEF WorkerStep
<1>3. ASSUME NEW i \in Slots, CoordinatorStep(i) PROVE IInv'
  <2>1. ASSUME TakeRpc(i) PROVE IInv'
    BY <2>1, OutboxTail DEF TakeRpc
  <2> QED
    BY <1>3, <2>1, TakeDoneKeeps, TakeErrorKeeps, RpcReturnsKeeps, Zenon DEF CoordinatorStep
<1>4. ASSUME Failure PROVE IInv'
  <2>1. ASSUME Restart PROVE IInv'
    BY <2>1, FreshKeeps DEF Restart
  <2> QED
    BY <1>4, <2>1, DiesKeeps, ExitKeeps, StopKeeps, Zenon DEF Failure
<1>5. ASSUME UNCHANGED vars PROVE IInv'
  BY <1>5 DEF vars, IInv, Typed, Token
<1> QED
  BY <1>1, <1>2, <1>3, <1>4, <1>5 DEF Next

\* No worker ever has two jobs, so two jobs of one SQLite connection never interleave,
\* however many slots there are and whatever workers die or are stopped.
THEOREM JobsRunAlone == Spec => []RunsAlone
<1>1. IInv => RunsAlone
  <2> SUFFICES ASSUME IInv, NEW i \in Slots PROVE Cardinality(worker[i].running) <= 1
    BY DEF RunsAlone
  <2>1. \A j, k \in worker[i].running : j = k
    BY DEF IInv, Token
  <2>2. CASE worker[i].running = {}
    <3>1. Cardinality({}) = 0
      BY FS_EmptySet
    <3> QED
      BY <2>2, <3>1
  <2>3. CASE worker[i].running # {}
    <3>1. PICK j : worker[i].running = {j}
      BY <2>1, <2>3
    <3> QED
      <4>1. Cardinality({j}) = 1
        BY FS_Singleton
      <4> QED
        BY <3>1, <4>1
  <2> QED
    BY <2>2, <2>3
<1> QED
  BY <1>1, Initially, Invariance, PTL DEF Spec

-----------------------------------------------------------------------------
(***************************************************************************)
(* The refinement: a job waits in one place, and is executed when it       *)
(* leaves it.                                                              *)
(***************************************************************************)
States == {"new", "accepted", "answered", "dropped"}

\* A worker is about to be told of job j.
Has(s, j) == \E p \in 1 .. Len(s) : s[p].type = "job" /\ s[p].job = j

\* Place 0 of a slot is the message on its way to the worker, the others are its queue.
Waits(i, p, j) ==
  \/ p = 0 /\ Has(inbox[i], j)
  \/ p \in 1 .. Len(slot[i].queue) /\ slot[i].queue[p] = j

\* Results come from jobs that have run.
Ran(s, r) == \A p \in 1 .. Len(s) : s[p].type = "done" => s[p].job \in Jobs /\ r[s[p].job] = 1

JobsTyped == state \in [Jobs -> States] /\ runs \in [Jobs -> Nat]

\* What waits has not run, and what is known of it is that it was accepted.
WaitingOk ==
  \A i \in Slots, p \in Nat, j \in Jobs :
     Waits(i, p, j) => runs[j] = 0 /\ state[j] \in {"accepted", "dropped"}

OnePlace ==
  \A i, k \in Slots, p, q \in Nat, j \in Jobs :
     Waits(i, p, j) /\ Waits(k, q, j) => i = k /\ p = q

RunOnce ==
  /\ \A i \in Slots, j \in Jobs : j \in worker[i].running => runs[j] = 1
  /\ \A i \in Slots : Ran(outbox[i], runs)
  /\ \A j \in Jobs : state[j] = "new" => runs[j] = 0

JobInv == IInv /\ JobsTyped /\ WaitingOk /\ OnePlace /\ RunOnce
-----------------------------------------------------------------------------
(* Jobs in channels. *)

LEMMA HasAppend ==
  ASSUME NEW s \in Seq(Messages), NEW m \in Messages, NEW j
  PROVE  Has(Append(s, m), j) <=> Has(s, j) \/ (m.type = "job" /\ m.job = j)
<1> DEFINE r == Append(s, m)
<1>1. /\ Len(s) \in Nat /\ Len(r) = Len(s) + 1
      /\ r[Len(s) + 1] = m /\ \A p \in 1 .. Len(s) : r[p] = s[p]
  OBVIOUS
<1> HIDE DEF r
<1>2. ASSUME Has(r, j) PROVE Has(s, j) \/ (m.type = "job" /\ m.job = j)
  BY <1>1, <1>2 DEF Has
<1>3. ASSUME Has(s, j) PROVE Has(r, j)
  <2>1. PICK p \in 1 .. Len(s) : s[p].type = "job" /\ s[p].job = j
    BY <1>3 DEF Has
  <2>2. p \in 1 .. Len(r) /\ r[p] = s[p]
    BY <1>1
  <2> QED
    BY <2>1, <2>2 DEF Has
<1>4. ASSUME m.type = "job" /\ m.job = j PROVE Has(r, j)
  <2>1. Len(r) \in 1 .. Len(r) /\ r[Len(r)] = m
    BY <1>1
  <2> QED
    BY <1>4, <2>1 DEF Has
<1> QED
  BY <1>2, <1>3, <1>4 DEF r

LEMMA HasTail ==
  ASSUME NEW s \in Seq(Messages), s # <<>>, NEW j
  PROVE  /\ Has(Tail(s), j) => Has(s, j)
         /\ Head(s).type = "job" => Has(s, Head(s).job)
<1> DEFINE r == Tail(s)
<1>1. /\ Len(s) \in Nat /\ Len(s) > 0 /\ Len(r) = Len(s) - 1 /\ Head(s) = s[1]
      /\ \A p \in 1 .. Len(r) : r[p] = s[p + 1] /\ p + 1 \in 1 .. Len(s)
  OBVIOUS
<1> HIDE DEF r
<1>2. Has(r, j) => Has(s, j)
  BY <1>1 DEF Has
<1>3. Head(s).type = "job" => Has(s, Head(s).job)
  BY <1>1 DEF Has
<1> QED
  BY <1>2, <1>3 DEF r

LEMMA NoneFree == ASSUME NEW s, Free(s, "job"), NEW j PROVE ~Has(s, j)
  BY DEF Free, Has

LEMMA HasNone == ASSUME NEW j PROVE ~Has(<<>>, j)
  BY DEF Has

\* The only job of a channel is its job.
LEMMA HasOnly ==
  ASSUME NEW s, Once(s, "job"), NEW j, NEW k, Has(s, j), Has(s, k) PROVE j = k
  BY DEF Once, Has

LEMMA RanAppend ==
  ASSUME NEW s \in Seq(Messages), NEW m \in Messages, NEW r, Ran(s, r),
         m.type = "done" => m.job \in Jobs /\ r[m.job] = 1
  PROVE  Ran(Append(s, m), r)
<1> DEFINE t == Append(s, m)
<1>1. /\ Len(s) \in Nat /\ Len(t) = Len(s) + 1
      /\ t[Len(s) + 1] = m /\ \A p \in 1 .. Len(s) : t[p] = s[p]
  OBVIOUS
<1> HIDE DEF t
<1>2. Ran(t, r)
  BY <1>1 DEF Ran
<1> QED
  BY <1>2 DEF t

LEMMA RanTail ==
  ASSUME NEW s \in Seq(Messages), s # <<>>, NEW r, Ran(s, r)
  PROVE  /\ Ran(Tail(s), r)
         /\ Head(s).type = "done" => Head(s).job \in Jobs /\ r[Head(s).job] = 1
<1> DEFINE t == Tail(s)
<1>1. /\ Len(s) \in Nat /\ Len(s) > 0 /\ Len(t) = Len(s) - 1 /\ Head(s) = s[1]
      /\ \A p \in 1 .. Len(t) : t[p] = s[p + 1] /\ p + 1 \in 1 .. Len(s)
  OBVIOUS
<1> HIDE DEF t
<1>2. Ran(t, r)
  BY <1>1 DEF Ran
<1>3. Head(s).type = "done" => Head(s).job \in Jobs /\ r[Head(s).job] = 1
  BY <1>1 DEF Ran
<1> QED
  BY <1>2, <1>3 DEF t

LEMMA RanNone == ASSUME NEW r PROVE Ran(<<>>, r)
  BY DEF Ran

\* A channel to a worker gains no job but the one that is delivered.
LEMMA HasDelivered ==
  ASSUME Typed, NEW i \in Slots, NEW m \in Messages, NEW j, Has(Deliver(i, m), j)
  PROVE  Has(inbox[i], j) \/ (m.type = "job" /\ m.job = j)
  BY SlotOf, HasAppend DEF Deliver
-----------------------------------------------------------------------------
(* Steps that move no job to another place. *)

\* Places can only be emptied, runs stay, and a state is changed for one that a
\* waiting job may have.
LEMMA PlacesKept ==
  ASSUME JobInv, IInv', UNCHANGED runs, state' \in [Jobs -> States],
         \A i \in Slots, p \in Nat, j \in Jobs : Waits(i, p, j)' => Waits(i, p, j),
         \A j \in Jobs : state'[j] = "new" => state[j] = "new",
         \A j \in Jobs : state[j] \in {"accepted", "dropped"} /\ runs[j] = 0
                            => state'[j] \in {"accepted", "dropped"},
         \A i \in Slots : worker'[i].running \subseteq worker[i].running,
         \A i \in Slots : Ran(outbox'[i], runs)
  PROVE  JobInv'
<1>1. JobsTyped'
  BY DEF JobInv, JobsTyped
<1>2. WaitingOk'
  BY DEF JobInv, WaitingOk
<1>3. OnePlace'
  BY DEF JobInv, OnePlace
<1>4. RunOnce'
  BY DEF JobInv, RunOnce
<1> QED
  BY <1>1, <1>2, <1>3, <1>4 DEF JobInv

\* The same for a step that leaves the states alone.
LEMMA StatesKept ==
  ASSUME JobInv, IInv', UNCHANGED <<runs, state>>,
         \A i \in Slots : slot'[i].queue = slot[i].queue,
         \A i \in Slots, j \in Jobs : Has(inbox'[i], j) => Has(inbox[i], j),
         \A i \in Slots : worker'[i].running \subseteq worker[i].running,
         \A i \in Slots : Ran(outbox'[i], runs)
  PROVE  JobInv'
<1>1. \A i \in Slots, p \in Nat, j \in Jobs : Waits(i, p, j)' => Waits(i, p, j)
  BY DEF Waits
<1>2. state' \in [Jobs -> States]
  BY DEF JobInv, JobsTyped
<1> QED
  BY <1>1, <1>2, PlacesKept

LEMMA JobOf ==
  ASSUME JobInv, NEW i \in Slots
  PROVE  Typed /\ Token(i) /\ Ran(outbox[i], runs)
  BY DEF JobInv, IInv, RunOnce

LEMMA QuietJobs ==
  ASSUME JobInv, IInv', NEW i \in Slots, NEW j \in Jobs \cup {NoJob},
         \/ TakeRpcResult(i) \/ \E commits \in BOOLEAN : Transaction(i, j, commits)
         \/ CallCoordinator(i, j) \/ (j \in Jobs /\ Finish(i, j)) \/ TakeRpc(i) \/ RpcReturns(i, j)
         \/ Dies(i) \/ Exit(i)
  PROVE  JobInv'
<1>1. UNCHANGED <<runs, state, slot>>
  BY DEF TakeRpcResult, Transaction, CallCoordinator, Finish, TakeRpc, RpcReturns, Dies, Exit
<1>2. Typed /\ \A k \in Slots : Ran(outbox[k], runs) /\ inbox[k] \in Seq(Messages)
                                 /\ outbox[k] \in Seq(Messages)
  BY JobOf, SlotOf DEF JobInv, IInv
<1>3. ASSUME NEW k \in Slots PROVE worker'[k].running \subseteq worker[k].running
  <2>1. CASE j \in Jobs /\ Finish(i, j)
    BY <1>2, <2>1 DEF Finish, Typed, Work
  <2>2. CASE Dies(i) \/ Exit(i)
    <3> DEFINE w == [alive |-> FALSE, running |-> {}]
    <3>1. worker' = [worker EXCEPT ![i] = w] /\ w.running = {}
      BY <2>2 DEF Dies, Exit
    <3> HIDE DEF w
    <3>2. worker'[k] = worker[k] \/ worker'[k] = w
      BY <1>2, <3>1 DEF Typed
    <3> QED
      BY <3>1, <3>2
  <2>3. CASE UNCHANGED worker
    BY <2>3
  <2> QED
    BY <2>1, <2>2, <2>3 DEF TakeRpcResult, Transaction, CallCoordinator, TakeRpc, RpcReturns
<1>4. ASSUME NEW k \in Slots, NEW h \in Jobs, Has(inbox'[k], h) PROVE Has(inbox[k], h)
  <2>1. CASE TakeRpcResult(i)
    <3>1. inbox'[k] = inbox[k] \/ (inbox[k] # <<>> /\ inbox'[k] = Tail(inbox[k]))
      BY <1>2, <2>1 DEF TakeRpcResult, Typed
    <3> QED
      BY <1>2, <1>4, <3>1, HasTail
  <2>2. CASE RpcReturns(i, j)
    <3> DEFINE m == Message("rpc-result", j)
    <3>1. inbox'[k] = inbox[k] \/ inbox'[k] = Deliver(k, m)
      BY <1>2, <2>2 DEF RpcReturns, Typed
    <3>2. m \in Messages /\ m.type = "rpc-result"
      BY MessageIs
    <3> HIDE DEF m
    <3> QED
      BY <1>2, <1>4, <3>1, <3>2, HasDelivered
  <2>3. CASE Dies(i) \/ Exit(i)
    <3>1. inbox'[k] = inbox[k] \/ inbox'[k] = <<>>
      BY <1>2, <2>3 DEF Dies, Exit, Typed
    <3> QED
      BY <1>4, <3>1, HasNone
  <2>4. CASE UNCHANGED inbox
    BY <1>4, <2>4
  <2> QED
    BY <2>1, <2>2, <2>3, <2>4 DEF Transaction, CallCoordinator, Finish, TakeRpc
<1>5. ASSUME NEW k \in Slots PROVE Ran(outbox'[k], runs)
  <2>1. ASSUME NEW m \in Messages, m.type = "done" => m.job = j /\ j \in Jobs /\ j \in worker[i].running,
               outbox' = [outbox EXCEPT ![i] = Append(@, m)]
        PROVE  Ran(outbox'[k], runs)
    <3>1. outbox'[k] = outbox[k] \/ outbox'[k] = Append(outbox[k], m)
      BY <1>2, <2>1 DEF Typed
    <3>2. m.type = "done" => m.job \in Jobs /\ runs[m.job] = 1
      BY <2>1 DEF JobInv, RunOnce
    <3> QED
      BY <1>2, <3>1, <3>2, RanAppend
  <2>2. CASE CallCoordinator(i, j)
    BY <2>1, <2>2, MessageIs DEF CallCoordinator
  <2>3. CASE j \in Jobs /\ Finish(i, j)
    <3>1. Message("done", j) \in Messages /\ Message("done", j).job = j
      BY MessageIs
    <3>2. j \in worker[i].running /\ outbox' = [outbox EXCEPT ![i] = Append(@, Message("done", j))]
      BY <2>3 DEF Finish, Running
    <3> QED
      BY <2>1, <2>3, <3>1, <3>2
  <2>4. CASE Dies(i)
    BY <2>1, <2>4, MessageIs DEF Dies
  <2>5. CASE TakeRpc(i)
    <3>1. outbox'[k] = outbox[k] \/ (outbox[k] # <<>> /\ outbox'[k] = Tail(outbox[k]))
      BY <1>2, <2>5 DEF TakeRpc, Typed
    <3> QED
      BY <1>2, <3>1, RanTail
  <2>6. CASE UNCHANGED outbox
    BY <1>2, <2>6
  <2> QED
    BY <2>2, <2>3, <2>4, <2>5, <2>6 DEF TakeRpcResult, Transaction, RpcReturns, Exit
<1>6. \A k \in Slots : slot'[k].queue = slot[k].queue
  BY <1>1
<1> QED
  BY <1>1, <1>3, <1>4, <1>5, <1>6, StatesKept

\* A process that starts its workers has forgotten every place.
LEMMA FreshJobs ==
  ASSUME JobInv, IInv', FreshMemory, UNCHANGED runs,
         LoseSockets \/ UNCHANGED state
  PROVE  JobInv'
<1>1. /\ slot' = [k \in Slots |-> FreshSlot] /\ inbox' = [k \in Slots |-> <<>>]
      /\ outbox' = [k \in Slots |-> <<>>]
      /\ worker' = [k \in Slots |-> [alive |-> TRUE, running |-> {}]]
  BY DEF FreshMemory
<1>2. \A k \in Slots, p \in Nat, j \in Jobs : ~Waits(k, p, j)'
  BY <1>1, HasNone DEF Waits, FreshSlot
<1>3. /\ state' \in [Jobs -> States]
      /\ \A j \in Jobs : state'[j] = "new" => state[j] = "new"
      /\ \A j \in Jobs : state[j] \in {"accepted", "dropped"} => state'[j] \in {"accepted", "dropped"}
  BY DEF JobInv, JobsTyped, States, LoseSockets
<1>4. \A k \in Slots : worker'[k].running \subseteq worker[k].running /\ Ran(outbox'[k], runs)
  BY <1>1, RanNone
<1> QED
  BY <1>2, <1>3, <1>4, PlacesKept

LEMMA ErrorJobs == ASSUME JobInv, IInv', NEW i \in Slots, TakeError(i) PROVE JobInv'
<1>1. CASE slot[i].pending # {}
  BY <1>1, FreshJobs DEF TakeError
<1>2. CASE slot[i].pending = {}
  <2>1. /\ outbox[i] # <<>> /\ outbox' = [outbox EXCEPT ![i] = Tail(@)]
        /\ UNCHANGED <<state, slot, inbox, worker, runs>>
    BY <1>2 DEF TakeError
  <2>2. ASSUME NEW k \in Slots PROVE Ran(outbox'[k], runs)
    <3>1. outbox'[k] = outbox[k] \/ (outbox[k] # <<>> /\ outbox'[k] = Tail(outbox[k]))
      BY <2>1, JobOf DEF Typed
    <3> QED
      BY <3>1, JobOf, SlotOf, RanTail
  <2> QED
    BY <2>1, <2>2, StatesKept
<1> QED
  BY <1>1, <1>2

LEMMA StopJobs == ASSUME JobInv, IInv', Stop PROVE JobInv'
<1> DEFINE m == Message("shutdown", NoJob)
<1>1. /\ inbox' = [k \in Slots |-> Deliver(k, m)] /\ UNCHANGED <<slot, outbox, worker, runs>>
      /\ LoseSockets
  BY DEF Stop
<1>2. m \in Messages /\ m.type = "shutdown"
  BY MessageIs
<1> HIDE DEF m
<1>3. ASSUME NEW k \in Slots, NEW p \in Nat, NEW j \in Jobs, Waits(k, p, j)' PROVE Waits(k, p, j)
  <2>1. Has(inbox'[k], j) => Has(inbox[k], j)
    BY <1>1, <1>2, JobOf, HasDelivered
  <2> QED
    BY <1>1, <1>3, <2>1 DEF Waits
<1>4. /\ state' \in [Jobs -> States]
      /\ \A j \in Jobs : state'[j] = "new" => state[j] = "new"
      /\ \A j \in Jobs : state[j] \in {"accepted", "dropped"} => state'[j] \in {"accepted", "dropped"}
  BY <1>1 DEF JobInv, JobsTyped, States, LoseSockets
<1>5. \A k \in Slots : worker'[k].running \subseteq worker[k].running /\ Ran(outbox'[k], runs)
  BY <1>1, JobOf
<1> QED
  BY <1>1, <1>3, <1>4, <1>5, PlacesKept

LEMMA SubmitJobs == ASSUME JobInv, IInv', NEW j \in Jobs, Submit(j) PROVE JobInv'
<1> DEFINE i == Chosen
<1>1. /\ UNCHANGED <<outbox, worker, runs>> /\ state[j] = "new"
      /\ state' = [state EXCEPT ![j] = "accepted"]
  BY DEF Submit
<1>2. Typed /\ state \in [Jobs -> States] /\ runs \in [Jobs -> Nat] /\ runs[j] = 0
  BY <1>1 DEF JobInv, IInv, JobsTyped, RunOnce
\* The place the job gets.
<1>3. \E n \in Nat : \A k \in Slots, p \in Nat, h \in Jobs :
         Waits(k, p, h)' => Waits(k, p, h) \/ (k = i /\ p = n /\ h = j)
  <2>1. CASE slot[i].busy
    <3>1. slot' = [slot EXCEPT ![i].queue = Append(@, j)] /\ inbox' = inbox
      BY <2>1 DEF Submit
    <3> HIDE DEF i
    <3> DEFINE n == IF i \in Slots THEN Len(slot[i].queue) + 1 ELSE 0
    <3>2. ASSUME NEW k \in Slots PROVE slot[k] \in SlotStates /\ slot[k].queue \in Seq(Jobs)
      BY <1>2, SlotOf DEF SlotStates
    <3>3. n \in Nat
      BY <3>2
    <3>4. ASSUME NEW k \in Slots, NEW p \in Nat, NEW h \in Jobs, Waits(k, p, h)'
          PROVE  Waits(k, p, h) \/ (k = i /\ p = n /\ h = j)
      <4>1. CASE k # i
        <5>1. slot'[k] = slot[k]
          BY <1>2, <3>1, <4>1 DEF Typed
        <5> QED
          BY <3>1, <3>4, <5>1 DEF Waits
      <4>2. CASE k = i
        <5>1. slot'[k].queue = Append(slot[k].queue, j)
          BY <1>2, <3>1, <3>2, <4>2 DEF Typed, SlotStates
        <5> DEFINE r == Append(slot[k].queue, j)
        <5>2. /\ Len(slot[k].queue) \in Nat /\ Len(r) = Len(slot[k].queue) + 1 /\ r[Len(r)] = j
              /\ \A q \in 1 .. Len(slot[k].queue) : r[q] = slot[k].queue[q]
          BY <3>2
        <5> HIDE DEF r
        <5> QED
          BY <3>1, <3>4, <4>2, <5>1, <5>2 DEF Waits, r
      <4> QED
        BY <4>1, <4>2
    <3> HIDE DEF n
    <3> QED
      BY <3>3, <3>4
  <2>2. CASE ~slot[i].busy
    <3> DEFINE m == Message("job", j)
    <3>1. /\ slot' = [slot EXCEPT ![i] = Occupied(@, j)]
          /\ inbox' = [inbox EXCEPT ![i] = Deliver(i, m)]
      BY <2>2 DEF Submit
    <3>2. m \in Messages /\ m.job = j
      BY MessageIs
    <3> HIDE DEF i, m
    <3>3. ASSUME NEW k \in Slots, NEW p \in Nat, NEW h \in Jobs, Waits(k, p, h)'
          PROVE  Waits(k, p, h) \/ (k = i /\ p = 0 /\ h = j)
      <4>1. slot'[k].queue = slot[k].queue
        BY <1>2, <3>1, SlotOf DEF Occupied, Typed, SlotStates
      <4>2. Has(inbox'[k], h) => Has(inbox[k], h) \/ (k = i /\ h = j)
        <5>1. inbox'[k] = inbox[k] \/ (k = i /\ inbox'[k] = Deliver(k, m))
          BY <1>2, <3>1 DEF Typed
        <5> QED
          BY <1>2, <3>2, <5>1, HasDelivered
      <4> QED
        BY <3>3, <4>1, <4>2 DEF Waits
    <3> QED
      BY <3>3
  <2> QED
    BY <2>1, <2>2
<1> HIDE DEF i
<1>4. PICK n \in Nat : \A k \in Slots, p \in Nat, h \in Jobs :
         Waits(k, p, h)' => Waits(k, p, h) \/ (k = i /\ p = n /\ h = j)
  BY <1>3
<1>5. \A k \in Slots, p \in Nat : ~Waits(k, p, j)
  BY <1>1 DEF JobInv, WaitingOk
<1>6. state'[j] = "accepted" /\ \A h \in Jobs : h # j => state'[h] = state[h]
  BY <1>1, <1>2
<1>7. JobsTyped'
  BY <1>1, <1>2 DEF JobsTyped, States
<1>8. WaitingOk'
  BY <1>1, <1>2, <1>4, <1>6 DEF JobInv, WaitingOk
<1>9. OnePlace'
  BY <1>4, <1>5 DEF JobInv, OnePlace
<1>10. RunOnce'
  BY <1>1, <1>6 DEF JobInv, RunOnce
<1> QED
  BY <1>7, <1>8, <1>9, <1>10 DEF JobInv

\* Taking a job ends its waiting and runs it for the first time.
LEMMA TakeJobJobs ==
  ASSUME JobInv, IInv', NEW i \in Slots, TakeJob(i)
  PROVE  JobInv' /\ (UNCHANGED <<state, runs>> \/ \E h \in Jobs : Contract!Execute(h))
<1> DEFINE j == Head(inbox[i]).job
<1>1. /\ inbox[i] # <<>> /\ Head(inbox[i]).type = "job"
      /\ UNCHANGED <<slot, outbox, state>>
      /\ worker' = [worker EXCEPT ![i].running = @ \cup {j}]
      /\ inbox' = [inbox EXCEPT ![i] = Tail(@)]
      /\ runs' = [runs EXCEPT ![j] = @ + 1]
  BY DEF TakeJob
<1>2. /\ Typed /\ state \in [Jobs -> States] /\ runs \in [Jobs -> Nat]
      /\ Token(i) /\ inbox[i] \in Seq(Messages) /\ worker \in [Slots -> Work]
  BY JobOf, SlotOf DEF JobInv, JobsTyped, Typed
<1>3. Has(inbox[i], j) /\ Once(inbox[i], "job") /\ Free(Tail(inbox[i]), "job")
  BY <1>1, <1>2, HasTail, TailLeaves DEF Token
<1> HIDE DEF j
<1>4. ASSUME NEW k \in Slots, NEW p \in Nat, NEW h \in Jobs, Waits(k, p, h)'
      PROVE  Waits(k, p, h) /\ ~(k = i /\ p = 0)
  <2>1. CASE k = i
    <3>1. inbox'[k] = Tail(inbox[i])
      BY <1>1, <1>2, <2>1 DEF Typed
    <3>2. ~Has(inbox'[k], h)
      BY <1>3, <3>1, NoneFree
    <3> QED
      BY <1>1, <1>4, <3>2 DEF Waits
  <2>2. CASE k # i
    <3>1. inbox'[k] = inbox[k]
      BY <1>1, <1>2, <2>2 DEF Typed
    <3> QED
      BY <1>1, <1>4, <2>2, <3>1 DEF Waits
  <2> QED
    BY <2>1, <2>2
<1>5. Waits(i, 0, j)
  BY <1>3 DEF Waits
<1>6. j \in Jobs => runs[j] = 0 /\ state[j] \in {"accepted", "dropped"}
  BY <1>5 DEF JobInv, WaitingOk
<1>7. /\ j \in Jobs => runs'[j] = 1
      /\ \A h \in Jobs : h # j => runs'[h] = runs[h]
  BY <1>1, <1>2, <1>6
<1>8. \A h \in Jobs : runs[h] = 1 => runs'[h] = 1
  BY <1>6, <1>7
<1>9. JobsTyped'
  <2>1. runs' \in [Jobs -> Nat]
    <3>1. CASE j \in Jobs
      <4>1. runs[j] + 1 \in Nat /\ runs' = [runs EXCEPT ![j] = runs[j] + 1]
        BY <1>1, <1>2, <3>1
      <4> QED
        BY <1>2, <4>1
    <3>2. CASE j \notin Jobs
      BY <1>1, <1>2, <3>2
    <3> QED
      BY <3>1, <3>2
  <2> QED
    BY <1>1, <1>2, <2>1 DEF JobsTyped
<1>10. WaitingOk'
  <2> SUFFICES ASSUME NEW k \in Slots, NEW p \in Nat, NEW h \in Jobs, Waits(k, p, h)'
               PROVE  runs'[h] = 0 /\ state'[h] \in {"accepted", "dropped"}
    BY DEF WaitingOk
  <2>1. Waits(k, p, h) /\ ~(k = i /\ p = 0)
    BY <1>4
  <2>2. h # j
    BY <1>5, <2>1 DEF JobInv, OnePlace
  <2> QED
    BY <1>1, <1>7, <2>1, <2>2 DEF JobInv, WaitingOk
<1>11. OnePlace'
  BY <1>4 DEF JobInv, OnePlace
<1>12. RunOnce'
  <2>1. ASSUME NEW k \in Slots, NEW h \in Jobs, h \in worker'[k].running PROVE runs'[h] = 1
    <3>1. h \in worker[k].running \/ h = j
      <4> DEFINE w == [worker[i] EXCEPT !.running = @ \cup {j}]
      <4>1. worker' = [worker EXCEPT ![i] = w]
        BY <1>1
      <4>2. worker'[k] = worker[k] \/ (k = i /\ worker'[k] = w)
        BY <1>2, <4>1
      <4>3. w.running = worker[i].running \cup {j}
        BY <1>2, SlotOf DEF Work
      <4> HIDE DEF w
      <4> QED
        BY <2>1, <4>2, <4>3
    <3> QED
      BY <1>7, <1>8, <3>1 DEF JobInv, RunOnce
  <2>2. ASSUME NEW k \in Slots PROVE Ran(outbox'[k], runs')
    BY <1>1, <1>8, JobOf DEF Ran
  <2>3. \A h \in Jobs : state'[h] = "new" => runs'[h] = 0
    BY <1>1, <1>6, <1>7 DEF JobInv, RunOnce
  <2> QED
    BY <2>1, <2>2, <2>3 DEF RunOnce
<1>13. UNCHANGED <<state, runs>> \/ \E h \in Jobs : Contract!Execute(h)
  <2>1. CASE j \in Jobs
    <3>1. runs[j] + 1 = 1
      BY <1>6, <2>1
    <3>2. runs' = [runs EXCEPT ![j] = 1]
      BY <1>1, <3>1
    <3> QED
      BY <1>1, <1>6, <2>1, <3>2 DEF Contract!Execute
  <2>2. CASE j \notin Jobs
    <3>1. runs' = runs
      BY <1>1, <1>2, <2>2
    <3> QED
      BY <1>1, <3>1
  <2> QED
    BY <2>1, <2>2
<1> QED
  BY <1>9, <1>10, <1>11, <1>12, <1>13 DEF JobInv

\* The result of a job has come, and the head of the queue takes the place it had.
LEMMA TakeDoneJobs ==
  ASSUME JobInv, IInv', NEW i \in Slots, TakeDone(i)
  PROVE  JobInv' /\ (UNCHANGED <<state, runs>> \/ \E h \in Jobs : Contract!Answer(h))
<1> DEFINE j == Head(outbox[i]).job
           r == Freed(slot[i], j)
           started == r.pending \ (slot[i].pending \ {j})
           next == CHOOSE k \in started : TRUE
           m == Message("job", next)
           heard == j \in slot[i].pending
           open == state[j] = "accepted"
<1>1. /\ outbox[i] # <<>> /\ Head(outbox[i]).type = "done"
      /\ outbox' = [outbox EXCEPT ![i] = Tail(@)] /\ UNCHANGED <<worker, runs>>
  BY DEF TakeDone
<1>2. /\ slot' = [slot EXCEPT ![i] = r]
      /\ inbox' = [inbox EXCEPT ![i] = IF started = {} THEN @ ELSE Deliver(i, m)]
      /\ state' = [state EXCEPT ![j] = IF heard /\ open THEN "answered" ELSE @]
  BY DEF TakeDone
<1>3. /\ Typed /\ state \in [Jobs -> States] /\ runs \in [Jobs -> Nat]
      /\ Token(i) /\ outbox[i] \in Seq(Messages) /\ inbox[i] \in Seq(Messages)
      /\ slot[i] \in SlotStates /\ Ran(outbox[i], runs)
  BY JobOf, SlotOf DEF JobInv, JobsTyped
<1>4. j \in Jobs /\ runs[j] = 1 /\ Ran(Tail(outbox[i]), runs)
  BY <1>1, <1>3, RanTail
<1>5. Free(inbox[i], "job")
  <2>1. ~Free(outbox[i], "done")
    BY <1>1, <1>3, TailLeaves
  <2> QED
    BY <1>3, <2>1 DEF Token
<1> HIDE DEF j
\* What is started was the head of the queue.
<1>6. \/ r.queue = slot[i].queue /\ started = {} /\ slot[i].queue = <<>>
      \/ /\ slot[i].queue # <<>> /\ r.queue = Tail(slot[i].queue)
         /\ started = {} \/ next = Head(slot[i].queue)
  <2> DEFINE free == [slot[i] EXCEPT !.busy = FALSE, !.pending = @ \ {j}]
  <2>1. /\ free \in SlotStates /\ free.pending = slot[i].pending \ {j}
        /\ free.queue = slot[i].queue /\ slot[i].queue \in Seq(Jobs)
    BY <1>3 DEF SlotStates
  <2>2. CASE slot[i].queue = <<>>
    <3>1. r = free
      BY <2>2 DEF Freed
    <3> QED
      BY <2>1, <2>2, <3>1
  <2>3. CASE slot[i].queue # <<>>
    <3> DEFINE rest == Tail(slot[i].queue)
               first == Head(slot[i].queue)
               short == [free EXCEPT !.queue = rest]
    <3>1. rest \in Seq(Jobs) /\ first \in Jobs
      BY <2>1, <2>3
    <3>2. r = Occupied(short, first)
      BY <2>1, <2>3 DEF Freed
    <3> HIDE DEF free, rest, first, r
    <3>3. short \in SlotStates /\ short.queue = rest /\ short.pending = slot[i].pending \ {j}
      BY <2>1, <3>1 DEF SlotStates
    <3> HIDE DEF short
    <3>4. r.queue = rest /\ r.pending = (slot[i].pending \ {j}) \cup {first}
      BY <3>1, <3>2, <3>3 DEF Occupied, SlotStates
    <3>5. started \subseteq {first}
      BY <3>4
    <3> HIDE DEF started
    <3>6. started = {} \/ next = first
      BY <3>5
    <3> QED
      BY <2>3, <3>4, <3>6 DEF rest, first
  <2> QED
    BY <2>2, <2>3
<1> HIDE DEF r, started, next
\* Every place of the slot moves up by one.
<1>7. ASSUME NEW p \in Nat, NEW h \in Jobs, Waits(i, p, h)'
      PROVE  slot[i].queue # <<>> /\ Waits(i, p + 1, h)
  <2>1. slot'[i] = r /\ inbox'[i] = IF started = {} THEN inbox[i] ELSE Deliver(i, m)
    BY <1>2, <1>3 DEF Typed
  <2>2. ~Has(inbox[i], h)
    BY <1>5, NoneFree
  <2>3. slot[i].queue \in Seq(Jobs)
    BY <1>3 DEF SlotStates
  <2>4. CASE p = 0 /\ Has(inbox'[i], h)
    <3>1. started # {} /\ Has(Deliver(i, m), h)
      BY <2>1, <2>2, <2>4
    <3>2. slot[i].queue # <<>> /\ next = Head(slot[i].queue)
      BY <1>6, <3>1
    <3>3. next \in Jobs /\ next = slot[i].queue[1] /\ Len(slot[i].queue) \in Nat /\ Len(slot[i].queue) > 0
      BY <2>3, <3>2
    <3>4. m \in Messages /\ m.job = next
      BY <3>3, MessageIs
    <3> HIDE DEF m
    <3>5. h = next
      BY <1>3, <2>2, <3>1, <3>4, HasDelivered
    <3> QED
      BY <2>4, <3>2, <3>3, <3>5 DEF Waits
  <2>5. CASE p \in 1 .. Len(slot'[i].queue) /\ slot'[i].queue[p] = h
    <3>1. slot[i].queue # <<>> /\ r.queue = Tail(slot[i].queue)
      BY <1>6, <2>1, <2>3, <2>5
    <3> DEFINE rest == Tail(slot[i].queue)
    <3>2. /\ Len(slot[i].queue) \in Nat /\ Len(rest) = Len(slot[i].queue) - 1
          /\ \A q \in 1 .. Len(rest) : rest[q] = slot[i].queue[q + 1] /\ q + 1 \in 1 .. Len(slot[i].queue)
      BY <2>3, <3>1
    <3> HIDE DEF rest
    <3>3. p \in 1 .. Len(rest) /\ rest[p] = h
      BY <2>1, <2>5, <3>1 DEF rest
    <3> QED
      BY <3>1, <3>2, <3>3 DEF Waits
  <2> QED
    BY <1>7, <2>4, <2>5 DEF Waits
<1>8. ASSUME NEW k \in Slots, k # i, NEW p \in Nat, NEW h \in Jobs, Waits(k, p, h)'
      PROVE  Waits(k, p, h)
  <2>1. slot'[k] = slot[k] /\ inbox'[k] = inbox[k]
    BY <1>2, <1>3, <1>8 DEF Typed
  <2> QED
    BY <1>8, <2>1 DEF Waits
<1>9. \A p \in Nat : p + 1 \in Nat
  OBVIOUS
<1>10. \A h \in Jobs : state'[h] = state[h] \/ (h = j /\ state[h] = "accepted" /\ state'[h] = "answered")
  BY <1>2, <1>3, <1>4
<1>11. JobsTyped'
  <2>1. state' \in [Jobs -> States]
    BY <1>2, <1>3, <1>4 DEF States
  <2> QED
    BY <1>1, <1>3, <2>1 DEF JobsTyped
<1>12. WaitingOk'
  <2> SUFFICES ASSUME NEW k \in Slots, NEW p \in Nat, NEW h \in Jobs, Waits(k, p, h)'
               PROVE  runs'[h] = 0 /\ state'[h] \in {"accepted", "dropped"}
    BY DEF WaitingOk
  <2>1. \E q \in Nat : Waits(k, q, h)
    BY <1>7, <1>8, <1>9
  <2>2. runs[h] = 0 /\ state[h] \in {"accepted", "dropped"}
    BY <2>1 DEF JobInv, WaitingOk
  <2> QED
    BY <1>1, <1>4, <1>10, <2>2
<1>13. OnePlace'
  <2> SUFFICES ASSUME NEW k \in Slots, NEW l \in Slots, NEW p \in Nat, NEW q \in Nat, NEW h \in Jobs,
                      Waits(k, p, h)', Waits(l, q, h)'
               PROVE  k = l /\ p = q
    BY DEF OnePlace
  <2> DEFINE was(s, n) == IF s = i THEN n + 1 ELSE n
  <2>1. was(k, p) \in Nat /\ was(l, q) \in Nat /\ Waits(k, was(k, p), h) /\ Waits(l, was(l, q), h)
    BY <1>7, <1>8
  <2> HIDE DEF was
  <2>2. k = l /\ was(k, p) = was(l, q)
    BY <2>1 DEF JobInv, OnePlace
  <2> QED
    BY <2>2 DEF was
<1>14. RunOnce'
  <2>1. ASSUME NEW k \in Slots PROVE Ran(outbox'[k], runs)
    <3>1. outbox'[k] = outbox[k] \/ (k = i /\ outbox'[k] = Tail(outbox[i]))
      BY <1>1, <1>3 DEF Typed
    <3> QED
      BY <1>4, <3>1, JobOf
  <2> QED
    BY <1>1, <1>10, <2>1 DEF JobInv, RunOnce
<1>15. UNCHANGED <<state, runs>> \/ \E h \in Jobs : Contract!Answer(h)
  <2>1. CASE heard /\ open
    <3>1. state' = [state EXCEPT ![j] = "answered"]
      BY <1>2, <2>1
    <3> QED
      BY <1>1, <1>4, <2>1, <3>1 DEF Contract!Answer
  <2>2. CASE ~(heard /\ open)
    <3>1. state' = state
      BY <1>2, <1>3, <2>2
    <3> QED
      BY <1>1, <3>1
  <2> QED
    BY <2>1, <2>2
<1> QED
  BY <1>11, <1>12, <1>13, <1>14, <1>15 DEF JobInv

-----------------------------------------------------------------------------
(* The invariant and the refinement. *)

LEMMA InitiallyJobs == Init => JobInv /\ Contract!Init
<1> SUFFICES ASSUME Init PROVE JobInv /\ Contract!Init
  OBVIOUS
<1>1. /\ slot = [k \in Slots |-> FreshSlot] /\ inbox = [k \in Slots |-> <<>>]
      /\ outbox = [k \in Slots |-> <<>>]
      /\ worker = [k \in Slots |-> [alive |-> TRUE, running |-> {}]]
      /\ state = [j \in Jobs |-> "new"] /\ runs = [j \in Jobs |-> 0]
  BY DEF Init
<1>2. \A k \in Slots, p \in Nat, j \in Jobs : ~Waits(k, p, j)
  BY <1>1, HasNone DEF Waits, FreshSlot
<1>3. JobsTyped
  BY <1>1 DEF JobsTyped, States
<1>4. WaitingOk /\ OnePlace
  BY <1>2 DEF WaitingOk, OnePlace
<1>5. RunOnce
  BY <1>1, RanNone DEF RunOnce
<1> QED
  BY <1>1, <1>3, <1>4, <1>5, Initially DEF JobInv, Contract!Init

\* Every step keeps each job in one place, and is a step of the contract or none.
LEMMA JobSteps ==
  ASSUME JobInv, [Next]_vars
  PROVE  JobInv' /\ (Contract!Next \/ UNCHANGED <<state, runs>>)
<1> DEFINE Good == JobInv' /\ (Contract!Next \/ UNCHANGED <<state, runs>>)
<1>i. IInv'
  BY Invariance DEF JobInv
<1>1. ASSUME NEW j \in Jobs, Submit(j) PROVE Good
  <2>1. Contract!Accept(j)
    BY <1>1 DEF Submit, Contract!Accept
  <2> QED
    BY <1>i, <1>1, <2>1, SubmitJobs DEF Contract!Next
<1>2. ASSUME NEW i \in Slots, TakeJob(i) PROVE Good
  BY <1>i, <1>2, TakeJobJobs DEF Contract!Next
<1>3. ASSUME NEW i \in Slots, TakeDone(i) PROVE Good
  BY <1>i, <1>3, TakeDoneJobs DEF Contract!Next
\* Losing its sockets is all that is seen of a failure.
<1>d. ASSUME LoseSockets, UNCHANGED runs PROVE Contract!Next
  <2>1. Contract!Drop(Unanswered) /\ Unanswered \in SUBSET Jobs
    BY <1>d DEF LoseSockets, Unanswered, Contract!Drop
  <2> QED
    BY <2>1 DEF Contract!Next
<1>4. ASSUME NEW i \in Slots, TakeError(i) PROVE Good
  <2>1. UNCHANGED runs /\ (LoseSockets \/ UNCHANGED state)
    BY <1>4 DEF TakeError
  <2> QED
    BY <1>i, <1>4, <1>d, <2>1, ErrorJobs
<1>5. ASSUME Stop PROVE Good
  <2>1. UNCHANGED runs /\ LoseSockets
    BY <1>5 DEF Stop
  <2> QED
    BY <1>i, <1>5, <1>d, <2>1, StopJobs
<1>6. ASSUME Restart PROVE Good
  <2>1. UNCHANGED <<state, runs>> /\ FreshMemory
    BY <1>6 DEF Restart
  <2> QED
    BY <1>i, <2>1, FreshJobs
<1>7. ASSUME NEW i \in Slots, NEW j \in Jobs \cup {NoJob},
             \/ TakeRpcResult(i) \/ \E commits \in BOOLEAN : Transaction(i, j, commits)
             \/ CallCoordinator(i, j) \/ (j \in Jobs /\ Finish(i, j)) \/ TakeRpc(i) \/ RpcReturns(i, j)
             \/ Dies(i) \/ Exit(i)
      PROVE  Good
  <2>1. UNCHANGED <<state, runs>>
    BY <1>7 DEF TakeRpcResult, Transaction, CallCoordinator, Finish, TakeRpc, RpcReturns, Dies, Exit
  <2> QED
    BY <1>i, <1>7, <2>1, QuietJobs
<1>8. ASSUME UNCHANGED vars PROVE Good
  BY <1>i, <1>8 DEF vars, JobInv, JobsTyped, WaitingOk, OnePlace, RunOnce, Waits
<1>9. ASSUME NEW i \in Slots, WorkerStep(i) PROVE Good
  <2>1. CASE TakeJob(i)
    BY <1>2, <2>1
  <2>2. CASE TakeRpcResult(i)
    BY <1>7, <2>2
  <2>3. ASSUME NEW j \in Jobs,
               (\E commits \in BOOLEAN : Transaction(i, j, commits))
                  \/ CallCoordinator(i, j) \/ Finish(i, j)
        PROVE  Good
    BY <1>7, <2>3
  <2> HIDE DEF Good
  <2> QED
    BY <1>9, <2>1, <2>2, <2>3 DEF WorkerStep
<1>10. ASSUME NEW i \in Slots, CoordinatorStep(i) PROVE Good
  <2>1. CASE TakeRpc(i)
    BY <1>7, <2>1
  <2>2. ASSUME NEW j \in Jobs, RpcReturns(i, j) PROVE Good
    BY <1>7, <2>2
  <2> HIDE DEF Good
  <2> QED
    BY <1>3, <1>4, <1>10, <2>1, <2>2 DEF CoordinatorStep
<1>11. ASSUME Failure PROVE Good
  <2>1. ASSUME NEW i \in Slots, Dies(i) \/ Exit(i) PROVE Good
    BY <1>7, <2>1
  <2> HIDE DEF Good
  <2> QED
    BY <1>5, <1>6, <1>11, <2>1 DEF Failure
<1> HIDE DEF Good
<1>12. Good
  BY <1>1, <1>8, <1>9, <1>10, <1>11 DEF Next
<1> QED
  BY <1>12 DEF Good

\* A frame is executed at most once, answered at most once and never before it ran,
\* however many workers there are and whichever of them die, and also if the process is
\* stopped and started: a job waits in one place and leaves it when it begins.
THEOREM PoolImplementsContract == Spec => ImplementsContract
<1>1. Init => JobInv /\ Contract!Init
  BY InitiallyJobs
<1>2. JobInv /\ [Next]_vars => JobInv' /\ [Contract!Next]_(Contract!vars)
  BY JobSteps DEF Contract!vars
<1> QED
  BY <1>1, <1>2, PTL DEF Spec, ImplementsContract, Contract!Spec

-----------------------------------------------------------------------------
(***************************************************************************)
(* What is written is announced: a slot keeps every job that its worker    *)
(* has, or that its worker has ended, in its pending map.                  *)
(***************************************************************************)
Done(s, j) == \E p \in 1 .. Len(s) : s[p] = Message("done", j)

\* Worker and channels of slot i have job j.
Holds(i, j) == Has(inbox[i], j) \/ j \in worker[i].running \/ Done(outbox[i], j)

\* The coordinator will hear of job j, or has been told that its worker died.
Known(i, j) == /\ j \in slot[i].pending
               /\ j \in worker[i].running \/ Done(outbox[i], j) \/ ~worker[i].alive

PendingOk == \A i \in Slots, j \in Jobs : Holds(i, j) => j \in slot[i].pending

ClosingOk == process = "closing" => \A j \in Jobs : state[j] # "accepted"

WrittenOk == \A j \in written : j \in Jobs /\ runs[j] = 1

Announced == \A j \in written : state[j] = "accepted" => \E i \in Slots : Known(i, j)

KnownInv == JobInv /\ PendingOk /\ ClosingOk /\ WrittenOk /\ Announced

LEMMA DoneAppend ==
  ASSUME NEW s \in Seq(Messages), NEW m \in Messages, NEW j
  PROVE  Done(Append(s, m), j) <=> Done(s, j) \/ m = Message("done", j)
<1> DEFINE r == Append(s, m)
           d == Message("done", j)
<1>1. /\ Len(s) \in Nat /\ Len(r) = Len(s) + 1
      /\ r[Len(s) + 1] = m /\ \A p \in 1 .. Len(s) : r[p] = s[p]
  OBVIOUS
<1> HIDE DEF r, d
<1>2. (\E p \in 1 .. Len(r) : r[p] = d) <=> (\E p \in 1 .. Len(s) : s[p] = d) \/ m = d
  <2>1. ASSUME NEW p \in 1 .. Len(r), r[p] = d PROVE (\E q \in 1 .. Len(s) : s[q] = d) \/ m = d
    BY <1>1, <2>1
  <2>2. ASSUME NEW p \in 1 .. Len(s), s[p] = d PROVE \E q \in 1 .. Len(r) : r[q] = d
    <3>1. p \in 1 .. Len(r) /\ r[p] = d
      BY <1>1, <2>2
    <3> QED
      BY <3>1
  <2>3. ASSUME m = d PROVE \E q \in 1 .. Len(r) : r[q] = d
    <3>1. Len(r) \in 1 .. Len(r) /\ r[Len(r)] = d
      BY <1>1, <2>3
    <3> QED
      BY <3>1
  <2> QED
    BY <2>1, <2>2, <2>3
<1> QED
  BY <1>2 DEF Done, r, d

LEMMA DoneTail ==
  ASSUME NEW s \in Seq(Messages), s # <<>>, NEW j
  PROVE  /\ Done(Tail(s), j) => Done(s, j)
         /\ Done(s, j) => Done(Tail(s), j) \/ Head(s) = Message("done", j)
<1> DEFINE r == Tail(s)
           d == Message("done", j)
<1>1. /\ Len(s) \in Nat /\ Len(s) > 0 /\ Len(r) = Len(s) - 1 /\ Head(s) = s[1]
      /\ \A p \in 1 .. Len(r) : r[p] = s[p + 1] /\ p + 1 \in 1 .. Len(s)
  OBVIOUS
<1> HIDE DEF r, d
<1>2. ASSUME NEW p \in 1 .. Len(r), r[p] = d PROVE \E q \in 1 .. Len(s) : s[q] = d
  BY <1>1, <1>2
<1>3. ASSUME NEW p \in 1 .. Len(s), s[p] = d
      PROVE  (\E q \in 1 .. Len(r) : r[q] = d) \/ Head(s) = d
  <2>1. CASE p = 1
    BY <1>1, <1>3, <2>1
  <2>2. CASE p # 1
    <3>1. p - 1 \in 1 .. Len(r) /\ r[p - 1] = s[(p - 1) + 1] /\ (p - 1) + 1 = p
      BY <1>1, <2>2
    <3>2. r[p - 1] = d
      BY <1>3, <3>1
    <3> QED
      BY <3>1, <3>2
  <2> QED
    BY <2>1, <2>2
<1> QED
  BY <1>2, <1>3 DEF Done, r, d

LEMMA DoneNone ==
  ASSUME NEW s, NEW j
  PROVE  (s = <<>> => ~Done(s, j)) /\ (Free(s, "done") => ~Done(s, j))
<1>1. Message("done", j).type = "done"
  BY DEF Message
<1> QED
  BY <1>1 DEF Done, Free

\* A place that a done message came from is the message of its job.
LEMMA DoneIs ==
  ASSUME NEW m \in Messages, m.type = "done" PROVE m = Message("done", m.job)
  BY DEF Messages, Message

LEMMA KnownOf ==
  ASSUME KnownInv, NEW i \in Slots
  PROVE  /\ Typed /\ Token(i) /\ slot[i] \in SlotStates /\ worker[i] \in Work
         /\ inbox[i] \in Seq(Messages) /\ outbox[i] \in Seq(Messages)
  BY JobOf, SlotOf DEF KnownInv
-----------------------------------------------------------------------------

LEMMA SubmitKnown == ASSUME KnownInv, JobInv', NEW j \in Jobs, Submit(j) PROVE KnownInv'
<1> DEFINE i == Chosen
<1>1. /\ UNCHANGED <<outbox, worker, runs, written, process>> /\ state[j] = "new" /\ process = "up"
      /\ state' = [state EXCEPT ![j] = "accepted"]
  BY DEF Submit
<1>2. j \notin written
  BY <1>1 DEF KnownInv, WrittenOk, JobInv, RunOnce
<1>3. \A h \in Jobs : h # j => state'[h] = state[h]
  BY <1>1 DEF KnownInv, JobInv, JobsTyped
<1>4. ASSUME NEW k \in Slots
      PROVE  /\ slot[k].pending \subseteq slot'[k].pending
             /\ \A h \in Jobs : Has(inbox'[k], h) => Has(inbox[k], h) \/ h \in slot'[k].pending
  <2>1. CASE slot[i].busy
    <3>1. slot' = [slot EXCEPT ![i].queue = Append(@, j)] /\ inbox' = inbox
      BY <2>1 DEF Submit
    <3> HIDE DEF i
    <3>2. slot'[k].pending = slot[k].pending
      BY <3>1, KnownOf DEF Typed, SlotStates
    <3> QED
      BY <3>1, <3>2
  <2>2. CASE ~slot[i].busy
    <3> DEFINE m == Message("job", j)
    <3>1. /\ slot' = [slot EXCEPT ![i] = Occupied(@, j)]
          /\ inbox' = [inbox EXCEPT ![i] = Deliver(i, m)]
      BY <2>2 DEF Submit
    <3>2. m \in Messages /\ m.job = j
      BY MessageIs
    <3> HIDE DEF i, m
    <3>3. slot[k].pending \subseteq slot'[k].pending /\ (k = i => j \in slot'[k].pending)
      BY <3>1, KnownOf DEF Occupied, Typed, SlotStates
    <3>4. inbox'[k] = inbox[k] \/ (k = i /\ inbox'[k] = Deliver(k, m))
      BY <3>1, KnownOf DEF Typed
    <3> QED
      BY <3>2, <3>3, <3>4, KnownOf, HasDelivered
  <2> QED
    BY <2>1, <2>2
<1>5. PendingOk'
  BY <1>1, <1>4 DEF KnownInv, PendingOk, Holds
<1>6. ClosingOk' /\ WrittenOk'
  BY <1>1 DEF KnownInv, ClosingOk, WrittenOk
<1>7. Announced'
  BY <1>1, <1>2, <1>3, <1>4 DEF KnownInv, Announced, Known, WrittenOk
<1> QED
  BY <1>5, <1>6, <1>7 DEF KnownInv

LEMMA TakeJobKnown == ASSUME KnownInv, JobInv', NEW i \in Slots, TakeJob(i) PROVE KnownInv'
<1> DEFINE j == Head(inbox[i]).job
           w == [worker[i] EXCEPT !.running = @ \cup {j}]
<1>1. /\ inbox[i] # <<>> /\ Head(inbox[i]).type = "job"
      /\ UNCHANGED <<slot, outbox, state, written, process>>
      /\ worker' = [worker EXCEPT ![i] = w]
      /\ inbox' = [inbox EXCEPT ![i] = Tail(@)]
      /\ runs' = [runs EXCEPT ![j] = @ + 1]
  BY DEF TakeJob
<1>2. Has(inbox[i], j)
  BY <1>1, KnownOf, HasTail
<1> HIDE DEF j
<1>3. w.running = worker[i].running \cup {j} /\ w.alive = worker[i].alive
  BY KnownOf DEF Work
<1> HIDE DEF w
<1>4. ASSUME NEW k \in Slots
      PROVE  /\ worker[k].running \subseteq worker'[k].running
             /\ worker'[k].alive = worker[k].alive
             /\ \A h \in Jobs : Holds(k, h)' => Holds(k, h)
  <2>1. CASE k = i
    <3>1. worker'[k] = w /\ inbox'[k] = Tail(inbox[k])
      BY <1>1, <2>1, KnownOf DEF Typed
    <3>2. \A h \in Jobs : Has(Tail(inbox[k]), h) => Has(inbox[k], h)
      BY <1>1, <2>1, KnownOf, HasTail
    <3> QED
      BY <1>1, <1>2, <1>3, <2>1, <3>1, <3>2 DEF Holds
  <2>2. CASE k # i
    <3>1. worker'[k] = worker[k] /\ inbox'[k] = inbox[k]
      BY <1>1, <2>2, KnownOf DEF Typed
    <3> QED
      BY <1>1, <3>1 DEF Holds
  <2> QED
    BY <2>1, <2>2
<1>5. PendingOk'
  BY <1>1, <1>4 DEF KnownInv, PendingOk
<1>6. ClosingOk'
  BY <1>1 DEF KnownInv, ClosingOk
<1>7. WrittenOk'
  <2> SUFFICES ASSUME NEW h \in written PROVE h \in Jobs /\ runs'[h] = 1
    BY <1>1 DEF WrittenOk
  <2>1. h \in Jobs /\ runs[h] = 1
    BY DEF KnownInv, WrittenOk
  <2>2. h # j
    <3>1. Waits(i, 0, j)
      BY <1>2 DEF Waits
    <3> QED
      BY <2>1, <3>1 DEF KnownInv, JobInv, WaitingOk
  <2> QED
    BY <1>1, <2>1, <2>2 DEF KnownInv, JobInv, JobsTyped
<1>8. Announced'
  BY <1>1, <1>4 DEF KnownInv, Announced, Known
<1> QED
  BY <1>5, <1>6, <1>7, <1>8 DEF KnownInv

\* Steps after which the coordinator knows of whatever it knew of: they take nothing out
\* of a pending map, and what they take from a worker they put into its channel.
LEMMA QuietKnown ==
  ASSUME KnownInv, JobInv', UNCHANGED <<runs, state, process>>,
         \A i \in Slots : slot'[i].pending = slot[i].pending,
         \A i \in Slots, j \in Jobs : Holds(i, j)' => Holds(i, j),
         \A i \in Slots, j \in Jobs : Known(i, j) => Known(i, j)' \/ process = "closing",
         \A j \in written' : j \in written \/ (j \in Jobs /\ \E i \in Slots : j \in worker'[i].running)
  PROVE  KnownInv'
<1>1. PendingOk'
  BY DEF KnownInv, PendingOk
<1>2. ClosingOk'
  BY DEF KnownInv, ClosingOk
<1>3. WrittenOk'
  BY DEF KnownInv, WrittenOk, JobInv, RunOnce
<1>4. Announced'
  <2> SUFFICES ASSUME NEW j \in written', state'[j] = "accepted" PROVE \E i \in Slots : Known(i, j)'
    BY DEF Announced
  <2>1. j \in Jobs /\ process # "closing"
    BY DEF KnownInv, WrittenOk, ClosingOk
  <2>2. CASE j \in written
    BY <2>1, <2>2 DEF KnownInv, Announced
  <2>3. CASE j \notin written
    <3>1. PICK i \in Slots : j \in worker'[i].running
      BY <2>3
    <3>2. j \in slot'[i].pending
      BY <1>1, <2>1, <3>1 DEF PendingOk, Holds
    <3> QED
      BY <3>1, <3>2 DEF Known
  <2> QED
    BY <2>2, <2>3
<1> QED
  BY <1>1, <1>2, <1>3, <1>4 DEF KnownInv

\* Steps that touch neither the worker nor what it has sent.
LEMMA InboxKnown ==
  ASSUME KnownInv, JobInv', NEW i \in Slots, NEW j \in Jobs \cup {NoJob},
         TakeRpcResult(i) \/ RpcReturns(i, j)
  PROVE  KnownInv'
<1>1. UNCHANGED <<runs, state, process, slot, outbox, worker, written>>
  BY DEF TakeRpcResult, RpcReturns
<1>2. ASSUME NEW k \in Slots, NEW h \in Jobs, Has(inbox'[k], h) PROVE Has(inbox[k], h)
  <2>1. CASE TakeRpcResult(i)
    <3>1. inbox'[k] = inbox[k] \/ (inbox[k] # <<>> /\ inbox'[k] = Tail(inbox[k]))
      BY <2>1, KnownOf DEF TakeRpcResult, Typed
    <3> QED
      BY <1>2, <3>1, KnownOf, HasTail
  <2>2. CASE RpcReturns(i, j)
    <3> DEFINE m == Message("rpc-result", j)
    <3>1. inbox'[k] = inbox[k] \/ inbox'[k] = Deliver(k, m)
      BY <2>2, KnownOf DEF RpcReturns, Typed
    <3>2. m \in Messages /\ m.type = "rpc-result"
      BY MessageIs
    <3> HIDE DEF m
    <3> QED
      BY <1>2, <3>1, <3>2, KnownOf, HasDelivered
  <2> QED
    BY <2>1, <2>2
<1>3. \A k \in Slots, h \in Jobs : (Holds(k, h)' => Holds(k, h)) /\ (Known(k, h) => Known(k, h)')
  BY <1>1, <1>2 DEF Holds, Known
<1> QED
  BY <1>1, <1>3, QuietKnown

LEMMA TransactionKnown ==
  ASSUME KnownInv, JobInv', NEW i \in Slots, NEW j \in Jobs, NEW commits \in BOOLEAN,
         Transaction(i, j, commits)
  PROVE  KnownInv'
<1>1. UNCHANGED <<runs, state, process, slot, inbox, outbox, worker>> /\ j \in worker[i].running
      /\ written' \subseteq written \cup {j}
  BY DEF Transaction, Running
<1>2. \A k \in Slots, h \in Jobs : (Holds(k, h)' => Holds(k, h)) /\ (Known(k, h) => Known(k, h)')
  BY <1>1 DEF Holds, Known
<1> QED
  BY <1>1, <1>2, QuietKnown

\* Posting a message that is not a result.
LEMMA PostKnown ==
  ASSUME KnownInv, JobInv', NEW i \in Slots, NEW m \in Messages, m.type # "done",
         UNCHANGED <<runs, state, process, slot, written>>,
         outbox' = [outbox EXCEPT ![i] = Append(@, m)],
         \A k \in Slots, h \in Jobs : Has(inbox'[k], h) => Has(inbox[k], h),
         \A k \in Slots : worker'[k] = worker[k]
            \/ (worker'[k].running = {} /\ ~worker'[k].alive)
  PROVE  KnownInv'
<1>1. ASSUME NEW k \in Slots, NEW h \in Jobs PROVE Done(outbox'[k], h) <=> Done(outbox[k], h)
  <2>1. outbox'[k] = outbox[k] \/ outbox'[k] = Append(outbox[k], m)
    BY KnownOf DEF Typed
  <2>2. m # Message("done", h)
    BY DEF Message
  <2> QED
    BY <2>1, <2>2, KnownOf, DoneAppend
<1>2. \A k \in Slots, h \in Jobs : (Holds(k, h)' => Holds(k, h)) /\ (Known(k, h) => Known(k, h)')
  BY <1>1 DEF Holds, Known
<1> QED
  BY <1>2, QuietKnown

LEMMA CallKnown ==
  ASSUME KnownInv, JobInv', NEW i \in Slots, NEW j \in Jobs, CallCoordinator(i, j) PROVE KnownInv'
<1> DEFINE m == Message("rpc", j)
<1>1. m \in Messages /\ m.type # "done"
  BY MessageIs
<1>2. /\ outbox' = [outbox EXCEPT ![i] = Append(@, m)]
      /\ UNCHANGED <<runs, state, process, slot, inbox, worker, written>>
  BY DEF CallCoordinator
<1> HIDE DEF m
<1> QED
  BY <1>1, <1>2, PostKnown

LEMMA GoneKnown ==
  ASSUME KnownInv, JobInv', NEW i \in Slots, Dies(i) \/ Exit(i) PROVE KnownInv'
<1> DEFINE w == [alive |-> FALSE, running |-> {}]
<1>1. /\ worker' = [worker EXCEPT ![i] = w] /\ inbox' = [inbox EXCEPT ![i] = <<>>]
      /\ UNCHANGED <<runs, state, process, slot, written>>
  BY DEF Dies, Exit
<1>2. w.running = {} /\ ~w.alive
  OBVIOUS
<1> HIDE DEF w
<1>3. ASSUME NEW k \in Slots
      PROVE  worker'[k] = worker[k] \/ (worker'[k].running = {} /\ ~worker'[k].alive)
  <2>1. worker'[k] = worker[k] \/ worker'[k] = w
    BY <1>1, KnownOf DEF Typed
  <2> QED
    BY <1>2, <2>1
<1>4. ASSUME NEW k \in Slots, NEW h \in Jobs, Has(inbox'[k], h) PROVE Has(inbox[k], h)
  <2>1. inbox'[k] = inbox[k] \/ inbox'[k] = <<>>
    BY <1>1, KnownOf DEF Typed
  <2> QED
    BY <1>4, <2>1, HasNone
<1>5. CASE Dies(i)
  <2>1. Message("error", NoJob) \in Messages /\ Message("error", NoJob).type = "error"
    BY MessageIs
  <2>2. outbox' = [outbox EXCEPT ![i] = Append(@, Message("error", NoJob))]
    BY <1>5 DEF Dies
  <2> QED
    BY <1>1, <1>3, <1>4, <2>1, <2>2, PostKnown
<1>6. CASE Exit(i)
  <2>1. UNCHANGED outbox
    BY <1>6 DEF Exit
  <2>2. \A k \in Slots, h \in Jobs : (Holds(k, h)' => Holds(k, h)) /\ (Known(k, h) => Known(k, h)')
    BY <1>1, <1>3, <1>4, <2>1 DEF Holds, Known
  <2> QED
    BY <1>1, <2>2, QuietKnown
<1> QED
  BY <1>5, <1>6

\* The job leaves its worker, and its result is on the way.
LEMMA FinishKnown ==
  ASSUME KnownInv, JobInv', NEW i \in Slots, NEW j \in Jobs, Finish(i, j) PROVE KnownInv'
<1> DEFINE m == Message("done", j)
           w == [worker[i] EXCEPT !.running = @ \ {j}]
<1>1. /\ j \in worker[i].running
      /\ worker' = [worker EXCEPT ![i] = w]
      /\ outbox' = [outbox EXCEPT ![i] = Append(@, m)]
      /\ UNCHANGED <<runs, state, process, slot, inbox, written>>
  BY DEF Finish, Running
<1>2. w.running = worker[i].running \ {j} /\ w.alive = worker[i].alive
  BY KnownOf DEF Work
<1>3. m \in Messages /\ \A h : m = Message("done", h) <=> h = j
  BY MessageIs DEF Message
<1> HIDE DEF m, w
<1>4. \A h : Done(Append(outbox[i], m), h) <=> Done(outbox[i], h) \/ h = j
  BY <1>3, KnownOf, DoneAppend
<1>5. ASSUME NEW k \in Slots, NEW h \in Jobs
      PROVE  (Holds(k, h)' => Holds(k, h)) /\ (Known(k, h) => Known(k, h)')
  <2>1. CASE k = i
    <3>1. worker'[k] = w /\ outbox'[k] = Append(outbox[k], m)
      BY <1>1, <2>1, KnownOf DEF Typed
    <3> QED
      BY <1>1, <1>2, <1>4, <2>1, <3>1 DEF Holds, Known
  <2>2. CASE k # i
    <3>1. worker'[k] = worker[k] /\ outbox'[k] = outbox[k]
      BY <1>1, <2>2, KnownOf DEF Typed
    <3> QED
      BY <1>1, <3>1 DEF Holds, Known
  <2> QED
    BY <2>1, <2>2
<1> QED
  BY <1>1, <1>5, QuietKnown

\* The coordinator takes a message that is no result.
LEMMA TailKnown ==
  ASSUME KnownInv, JobInv', NEW i \in Slots, outbox[i] # <<>>, Head(outbox[i]).type # "done",
         outbox' = [outbox EXCEPT ![i] = Tail(@)],
         UNCHANGED <<runs, state, process, slot, inbox, worker, written>>
  PROVE  KnownInv'
<1>1. ASSUME NEW k \in Slots, NEW h \in Jobs PROVE Done(outbox'[k], h) <=> Done(outbox[k], h)
  <2>1. outbox'[k] = outbox[k] \/ (k = i /\ outbox'[k] = Tail(outbox[k]))
    BY KnownOf DEF Typed
  <2>2. Head(outbox[i]) # Message("done", h)
    BY DEF Message
  <2> QED
    BY <2>1, <2>2, KnownOf, DoneTail
<1>2. \A k \in Slots, h \in Jobs : (Holds(k, h)' => Holds(k, h)) /\ (Known(k, h) => Known(k, h)')
  BY <1>1 DEF Holds, Known
<1> QED
  BY <1>2, QuietKnown

\* A process that starts its workers finds nobody waiting for an answer.
LEMMA FreshKnown ==
  ASSUME KnownInv, JobInv', FreshMemory, UNCHANGED <<runs, written>>,
         \A j \in Jobs : state'[j] # "accepted"
  PROVE  KnownInv'
<1>1. \A k \in Slots : inbox'[k] = <<>> /\ outbox'[k] = <<>> /\ worker'[k].running = {}
  BY DEF FreshMemory
<1>2. PendingOk'
  BY <1>1, HasNone, DoneNone DEF PendingOk, Holds
<1>3. ClosingOk' /\ WrittenOk' /\ Announced'
  BY DEF KnownInv, ClosingOk, WrittenOk, Announced
<1> QED
  BY <1>2, <1>3 DEF KnownInv

LEMMA NobodyWaits ==
  ASSUME LoseSockets PROVE \A j \in Jobs : state'[j] # "accepted"
  BY DEF LoseSockets, Unanswered

LEMMA ErrorKnown == ASSUME KnownInv, JobInv', NEW i \in Slots, TakeError(i) PROVE KnownInv'
<1>1. CASE slot[i].pending # {}
  BY <1>1, FreshKnown, NobodyWaits DEF TakeError
<1>2. CASE slot[i].pending = {}
  BY <1>2, TailKnown DEF TakeError
<1> QED
  BY <1>1, <1>2

LEMMA StopKnown == ASSUME KnownInv, JobInv', Stop PROVE KnownInv'
<1> DEFINE m == Message("shutdown", NoJob)
<1>1. /\ inbox' = [k \in Slots |-> Deliver(k, m)] /\ UNCHANGED <<slot, outbox, worker, runs, written>>
      /\ \A j \in Jobs : state'[j] # "accepted"
  BY NobodyWaits DEF Stop
<1>2. m \in Messages /\ m.type = "shutdown"
  BY MessageIs
<1> HIDE DEF m
<1>3. \A k \in Slots, j \in Jobs : Has(inbox'[k], j) => Has(inbox[k], j)
  BY <1>1, <1>2, KnownOf, HasDelivered
<1>4. PendingOk'
  BY <1>1, <1>3 DEF KnownInv, PendingOk, Holds
<1>5. ClosingOk' /\ WrittenOk' /\ Announced'
  BY <1>1 DEF KnownInv, ClosingOk, WrittenOk, Announced
<1> QED
  BY <1>4, <1>5 DEF KnownInv

\* Only the job whose result came leaves the pending map, and it is answered if
\* anybody waits.
LEMMA TakeDoneKnown == ASSUME KnownInv, JobInv', NEW i \in Slots, TakeDone(i) PROVE KnownInv'
<1> DEFINE j == Head(outbox[i]).job
           r == Freed(slot[i], j)
           started == r.pending \ (slot[i].pending \ {j})
           next == CHOOSE k \in started : TRUE
           m == Message("job", next)
<1>1. /\ outbox[i] # <<>> /\ Head(outbox[i]).type = "done"
      /\ outbox' = [outbox EXCEPT ![i] = Tail(@)] /\ UNCHANGED <<worker, runs, written, process>>
      /\ slot' = [slot EXCEPT ![i] = r]
      /\ inbox' = [inbox EXCEPT ![i] = IF started = {} THEN @ ELSE Deliver(i, m)]
      /\ state' = [state EXCEPT ![j] = IF j \in slot[i].pending /\ state[j] = "accepted"
                                       THEN "answered" ELSE @]
  BY DEF TakeDone
<1>2. /\ Head(outbox[i]) \in Messages /\ ~Free(outbox[i], "done") /\ Free(Tail(outbox[i]), "done")
  BY <1>1, KnownOf, TailLeaves DEF Token
<1>3. worker[i].running = {} /\ Free(inbox[i], "job")
  BY <1>2, KnownOf DEF Token
<1>4. Head(outbox[i]) = Message("done", j) /\ j \in Jobs
  <2>1. Ran(outbox[i], runs)
    BY JobOf DEF KnownInv
  <2> QED
    BY <1>1, <1>2, <2>1, KnownOf, RanTail, DoneIs
<1>5. j \in slot[i].pending
  <2>1. Done(outbox[i], j)
    <3>1. Len(outbox[i]) \in Nat /\ Len(outbox[i]) > 0 /\ outbox[i][1] = Head(outbox[i])
      BY <1>1, KnownOf
    <3>2. 1 \in 1 .. Len(outbox[i])
      BY <3>1
    <3> QED
      BY <1>4, <3>1, <3>2 DEF Done
  <2> QED
    BY <1>4, <2>1 DEF KnownInv, PendingOk, Holds
<1> HIDE DEF j
<1>6. slot[i].pending \ {j} \subseteq r.pending
  <2> DEFINE free == [slot[i] EXCEPT !.busy = FALSE, !.pending = @ \ {j}]
  <2>1. /\ free \in SlotStates /\ free.pending = slot[i].pending \ {j}
        /\ free.queue = slot[i].queue /\ slot[i].queue \in Seq(Jobs)
    BY KnownOf DEF SlotStates
  <2>2. CASE slot[i].queue = <<>>
    <3>1. r = free
      BY <2>2 DEF Freed
    <3> QED
      BY <2>1, <3>1
  <2>3. CASE slot[i].queue # <<>>
    <3> DEFINE rest == Tail(slot[i].queue)
               first == Head(slot[i].queue)
               short == [free EXCEPT !.queue = rest]
    <3>1. rest \in Seq(Jobs) /\ first \in Jobs
      BY <2>1, <2>3
    <3>2. r = Occupied(short, first)
      BY <2>1, <2>3 DEF Freed
    <3> HIDE DEF free, rest, first, r
    <3>3. short \in SlotStates /\ short.pending = slot[i].pending \ {j}
      BY <2>1, <3>1 DEF SlotStates
    <3> HIDE DEF short
    <3> QED
      BY <3>1, <3>2, <3>3 DEF Occupied, SlotStates
  <2> QED
    BY <2>2, <2>3
<1>7. started # {} => next \in r.pending
  BY DEF started, next
<1> HIDE DEF r, started, next
<1>8. ASSUME NEW k \in Slots, NEW h \in Jobs, Holds(k, h)' PROVE h \in slot'[k].pending
  <2>1. CASE k # i
    <3>1. slot'[k] = slot[k] /\ inbox'[k] = inbox[k] /\ outbox'[k] = outbox[k]
      BY <1>1, <2>1, KnownOf DEF Typed
    <3> QED
      BY <1>1, <1>8, <3>1 DEF Holds, KnownInv, PendingOk
  <2>2. CASE k = i
    <3>1. /\ slot'[k] = r /\ outbox'[k] = Tail(outbox[i])
          /\ inbox'[k] = IF started = {} THEN inbox[i] ELSE Deliver(i, m)
      BY <1>1, <2>2, KnownOf DEF Typed
    <3>2. ~Done(outbox'[k], h) /\ h \notin worker'[k].running /\ ~Has(inbox[i], h)
      BY <1>1, <1>2, <1>3, <2>2, <3>1, DoneNone, NoneFree
    <3>3. started # {} /\ Has(Deliver(i, m), h)
      BY <1>8, <3>1, <3>2 DEF Holds
    <3>4. h = next
      <4>1. m.type = "job" /\ m.job = next
        BY DEF Message
      <4>2. Deliver(i, m) = inbox[i] \/ Deliver(i, m) = Append(inbox[i], m)
        BY DEF Deliver
      <4>4. m \in Messages
        BY <1>7, <3>3, <3>1, <2>2, MessageIs DEF JobInv, IInv, Typed, SlotStates
      <4> HIDE DEF m
      <4>5. Has(Append(inbox[i], m), h)
        BY <3>2, <3>3, <4>2
      <4>6. Has(inbox[i], h) \/ (m.type = "job" /\ m.job = h)
        BY <4>4, <4>5, KnownOf, HasAppend
      <4> QED
        BY <3>2, <4>1, <4>6
    <3> QED
      BY <1>7, <3>1, <3>3, <3>4
  <2> QED
    BY <2>1, <2>2
<1>9. \A h \in Jobs : state'[h] = "accepted" => h # j /\ state[h] = "accepted"
  BY <1>1, <1>4, <1>5 DEF KnownInv, JobInv, JobsTyped
<1>10. ASSUME NEW k \in Slots, NEW h \in Jobs, h # j, Known(k, h) PROVE Known(k, h)'
  <2>1. CASE k # i
    <3>1. slot'[k] = slot[k] /\ outbox'[k] = outbox[k]
      BY <1>1, <2>1, KnownOf DEF Typed
    <3> QED
      BY <1>1, <1>10, <3>1 DEF Known
  <2>2. CASE k = i
    <3>1. slot'[k] = r /\ outbox'[k] = Tail(outbox[i])
      BY <1>1, <2>2, KnownOf DEF Typed
    <3>2. ~Done(outbox[i], h)
      <4>1. Head(outbox[i]) # Message("done", h)
        BY <1>4, <1>10 DEF Message
      <4>2. ~Done(Tail(outbox[i]), h)
        BY <1>2, DoneNone
      <4> QED
        BY <1>1, <4>1, <4>2, KnownOf, DoneTail
    <3> QED
      BY <1>1, <1>3, <1>6, <1>10, <2>2, <3>1, <3>2 DEF Known
  <2> QED
    BY <2>1, <2>2
<1>11. PendingOk'
  BY <1>8 DEF PendingOk
<1>12. ClosingOk' /\ WrittenOk'
  BY <1>1, <1>9 DEF KnownInv, ClosingOk, WrittenOk
<1>13. Announced'
  BY <1>1, <1>9, <1>10 DEF KnownInv, Announced, WrittenOk
<1> QED
  BY <1>11, <1>12, <1>13 DEF KnownInv

LEMMA InitiallyKnown == Init => KnownInv
<1> SUFFICES ASSUME Init PROVE KnownInv
  OBVIOUS
<1>1. \A k \in Slots : inbox[k] = <<>> /\ outbox[k] = <<>> /\ worker[k].running = {}
  BY DEF Init
<1>2. PendingOk
  BY <1>1, HasNone, DoneNone DEF PendingOk, Holds
<1>3. ClosingOk /\ WrittenOk /\ Announced
  BY DEF Init, ClosingOk, WrittenOk, Announced
<1> QED
  BY <1>2, <1>3, InitiallyJobs DEF KnownInv

LEMMA KnownSteps == ASSUME KnownInv, [Next]_vars PROVE KnownInv'
<1>i. JobInv'
  BY JobSteps DEF KnownInv
<1>1. ASSUME NEW i \in Slots, WorkerStep(i) PROVE KnownInv'
  <2>1. CASE TakeRpcResult(i)
    BY <1>i, <2>1, InboxKnown
  <2> QED
    BY <1>i, <1>1, <2>1, TakeJobKnown, TransactionKnown, CallKnown, FinishKnown DEF WorkerStep
<1>2. ASSUME NEW i \in Slots, CoordinatorStep(i) PROVE KnownInv'
  <2>1. ASSUME TakeRpc(i) PROVE KnownInv'
    BY <1>i, <2>1, TailKnown DEF TakeRpc
  <2>2. ASSUME NEW j \in Jobs, RpcReturns(i, j) PROVE KnownInv'
    BY <1>i, <2>2, InboxKnown
  <2> QED
    BY <1>i, <1>2, <2>1, <2>2, TakeDoneKnown, ErrorKnown DEF CoordinatorStep
<1>3. ASSUME Failure PROVE KnownInv'
  <2>1. ASSUME Restart PROVE KnownInv'
    <3>1. \A j \in Jobs : state'[j] # "accepted"
      BY <2>1 DEF Restart, KnownInv, ClosingOk
    <3> QED
      BY <1>i, <2>1, <3>1, FreshKnown DEF Restart
  <2> QED
    BY <1>i, <1>3, <2>1, GoneKnown, StopKnown DEF Failure
<1>4. ASSUME UNCHANGED vars PROVE KnownInv'
  BY <1>i, <1>4 DEF vars, KnownInv, PendingOk, ClosingOk, WrittenOk, Announced, Known, Holds
<1> QED
  BY <1>i, <1>1, <1>2, <1>3, <1>4, SubmitKnown DEF Next

\* What a job has committed while its session waits becomes known: until the answer
\* its slot keeps it pending, and it runs, its result is on the way, or its worker has died,
\* which ends the process and the wait.
THEOREM CommitsKnown == Spec => []CommitsAreAnnounced
<1>1. KnownInv => CommitsAreAnnounced
  <2> SUFFICES ASSUME KnownInv, NEW j \in written, state[j] = "accepted"
               PROVE  \E i \in Slots : /\ j \in slot[i].pending
                                       /\ \/ j \in worker[i].running
                                          \/ Message("done", j) \in ToSet(outbox[i])
                                          \/ ~worker[i].alive
    BY DEF CommitsAreAnnounced
  <2>1. PICK i \in Slots : Known(i, j)
    BY DEF KnownInv, Announced
  <2>2. Done(outbox[i], j) => Message("done", j) \in ToSet(outbox[i])
    BY KnownOf DEF Done, ToSet
  <2> QED
    BY <2>1, <2>2 DEF Known
<1> QED
  BY <1>1, InitiallyKnown, KnownSteps, PTL DEF Spec
=============================================================================
