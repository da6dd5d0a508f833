---------------------------- MODULE DesktopProofs ----------------------------
(***************************************************************************)
(* Proofs about components of the desktop and of a team: the floor of a     *)
(* collaboration, the sidebar, the composer, speech and the browser.  Each has *)
(* an inductive invariant, XInv, and three lemmas: it holds at the start    *)
(* (XStarts), every step keeps it (XKept), and it implies what the runs     *)
(* check (XInvSafe).  The theorems at the end put them together for         *)
(* MCDesktop; the workspace has proofs of its own (WorkspaceProofs).        *)
(***************************************************************************)
EXTENDS MCDesktop, SequenceTheorems, FiniteSetTheorems, TLAPS

-----------------------------------------------------------------------------
(* The floor of a team *)

TaskStatuses == {"draft", "running", "waiting_user", "failed", "stopped"}
MemberStates == {"idle", "queued", "ready", "running"}

TaskRows == [status : TaskStatuses, member : [Nodes -> MemberStates], queue : Seq(Nodes), count : Nat]

\* One member speaks at most, each one waits in one place, and past the limit
\* only the host runs.
Sound(t) ==
    /\ t \in TaskRows
    /\ \A i, j \in 1 .. Len(t.queue) : t.queue[i] = t.queue[j] => i = j
    /\ \A n \in Nodes : t.member[n] = "queued" => Contains(t.queue, n)
    /\ \A m, n \in Nodes : t.member[m] \in Speaking /\ t.member[n] \in Speaking => m = n
    /\ \A n \in Nodes \ {Host} : t.member[n] = "running" => t.count <= Limit

Spoken(t) == \E n \in Nodes : t.member[n] \in Speaking

Waits == {"idle", "load", "start", "reload", "recover", "node", "turn", "answer", "empty", "failed",
          "lost", "stopped", "handed", "complete", "completeEmpty", "fail", "done"}

RunsTyped ==
    /\ runs \in [Requests -> [at : Waits, speaker : Nodes, cancelled : BOOLEAN,
                              turn : {"none", "running", "interrupting", "handed"}]]
    /\ \A r \in Requests : runs[r].turn # "none" => runs[r].at = "turn"

CollaborationInv ==
    /\ Sound(task) /\ task.count \in 0 .. MaxTurns
    /\ task.status = "running" => Spoken(task)
    /\ RunsTyped
    /\ screen.request \in Requests \cup {NoRequest}
    /\ \A sent \in screen.sending : sent.to \in Nodes
    /\ DOMAIN screen = {"request", "runs", "shown", "sending", "stopping"}

\* What keeps a team's rows sound, step by step: state.py.
LEMMA QueueCleared ==
    ASSUME NEW t, Sound(t)
    PROVE  /\ Sound(ClearQueue(t)) /\ ClearQueue(t).status = t.status
           /\ ClearQueue(t).count = t.count
           /\ \A n \in Nodes : ClearQueue(t).member[n] # "queued"
           /\ \A n \in Nodes : ClearQueue(t).member[n] \in Speaking <=> t.member[n] \in Speaking
<1> DEFINE mem == [n \in Nodes |-> IF t.member[n] = "queued" THEN "idle" ELSE t.member[n]]
           u == ClearQueue(t)
<1>1. t \in TaskRows /\ t.member \in [Nodes -> MemberStates]
  BY DEF Sound, TaskRows
<1>2. /\ mem \in [Nodes -> MemberStates] /\ \A n \in Nodes : mem[n] # "queued"
      /\ \A n \in Nodes : mem[n] # "idle" => mem[n] = t.member[n]
      /\ \A n \in Nodes : t.member[n] \in Speaking => mem[n] = t.member[n]
  BY <1>1 DEF MemberStates, Speaking
<1>6. u = [t EXCEPT !.queue = <<>>, !.member = mem]
  BY <1>1 DEF ClearQueue
<1> HIDE DEF mem, u
<1>3. u \in TaskRows /\ u.queue = <<>> /\ u.member = mem /\ u.status = t.status /\ u.count = t.count
  <2> DEFINE none == <<>>
  <2>1. none \in Seq(Nodes)
    OBVIOUS
  <2>2. u = [t EXCEPT !.queue = none, !.member = mem]
    BY <1>6
  <2> HIDE DEF none
  <2>3. /\ u \in TaskRows /\ u.queue = none /\ u.member = mem /\ u.status = t.status
        /\ u.count = t.count
    BY <1>1, <1>2, <2>1, <2>2 DEF TaskRows
  <2> QED
    BY <2>3 DEF none
<1> HIDE DEF u
<1>4. \A n \in Nodes : u.member[n] \in Speaking <=> t.member[n] \in Speaking
  BY <1>2, <1>3 DEF Speaking
<1>5. Sound(u)
  <2>1. \A n \in Nodes : u.member[n] = "running" => t.member[n] = "running"
    BY <1>2, <1>3
  <2> QED
    BY <1>2, <1>3, <1>4, <2>1 DEF Sound
<1> QED
  BY <1>2, <1>3, <1>4, <1>5 DEF u

\* Placing a member in the queue q, one that holds it and every member of the old one.
LEMMA QueuePlaced ==
    ASSUME NEW t, Sound(t), NEW n \in Nodes, NEW q \in Seq(Nodes),
           \A i, j \in 1 .. Len(q) : q[i] = q[j] => i = j,
           \A m \in Nodes : Contains(t.queue, m) => Contains(q, m),
           Contains(q, n) \/ t.member[n] # "idle"
    PROVE  /\ Sound(Queued(t, n, q)) /\ Queued(t, n, q).status = t.status
           /\ Queued(t, n, q).count = t.count
           /\ \A m \in Nodes : Queued(t, n, q).member[m] \in Speaking <=> t.member[m] \in Speaking
<1> DEFINE u == Queued(t, n, q)
           mem == [t.member EXCEPT ![n] = IF @ = "idle" THEN "queued" ELSE @]
<1>1. t \in TaskRows /\ t.member \in [Nodes -> MemberStates]
  BY DEF Sound, TaskRows
<1>2. /\ mem \in [Nodes -> MemberStates]
      /\ \A m \in Nodes : mem[m] # t.member[m] => m = n /\ t.member[m] = "idle" /\ mem[m] = "queued"
  BY <1>1 DEF MemberStates
<1>3. u \in TaskRows /\ u.queue = q /\ u.member = mem /\ u.status = t.status /\ u.count = t.count
  BY <1>1, <1>2 DEF Queued, TaskRows
<1> HIDE DEF u, mem
<1>4. \A m \in Nodes : u.member[m] \in Speaking <=> t.member[m] \in Speaking
  BY <1>2, <1>3 DEF Speaking
<1>5. \A m \in Nodes : u.member[m] = "running" => t.member[m] = "running"
  BY <1>2, <1>3
<1>6. \A m \in Nodes : u.member[m] = "queued" => Contains(q, m)
  BY <1>2, <1>3 DEF Sound
<1> QED
  BY <1>3, <1>4, <1>5, <1>6 DEF u, Sound

LEMMA Enqueued ==
    ASSUME NEW t, Sound(t), NEW n \in Nodes
    PROVE  /\ Sound(Enqueue(t, n)) /\ Enqueue(t, n).status = t.status
           /\ Enqueue(t, n).count = t.count
           /\ \A m \in Nodes : Enqueue(t, n).member[m] \in Speaking <=> t.member[m] \in Speaking
<1> DEFINE added == t.member[n] # "ready" /\ ~Contains(t.queue, n)
           q == IF added THEN Append(t.queue, n) ELSE t.queue
<1>1. t.queue \in Seq(Nodes)
  BY DEF Sound, TaskRows
<1>2. CASE added
  <2>1. q = Append(t.queue, n) /\ q \in Seq(Nodes) /\ Len(q) = Len(t.queue) + 1
        /\ q[Len(t.queue) + 1] = n /\ \A i \in 1 .. Len(t.queue) : q[i] = t.queue[i]
    BY <1>1, <1>2, AppendProperties
  <2> HIDE DEF q
  <2>2. Len(t.queue) \in Nat
    BY <1>1, LenProperties
  <2>3. \A i, j \in 1 .. Len(q) : q[i] = q[j] => i = j
    <3> SUFFICES ASSUME NEW i \in 1 .. Len(q), NEW j \in 1 .. Len(q), q[i] = q[j] PROVE i = j
      OBVIOUS
    <3>1. \A k \in 1 .. Len(t.queue) : t.queue[k] # n
      BY <1>2 DEF Contains
    <3>2. CASE i \in 1 .. Len(t.queue) /\ j \in 1 .. Len(t.queue)
      BY <2>1, <3>2 DEF Sound
    <3>3. CASE i = Len(t.queue) + 1 \/ j = Len(t.queue) + 1
      BY <2>1, <2>2, <3>1, <3>3
    <3> QED
      BY <2>1, <2>2, <3>2, <3>3
  <2>4. \A m \in Nodes : Contains(t.queue, m) => Contains(q, m)
    BY <2>1, <2>2 DEF Contains
  <2>5. Contains(q, n)
    BY <2>1, <2>2 DEF Contains
  <2>6. Enqueue(t, n) = Queued(t, n, q)
    BY DEF Enqueue, q
  <2>8. q \in Seq(Nodes)
    BY <2>1
  <2>9. Contains(q, n) \/ t.member[n] # "idle"
    BY <2>5
  <2> HIDE DEF added
  <2>7. /\ Sound(Queued(t, n, q)) /\ Queued(t, n, q).status = t.status
        /\ Queued(t, n, q).count = t.count
        /\ \A m \in Nodes : Queued(t, n, q).member[m] \in Speaking <=> t.member[m] \in Speaking
    BY <2>8, <2>3, <2>4, <2>9, QueuePlaced
  <2> QED
    BY <2>6, <2>7
<1>3. CASE ~added
  <2>1. q = t.queue
    BY <1>3
  <2>2. Contains(q, n) \/ t.member[n] # "idle"
    BY <1>3, <2>1
  <2>3. Enqueue(t, n) = Queued(t, n, q)
    BY DEF Enqueue
  <2> HIDE DEF q, added
  <2>4. \A i, j \in 1 .. Len(q) : q[i] = q[j] => i = j
    BY <2>1 DEF Sound
  <2> QED
    BY <1>1, <2>1, <2>2, <2>3, <2>4, QueuePlaced
<1> QED
  BY <1>2, <1>3

LEMMA Removal ==
    ASSUME NEW S, NEW s \in Seq(S), NEW i \in 1 .. Len(s)
    PROVE  /\ RemoveAt(s, i) \in Seq(S) /\ Len(RemoveAt(s, i)) = Len(s) - 1
           /\ \A k \in 1 .. Len(s) - 1 : RemoveAt(s, i)[k] = s[IF k < i THEN k ELSE k + 1]
<1> DEFINE front == SubSeq(s, 1, i - 1)
           after == SubSeq(s, i + 1, Len(s))
<1>1. front \in Seq(S) /\ Len(front) = i - 1 /\ \A k \in 1 .. i - 1 : front[k] = s[k]
  OBVIOUS
<1>2. /\ after \in Seq(S) /\ Len(after) = Len(s) - i
      /\ \A k \in 1 .. Len(s) - i : after[k] = s[i + k]
  OBVIOUS
<1>3. RemoveAt(s, i) = front \o after
  BY DEF RemoveAt
<1> HIDE DEF front, after
<1>4. front \o after \in Seq(S) /\ Len(front \o after) = Len(s) - 1
  BY <1>1, <1>2
<1>5. ASSUME NEW k \in 1 .. Len(s) - 1
      PROVE  (front \o after)[k] = s[IF k < i THEN k ELSE k + 1]
  <2>1. (front \o after)[k] = IF k <= i - 1 THEN front[k] ELSE after[k - (i - 1)]
    BY <1>1, <1>2, <1>5, ConcatProperties
  <2> QED
    BY <1>1, <1>2, <1>5, <2>1
<1> QED
  BY <1>3, <1>4, <1>5

LEMMA WithoutOne ==
    ASSUME NEW q \in Seq(Nodes), NEW n \in Nodes,
           \A i, j \in 1 .. Len(q) : q[i] = q[j] => i = j
    PROVE  /\ Without(q, n) \in Seq(Nodes)
           /\ \A i, j \in 1 .. Len(Without(q, n)) : Without(q, n)[i] = Without(q, n)[j] => i = j
           /\ ~Contains(Without(q, n), n)
           /\ \A m \in Nodes \ {n} : Contains(q, m) => Contains(Without(q, n), m)
<1> DEFINE p == CHOOSE i \in DOMAIN q : q[i] = n
           w == RemoveAt(q, p)
<1>1. CASE Contains(q, n)
  <2>1. DOMAIN q = 1 .. Len(q) /\ Len(q) \in Nat
    BY LenProperties
  <2>2. p \in 1 .. Len(q) /\ q[p] = n
    BY <1>1, <2>1 DEF Contains
  <2> HIDE DEF p
  <2>3. /\ w \in Seq(Nodes) /\ Len(w) = Len(q) - 1
        /\ \A k \in 1 .. Len(q) - 1 : w[k] = q[IF k < p THEN k ELSE k + 1]
    BY <2>2, Removal
  <2>4. Without(q, n) = w
    BY <1>1 DEF Without, p
  <2> HIDE DEF w
  <2> DEFINE old(k) == IF k < p THEN k ELSE k + 1
  <2>8. \A k \in 1 .. Len(w) : old(k) \in 1 .. Len(q) /\ old(k) # p /\ w[k] = q[old(k)]
    BY <2>1, <2>2, <2>3
  <2>9. \A i, j \in 1 .. Len(w) : old(i) = old(j) => i = j
    BY <2>1, <2>2, <2>3
  <2> HIDE DEF old
  <2>5. \A i, j \in 1 .. Len(w) : w[i] = w[j] => i = j
    BY <2>8, <2>9
  <2>6. ~Contains(w, n)
    BY <2>2, <2>8 DEF Contains
  <2>7. \A m \in Nodes \ {n} : Contains(q, m) => Contains(w, m)
    <3> SUFFICES ASSUME NEW m \in Nodes \ {n}, NEW i \in 1 .. Len(q), q[i] = m
                 PROVE  \E k \in 1 .. Len(w) : w[k] = m
      BY DEF Contains
    <3>1. i # p
      BY <2>2
    <3>2. CASE i < p
      BY <2>1, <2>2, <2>3, <3>2
    <3>3. CASE i > p
      <4>1. i - 1 \in 1 .. Len(w) /\ ~(i - 1 < p) /\ (i - 1) + 1 = i
        BY <2>1, <2>2, <2>3, <3>3
      <4> QED
        BY <2>3, <4>1
    <3> QED
      BY <2>1, <2>2, <3>1, <3>2, <3>3
  <2> QED
    BY <2>3, <2>4, <2>5, <2>6, <2>7
<1>2. CASE ~Contains(q, n)
  BY <1>2 DEF Without
<1> QED
  BY <1>1, <1>2

LEMMA EnqueuedFirst ==
    ASSUME NEW t, Sound(t), NEW n \in Nodes
    PROVE  /\ Sound(EnqueueFront(t, n)) /\ EnqueueFront(t, n).status = t.status
           /\ EnqueueFront(t, n).count = t.count
           /\ \A m \in Nodes : EnqueueFront(t, n).member[m] \in Speaking <=> t.member[m] \in Speaking
<1> DEFINE w == Without(t.queue, n)
           q == <<n>> \o w
<1>1. t.queue \in Seq(Nodes) /\ \A i, j \in 1 .. Len(t.queue) : t.queue[i] = t.queue[j] => i = j
  BY DEF Sound, TaskRows
<1>2. /\ w \in Seq(Nodes) /\ \A i, j \in 1 .. Len(w) : w[i] = w[j] => i = j
      /\ ~Contains(w, n)
      /\ \A m \in Nodes \ {n} : Contains(t.queue, m) => Contains(w, m)
  BY <1>1, WithoutOne
<1> HIDE DEF w
<1>3. /\ q \in Seq(Nodes) /\ Len(q) = Len(w) + 1 /\ q[1] = n
      /\ \A k \in 1 .. Len(w) : q[k + 1] = w[k]
      /\ Len(w) \in Nat
  <2>1. <<n>> \in Seq(Nodes) /\ Len(<<n>>) = 1 /\ <<n>>[1] = n
    OBVIOUS
  <2> QED
    BY <1>2, <2>1, ConcatProperties, LenProperties
<1>4. \A i \in 1 .. Len(q) : i # 1 => i - 1 \in 1 .. Len(w) /\ q[i] = w[i - 1]
  <2> SUFFICES ASSUME NEW i \in 1 .. Len(q), i # 1 PROVE i - 1 \in 1 .. Len(w) /\ q[i] = w[i - 1]
    OBVIOUS
  <2>1. i - 1 \in 1 .. Len(w) /\ (i - 1) + 1 = i
    BY <1>3
  <2> QED
    BY <1>3, <2>1
<1> HIDE DEF q
<1>5. \A i \in 1 .. Len(w) : w[i] # n
  BY <1>2 DEF Contains
<1>6. \A i, j \in 1 .. Len(q) : q[i] = q[j] => i = j
  <2> SUFFICES ASSUME NEW i \in 1 .. Len(q), NEW j \in 1 .. Len(q), q[i] = q[j] PROVE i = j
    OBVIOUS
  <2>1. CASE i = 1 \/ j = 1
    BY <1>3, <1>4, <1>5, <2>1
  <2>2. CASE i # 1 /\ j # 1
    <3>1. i - 1 = j - 1
      BY <1>2, <1>4, <2>2
    <3> QED
      BY <1>3, <3>1
  <2> QED
    BY <2>1, <2>2
<1>7. Contains(q, n)
  BY <1>3 DEF Contains
<1>8. \A m \in Nodes : Contains(t.queue, m) => Contains(q, m)
  <2> SUFFICES ASSUME NEW m \in Nodes \ {n}, Contains(w, m) PROVE Contains(q, m)
    BY <1>2, <1>7
  <2>1. PICK k \in 1 .. Len(w) : w[k] = m
    BY DEF Contains
  <2>2. k + 1 \in 1 .. Len(q) /\ q[k + 1] = m
    BY <1>3, <2>1
  <2> QED
    BY <2>2 DEF Contains
<1>9. EnqueueFront(t, n) = Queued(t, n, q)
  BY DEF EnqueueFront, q, w
<1> QED
  BY <1>3, <1>6, <1>7, <1>8, <1>9, QueuePlaced

\* The first of the queue, or the host, gets the floor if nobody has it.
LEMMA Activated ==
    ASSUME NEW t, Sound(t)
    PROVE  /\ Sound(ActivateNext(t)) /\ Spoken(ActivateNext(t))
           /\ ActivateNext(t).status = t.status /\ ActivateNext(t).count = t.count
<1> DEFINE u == ActivateNext(t)
<1>1. /\ t \in TaskRows /\ t.member \in [Nodes -> MemberStates] /\ t.queue \in Seq(Nodes)
      /\ Host \in Nodes
  BY CollaborationConstants DEF Sound, TaskRows
<1>2. CASE Speakers(t) # {}
  BY <1>2 DEF ActivateNext, Speakers, Spoken
<1>3. CASE Speakers(t) = {}
  <2> DEFINE s == IF t.queue = <<>> THEN Host ELSE Head(t.queue)
             q == IF t.queue = <<>> THEN <<>> ELSE Tail(t.queue)
             mem == [t.member EXCEPT ![s] = "ready"]
  <2>1. s \in Nodes /\ q \in Seq(Nodes)
    BY <1>1, HeadTailProperties
  <2>2. \A n \in Nodes : t.member[n] \notin Speaking
    BY <1>3 DEF Speakers
  <2>3. u = [t EXCEPT !.queue = q, !.member[s] = "ready"]
    <3>1. CASE t.queue = <<>>
      <4>1. [t EXCEPT !.queue = q, !.member[s] = "ready"] = [t EXCEPT !.member[Host] = "ready"]
        BY <1>1, <3>1 DEF TaskRows
      <4> QED
        BY <1>3, <3>1, <4>1 DEF ActivateNext
    <3>2. CASE t.queue # <<>>
      BY <1>3, <3>2 DEF ActivateNext
    <3> QED
      BY <3>1, <3>2
  <2> HIDE DEF s
  <2>4. mem \in [Nodes -> MemberStates] /\ mem[s] = "ready" /\ \A n \in Nodes \ {s} : mem[n] = t.member[n]
    BY <1>1, <2>1 DEF MemberStates
  <2>5. u \in TaskRows /\ u.queue = q /\ u.member = mem /\ u.status = t.status /\ u.count = t.count
    BY <1>1, <2>1, <2>3, <2>4 DEF TaskRows
  <2> HIDE DEF u, mem
  <2>6. \A i, j \in 1 .. Len(q) : q[i] = q[j] => i = j
    <3>1. CASE t.queue = <<>>
      BY <3>1
    <3>2. CASE t.queue # <<>>
      <4>1. Len(q) = Len(t.queue) - 1 /\ Len(t.queue) \in Nat /\ \A i \in 1 .. Len(q) : q[i] = t.queue[i + 1]
        BY <1>1, <3>2, HeadTailProperties, LenProperties
      <4> SUFFICES ASSUME NEW i \in 1 .. Len(q), NEW j \in 1 .. Len(q), q[i] = q[j] PROVE i = j
        OBVIOUS
      <4>2. i + 1 \in 1 .. Len(t.queue) /\ j + 1 \in 1 .. Len(t.queue) /\ t.queue[i + 1] = t.queue[j + 1]
        BY <4>1
      <4>3. i + 1 = j + 1
        BY <4>2 DEF Sound
      <4> QED
        BY <4>1, <4>3
    <3> QED
      BY <3>1, <3>2
  <2>7. \A n \in Nodes : u.member[n] = "queued" => Contains(q, n)
    <3> SUFFICES ASSUME NEW n \in Nodes \ {s}, t.member[n] = "queued" PROVE Contains(q, n)
      BY <2>4, <2>5
    <3>1. PICK i \in 1 .. Len(t.queue) : t.queue[i] = n
      BY DEF Sound, Contains
    <3>2. t.queue # <<>> /\ Len(t.queue) \in Nat
      BY <1>1, <3>1, LenProperties
    <3>3. Len(q) = Len(t.queue) - 1 /\ (\A k \in 1 .. Len(q) : q[k] = t.queue[k + 1]) /\ s = t.queue[1]
      BY <1>1, <3>2, HeadTailProperties DEF s
    <3>4. i - 1 \in 1 .. Len(q) /\ (i - 1) + 1 = i
      BY <3>1, <3>2, <3>3
    <3>5. q[i - 1] = n
      BY <3>1, <3>3, <3>4
    <3> QED
      BY <3>4, <3>5 DEF Contains
  <2>8. \A n \in Nodes : u.member[n] \in Speaking => n = s
    BY <2>2, <2>4, <2>5
  <2>9. \A n \in Nodes : u.member[n] # "running"
    BY <2>2, <2>4, <2>5 DEF Speaking
  <2>10. Sound(u)
    BY <2>5, <2>6, <2>7, <2>8, <2>9 DEF Sound
  <2>11. Spoken(u)
    BY <2>1, <2>4, <2>5 DEF Spoken, Speaking
  <2> QED
    BY <2>5, <2>10, <2>11 DEF u
<1> QED
  BY <1>2, <1>3

LEMMA HostCalled ==
    ASSUME NEW t, Sound(t)
    PROVE  /\ Sound(CallHost(t)) /\ Spoken(CallHost(t))
           /\ CallHost(t).status = t.status /\ CallHost(t).count = t.count
<1>1. Host \in Nodes
  BY CollaborationConstants
<1> QED
  BY <1>1, Enqueued, Activated DEF CallHost

\* A member falls silent, the status changes, the turns are counted anew.
LEMMA Silenced ==
    ASSUME NEW t, Sound(t), NEW n \in Nodes
    PROVE  LET u == [t EXCEPT !.member[n] = "idle"] IN
           /\ Sound(u) /\ u.status = t.status /\ u.count = t.count
           /\ t.member[n] \in Speaking => ~Spoken(u)
<1> DEFINE u == [t EXCEPT !.member[n] = "idle"]
           mem == [t.member EXCEPT ![n] = "idle"]
<1>1. t \in TaskRows /\ t.member \in [Nodes -> MemberStates]
  BY DEF Sound, TaskRows
<1>2. mem \in [Nodes -> MemberStates] /\ \A m \in Nodes : mem[m] = IF m = n THEN "idle" ELSE t.member[m]
  BY <1>1 DEF MemberStates
<1>3. u \in TaskRows /\ u.queue = t.queue /\ u.member = mem /\ u.status = t.status /\ u.count = t.count
  BY <1>1, <1>2 DEF TaskRows
<1> HIDE DEF u, mem
<1>4. Sound(u)
  BY <1>2, <1>3 DEF Sound, Speaking
<1>5. t.member[n] \in Speaking => ~Spoken(u)
  BY <1>2, <1>3 DEF Sound, Spoken, Speaking
<1> QED
  BY <1>3, <1>4, <1>5 DEF u

LEMMA Turned ==
    ASSUME NEW t, Sound(t), NEW s \in TaskStatuses
    PROVE  LET u == [t EXCEPT !.status = s] IN
           Sound(u) /\ u.status = s /\ u.count = t.count /\ (Spoken(t) => Spoken(u))
<1> DEFINE u == [t EXCEPT !.status = s]
<1>1. /\ u \in TaskRows /\ u.queue = t.queue /\ u.member = t.member /\ u.status = s
      /\ u.count = t.count
  BY DEF Sound, TaskRows
<1> HIDE DEF u
<1> QED
  BY <1>1 DEF u, Sound, Spoken

LEMMA Resumed ==
    ASSUME NEW t, Sound(t)
    PROVE  LET u == [t EXCEPT !.status = "running", !.count = 0] IN
           Sound(u) /\ u.status = "running" /\ u.count = 0
<1> DEFINE u == [t EXCEPT !.status = "running", !.count = 0]
<1>1. /\ u \in TaskRows /\ u.queue = t.queue /\ u.member = t.member /\ u.status = "running"
      /\ u.count = 0
  BY DEF Sound, TaskRows, TaskStatuses
<1>2. 0 <= Limit
  BY CollaborationConstants
<1> HIDE DEF u
<1> QED
  BY <1>1, <1>2 DEF u, Sound
\* Rows that may be committed: a running task has a speaker.
Kept(t) == Sound(t) /\ t.count \in 0 .. MaxTurns /\ (t.status = "running" => Spoken(t))

LEMMA StartKept == ASSUME Kept(task) PROVE Kept(Started)
<1> DEFINE mem == [n \in Nodes |-> "idle"]
           none == <<>>
           c == IF task.status = "draft" THEN task.count ELSE 0
           t == [status |-> "running", member |-> mem, queue |-> none, count |-> c]
<1>1. c \in 0 .. MaxTurns /\ MaxTurns \in Nat
  BY CollaborationConstants DEF Kept
<1>2. mem \in [Nodes -> MemberStates] /\ none \in Seq(Nodes) /\ Len(none) = 0
  BY DEF MemberStates
<1>3. \A n \in Nodes : mem[n] = "idle"
  OBVIOUS
<1>4. Started = CallHost(t)
  BY DEF Started
<1> HIDE DEF mem, none, c
<1>5. t \in TaskRows
  BY <1>1, <1>2 DEF TaskRows, TaskStatuses
<1>6. Sound(t)
  BY <1>2, <1>3, <1>5 DEF Sound, Speaking
<1>7. t.status = "running" /\ t.count = c
  OBVIOUS
<1> HIDE DEF t
<1> QED
  BY <1>1, <1>4, <1>6, <1>7, HostCalled DEF Kept

LEMMA RefusedKept == ASSUME Kept(task), NEW n \in Nodes PROVE Kept(Refused(n))
<1> DEFINE idle == [task EXCEPT !.member[n] = "idle"]
<1>1. Sound(idle) /\ idle.count = task.count
  BY Silenced DEF Kept
<1> HIDE DEF idle
<1>2. Sound(ClearQueue(idle)) /\ ClearQueue(idle).count = task.count
  BY <1>1, QueueCleared
<1>3. Refused(n) = CallHost(ClearQueue(idle))
  BY DEF Refused, idle
<1> QED
  BY <1>2, <1>3, HostCalled DEF Kept

LEMMA NodeStartKept ==
    ASSUME Kept(task), NEW n \in Nodes, NodeReady(n), ~AtLimit(n), task.count < MaxTurns
    PROVE  Kept(NodeStarted(n))
<1> DEFINE u == NodeStarted(n)
           mem == [task.member EXCEPT ![n] = "running"]
<1>1. task \in TaskRows /\ task.member \in [Nodes -> MemberStates] /\ task.count \in Nat
  BY DEF Kept, Sound, TaskRows
<1>2. mem \in [Nodes -> MemberStates] /\ \A m \in Nodes : mem[m] = IF m = n THEN "running" ELSE task.member[m]
  BY <1>1 DEF MemberStates
<1> DEFINE c == task.count + 1
<1>11. u = [task EXCEPT !.member = mem, !.count = c] /\ c = task.count + 1 /\ c \in Nat
  BY <1>1 DEF NodeStarted
<1> HIDE DEF u, mem, c
<1>12. u.member = mem /\ u.queue = task.queue /\ u.status = task.status /\ u.count = c
  BY <1>1, <1>11 DEF TaskRows
<1>3. /\ u \in TaskRows /\ u.queue = task.queue /\ u.member = mem /\ u.status = task.status
      /\ u.count = task.count + 1
  BY <1>1, <1>2, <1>11, <1>12 DEF TaskRows
<1>4. task.member[n] = "ready"
  BY DEF NodeReady
<1>5. \A m \in Nodes : u.member[m] \in Speaking <=> task.member[m] \in Speaking
  BY <1>2, <1>3, <1>4 DEF Speaking
<1>6. \A m \in Nodes \ {Host} : u.member[m] = "running" => u.count <= Limit
  BY <1>1, <1>2, <1>3, CollaborationConstants DEF NodeReady, AtLimit
<1>7. \A m \in Nodes : u.member[m] = "queued" => task.member[m] = "queued"
  BY <1>2, <1>3
<1>8. Sound(u)
  BY <1>3, <1>5, <1>6, <1>7 DEF Sound, Kept
<1>9. Spoken(u)
  BY <1>4, <1>5 DEF Spoken, Speaking
<1>10. u.count \in 0 .. MaxTurns
  BY <1>1, <1>3, CollaborationConstants DEF Kept
<1> QED
  BY <1>8, <1>9, <1>10 DEF Kept, u

LEMMA RecoveryKept == ASSUME Kept(task) PROVE Kept(HostRecovered)
BY Activated DEF HostRecovered, Kept

LEMMA PostsKept ==
    ASSUME Kept(task), NEW n \in Nodes, NEW to \in Nodes
    PROVE  Kept(PostedToUser(n)) /\ Kept(PostedTo(n, to))
<1> DEFINE idle == [task EXCEPT !.member[n] = "idle"]
<1>1. Sound(idle) /\ idle.count = task.count
  BY Silenced DEF Kept
<1>2. PostedToUser(n) = [idle EXCEPT !.status = "waiting_user"]
  BY DEF PostedToUser, Kept, Sound, TaskRows
<1>3. PostedTo(n, to) = IF task.count >= Limit THEN CallHost(ClearQueue(idle))
                                               ELSE ActivateNext(Enqueue(idle, to))
  BY DEF PostedTo
<1> HIDE DEF idle
<1>4. "waiting_user" \in TaskStatuses /\ "waiting_user" # "running"
  BY DEF TaskStatuses
<1>5. Kept(PostedToUser(n))
  BY <1>1, <1>2, <1>4, Turned DEF Kept
<1>6. Kept(CallHost(ClearQueue(idle)))
  <2>1. Sound(ClearQueue(idle)) /\ ClearQueue(idle).count = task.count
    BY <1>1, QueueCleared
  <2> QED
    BY <2>1, HostCalled DEF Kept
<1>7. Kept(ActivateNext(Enqueue(idle, to)))
  <2>1. Sound(Enqueue(idle, to)) /\ Enqueue(idle, to).count = task.count
    BY <1>1, Enqueued
  <2> QED
    BY <2>1, Activated DEF Kept
<1> QED
  BY <1>3, <1>5, <1>6, <1>7

LEMMA UserPostKept == ASSUME Kept(task), NEW n \in Nodes PROVE Kept(UserPosted(n))
<1> DEFINE u == [task EXCEPT !.status = "running", !.count = 0]
<1>1. Sound(u) /\ u.count = 0 /\ 0 \in 0 .. MaxTurns
  <2>1. 0 \in 0 .. MaxTurns
    BY CollaborationConstants
  <2>2. Sound(task)
    BY DEF Kept
  <2> QED
    BY <2>1, <2>2, Resumed
<1>2. UserPosted(n) \in {ActivateNext(EnqueueFront(u, n)), ActivateNext(EnqueueFront(ClearQueue(u), n)),
                         ActivateNext(Enqueue(task, n)), task}
  BY DEF UserPosted
<1> HIDE DEF u
<1>3. Kept(ActivateNext(EnqueueFront(u, n)))
  <2>1. Sound(EnqueueFront(u, n)) /\ EnqueueFront(u, n).count = 0
    BY <1>1, EnqueuedFirst
  <2> QED
    BY <1>1, <2>1, Activated DEF Kept
<1>4. Kept(ActivateNext(EnqueueFront(ClearQueue(u), n)))
  <2>1. Sound(ClearQueue(u)) /\ ClearQueue(u).count = 0
    BY <1>1, QueueCleared
  <2>2. Sound(EnqueueFront(ClearQueue(u), n)) /\ EnqueueFront(ClearQueue(u), n).count = 0
    BY <2>1, EnqueuedFirst
  <2> QED
    BY <1>1, <2>2, Activated DEF Kept
<1>5. Kept(ActivateNext(Enqueue(task, n)))
  <2>1. Sound(Enqueue(task, n)) /\ Enqueue(task, n).count = task.count
    BY Enqueued DEF Kept
  <2> QED
    BY <2>1, Activated DEF Kept
<1> QED
  BY <1>2, <1>3, <1>4, <1>5

LEMMA CompletionKept ==
    ASSUME Kept(task), NEW n \in Nodes, NEW answered \in BOOLEAN PROVE Kept(Completed(n, answered))
<1> DEFINE idle == [task EXCEPT !.member[n] = "idle"]
<1>1. Sound(idle) /\ idle.count = task.count
  BY Silenced DEF Kept
<1>2. Completed(n, answered) \in {ActivateNext(idle), [idle EXCEPT !.status = "waiting_user"], CallHost(idle)}
  BY DEF Completed
<1> HIDE DEF idle
<1>3. "waiting_user" \in TaskStatuses /\ "waiting_user" # "running"
  BY DEF TaskStatuses
<1>4. Kept(ActivateNext(idle))
  BY <1>1, Activated DEF Kept
<1>5. Kept([idle EXCEPT !.status = "waiting_user"])
  BY <1>1, <1>3, Turned DEF Kept
<1>6. Kept(CallHost(idle))
  BY <1>1, HostCalled DEF Kept
<1> QED
  BY <1>2, <1>4, <1>5, <1>6

LEMMA FailureKept == ASSUME Kept(task), NEW n \in Nodes PROVE Kept(Failed(n))
<1> DEFINE idle == [task EXCEPT !.member[n] = "idle"]
           u == [idle EXCEPT !.status = "failed"]
<1>1. Sound(idle) /\ idle.count = task.count
  BY Silenced DEF Kept
<1>2. Failed(n) = IF n = Host THEN ClearQueue(u) ELSE CallHost(idle)
  BY DEF Failed
<1> HIDE DEF idle
<1>3. "failed" \in TaskStatuses
  BY DEF TaskStatuses
<1>4. Sound(u) /\ u.count = task.count /\ u.status = "failed"
  BY <1>1, <1>3, Turned
<1> HIDE DEF u
<1>5. Kept(ClearQueue(u))
  BY <1>4, QueueCleared DEF Kept
<1>6. Kept(CallHost(idle))
  BY <1>1, HostCalled DEF Kept
<1> QED
  BY <1>2, <1>5, <1>6

LEMMA StopKept == ASSUME Kept(task) PROVE Kept(StoppedTask)
<1> DEFINE mem == [n \in Nodes |-> "idle"]
           none == <<>>
           u == [task EXCEPT !.status = "stopped", !.queue = none, !.member = mem]
<1>1. mem \in [Nodes -> MemberStates] /\ none \in Seq(Nodes) /\ Len(none) = 0
      /\ \A n \in Nodes : mem[n] = "idle"
  BY DEF MemberStates
<1>2. StoppedTask \in {u, task}
  BY DEF StoppedTask
<1> HIDE DEF mem, none
<1>3. u \in TaskRows /\ u.queue = none /\ u.member = mem /\ u.status = "stopped" /\ u.count = task.count
  BY <1>1 DEF Kept, Sound, TaskRows, TaskStatuses
<1> HIDE DEF u
<1>4. Sound(u)
  BY <1>1, <1>3 DEF Sound, Speaking
<1>5. Kept(u)
  BY <1>3, <1>4 DEF Kept
<1> QED
  BY <1>2, <1>5

-----------------------------------------------------------------------------
(* The orchestrators and the page *)

\* What holds of them.
PageTyped ==
    /\ screen.request \in Requests \cup {NoRequest}
    /\ \A sent \in screen.sending : sent.to \in Nodes
    /\ DOMAIN screen = {"request", "runs", "shown", "sending", "stopping"}

RunRecords == [at : Waits, speaker : Nodes, cancelled : BOOLEAN,
               turn : {"none", "running", "interrupting", "handed"}]

LEMMA NoRunTyped == NoRun \in RunRecords /\ NoRun.turn = "none" /\ NoRun.at = "idle"
BY CollaborationConstants DEF NoRun, RunRecords, Waits

\* A run that is not in a turn goes on to any point but a turn.
LEMMA RunSteps ==
    ASSUME RunsTyped, NEW r \in Requests, NEW x \in RunRecords, runs' = [runs EXCEPT ![r] = x],
           x.turn # "none" => x.at = "turn"
    PROVE  RunsTyped'
BY DEF RunsTyped, RunRecords

LEMMA EndsTyped ==
    ASSUME RunsTyped, PageTyped, NEW r \in Requests, NEW t, Ends(r, t)
    PROVE  RunsTyped' /\ PageTyped'
<1>1. [NoRun EXCEPT !.at = "done"] \in RunRecords /\ [NoRun EXCEPT !.at = "done"].turn = "none"
  BY NoRunTyped DEF RunRecords, Waits
<1>2. RunsTyped'
  BY <1>1, RunSteps DEF Ends
<1>3. PageTyped'
  BY DEF Ends, PageTyped
<1> QED
  BY <1>2, <1>3

LEMMA StepTyped ==
    ASSUME RunsTyped, NEW r \in Requests, NEW to \in Waits \ {"turn"}, runs[r].turn = "none",
           NEW n \in Nodes,
           runs' = [runs EXCEPT ![r].at = to] \/ runs' = [runs EXCEPT ![r].at = to, ![r].speaker = n]
    PROVE  RunsTyped'
<1> DEFINE x == [runs[r] EXCEPT !.at = to]
           y == [runs[r] EXCEPT !.at = to, !.speaker = n]
<1>1. runs[r] \in RunRecords /\ runs \in [Requests -> RunRecords]
  BY DEF RunsTyped, RunRecords
<1>2. x \in RunRecords /\ x.turn = "none" /\ y \in RunRecords /\ y.turn = "none"
  BY <1>1 DEF RunRecords
<1>3. runs' = [runs EXCEPT ![r] = x] \/ runs' = [runs EXCEPT ![r] = y]
  BY <1>1 DEF RunRecords
<1> HIDE DEF x, y
<1> QED
  BY <1>2, <1>3, RunSteps

LEMMA RoundTyped ==
    ASSUME RunsTyped, PageTyped, NEW r \in Requests, NEW t, Round(r, t), runs[r].turn = "none"
    PROVE  RunsTyped' /\ PageTyped'
<1>1. CASE t.status # "running" /\ Ends(r, t)
  BY <1>1, EndsTyped
<1>2. CASE ~(t.status # "running" /\ Ends(r, t))
  <2>1. PageTyped'
    BY <1>2 DEF Round, Shows, PageTyped
  <2>2. "reload" \in Waits \ {"turn"} /\ "node" \in Waits \ {"turn"} /\ "recover" \in Waits \ {"turn"}
    BY DEF Waits
  <2>3. \/ runs' = [runs EXCEPT ![r].at = "reload"]
        \/ runs' = [runs EXCEPT ![r].at = "recover"]
        \/ \E n \in Nodes : runs' = [runs EXCEPT ![r].at = "node", ![r].speaker = n]
    BY <1>2 DEF Round, Step
  <2>4. Host \in Nodes
    BY CollaborationConstants
  <2> QED
    BY <2>1, <2>2, <2>3, <2>4, StepTyped
<1> QED
  BY <1>1, <1>2

LEMMA OrchestratorKept ==
    ASSUME RunsTyped, PageTyped, Kept(task), NEW r \in Requests, Orchestrate(r)
    PROVE  RunsTyped' /\ PageTyped' /\ Kept(task')
<1> DEFINE n == runs[r].speaker
<1>1. /\ runs \in [Requests -> RunRecords] /\ runs[r] \in RunRecords
      /\ n \in Nodes /\ (runs[r].turn # "none" => runs[r].at = "turn")
  BY DEF RunsTyped, RunRecords
<1>2. Host \in Nodes
  BY CollaborationConstants
<1>3. CASE LoadTask(r)
  <2>1. runs[r].turn = "none" /\ "start" \in Waits \ {"turn"}
    BY <1>1, <1>3 DEF LoadTask, Waits
  <2>2. CASE task.status = "running"
    BY <1>3, <2>1, <2>2, RoundTyped DEF LoadTask
  <2>3. CASE task.status # "running"
    BY <1>2, <1>3, <2>1, <2>3, StepTyped DEF LoadTask, Step, PageTyped
  <2> QED
    BY <2>2, <2>3
<1>4. CASE StartTask(r)
  <2>1. runs[r].turn = "none"
    BY <1>1, <1>4 DEF StartTask
  <2> QED
    BY <1>4, <2>1, RoundTyped, EndsTyped, StartKept DEF StartTask
<1>5. CASE ReloadTask(r) \/ RequestFails(r)
  BY <1>5, EndsTyped DEF ReloadTask, RequestFails
<1>6. CASE RecoverHost(r)
  <2>1. runs[r].turn = "none" /\ "node" \in Waits \ {"turn"}
    BY <1>1, <1>6 DEF RecoverHost, Waits
  <2>2. Kept(task')
    BY <1>6, RecoveryKept DEF RecoverHost
  <2>3. CASE Ends(r, HostRecovered)
    BY <2>2, <2>3, EndsTyped
  <2>4. CASE ~Ends(r, HostRecovered)
    <3>1. UNCHANGED screen /\ \E m \in Nodes : runs' = [runs EXCEPT ![r].at = "node", ![r].speaker = m]
      BY <1>6, <2>4 DEF RecoverHost
    <3> QED
      BY <2>1, <2>2, <3>1, StepTyped DEF PageTyped
  <2> QED
    BY <2>3, <2>4
<1>7. CASE StartNode(r)
  <2>1. Kept(task')
    BY <1>1, <1>7, RefusedKept, NodeStartKept DEF StartNode
  <2>2. CASE Ends(r, task')
    BY <2>1, <2>2, EndsTyped
  <2>3. CASE ~Ends(r, task')
    <3> DEFINE x == [runs[r] EXCEPT !.at = "turn", !.turn = "running"]
    <3>1. runs' = [runs EXCEPT ![r].at = "turn", ![r].turn = "running"] /\ UNCHANGED screen
      BY <1>7, <2>3 DEF StartNode
    <3>2. x \in RunRecords /\ x.at = "turn"
      BY <1>1 DEF RunRecords, Waits
    <3>3. runs' = [runs EXCEPT ![r] = x]
      BY <1>1, <3>1 DEF RunRecords
    <3> HIDE DEF x
    <3> QED
      BY <2>1, <3>1, <3>2, <3>3, RunSteps DEF PageTyped
  <2> QED
    BY <2>2, <2>3
<1>8. CASE HandOver(r)
  <2> DEFINE x == [runs[r] EXCEPT !.turn = "handed"]
  <2>1. Kept(task')
    BY <1>1, <1>8, PostsKept DEF HandOver
  <2>2. x \in RunRecords /\ x.at = "turn"
    BY <1>1, <1>8 DEF RunRecords, HandOver
  <2>3. runs' = [runs EXCEPT ![r] = x] /\ UNCHANGED screen
    BY <1>1, <1>8 DEF RunRecords, HandOver
  <2> HIDE DEF x
  <2> QED
    BY <2>1, <2>2, <2>3, RunSteps DEF PageTyped
<1>9. CASE EndNodeTurn(r)
  <2>1. PICK end \in Outcomes(runs[r].turn) :
          runs' = [runs EXCEPT ![r].turn = "none",
                       ![r].at = IF runs[r].turn = "handed" /\ end = "stopped" THEN "handed" ELSE end]
    BY <1>9 DEF EndNodeTurn
  <2> DEFINE to == IF runs[r].turn = "handed" /\ end = "stopped" THEN "handed" ELSE end
             x == [runs[r] EXCEPT !.turn = "none", !.at = to]
  <2>2. to \in Waits
    BY <2>1 DEF Outcomes, Waits
  <2>3. runs' = [runs EXCEPT ![r].turn = "none", ![r].at = to]
    BY <2>1
  <2> HIDE DEF to
  <2>4. x \in RunRecords /\ x.turn = "none"
    BY <1>1, <2>2 DEF RunRecords
  <2>5. runs' = [runs EXCEPT ![r] = x] /\ UNCHANGED <<task, screen>>
    BY <1>1, <1>9, <2>3 DEF RunRecords, EndNodeTurn
  <2> HIDE DEF x
  <2> QED
    BY <2>4, <2>5, RunSteps DEF PageTyped
<1>10. CASE ReadTask(r)
  <2>1. runs[r].turn = "none" /\ task' = task
    BY <1>1, <1>10 DEF ReadTask
  <2>2. CASE Round(r, task)
    BY <2>1, <2>2, RoundTyped
  <2>3. CASE ~Round(r, task)
    <3>1. UNCHANGED screen /\ \E to \in {"fail", "complete", "completeEmpty"} : runs' = [runs EXCEPT ![r].at = to]
      BY <1>10, <2>3 DEF ReadTask, Step
    <3>2. {"fail", "complete", "completeEmpty"} \subseteq Waits \ {"turn"}
      BY DEF Waits
    <3> QED
      BY <1>2, <2>1, <3>1, <3>2, StepTyped DEF PageTyped
  <2> QED
    BY <2>2, <2>3
<1>11. CASE CompleteNode(r)
  <2>1. runs[r].turn = "none"
    BY <1>1, <1>11 DEF CompleteNode
  <2> QED
    BY <1>1, <1>11, <2>1, RoundTyped, EndsTyped, CompletionKept DEF CompleteNode
<1>12. CASE FailNode(r)
  <2>1. runs[r].turn = "none"
    BY <1>1, <1>12 DEF FailNode
  <2> QED
    BY <1>1, <1>12, <2>1, RoundTyped, FailureKept DEF FailNode
<1> QED
  BY <1>3, <1>4, <1>5, <1>6, <1>7, <1>8, <1>9, <1>10, <1>11, <1>12 DEF Orchestrate

LEMMA ExecuteTyped ==
    ASSUME RunsTyped, NEW r \in Requests, Execute(r)
    PROVE  RunsTyped'
<1>1. runs[r].turn = "none" /\ "load" \in Waits \ {"turn"} /\ Host \in Nodes
  BY CollaborationConstants DEF Execute, RunsTyped, Waits
<1> QED
  BY <1>1, StepTyped DEF Execute

LEMMA CollaborationStarts == CollaborationInit => CollaborationInv
<1> SUFFICES ASSUME CollaborationInit PROVE CollaborationInv
  OBVIOUS
<1> DEFINE mem == [n \in Nodes |-> "idle"]
           none == <<>>
<1>1. task = [status |-> "draft", member |-> mem, queue |-> none, count |-> 0]
  BY DEF CollaborationInit
<1>2. mem \in [Nodes -> MemberStates] /\ none \in Seq(Nodes) /\ Len(none) = 0
      /\ \A n \in Nodes : mem[n] = "idle"
  BY DEF MemberStates
<1> HIDE DEF mem, none
<1>3. /\ task \in TaskRows /\ task.queue = none /\ task.member = mem /\ task.status = "draft"
      /\ task.count = 0
  BY <1>1, <1>2 DEF TaskRows, TaskStatuses
<1>4. Kept(task)
  BY <1>2, <1>3, CollaborationConstants DEF Kept, Sound, Speaking
<1>5. RunsTyped
  BY NoRunTyped DEF CollaborationInit, RunsTyped, RunRecords
<1>6. PageTyped
  BY DEF CollaborationInit, PageTyped
<1> QED
  BY <1>4, <1>5, <1>6 DEF CollaborationInv, Kept, PageTyped

LEMMA CollaborationKept ==
    CollaborationInv /\ [CollaborationNext]_collaborationVars => CollaborationInv'
<1> SUFFICES ASSUME CollaborationInv, [CollaborationNext]_collaborationVars PROVE CollaborationInv'
  OBVIOUS
<1>1. Kept(task) /\ RunsTyped /\ PageTyped
  BY DEF CollaborationInv, Kept, PageTyped
<1> SUFFICES Kept(task') /\ RunsTyped' /\ PageTyped'
  BY DEF CollaborationInv, Kept, PageTyped
<1>2. CASE UNCHANGED collaborationVars
  BY <1>1, <1>2 DEF collaborationVars, RunsTyped, PageTyped
<1>3. CASE \E r \in Requests : Orchestrate(r)
  BY <1>1, <1>3, OrchestratorKept
<1>4. ASSUME NEW r \in Requests, Rerun(r) PROVE Kept(task') /\ RunsTyped' /\ PageTyped'
  <2>1. RunsTyped'
    BY <1>1, <1>4, ExecuteTyped DEF Rerun
  <2> QED
    BY <1>1, <1>4, <2>1 DEF Rerun, PageTyped
<1>5. ASSUME NEW n \in Nodes, SendMessage(n) PROVE Kept(task') /\ RunsTyped' /\ PageTyped'
  BY <1>1, <1>5 DEF SendMessage, RunsTyped, PageTyped
<1>6. CASE MessagePosted
  <2>1. PICK sent \in screen.sending :
          /\ task' = UserPosted(sent.to)
          /\ LET shows == [screen EXCEPT !.sending = {}, !.shown = task'.status]
             IN  \/ /\ sent.resume
                    /\ \E r \in Requests : Execute(r) /\ screen' = [shows EXCEPT !.request = r, !.runs = @ \cup {r}]
                 \/ /\ ~sent.resume
                    /\ screen' = shows
                    /\ UNCHANGED runs
    BY <1>6 DEF MessagePosted
  <2>2. Kept(task')
    BY <1>1, <2>1, UserPostKept DEF PageTyped
  <2>3. RunsTyped'
    BY <1>1, <2>1, ExecuteTyped DEF RunsTyped
  <2>4. PageTyped'
    BY <1>1, <2>1 DEF PageTyped
  <2> QED
    BY <2>2, <2>3, <2>4
<1>7. CASE ClickStop
  <2>1. RunsTyped'
    <3>1. \A r \in Requests : [runs[r] EXCEPT !.cancelled = TRUE] \in RunRecords
                              /\ [runs[r] EXCEPT !.cancelled = TRUE].turn = runs[r].turn
                              /\ [runs[r] EXCEPT !.cancelled = TRUE].at = runs[r].at
      BY <1>1 DEF RunsTyped, RunRecords
    <3> QED
      BY <1>1, <1>7, <3>1 DEF ClickStop, RunsTyped, RunRecords
  <2> QED
    BY <1>1, <1>7, <2>1 DEF ClickStop, PageTyped
<1>8. CASE StopPosted
  <2>1. PICK stop \in screen.stopping :
          /\ task' = StoppedTask
          /\ screen' = [screen EXCEPT !.stopping = {[stop EXCEPT !.posted = TRUE]}]
          /\ runs' = [r \in Requests |->
                         IF r = stop.run /\ runs[r].turn = "running"
                         THEN [runs[r] EXCEPT !.turn = "interrupting"] ELSE runs[r]]
    BY <1>8 DEF StopPosted
  <2>2. RunsTyped'
    <3>1. \A r \in Requests : [runs[r] EXCEPT !.turn = "interrupting"] \in RunRecords
                              /\ [runs[r] EXCEPT !.turn = "interrupting"].at = runs[r].at
      BY <1>1 DEF RunsTyped, RunRecords
    <3>2. \A r \in Requests : runs'[r] \in RunRecords /\ (runs'[r].turn # "none" => runs'[r].at = "turn")
      BY <1>1, <2>1, <3>1 DEF RunsTyped, RunRecords
    <3>3. runs' \in [Requests -> RunRecords]
      BY <2>1, <3>2
    <3> QED
      BY <3>2, <3>3 DEF RunsTyped, RunRecords
  <2> QED
    BY <1>1, <2>1, <2>2, StopKept DEF PageTyped
<1>9. CASE StopShown \/ Revisit
  <2>1. UNCHANGED <<task, runs>> /\ PageTyped'
    <3>1. CASE StopShown
      BY <1>1, <3>1 DEF StopShown, PageTyped
    <3>2. CASE Revisit
      <4>1. screen' = [request |-> NoRequest, runs |-> {}, shown |-> task.status, sending |-> {}, stopping |-> {}]
        BY <3>2 DEF Revisit
      <4> QED
        BY <3>2, <4>1 DEF Revisit, PageTyped
    <3> QED
      BY <1>9, <3>1, <3>2
  <2> QED
    BY <1>1, <2>1 DEF RunsTyped
<1> QED
  BY <1>2, <1>3, <1>4, <1>5, <1>6, <1>7, <1>8, <1>9 DEF CollaborationNext

LEMMA CollaborationInvSafe == CollaborationInv => CollaborationTypeOK /\ FloorPasses
<1> SUFFICES ASSUME CollaborationInv PROVE CollaborationTypeOK /\ FloorPasses
  OBVIOUS
<1>1. /\ task \in TaskRows /\ task.member \in [Nodes -> MemberStates] /\ task.queue \in Seq(Nodes)
      /\ DOMAIN task.queue = 1 .. Len(task.queue)
  BY LenProperties DEF CollaborationInv, Sound, TaskRows
<1>2. ASSUME NEW S, \A x, y \in S : x = y PROVE Cardinality(S) <= 1 /\ (S # {} => Cardinality(S) = 1)
  <2>1. CASE S = {}
    BY <2>1, FS_EmptySet
  <2>2. CASE S # {}
    <3>1. PICK x \in S : TRUE
      BY <2>2
    <3>2. S = {x}
      BY <1>2, <3>1
    <3>3. Cardinality(S) = 1
      BY <3>2, FS_Singleton
    <3> QED
      BY <3>3
  <2> QED
    BY <2>1, <2>2
<1>3. ASSUME NEW n \in Nodes PROVE Cardinality({i \in DOMAIN task.queue : task.queue[i] = n}) <= 1
  <2> DEFINE S == {i \in DOMAIN task.queue : task.queue[i] = n}
  <2>1. \A x, y \in S : x = y
    BY <1>1 DEF CollaborationInv, Sound
  <2> HIDE DEF S
  <2>2. Cardinality(S) <= 1
    BY <1>2, <2>1
  <2> QED
    BY <2>2 DEF S
<1>4. CollaborationTypeOK
  BY <1>1, <1>3 DEF CollaborationTypeOK, CollaborationInv, RunsTyped, TaskRows, TaskStatuses, MemberStates
<1>5. \A x, y \in Speakers(task) : x = y
  BY DEF Speakers, CollaborationInv, Sound
<1>6. task.status = "running" => Speakers(task) # {}
  BY DEF Speakers, CollaborationInv, Spoken
<1>7. Cardinality(Speakers(task)) <= 1 /\ (task.status = "running" => Cardinality(Speakers(task)) = 1)
  BY <1>2, <1>5, <1>6
<1>8. FloorPasses
  BY <1>7 DEF FloorPasses, CollaborationInv, Sound
<1> QED
  BY <1>4, <1>8

-----------------------------------------------------------------------------
(* The list of chats *)

ListRequests == [effect : Nat, read : BOOLEAN, held : SUBSET Chats]
EditRequests == [kind : {"create", "delete"}, chat : Chats, done : BOOLEAN, selected : Chats \cup {NoChat}]

ListTyped ==
    /\ chats \subseteq Chats
    /\ list \in [held : SUBSET Chats, effect : Nat, failed : BOOLEAN, selected : Chats \cup {NoChat},
                 crossed : BOOLEAN]
    /\ lists \subseteq ListRequests
    /\ edits \subseteq EditRequests

\* A change of the chat was made and its answer is still to come.
Changing(c) == \E x \in edits : x.chat = c /\ x.done

Awaited == {r \in lists : r.effect = list.effect}

\* A list held is what the API holds but for the changes whose answers are to come.
Current(held) == \A c \in Chats : (c \in held <=> c \in chats) \/ Changing(c)

ListInv ==
    /\ ListTyped
    /\ \A r \in lists : r.effect <= list.effect
    /\ \A r, s \in lists : r.effect = s.effect => r = s
    /\ \A x, y \in edits : x.chat = y.chat => x = y
    /\ \A x \in edits : x.done => (x.chat \in chats <=> x.kind = "create")
    /\ ~list.crossed => \A r \in Awaited : r.read => Current(r.held)
    /\ ~list.crossed /\ ~list.failed /\ Awaited = {} => Current(list.held)

LEMMA ListStarts == SidebarInit => ListInv
BY DEF SidebarInit, ListInv, ListTyped, ListRequests, EditRequests, Awaited, Current

\* Requests for the list change, the chats and their changes do not.
LEMMA ListRequestsKept ==
    ASSUME ListInv, ProjectsNext, UNCHANGED <<chats, edits>>
    PROVE  ListInv'
<1>1. \A held : Current(held)' <=> Current(held)
  BY DEF Current, Changing
<1>2. CASE Refresh
  <2> DEFINE new == [effect |-> list.effect + 1, read |-> FALSE, held |-> {}]
  <2>1. /\ lists' = lists \cup {new} /\ list' = [list EXCEPT !.effect = @ + 1] /\ UNCHANGED <<chats, edits>>
        /\ list.effect \in Nat /\ \A r \in lists : r.effect \in Nat
    BY <1>2 DEF Refresh, ListInv, ListTyped, ListRequests
  <2>2. new \in ListRequests /\ new.effect = list.effect + 1 /\ ~new.read
    BY <2>1 DEF ListRequests
  <2> HIDE DEF new
  <2>3. list'.effect = list.effect + 1 /\ list'.crossed = list.crossed /\ ListTyped'
    BY <2>1, <2>2 DEF ListInv, ListTyped
  <2>4. Awaited' = {new}
    BY <2>1, <2>2, <2>3 DEF Awaited, ListInv
  <2>5. \A r, s \in lists' : r.effect = s.effect => r = s
    BY <2>1, <2>2 DEF ListInv
  <2>6. \A r \in lists' : r.effect <= list'.effect
    BY <2>1, <2>2, <2>3 DEF ListInv
  <2> QED
    BY <2>1, <2>2, <2>3, <2>4, <2>5, <2>6 DEF ListInv
<1>3. ASSUME NEW r \in lists, ListRead(r) PROVE ListInv'
  <2> DEFINE new == [effect |-> r.effect, read |-> TRUE, held |-> chats]
  <2>1. lists' = (lists \ {r}) \cup {new} /\ UNCHANGED <<chats, list, edits>> /\ r \in ListRequests
    BY <1>3 DEF ListRead, ListInv, ListTyped
  <2>2. new \in ListRequests /\ new.effect = r.effect /\ new.held = chats
    BY <2>1 DEF ListRequests, ListInv, ListTyped
  <2> HIDE DEF new
  <2>3. ListTyped'
    BY <2>1, <2>2 DEF ListInv, ListTyped
  <2>4. \A a, b \in lists' : a.effect = b.effect => a = b
    BY <2>1, <2>2 DEF ListInv
  <2>5. \A a \in Awaited' : a = new \/ a \in Awaited
    BY <2>1 DEF Awaited
  <2>6. Current(new.held)
    BY <2>2 DEF Current
  <2>7. Awaited' = {} => Awaited = {}
    BY <2>1, <2>2 DEF Awaited
  <2> QED
    BY <1>1, <2>1, <2>2, <2>3, <2>4, <2>5, <2>6, <2>7 DEF ListInv
<1>4. ASSUME NEW r \in lists, ListAnswered(r) \/ ListFails(r) PROVE ListInv'
  <2>1. lists' = lists \ {r} /\ UNCHANGED <<chats, edits>> /\ r \in ListRequests
    BY <1>4 DEF ListAnswered, ListFails, ListInv, ListTyped
  <2>2. CASE r.effect # list.effect
    <3>1. list' = list /\ Awaited' = Awaited
      BY <1>4, <2>1, <2>2 DEF ListAnswered, ListFails, Awaited
    <3> QED
      BY <1>1, <2>1, <3>1 DEF ListInv, ListTyped
  <2>3. CASE r.effect = list.effect
    <3>1. \/ r.read /\ list' = [list EXCEPT !.held = r.held, !.failed = FALSE]
          \/ list' = [list EXCEPT !.failed = TRUE]
      BY <1>4, <2>3 DEF ListAnswered, ListFails
    <3>2. /\ ListTyped' /\ list'.effect = list.effect /\ list'.crossed = list.crossed
          /\ list'.failed \/ (r.read /\ list'.held = r.held)
      BY <2>1, <3>1 DEF ListInv, ListTyped, ListRequests
    <3>3. Awaited' = {} /\ r \in Awaited
      BY <2>1, <2>3, <3>2 DEF Awaited, ListInv
    <3> QED
      BY <1>1, <2>1, <3>2, <3>3 DEF ListInv
  <2> QED
    BY <2>2, <2>3
<1>5. ASSUME NEW c \in Chats, SelectChat(c) PROVE ListInv'
  <2>1. /\ ListTyped' /\ list'.effect = list.effect /\ list'.crossed = list.crossed
        /\ list'.failed = list.failed /\ list'.held = list.held /\ UNCHANGED lists
    BY <1>5 DEF SelectChat, ListInv, ListTyped
  <2> QED
    BY <1>1, <2>1 DEF ListInv, Awaited
<1>6. ASSUME NEW c \in Chats, AskEdit("create", c) \/ AskEdit("delete", c) PROVE ListInv'
  BY <1>1, <1>6 DEF AskEdit, ListInv, ListTyped, Awaited
<1>7. ASSUME NEW x \in edits, EditDone(x) PROVE ListInv'
  BY <1>1, <1>7 DEF EditDone, ListInv, ListTyped, Awaited
<1>8. ASSUME NEW x \in edits, EditAnswered(x) PROVE FALSE
  BY <1>8 DEF EditAnswered
<1> QED
  BY <1>2, <1>3, <1>4, <1>5, <1>6, <1>7, <1>8 DEF ProjectsNext

\* A chat is created or deleted.
LEMMA ListEditsKept ==
    ASSUME ListInv,
           \/ \E c \in Chats : AskEdit("create", c) \/ AskEdit("delete", c)
           \/ \E x \in edits : EditDone(x) \/ EditAnswered(x)
    PROVE  ListInv'
<1>1. ASSUME NEW c \in Chats, NEW kind \in {"create", "delete"}, AskEdit(kind, c) PROVE ListInv'
  <2> DEFINE new == [kind |-> kind, chat |-> c, done |-> FALSE, selected |-> list.selected]
  <2>1. /\ edits' = edits \cup {new} /\ UNCHANGED <<chats, list, lists>> /\ \A x \in edits : x.chat # c
        /\ list.selected \in Chats \cup {NoChat}
    BY <1>1 DEF AskEdit, ListInv, ListTyped
  <2>2. new \in EditRequests /\ new.chat = c /\ ~new.done
    BY <2>1 DEF EditRequests
  <2> HIDE DEF new
  <2>3. \A d : Changing(d)' <=> Changing(d)
    BY <2>1, <2>2 DEF Changing
  <2>4. \A held : Current(held)' <=> Current(held)
    BY <2>1, <2>3 DEF Current
  <2>5. ListTyped' /\ Awaited' = Awaited
    BY <2>1, <2>2 DEF ListInv, ListTyped, Awaited
  <2> QED
    BY <2>1, <2>2, <2>4, <2>5 DEF ListInv
<1>2. ASSUME NEW x \in edits, EditDone(x) PROVE ListInv'
  <2> DEFINE new == [x EXCEPT !.done = TRUE]
  <2>1. /\ edits' = (edits \ {x}) \cup {new} /\ UNCHANGED <<list, lists>> /\ ~x.done /\ x \in EditRequests
        /\ chats' = IF x.kind = "create" THEN chats \cup {x.chat} ELSE chats \ {x.chat}
    BY <1>2 DEF EditDone, ListInv, ListTyped
  <2>2. new \in EditRequests /\ new.chat = x.chat /\ new.done /\ new.kind = x.kind /\ x.chat \in Chats
    BY <2>1 DEF EditRequests
  <2> HIDE DEF new
  <2>3. \A d \in Chats : Changing(d)' <=> Changing(d) \/ d = x.chat
    BY <2>1, <2>2 DEF Changing
  <2>4. \A d \in Chats : d # x.chat => (d \in chats' <=> d \in chats)
    BY <2>1
  <2>5. \A held : Current(held) => Current(held)'
    <3> SUFFICES ASSUME NEW held, Current(held), NEW d \in Chats
                 PROVE  (d \in held <=> d \in chats') \/ Changing(d)'
      BY DEF Current
    <3> QED
      BY <2>3, <2>4 DEF Current
  <2>6. ListTyped' /\ Awaited' = Awaited
    BY <2>1, <2>2 DEF ListInv, ListTyped, Awaited
  <2>7. \A y \in edits' : y.done => (y.chat \in chats' <=> y.kind = "create")
    <3> SUFFICES ASSUME NEW y \in edits', y.done PROVE y.chat \in chats' <=> y.kind = "create"
      OBVIOUS
    <3>1. CASE y = new
      BY <2>1, <2>2, <3>1 DEF EditRequests
    <3>2. CASE y # new
      <4>1. y \in edits /\ y.chat # x.chat /\ y.chat \in Chats
        BY <2>1, <3>2 DEF ListInv, ListTyped, EditRequests
      <4> QED
        BY <2>4, <4>1 DEF ListInv
    <3> QED
      BY <3>1, <3>2
  <2>8. \A y, z \in edits' : y.chat = z.chat => y = z
    BY <2>1, <2>2 DEF ListInv
  <2> QED
    BY <2>1, <2>5, <2>6, <2>7, <2>8 DEF ListInv
<1>3. ASSUME NEW x \in edits, EditAnswered(x) PROVE ListInv'
  <2> DEFINE sel == IF x.kind = "create" THEN x.chat
                    ELSE IF x.selected = x.chat THEN NoChat ELSE list.selected
             crossed == list.crossed \/ \E r \in lists : r.effect = list.effect /\ r.read
  <2>0. PICK h : h = IF x.kind = "create" THEN list.held \cup {x.chat} ELSE list.held \ {x.chat}
    OBVIOUS
  <2>1. /\ edits' = edits \ {x} /\ UNCHANGED <<chats, lists>> /\ x.done /\ x \in EditRequests
        /\ list' = [list EXCEPT !.held = h, !.selected = sel, !.crossed = crossed]
    BY <1>3, <2>0 DEF EditAnswered, ListInv, ListTyped
  <2>2. h \subseteq Chats /\ sel \in Chats \cup {NoChat}
    BY <2>0, <2>1 DEF ListInv, ListTyped, EditRequests
  <2>3. crossed \in BOOLEAN
    BY DEF ListInv, ListTyped
  <2>4. /\ \A d \in Chats : d # x.chat => (d \in h <=> d \in list.held)
        /\ x.chat \in h <=> x.kind = "create"
    BY <2>0, <2>1
  <2>5. ~crossed => ~list.crossed /\ \A r \in Awaited : ~r.read
    BY DEF Awaited
  <2> HIDE DEF sel, crossed
  <2>6. /\ ListTyped' /\ list'.effect = list.effect /\ list'.crossed = crossed
        /\ list'.failed = list.failed /\ list'.held = h
    BY <2>1, <2>2, <2>3 DEF ListInv, ListTyped
  <2>7. Awaited' = Awaited
    BY <2>1, <2>6 DEF Awaited
  <2>8. \A d \in Chats : d # x.chat => (Changing(d)' <=> Changing(d))
    BY <2>1 DEF Changing
  <2>9. Current(list.held) => Current(h)'
    <3> SUFFICES ASSUME Current(list.held), NEW d \in Chats
                 PROVE  (d \in h <=> d \in chats') \/ Changing(d)'
      BY DEF Current
    <3>1. CASE d # x.chat
      BY <2>1, <2>4, <2>8, <3>1 DEF Current
    <3>2. CASE d = x.chat
      BY <2>1, <2>4, <3>2 DEF ListInv
    <3> QED
      BY <3>1, <3>2
  <2>10. ~list'.crossed => \A r \in Awaited' : ~r.read
    BY <2>5, <2>6, <2>7
  <2>11. ~list'.crossed /\ ~list'.failed /\ Awaited' = {} => Current(h)'
    BY <2>5, <2>6, <2>7, <2>9 DEF ListInv
  <2>12. ~list'.crossed /\ ~list'.failed /\ Awaited' = {} => Current(list.held)'
    BY <2>6, <2>11 DEF Current
  <2>13. \A y, z \in edits' : y.chat = z.chat => y = z
    BY <2>1 DEF ListInv
  <2>14. \A y \in edits' : y.done => (y.chat \in chats' <=> y.kind = "create")
    BY <2>1 DEF ListInv
  <2>15. ~list'.crossed => \A r \in Awaited' : r.read => Current(r.held)'
    BY <2>10
  <2>16. (\A r \in lists : r.effect <= list.effect)' /\ (\A r, s \in lists : r.effect = s.effect => r = s)'
    BY <2>1, <2>6 DEF ListInv
  <2> QED
    BY <2>6, <2>12, <2>13, <2>14, <2>15, <2>16 DEF ListInv
<1> QED
  BY <1>1, <1>2, <1>3

LEMMA ListKept == ListInv /\ [ProjectsNext]_projectVars => ListInv'
<1> SUFFICES ASSUME ListInv, [ProjectsNext]_projectVars PROVE ListInv'
  OBVIOUS
<1>1. CASE UNCHANGED projectVars
  BY <1>1 DEF projectVars, ListInv, ListTyped, Awaited, Current, Changing
<1>2. CASE \/ \E c \in Chats : AskEdit("create", c) \/ AskEdit("delete", c)
           \/ \E x \in edits : EditDone(x) \/ EditAnswered(x)
  BY <1>2, ListEditsKept
<1>3. CASE \/ Refresh \/ \E c \in Chats : SelectChat(c)
           \/ \E r \in lists : ListRead(r) \/ ListAnswered(r) \/ ListFails(r)
  <2>1. UNCHANGED <<chats, edits>> /\ ProjectsNext
    BY <1>3 DEF Refresh, SelectChat, ListRead, ListAnswered, ListFails, ProjectsNext
  <2> QED
    BY <2>1, ListRequestsKept
<1> QED
  BY <1>1, <1>2, <1>3 DEF ProjectsNext

LEMMA ListInvSafe == ListInv => ListAgrees
BY DEF ListInv, ListTyped, ListAgrees, Awaited, Current, Changing

-----------------------------------------------------------------------------
(* The search over all chats *)

Finds == [at : {"timer", "asked"}, query : Nat, request : Nat]

\* The newest request is for the query there is now, and while a search is shown as
\* running it has not been answered.
FinderInv ==
    /\ finder \in [query : Nat, request : Nat, results : Nat, searching : BOOLEAN, asked : Nat]
    /\ finds \subseteq Finds
    /\ \A x \in finds : x.request <= finder.request
    /\ \A x \in finds : x.request = finder.request => x.query = finder.query
    /\ finder.results \in {0, finder.query}
    /\ finder.searching => finder.query # 0 /\ \E x \in finds : x.request = finder.request

LEMMA FinderStarts == SidebarInit => FinderInv
BY DEF SidebarInit, FinderInv, Finds

LEMMA FinderKept == FinderInv /\ [FinderNext]_finderVars => FinderInv'
<1> SUFFICES ASSUME FinderInv, [FinderNext]_finderVars PROVE FinderInv'
  OBVIOUS
<1>1. CASE UNCHANGED finderVars
  BY <1>1 DEF finderVars, FinderInv
<1>2. ASSUME NEW q \in Nat, ChangeSearchQuery(q) \/ (q = finder.query /\ SearchRefreshed) PROVE FinderInv'
  <2>1. PICK n \in Nat : /\ n > finder.request /\ finder'.request = n
                         /\ finds' = {x \in finds : x.at # "timer"}
                              \cup (IF q = 0 THEN {} ELSE {[at |-> "timer", query |-> q, request |-> n]})
    <3>1. CASE ChangeSearchQuery(q)
      <4>1. finder.request + 2 \in Nat /\ finder.request + 1 + 1 = finder.request + 2
        BY DEF FinderInv
      <4>2. /\ finder'.request = finder.request + 2
            /\ finds' = {x \in finds : x.at # "timer"}
                  \cup (IF q = 0 THEN {} ELSE {[at |-> "timer", query |-> q, request |-> finder.request + 2]})
        BY <3>1, <4>1 DEF ChangeSearchQuery, FinderEffect, FinderInv
      <4> QED
        BY <4>1, <4>2 DEF FinderInv
    <3>2. CASE SearchRefreshed /\ q = finder.query
      <4>1. /\ finder'.request = finder.request + 1
            /\ finds' = {x \in finds : x.at # "timer"}
                  \cup (IF q = 0 THEN {} ELSE {[at |-> "timer", query |-> q, request |-> finder.request + 1]})
        BY <3>2 DEF SearchRefreshed, FinderEffect, FinderInv
      <4> QED
        BY <4>1 DEF FinderInv
    <3> QED
      BY <1>2, <3>1, <3>2
  <2>2. /\ finder' \in [query : Nat, request : Nat, results : Nat, searching : BOOLEAN, asked : Nat]
        /\ finder'.query = q /\ finder'.results \in {0, q} /\ (finder'.searching => q # 0)
    <3>1. CASE ChangeSearchQuery(q)
      <4> DEFINE none == 0
                 sought == q # none
      <4>1. none \in Nat /\ sought \in BOOLEAN
        OBVIOUS
      <4> DEFINE m == finder.request + 2
                 a == finder.asked + 1
      <4>4. m \in Nat /\ a \in Nat /\ (finder.request + 1) + 1 = m
        BY DEF FinderInv
      <4>2. finder' = [finder EXCEPT !.request = m, !.results = none, !.searching = sought,
                                     !.asked = a, !.query = q]
        BY <3>1, <4>4 DEF ChangeSearchQuery, FinderEffect, FinderInv
      <4> HIDE DEF none, sought, m, a
      <4>3. /\ finder' \in [query : Nat, request : Nat, results : Nat, searching : BOOLEAN, asked : Nat]
            /\ finder'.query = q /\ finder'.results = none /\ (finder'.searching <=> sought)
        BY <4>1, <4>2, <4>4 DEF FinderInv
      <4> QED
        BY <4>3 DEF none, sought
    <3>2. CASE SearchRefreshed /\ q = finder.query
      <4> DEFINE m == finder.request + 1
                 a == finder.asked + 1
      <4>1. m \in Nat /\ a \in Nat
        BY DEF FinderInv
      <4>2. finder' = [finder EXCEPT !.asked = a, !.query = q, !.request = m]
        BY <3>2 DEF SearchRefreshed, FinderEffect, FinderInv
      <4> HIDE DEF m, a
      <4> QED
        BY <3>2, <4>1, <4>2 DEF FinderInv
    <3> QED
      BY <1>2, <3>1, <3>2
  <2> DEFINE new == [at |-> "timer", query |-> q, request |-> n]
  <2>3. new \in Finds /\ new.request = n /\ new.query = q
    BY DEF Finds
  <2>4. \A x \in finds' : (x \in finds /\ x.request < n) \/ x = new
    BY <2>1 DEF FinderInv, Finds
  <2>5. q # 0 => new \in finds'
    BY <2>1
  <2> HIDE DEF new
  <2> QED
    BY <2>1, <2>2, <2>3, <2>4, <2>5 DEF FinderInv, Finds
<1>3. ASSUME NEW x \in finds, SearchStarts(x) PROVE FinderInv'
  <2> DEFINE new == [x EXCEPT !.at = "asked"]
  <2>1. finds' = (finds \ {x}) \cup {new} /\ UNCHANGED finder /\ x \in Finds
    BY <1>3 DEF SearchStarts, FinderInv
  <2>2. new \in Finds /\ new.request = x.request /\ new.query = x.query
    BY <2>1 DEF Finds
  <2> HIDE DEF new
  <2> QED
    BY <2>1, <2>2 DEF FinderInv
<1>4. ASSUME NEW x \in finds, NEW found \in BOOLEAN, SearchAnswered(x, found) PROVE FinderInv'
  <2>1. finds' = finds \ {x} /\ x \in Finds
    BY <1>4 DEF SearchAnswered, FinderInv
  <2>2. CASE finder.request # x.request
    BY <1>4, <2>1, <2>2 DEF SearchAnswered, FinderInv
  <2>3. CASE finder.request = x.request
    BY <1>4, <2>1, <2>3 DEF SearchAnswered, FinderInv, Finds
  <2> QED
    BY <2>2, <2>3
<1>5. finder.query \in Nat /\ 0..2 \subseteq Nat
  BY DEF FinderInv
<1> QED
  BY <1>1, <1>2, <1>3, <1>4, <1>5 DEF FinderNext

-----------------------------------------------------------------------------
(* The search in a conversation *)

SearchJobs == [at : {"timer", "asked", "page"}, query : Nat, match : 0..LastMessage, version : Nat]
PageJobs == [message : 1..LastMessage, version : Nat]

SearchStates ==
    [query : Nat, at : Nat, version : Nat, asked : Nat, result : Int, view : SUBSET (1..LastMessage),
     around : 0..LastMessage, loading : BOOLEAN, failed : BOOLEAN, paging : BOOLEAN]

SearchTyped ==
    /\ search \in SearchStates
    /\ searches \subseteq SearchJobs
    /\ pageLoads \subseteq PageJobs

\* What is under way for the request there is now.
Asked == {x \in searches : x.version = search.version}
Loaded == {x \in pageLoads : x.version = search.version}

\* A view from a to b around a match.
Spans(view, around, a, b) == a \in 1..LastMessage /\ b \in 1..LastMessage
                             /\ a <= around /\ around <= b /\ view = a..b

\* One thing is under way for the request there is now, a search or one more page of
\* the view, which is beside it: nothing moved the view since it was asked for.
SearchInv ==
    /\ SearchTyped
    /\ \A x \in searches : x.version <= search.version /\ (x.at = "page" => x.match # 0)
    /\ \A x \in pageLoads : x.version <= search.version
    /\ \A x, y \in Asked : x = y
    /\ \A x, y \in Loaded : x = y
    /\ Asked = {} \/ Loaded = {}
    /\ search.loading <=> Asked # {} \/ Loaded # {}
    /\ search.view # {} => \E a, b \in 1..LastMessage : Spans(search.view, search.around, a, b)
    /\ \A x \in Loaded : \E a, b \in 1..LastMessage :
          Spans(search.view, search.around, a, b) /\ x.message \in {a - 1, b + 1}

LEMMA MatchStarts == SidebarInit => SearchInv
BY LastMessageAssumption DEF SidebarInit, SearchInv, SearchTyped, SearchStates, Asked, Loaded, SearchJobs, PageJobs

LEMMA EndsOfRow ==
    ASSUME NEW a \in Int, NEW b \in Int, a <= b
    PROVE  Min(a..b) = a /\ Max(a..b) = b
<1>1. a \in a..b /\ (\A y \in a..b : a <= y) /\ (\A x \in a..b : (\A y \in a..b : x <= y) => x = a)
  OBVIOUS
<1>2. b \in a..b /\ (\A y \in a..b : b >= y) /\ (\A x \in a..b : (\A y \in a..b : x >= y) => x = b)
  OBVIOUS
<1> QED
  BY <1>1, <1>2 DEF Min, Max

\* What a search begins with.
LEMMA Begun ==
    ASSUME SearchInv, NEW query \in Nat
    PROVE  /\ Begin(query) \in SearchStates /\ Begin(query).query = query
           /\ Begin(query).version = search.version + 1 /\ (Begin(query).loading <=> query # 0)
           /\ Begin(query).view = search.view /\ Begin(query).around = search.around
<1> DEFINE none == 0
           loading == query # none
<1>1. none \in Int /\ loading \in BOOLEAN /\ search \in SearchStates
  BY DEF SearchInv, SearchTyped
<1> DEFINE v == search.version + 1
           n == search.asked + 1
<1>4. v \in Nat /\ n \in Nat
  BY <1>1 DEF SearchStates
<1>2. Begin(query) = [search EXCEPT !.query = query, !.version = v, !.asked = n, !.result = none,
                                    !.failed = FALSE, !.loading = loading]
  BY <1>1 DEF Begin, SearchStates
<1> HIDE DEF none, loading, v, n
<1>3. /\ Begin(query) \in SearchStates /\ Begin(query).query = query
      /\ Begin(query).version = v /\ (Begin(query).loading <=> loading)
      /\ Begin(query).view = search.view /\ Begin(query).around = search.around
  BY <1>1, <1>2, <1>4 DEF SearchStates
<1> QED
  BY <1>3 DEF none, loading, v

\* A request begins: what is under way is of the ones before.
LEMMA SearchBegins ==
    ASSUME SearchInv, NEW query \in Nat, NEW s, SearchEffect(s), s.query = query,
           s \in SearchStates,
           s.version = search.version + 1, s.loading <=> query # 0,
           s.view = {} \/ (s.view = search.view /\ s.around = search.around)
    PROVE  SearchInv'
<1> DEFINE new == [at |-> "timer", query |-> query, match |-> 0, version |-> s.version + 1]
<1>0. search' = [s EXCEPT !.version = @ + 1, !.paging = FALSE] /\ s.version \in Nat
  BY DEF SearchEffect, SearchStates
<1>1. /\ search' \in SearchStates
      /\ search'.version = s.version + 1 /\ search'.view = s.view /\ search'.around = s.around
      /\ search'.loading = s.loading /\ UNCHANGED pageLoads
      /\ searches' = {x \in searches : x.at # "timer"} \cup (IF query = 0 THEN {} ELSE {new})
  <2>1. searches' = {x \in searches : x.at # "timer"} \cup (IF query = 0 THEN {} ELSE {new})
        /\ UNCHANGED pageLoads
    BY DEF SearchEffect
  <2> HIDE DEF new
  <2> DEFINE v == s.version + 1
  <2>2. v \in Nat /\ search' = [s EXCEPT !.version = v, !.paging = FALSE]
    BY <1>0
  <2> HIDE DEF v
  <2>3. /\ search' \in SearchStates /\ search'.version = v /\ search'.view = s.view
        /\ search'.around = s.around /\ search'.loading = s.loading
    BY <2>2 DEF SearchStates
  <2> QED
    BY <2>1, <2>3 DEF v
<1>2. search.version \in Nat /\ s.version \in Nat
  BY DEF SearchInv, SearchTyped, SearchStates
<1>3. new \in SearchJobs /\ new.version = s.version + 1 /\ new.at = "timer"
  BY <1>2, LastMessageAssumption DEF SearchJobs
<1> HIDE DEF new
<1>4. SearchTyped'
  BY <1>1, <1>3 DEF SearchInv, SearchTyped
<1>5. \A x \in searches : x.version <= search.version /\ x.version \in Nat
  BY DEF SearchInv, SearchTyped, SearchJobs
<1>6. \A x \in pageLoads : x.version <= search.version /\ x.version \in Nat
  BY DEF SearchInv, SearchTyped, PageJobs
<1>7. Asked' = IF query = 0 THEN {} ELSE {new}
  BY <1>1, <1>2, <1>3, <1>5 DEF Asked
<1>8. Loaded' = {}
  BY <1>1, <1>2, <1>6 DEF Loaded
<1>9. (\A x \in searches : x.version <= search.version /\ (x.at = "page" => x.match # 0))'
  BY <1>1, <1>2, <1>3, <1>5 DEF SearchInv
<1>10. (\A x \in pageLoads : x.version <= search.version)'
  BY <1>1, <1>2, <1>6
<1>11. (search.view # {} => \E a, b \in 1..LastMessage : Spans(search.view, search.around, a, b))'
  BY <1>1 DEF SearchInv, Spans
<1> QED
  BY <1>1, <1>4, <1>7, <1>8, <1>9, <1>10, <1>11 DEF SearchInv

\* A search or a page of an earlier request ends.
LEMMA SearchLeft ==
    ASSUME SearchInv, NEW x, x.version # search.version, searches' = searches \ {x},
           UNCHANGED <<search, pageLoads>>
    PROVE  SearchInv'
<1>1. Asked' = Asked /\ Loaded' = Loaded
  BY DEF Asked, Loaded
<1>2. SearchTyped'
  BY DEF SearchInv, SearchTyped
<1> QED
  BY <1>1, <1>2 DEF SearchInv, Spans

LEMMA LoadLeft ==
    ASSUME SearchInv, NEW x, x.version # search.version, pageLoads' = pageLoads \ {x},
           UNCHANGED <<search, searches>>
    PROVE  SearchInv'
<1>1. Asked' = Asked /\ Loaded' = Loaded
  BY DEF Asked, Loaded
<1>2. SearchTyped'
  BY DEF SearchInv, SearchTyped
<1> QED
  BY <1>1, <1>2 DEF SearchInv, Spans

\* What was under way for the request there is now ends, and the view is the same or
\* one around a match.
LEMMA CurrentEnds ==
    ASSUME SearchInv, NEW x \in Asked \cup Loaded, SearchTyped', search'.version = search.version,
           \/ x \in Asked /\ searches' = searches \ {x} /\ UNCHANGED pageLoads
           \/ x \in Loaded /\ pageLoads' = pageLoads \ {x} /\ UNCHANGED searches,
           ~search'.loading,
           \/ search'.view = search.view /\ search'.around = search.around
           \/ \E a, b \in 1..LastMessage : Spans(search'.view, search'.around, a, b)
    PROVE  SearchInv'
<1>1. Asked' = {} /\ Loaded' = {}
  BY DEF Asked, Loaded, SearchInv
<1>2. (\A y \in searches : y.version <= search.version /\ (y.at = "page" => y.match # 0))'
  BY DEF SearchInv
<1>3. (\A y \in pageLoads : y.version <= search.version)'
  BY DEF SearchInv
<1>4. (search.view # {} => \E a, b \in 1..LastMessage : Spans(search.view, search.around, a, b))'
  BY DEF SearchInv, Spans
<1> QED
  BY <1>1, <1>2, <1>3, <1>4 DEF SearchInv

\* A search goes on, the view stays.
LEMMA SearchGoesOn ==
    ASSUME SearchInv, NEW x \in searches, NEW y \in SearchJobs, y.version = x.version,
           y.at = "page" => y.match # 0,
           searches' = (searches \ {x}) \cup {y}, UNCHANGED pageLoads,
           SearchTyped', search'.version = search.version, search'.loading = search.loading,
           search'.view = search.view, search'.around = search.around
    PROVE  SearchInv'
<1>1. Loaded' = Loaded
  BY DEF Loaded
<1>2. CASE x \in Asked
  <2>1. Asked' = {y}
    BY <1>2 DEF Asked, SearchInv
  <2> QED
    BY <1>1, <1>2, <2>1 DEF SearchInv, Spans
<1>3. CASE x \notin Asked
  <2>1. Asked' = Asked
    BY <1>3 DEF Asked
  <2> QED
    BY <1>1, <2>1 DEF SearchInv, Spans
<1> QED
  BY <1>2, <1>3

LEMMA ViewSpans ==
    ASSUME SearchInv, search.view # {}
    PROVE  \E a, b \in 1..LastMessage :
              /\ Spans(search.view, search.around, a, b)
              /\ Min(search.view) = a /\ Max(search.view) = b
<1>1. PICK a \in 1..LastMessage, b \in 1..LastMessage : Spans(search.view, search.around, a, b)
  BY DEF SearchInv
<1>2. a \in Int /\ b \in Int /\ a <= b /\ search.view = a..b
  BY <1>1, LastMessageAssumption DEF Spans, SearchInv, SearchTyped, SearchStates
<1>3. Min(a..b) = a /\ Max(a..b) = b
  BY <1>2, EndsOfRow
<1> QED
  BY <1>1, <1>2, <1>3

LEMMA SearchKept == SearchInv /\ [SearchNext]_searchVars => SearchInv'
<1> SUFFICES ASSUME SearchInv, [SearchNext]_searchVars PROVE SearchInv'
  OBVIOUS
<1> USE LastMessageAssumption
<1>1. CASE UNCHANGED searchVars
  BY <1>1 DEF searchVars, SearchInv, SearchTyped, Asked, Loaded, Spans
<1>2. ASSUME NEW q \in 0..2, BeginSearch(q) PROVE SearchInv'
  <2>1. SearchEffect(Begin(q)) /\ q \in Nat
    BY <1>2 DEF BeginSearch
  <2>2. /\ Begin(q) \in SearchStates /\ Begin(q).query = q
        /\ Begin(q).version = search.version + 1 /\ (Begin(q).loading <=> q # 0)
        /\ Begin(q).view = search.view /\ Begin(q).around = search.around
    BY <2>1, Begun
  <2> QED
    BY <2>1, <2>2, SearchBegins
<1>3. CASE ReturnLatest
  <2> DEFINE s == [Begin(0) EXCEPT !.view = {}, !.around = 0]
  <2>1. SearchEffect(s) /\ 0 \in Nat
    BY <1>3 DEF ReturnLatest
  <2>2. /\ Begin(0) \in SearchStates /\ Begin(0).query = 0
        /\ Begin(0).version = search.version + 1 /\ ~Begin(0).loading
    BY <2>1, Begun
  <2>3. {} \in SUBSET (1..LastMessage) /\ 0 \in 0..LastMessage
    OBVIOUS
  <2>4. /\ s \in SearchStates
        /\ s.query = 0 /\ s.version = search.version + 1 /\ (s.loading <=> 0 # 0) /\ s.view = {}
    <3> DEFINE nothing == {}
               nowhere == 0
    <3>1. nothing \in SUBSET (1..LastMessage) /\ nowhere \in 0..LastMessage /\ nothing = {}
      BY <2>3
    <3>2. s = [Begin(0) EXCEPT !.view = nothing, !.around = nowhere]
      OBVIOUS
    <3> HIDE DEF s, nothing, nowhere
    <3> QED
      BY <2>2, <3>1, <3>2 DEF SearchStates
  <2> HIDE DEF s
  <2> QED
    BY <2>1, <2>4, SearchBegins
<1>4. ASSUME NEW x \in searches, MessagesAsked(x) PROVE SearchInv'
  <2> DEFINE y == [x EXCEPT !.at = "asked"]
  <2>1. searches' = (searches \ {x}) \cup {y} /\ UNCHANGED <<search, pageLoads>> /\ x \in SearchJobs
    BY <1>4 DEF MessagesAsked, SearchInv, SearchTyped
  <2>2. y \in SearchJobs /\ y.version = x.version /\ y.at = "asked"
    BY <2>1 DEF SearchJobs
  <2> HIDE DEF y
  <2>3. SearchTyped'
    BY <2>1, <2>2 DEF SearchInv, SearchTyped, SearchStates
  <2> QED
    BY <2>1, <2>2, <2>3, SearchGoesOn
<1>5. ASSUME NEW x \in searches, NEW m \in 0..LastMessage, Matched(x, m) PROVE SearchInv'
  <2>0. UNCHANGED pageLoads /\ x \in SearchJobs
    BY <1>5 DEF Matched, SearchInv, SearchTyped
  <2>1. CASE search.version # x.version
    <3>1. searches' = searches \ {x} /\ UNCHANGED <<search, pageLoads>>
      BY <1>5, <2>1 DEF Matched
    <3> QED
      BY <2>1, <3>1, SearchLeft
  <2>2. CASE search.version = x.version /\ m = 0
    <3>1. searches' = searches \ {x} /\ search' = [search EXCEPT !.result = -1, !.loading = FALSE]
      BY <1>5, <2>2 DEF Matched
    <3>2. /\ SearchTyped' /\ search'.version = search.version /\ ~search'.loading
          /\ search'.view = search.view /\ search'.around = search.around
      <4> DEFINE none == -1
      <4>1. none \in Int
        OBVIOUS
      <4>2. search' = [search EXCEPT !.result = none, !.loading = FALSE] /\ searches' = searches \ {x}
        BY <3>1
      <4> HIDE DEF none
      <4> QED
        BY <2>0, <4>1, <4>2 DEF SearchInv, SearchTyped, SearchStates
    <3>3. x \in Asked
      BY <2>2 DEF Asked
    <3> QED
      BY <2>0, <3>1, <3>2, <3>3, CurrentEnds
  <2>3. CASE search.version = x.version /\ m # 0
    <3> DEFINE y == [x EXCEPT !.at = "page", !.match = m]
    <3>1. searches' = (searches \ {x}) \cup {y} /\ search' = [search EXCEPT !.result = m]
      BY <1>5, <2>3 DEF Matched
    <3>2. y \in SearchJobs /\ y.version = x.version /\ y.match # 0
      BY <2>0, <2>3 DEF SearchJobs
    <3> HIDE DEF y
    <3>3. /\ SearchTyped' /\ search'.version = search.version /\ search'.loading = search.loading
          /\ search'.view = search.view /\ search'.around = search.around
      BY <2>0, <3>1, <3>2 DEF SearchInv, SearchTyped, SearchStates
    <3> QED
      BY <2>0, <3>1, <3>2, <3>3, SearchGoesOn
  <2> QED
    BY <2>1, <2>2, <2>3
<1>6. ASSUME NEW x \in searches, PageArrives(x) \/ SearchFails(x) PROVE SearchInv'
  <2>0. searches' = searches \ {x} /\ UNCHANGED pageLoads /\ x \in SearchJobs
    BY <1>6 DEF PageArrives, SearchFails, SearchInv, SearchTyped
  <2>1. CASE search.version # x.version
    <3>1. UNCHANGED search
      BY <1>6, <2>1 DEF PageArrives, SearchFails
    <3> QED
      BY <2>0, <2>1, <3>1, SearchLeft
  <2>2. CASE search.version = x.version /\ PageArrives(x)
    <3>1. /\ search' = [search EXCEPT !.view = PageOf(x.match), !.around = x.match, !.loading = FALSE]
          /\ x.match \in 1..LastMessage
      BY <2>0, <2>2 DEF PageArrives, SearchInv, SearchJobs
    <3>2. PICK a \in 1..LastMessage, b \in 1..LastMessage : Spans(PageOf(x.match), x.match, a, b)
      <4> DEFINE a == IF x.match = 1 THEN 1 ELSE x.match - 1
                 b == IF x.match = LastMessage THEN LastMessage ELSE x.match + 1
      <4>1. a \in 1..LastMessage /\ b \in 1..LastMessage /\ a <= x.match /\ x.match <= b
        BY <3>1
      <4>2. PageOf(x.match) = a..b
        BY <3>1 DEF PageOf
      <4> QED
        BY <4>1, <4>2 DEF Spans
    <3>3. /\ SearchTyped' /\ search'.version = search.version /\ ~search'.loading
          /\ search'.view = PageOf(x.match) /\ search'.around = x.match
      <4>1. PageOf(x.match) \in SUBSET (1..LastMessage) /\ x.match \in 0..LastMessage
        BY <3>1 DEF PageOf
      <4> QED
        BY <2>0, <3>1, <4>1 DEF SearchInv, SearchTyped, SearchStates
    <3>4. x \in Asked
      BY <2>2 DEF Asked
    <3> QED
      BY <2>0, <3>2, <3>3, <3>4, CurrentEnds
  <2>3. CASE search.version = x.version /\ SearchFails(x)
    <3>1. search' = [search EXCEPT !.failed = TRUE, !.loading = FALSE]
      BY <2>3 DEF SearchFails
    <3>2. /\ SearchTyped' /\ search'.version = search.version /\ ~search'.loading
          /\ search'.view = search.view /\ search'.around = search.around
      BY <2>0, <3>1 DEF SearchInv, SearchTyped, SearchStates
    <3>3. x \in Asked
      BY <2>3 DEF Asked
    <3> QED
      BY <2>0, <3>2, <3>3, CurrentEnds
  <2> QED
    BY <1>6, <2>1, <2>2, <2>3
<1>7. ASSUME NEW way \in {-1, 1}, LoadPage(way) PROVE SearchInv'
  <2>1. search.view # {} /\ ~search.loading /\ UNCHANGED searches
    BY <1>7 DEF LoadPage
  <2>2. PICK a \in 1..LastMessage, b \in 1..LastMessage :
            /\ Spans(search.view, search.around, a, b)
            /\ Min(search.view) = a /\ Max(search.view) = b
    BY <2>1, ViewSpans
  <2>3. PICK n \in 1..LastMessage :
            /\ n \in {a - 1, b + 1}
            /\ search' = [search EXCEPT !.paging = TRUE, !.loading = TRUE, !.failed = FALSE]
            /\ pageLoads' = pageLoads \cup {[message |-> n, version |-> search.version]}
    BY <1>7, <2>2 DEF LoadPage
  <2> DEFINE new == [message |-> n, version |-> search.version]
  <2>4. new \in PageJobs /\ new.version = search.version /\ new.message = n
    BY DEF PageJobs, SearchInv, SearchTyped, SearchStates
  <2>5. pageLoads' = pageLoads \cup {new}
    BY <2>3
  <2> HIDE DEF new
  <2>6. /\ SearchTyped' /\ search'.version = search.version /\ search'.loading
        /\ search'.view = search.view /\ search'.around = search.around
    BY <2>1, <2>3, <2>4, <2>5 DEF SearchInv, SearchTyped, SearchStates
  <2>7. Asked' = {} /\ Loaded' = {new}
    BY <2>1, <2>4, <2>5, <2>6 DEF SearchInv, Asked, Loaded
  <2>8. (\A y \in pageLoads : y.version <= search.version)'
    BY <2>4, <2>5, <2>6 DEF SearchInv, SearchTyped, SearchStates
  <2>9. Spans(search'.view, search'.around, a, b) /\ new.message \in {a - 1, b + 1}
    BY <2>2, <2>3, <2>4, <2>6
  <2>10. (\A y \in Loaded : \E c, d \in 1..LastMessage :
            Spans(search.view, search.around, c, d) /\ y.message \in {c - 1, d + 1})'
    BY <2>7, <2>9 DEF Spans
  <2>11. (search.view # {} => \E c, d \in 1..LastMessage : Spans(search.view, search.around, c, d))'
    BY <2>9 DEF Spans
  <2> QED
    BY <2>1, <2>6, <2>7, <2>8, <2>10, <2>11 DEF SearchInv
<1>8. ASSUME NEW x \in pageLoads, PageLoaded(x) \/ PageFails(x) PROVE SearchInv'
  <2>0. pageLoads' = pageLoads \ {x} /\ UNCHANGED searches /\ x \in PageJobs
    BY <1>8 DEF PageLoaded, PageFails, SearchInv, SearchTyped
  <2>1. CASE search.version # x.version
    <3>1. UNCHANGED search
      BY <1>8, <2>1 DEF PageLoaded, PageFails
    <3> QED
      BY <2>0, <2>1, <3>1, LoadLeft
  <2>2. CASE search.version = x.version /\ PageLoaded(x)
    <3>1. search' = [search EXCEPT !.view = @ \cup {x.message}, !.paging = FALSE, !.loading = FALSE]
      BY <2>2 DEF PageLoaded
    <3>2. /\ SearchTyped' /\ search'.version = search.version /\ ~search'.loading
          /\ search'.view = search.view \cup {x.message} /\ search'.around = search.around
      BY <2>0, <3>1 DEF SearchInv, SearchTyped, SearchStates, PageJobs
    <3>3. x \in Loaded
      BY <2>2 DEF Loaded
    <3>4. PICK a \in 1..LastMessage, b \in 1..LastMessage :
              Spans(search.view, search.around, a, b) /\ x.message \in {a - 1, b + 1}
      BY <3>3 DEF SearchInv
    <3>5. \E c, d \in 1..LastMessage : Spans(search'.view, search'.around, c, d)
      <4>1. x.message \in 1..LastMessage /\ search.around \in Int
        BY <2>0 DEF PageJobs, SearchInv, SearchTyped, SearchStates
      <4>2. CASE x.message = a - 1
        <5>1. search'.view = (a - 1)..b
          BY <3>2, <3>4, <4>1, <4>2 DEF Spans
        <5> QED
          BY <3>2, <3>4, <4>1, <4>2, <5>1 DEF Spans
      <4>3. CASE x.message = b + 1
        <5>1. search'.view = a..(b + 1)
          BY <3>2, <3>4, <4>1, <4>3 DEF Spans
        <5> QED
          BY <3>2, <3>4, <4>1, <4>3, <5>1 DEF Spans
      <4> QED
        BY <3>4, <4>2, <4>3
    <3> QED
      BY <2>0, <3>2, <3>3, <3>5, CurrentEnds
  <2>3. CASE search.version = x.version /\ PageFails(x)
    <3>1. search' = [search EXCEPT !.failed = TRUE, !.paging = FALSE, !.loading = FALSE]
      BY <2>3 DEF PageFails
    <3>2. /\ SearchTyped' /\ search'.version = search.version /\ ~search'.loading
          /\ search'.view = search.view /\ search'.around = search.around
      BY <2>0, <3>1 DEF SearchInv, SearchTyped, SearchStates
    <3>3. x \in Loaded
      BY <2>3 DEF Loaded
    <3> QED
      BY <2>0, <3>2, <3>3, CurrentEnds
  <2> QED
    BY <1>8, <2>1, <2>2, <2>3
<1> QED
  BY <1>1, <1>2, <1>3, <1>4, <1>5, <1>6, <1>7, <1>8 DEF SearchNext

-----------------------------------------------------------------------------
(* The list and both searches *)

LEMMA SearchInvSafe == FinderInv /\ SearchInv => SearchAgrees
<1> SUFFICES ASSUME FinderInv, SearchInv PROVE SearchAgrees
  OBVIOUS
<1>1. finder.results \in {0, finder.query} /\ (finder.searching => \E x \in finds : x.request = finder.request)
  BY DEF FinderInv
<1>2. search.loading <=> \/ \E x \in searches : x.version = search.version
                         \/ \E x \in pageLoads : x.version = search.version
  BY DEF SearchInv, Asked, Loaded
<1>3. search.view # {} => search.around \in search.view /\ search.view = Min(search.view)..Max(search.view)
  <2> SUFFICES ASSUME search.view # {}
               PROVE  search.around \in search.view /\ search.view = Min(search.view)..Max(search.view)
    OBVIOUS
  <2>1. PICK a \in 1..LastMessage, b \in 1..LastMessage :
            /\ Spans(search.view, search.around, a, b)
            /\ Min(search.view) = a /\ Max(search.view) = b
    BY ViewSpans
  <2> QED
    BY <2>1, LastMessageAssumption DEF Spans, SearchInv, SearchTyped, SearchStates
<1> QED
  BY <1>1, <1>2, <1>3 DEF SearchAgrees

LEMMA SidebarInvSafe == ListInv /\ FinderInv /\ SearchInv => SidebarAgrees
BY ListInvSafe, SearchInvSafe DEF SidebarAgrees

-----------------------------------------------------------------------------
(* The draft *)

Texts == Seq(Nat)
Messages == [content : Texts, files : SUBSET Images]
Sends == [content : Texts, files : SUBSET Images, mount : Nat, unsaved : SUBSET [image : Images, mount : Nat]]
Pastes == [image : Images, mount : Nat]
Drafts == [content : Texts, typed : Nat, submits : Nat, files : SUBSET Images, mode : {"text", "voice"},
           mount : Nat, submitting : BOOLEAN, pasting : Nat, restored : SUBSET Texts, editing : BOOLEAN,
           resends : Nat, document : Texts, composing : BOOLEAN, withdrawn : SUBSET Nat, lost : SUBSET Nat]

DraftTyped ==
    /\ draft \in Drafts
    /\ sends \subseteq Sends
    /\ pastes \subseteq Pastes /\ IsFiniteSet(pastes)
    /\ queued \subseteq Messages
    /\ returning \subseteq Messages
    /\ heard \subseteq Nat

Here(x) == x.mount = draft.mount
Saving == {x \in pastes : Here(x)}

\* Where a word may be.
Somewhere(w) ==
    \/ w \in Words(draft.content) \/ w \in heard \/ w \in draft.lost
    \/ \E m \in queued \cup returning : w \in Words(m.content)
    \/ \E c \in draft.restored : w \in Words(c)

\* The draft has words its document lacks only if they were withdrawn; so are the
\* words on their way back; and the count of pastes is of those in this composer.
DraftInv ==
    /\ DraftTyped
    /\ \A w \in 1..draft.typed : Somewhere(w)
    /\ draft.lost \subseteq draft.withdrawn
    /\ Words(draft.content) \ Words(draft.document) \subseteq draft.withdrawn
    /\ \A m \in returning : Words(m.content) \subseteq draft.withdrawn
    /\ \A c \in draft.restored : Words(c) \subseteq draft.withdrawn
    /\ \A c, d \in draft.restored : c = d
    /\ \A s \in sends : s.unsaved = {}
    /\ \A x \in pastes : x.mount <= draft.mount
    /\ draft.mode = "text" => draft.pasting = Cardinality(Saving)

LEMMA WordsOf ==
    /\ \A c, d \in Texts : Words(c \o d) = Words(c) \cup Words(d)
    /\ \A c \in Texts, n \in Nat : Words(Append(c, n)) = Words(c) \cup {n}
    /\ Words(<<>>) = {}
    /\ \A c \in Texts : Words(c) \subseteq Nat
<1>1. ASSUME NEW c \in Texts, NEW d \in Texts PROVE Words(c \o d) = Words(c) \cup Words(d)
  <2>1. /\ DOMAIN c = 1..Len(c) /\ DOMAIN d = 1..Len(d) /\ DOMAIN (c \o d) = 1..(Len(c) + Len(d))
        /\ Len(c) \in Nat /\ Len(d) \in Nat
        /\ \A i \in 1..(Len(c) + Len(d)) : (c \o d)[i] = IF i <= Len(c) THEN c[i] ELSE d[i - Len(c)]
    BY <1>1, LenProperties, ConcatProperties DEF Texts
  <2>2. Words(c \o d) \subseteq Words(c) \cup Words(d)
    BY <2>1 DEF Words
  <2>3. Words(c) \subseteq Words(c \o d)
    <3> SUFFICES ASSUME NEW i \in 1..Len(c) PROVE c[i] \in Words(c \o d)
      BY <2>1 DEF Words
    <3>1. i \in 1..(Len(c) + Len(d)) /\ (c \o d)[i] = c[i]
      BY <2>1
    <3> QED
      BY <2>1, <3>1 DEF Words
  <2>4. Words(d) \subseteq Words(c \o d)
    <3> SUFFICES ASSUME NEW i \in 1..Len(d) PROVE d[i] \in Words(c \o d)
      BY <2>1 DEF Words
    <3>1. i + Len(c) \in 1..(Len(c) + Len(d)) /\ (c \o d)[i + Len(c)] = d[i]
      BY <2>1
    <3> QED
      BY <2>1, <3>1 DEF Words
  <2> QED
    BY <2>2, <2>3, <2>4
<1>2. ASSUME NEW c \in Texts, NEW n \in Nat PROVE Words(Append(c, n)) = Words(c) \cup {n}
  <2>1. /\ DOMAIN c = 1..Len(c) /\ DOMAIN Append(c, n) = 1..(Len(c) + 1) /\ Len(c) \in Nat
        /\ \A i \in 1..Len(c) : Append(c, n)[i] = c[i]
        /\ Append(c, n)[Len(c) + 1] = n
    BY <1>2, LenProperties, AppendProperties DEF Texts
  <2>2. \A i \in 1..(Len(c) + 1) : i \in 1..Len(c) \/ i = Len(c) + 1
    BY <2>1
  <2>3. Len(c) + 1 \in 1..(Len(c) + 1) /\ 1..Len(c) \subseteq 1..(Len(c) + 1)
    BY <2>1
  <2> QED
    BY <2>1, <2>2, <2>3 DEF Words
<1>3. Words(<<>>) = {}
  BY DEF Words
<1>4. ASSUME NEW c \in Texts PROVE Words(c) \subseteq Nat
  BY <1>4, LenProperties, ElementOfSeq DEF Words, Texts
<1> QED
  BY <1>1, <1>2, <1>3, <1>4

LEMMA DraftStarts == ComposerInit => DraftInv
<1> SUFFICES ASSUME ComposerInit PROVE DraftInv
  OBVIOUS
<1>1. <<>> \in Texts /\ IsFiniteSet({}) /\ Cardinality({}) = 0
  BY FS_EmptySet DEF Texts
<1>2. Saving = {}
  BY DEF ComposerInit, Saving
<1>3. DraftTyped
  BY <1>1 DEF ComposerInit, DraftTyped, Drafts
<1> QED
  BY <1>1, <1>2, <1>3, WordsOf DEF ComposerInit, DraftInv

\* What the steps have in common: the messages and pastes are as they were, and
\* the draft keeps the words that are not somewhere else.
LEMMA DraftStep ==
    ASSUME DraftInv, UNCHANGED <<sends, pastes, queued, heard, returning>>, draft' \in Drafts,
           draft'.mount = draft.mount,
           draft'.mode = draft.mode /\ draft'.pasting = draft.pasting,
           \A w \in 1..draft'.typed : Somewhere(w)',
           draft.withdrawn = draft'.withdrawn,
           draft'.lost \subseteq draft.withdrawn,
           Words(draft'.content) \ Words(draft'.document) \subseteq draft.withdrawn,
           draft'.restored \subseteq draft.restored
    PROVE  DraftInv'
<1>1. DraftTyped'
  BY DEF DraftInv, DraftTyped
<1>2. Saving' = Saving
  BY DEF Saving, Here
<1> QED
  BY <1>1, <1>2 DEF DraftInv

\* The editor tells its document.
LEMMA DocumentWritten ==
    ASSUME DraftInv, UNCHANGED <<sends, pastes, queued, heard, returning>>, NEW d \in Drafts,
           d.typed = draft.typed + 1, d.content = draft.content, d.lost = draft.lost,
           d.mount = draft.mount, d.mode = draft.mode, d.pasting = draft.pasting,
           d.withdrawn = draft.withdrawn, d.restored = draft.restored,
           draft' = Written(d, Append(draft.document, draft.typed + 1))
    PROVE  DraftInv'
<1> DEFINE document == Append(draft.document, draft.typed + 1)
           lost == draft.lost \cup (Words(draft.content) \ Words(document))
<1>1. /\ draft.typed \in Nat /\ draft.document \in Texts /\ draft.content \in Texts
      /\ draft.lost \subseteq Nat
  BY DEF DraftInv, DraftTyped, Drafts
<1>2. document \in Texts /\ Words(document) = Words(draft.document) \cup {draft.typed + 1}
  BY <1>1, WordsOf, AppendProperties DEF Texts
<1>3. lost \subseteq Nat
  BY <1>1, WordsOf
<1>4. lost \subseteq draft.withdrawn
  BY <1>2 DEF DraftInv
<1>5. draft' = [d EXCEPT !.document = document, !.content = document, !.lost = lost]
  BY DEF Written, Drafts
<1>6. \A w \in Words(draft.content) : w \in Words(document) \/ w \in lost
  OBVIOUS
<1>7. draft.lost \subseteq lost
  OBVIOUS
<1> HIDE DEF document, lost
<1>8. /\ draft' \in Drafts /\ draft'.content = document /\ draft'.document = document /\ draft'.lost = lost
      /\ draft'.typed = draft.typed + 1 /\ draft'.mount = draft.mount /\ draft'.mode = draft.mode
      /\ draft'.pasting = draft.pasting /\ draft'.withdrawn = draft.withdrawn /\ draft'.restored = draft.restored
  BY ZenonT(60), <1>2, <1>3, <1>5 DEF Drafts
<1>9. \A w : Somewhere(w) => Somewhere(w)'
  BY <1>6, <1>7, <1>8 DEF Somewhere
<1>10. \A w \in 1..draft'.typed : Somewhere(w)'
  <2> SUFFICES ASSUME NEW w \in 1..draft'.typed PROVE Somewhere(w)'
    OBVIOUS
  <2>1. CASE w = draft.typed + 1
    BY <1>2, <1>8, <2>1 DEF Somewhere
  <2>2. CASE w # draft.typed + 1
    BY <1>1, <1>8, <1>9, <2>2 DEF DraftInv
  <2> QED
    BY <2>1, <2>2
<1> QED
  BY <1>4, <1>8, <1>10, DraftStep

\* Steps that leave words, pastes and messages alone.
LEMMA DraftAside ==
    ASSUME DraftInv, UNCHANGED <<sends, pastes, queued, heard, returning>>, draft' \in Drafts,
           draft'.mount = draft.mount, draft'.mode = draft.mode, draft'.pasting = draft.pasting,
           draft'.typed = draft.typed, draft'.content = draft.content, draft'.document = draft.document,
           draft'.withdrawn = draft.withdrawn, draft'.lost = draft.lost, draft'.restored = draft.restored
    PROVE  DraftInv'
<1>1. \A w \in 1..draft'.typed : Somewhere(w)'
  BY DEF DraftInv, Somewhere
<1> QED
  BY <1>1, DraftStep DEF DraftInv

LEMMA TypingKept ==
    ASSUME DraftInv, Type \/ ComposeStarts \/ \E word \in BOOLEAN : ComposeEnds(word)
    PROVE  DraftInv'
<1>0. draft \in Drafts /\ draft.typed + 1 \in Nat
  BY DEF DraftInv, DraftTyped, Drafts
<1>1. CASE Type
  <2> DEFINE d == [draft EXCEPT !.typed = @ + 1]
  <2>1. draft' = Written(d, Append(draft.document, draft.typed + 1))
        /\ UNCHANGED <<sends, pastes, queued, heard, returning>>
    BY <1>1 DEF Type
  <2>2. /\ d \in Drafts /\ d.typed = draft.typed + 1 /\ d.content = draft.content /\ d.lost = draft.lost
        /\ d.mount = draft.mount /\ d.mode = draft.mode /\ d.pasting = draft.pasting
        /\ d.withdrawn = draft.withdrawn /\ d.restored = draft.restored
    BY <1>0 DEF Drafts
  <2> HIDE DEF d
  <2> QED
    BY <2>1, <2>2, DocumentWritten
<1>2. CASE ComposeEnds(TRUE)
  <2> DEFINE d == [draft EXCEPT !.composing = FALSE, !.typed = @ + 1]
  <2>1. draft' = Written(d, Append(draft.document, draft.typed + 1))
        /\ UNCHANGED <<sends, pastes, queued, heard, returning>>
    BY <1>2 DEF ComposeEnds
  <2>2. /\ d \in Drafts /\ d.typed = draft.typed + 1 /\ d.content = draft.content /\ d.lost = draft.lost
        /\ d.mount = draft.mount /\ d.mode = draft.mode /\ d.pasting = draft.pasting
        /\ d.withdrawn = draft.withdrawn /\ d.restored = draft.restored
    BY <1>0 DEF Drafts
  <2> HIDE DEF d
  <2> QED
    BY <2>1, <2>2, DocumentWritten
<1>3. CASE ComposeStarts \/ ComposeEnds(FALSE)
  <2>1. PICK b \in BOOLEAN : draft' = [draft EXCEPT !.composing = b]
    BY <1>3 DEF ComposeStarts, ComposeEnds
  <2>2. /\ draft' \in Drafts
        /\ draft'.mount = draft.mount /\ draft'.mode = draft.mode /\ draft'.pasting = draft.pasting
        /\ draft'.typed = draft.typed /\ draft'.content = draft.content /\ draft'.document = draft.document
        /\ draft'.withdrawn = draft.withdrawn /\ draft'.lost = draft.lost /\ draft'.restored = draft.restored
    BY <1>0, <2>1 DEF Drafts
  <2>3. UNCHANGED <<sends, pastes, queued, heard, returning>>
    BY <1>3 DEF ComposeStarts, ComposeEnds
  <2> QED
    BY <2>2, <2>3, DraftAside
<1> QED
  BY <1>1, <1>2, <1>3

\* The last message is edited and sent again; an attachment is removed.
LEMMA EditingKept ==
    ASSUME DraftInv,
           \/ EditStarts \/ EditCancelled \/ Resend \/ \E ok \in BOOLEAN : Resent(ok)
           \/ \E p \in Images : RemoveAttachment(p)
    PROVE  DraftInv'
<1>0. draft \in Drafts /\ draft.resends \in Nat /\ draft.editing \in BOOLEAN /\ draft.files \subseteq Images
  BY DEF DraftInv, DraftTyped, Drafts
<1> DEFINE Same ==
      /\ draft' \in Drafts
      /\ draft'.mount = draft.mount /\ draft'.mode = draft.mode /\ draft'.pasting = draft.pasting
      /\ draft'.typed = draft.typed /\ draft'.content = draft.content /\ draft'.document = draft.document
      /\ draft'.withdrawn = draft.withdrawn /\ draft'.lost = draft.lost /\ draft'.restored = draft.restored
<1>1. ASSUME EditStarts \/ EditCancelled PROVE Same
  <2>1. PICK e \in BOOLEAN : draft' = [draft EXCEPT !.editing = e]
    BY <1>1 DEF EditStarts, EditCancelled
  <2> QED
    BY <1>0, <2>1 DEF Drafts
<1>2. ASSUME Resend PROVE Same
  <2>1. draft.resends + 1 \in Nat /\ draft' = [draft EXCEPT !.resends = draft.resends + 1]
    BY <1>0, <1>2 DEF Resend
  <2> QED
    BY <1>0, <2>1 DEF Drafts
<1>4. ASSUME NEW ok \in BOOLEAN, Resent(ok) PROVE Same
  <2> DEFINE n == draft.resends - 1
             e == draft.editing /\ ~ok
  <2>1. n \in Nat
    <3>1. draft.resends \in Nat /\ draft.resends > 0
      BY <1>0, <1>4 DEF Resent
    <3> QED
      BY <3>1
  <2>2. e \in BOOLEAN
    OBVIOUS
  <2>3. draft' = [draft EXCEPT !.resends = n, !.editing = e]
    BY <1>4 DEF Resent
  <2> HIDE DEF n, e
  <2> QED
    BY <1>0, <2>1, <2>2, <2>3 DEF Drafts
<1>5. ASSUME NEW p \in Images, RemoveAttachment(p) PROVE Same
  <2> DEFINE f == draft.files \ {p}
  <2>1. f \subseteq Images /\ draft' = [draft EXCEPT !.files = f]
    BY <1>0, <1>5 DEF RemoveAttachment
  <2> HIDE DEF f
  <2> QED
    BY <1>0, <2>1 DEF Drafts
<1>6. Same
  BY <1>1, <1>2, <1>4, <1>5
<1>3. UNCHANGED <<sends, pastes, queued, heard, returning>>
  BY DEF EditStarts, EditCancelled, Resend, Resent, RemoveAttachment
<1> QED
  BY <1>3, <1>6, DraftAside

\* The count of images being saved follows them.
LEMMA PastingKept ==
    ASSUME DraftInv,
           \/ \E p \in Images : PasteImage(p)
           \/ \E x \in pastes, saved \in BOOLEAN : PasteSaved(x, saved)
    PROVE  DraftInv'
<1>0. /\ draft \in Drafts /\ draft.mount \in Nat /\ draft.pasting \in Nat /\ draft.files \subseteq Images
      /\ IsFiniteSet(Saving) /\ IsFiniteSet(pastes) /\ Saving \subseteq pastes
      /\ UNCHANGED <<sends, queued, heard, returning>>
  <2>1. Saving \subseteq pastes
    BY DEF Saving
  <2> QED
    BY <2>1, FS_Subset DEF DraftInv, DraftTyped, Drafts, PasteImage, PasteSaved
<1>1. ASSUME NEW p \in Images, PasteImage(p) PROVE DraftInv'
  <2> DEFINE new == [image |-> p, mount |-> draft.mount]
  <2>1. /\ pastes' = pastes \cup {new} /\ draft' = [draft EXCEPT !.pasting = @ + 1]
        /\ draft.mode = "text" /\ new \notin pastes
    BY <1>1 DEF PasteImage, Writable
  <2>2. new \in Pastes /\ new.mount = draft.mount
    BY <1>0 DEF Pastes
  <2> HIDE DEF new
  <2>3. /\ draft' \in Drafts /\ draft'.pasting = draft.pasting + 1
        /\ draft'.mount = draft.mount /\ draft'.mode = draft.mode
        /\ draft'.typed = draft.typed /\ draft'.content = draft.content /\ draft'.document = draft.document
        /\ draft'.withdrawn = draft.withdrawn /\ draft'.lost = draft.lost /\ draft'.restored = draft.restored
    BY <1>0, <2>1 DEF Drafts
  <2>4. Saving' = Saving \cup {new} /\ new \notin Saving
    BY <2>1, <2>2, <2>3 DEF Saving, Here
  <2>5. IsFiniteSet(pastes') /\ Cardinality(Saving') = Cardinality(Saving) + 1
    BY <1>0, <2>1, <2>4, FS_AddElement
  <2>6. DraftTyped'
    BY <1>0, <2>1, <2>2, <2>3, <2>5 DEF DraftInv, DraftTyped
  <2>7. \A w : Somewhere(w)' <=> Somewhere(w)
    BY <1>0, <2>3 DEF Somewhere
  <2>8. \A x \in pastes' : x.mount <= draft'.mount
    BY <1>0, <2>1, <2>2, <2>3 DEF DraftInv
  <2> QED
    BY <1>0, <2>1, <2>3, <2>5, <2>6, <2>7, <2>8 DEF DraftInv
<1>2. ASSUME NEW x \in pastes, NEW saved \in BOOLEAN, PasteSaved(x, saved) PROVE DraftInv'
  <2> DEFINE pictures == IF saved THEN draft.files \cup {x.image} ELSE draft.files
             count == IF Here(x) /\ draft.mode = "text" THEN draft.pasting - 1 ELSE draft.pasting
  <2>1. pastes' = pastes \ {x} /\ draft' = [draft EXCEPT !.files = pictures, !.pasting = count]
    BY <1>0, <1>2 DEF PasteSaved, PasteDone, Here, Drafts
  <2>2. x \in Pastes /\ pictures \subseteq Images
    BY <1>0 DEF DraftInv, DraftTyped, Pastes
  <2>3. IsFiniteSet(pastes') /\ IsFiniteSet(Saving \ {x}) /\ Cardinality(Saving \ {x}) \in Nat
    BY <1>0, <2>1, FS_RemoveElement, FS_CardinalityType
  <2>4. Here(x) => Cardinality(Saving \ {x}) = Cardinality(Saving) - 1
    <3>1. Here(x) => x \in Saving
      BY DEF Saving
    <3> QED
      BY <1>0, <3>1, FS_RemoveElement
  <2>5. ~Here(x) => Saving \ {x} = Saving
    BY DEF Saving
  <2>6. count \in Nat /\ (draft.mode = "text" => count = Cardinality(Saving \ {x}))
    BY <1>0, <2>3, <2>4, <2>5 DEF DraftInv
  <2> HIDE DEF pictures, count
  <2>7. /\ draft' \in Drafts /\ draft'.pasting = count
        /\ draft'.mount = draft.mount /\ draft'.mode = draft.mode
        /\ draft'.typed = draft.typed /\ draft'.content = draft.content /\ draft'.document = draft.document
        /\ draft'.withdrawn = draft.withdrawn /\ draft'.lost = draft.lost /\ draft'.restored = draft.restored
    BY <1>0, <2>1, <2>2, <2>6 DEF Drafts
  <2>8. Saving' = Saving \ {x}
    BY <2>1, <2>7 DEF Saving, Here
  <2>9. DraftTyped'
    BY <1>0, <2>1, <2>3, <2>7 DEF DraftInv, DraftTyped
  <2>10. \A w : Somewhere(w)' <=> Somewhere(w)
    BY <1>0, <2>7 DEF Somewhere
  <2>11. draft'.mode = "text" => draft'.pasting = Cardinality(Saving')
    BY <2>6, <2>7, <2>8
  <2> QED
    BY <1>0, <2>1, <2>7, <2>9, <2>10, <2>11 DEF DraftInv
<1> QED
  BY <1>1, <1>2

\* Nothing that was pasted here is on its way when a message is sent.
LEMMA SubmitKept ==
    ASSUME DraftInv, Submit
    PROVE  DraftInv'
<1> DEFINE new == [content |-> draft.content, files |-> draft.files, mount |-> draft.mount,
                   unsaved |-> {x \in pastes : x.mount = draft.mount}]
<1>0. draft \in Drafts /\ UNCHANGED <<pastes, queued, heard, returning>> /\ draft.mode = "text"
      /\ draft.pasting = 0
  BY DEF DraftInv, DraftTyped, Submit, Writable
<1>1. sends' = sends \cup {new} /\ draft' = [draft EXCEPT !.submitting = TRUE, !.submits = @ + 1]
  BY DEF Submit
<1>2. Saving = {}
  <2>1. IsFiniteSet(Saving) /\ Cardinality(Saving) = 0
    <3>1. Saving \subseteq pastes /\ IsFiniteSet(pastes)
      BY DEF Saving, DraftInv, DraftTyped
    <3> QED
      BY <1>0, <3>1, FS_Subset DEF DraftInv
  <2> QED
    BY <2>1, FS_EmptySet
<1>3. new \in Sends /\ new.unsaved = {}
  BY <1>0, <1>2 DEF Sends, Drafts, Saving, Here
<1> HIDE DEF new
<1>4. /\ draft' \in Drafts /\ draft'.pasting = draft.pasting
      /\ draft'.mount = draft.mount /\ draft'.mode = draft.mode
      /\ draft'.typed = draft.typed /\ draft'.content = draft.content /\ draft'.document = draft.document
      /\ draft'.withdrawn = draft.withdrawn /\ draft'.lost = draft.lost /\ draft'.restored = draft.restored
  <2> DEFINE n == draft.submits + 1
  <2>1. n \in Nat /\ draft' = [draft EXCEPT !.submitting = TRUE, !.submits = n]
    BY <1>0, <1>1 DEF Drafts
  <2> HIDE DEF n
  <2> QED
    BY <1>0, <2>1 DEF Drafts
<1>5. DraftTyped'
  BY <1>0, <1>1, <1>3, <1>4 DEF DraftInv, DraftTyped
<1>6. Saving' = Saving
  BY <1>0, <1>4 DEF Saving, Here
<1>7. \A w : Somewhere(w)' <=> Somewhere(w)
  BY <1>0, <1>4 DEF Somewhere
<1> QED
  BY <1>0, <1>1, <1>3, <1>4, <1>5, <1>6, <1>7 DEF DraftInv

\* An answer clears the draft it was of, and no other; the message is queued.
LEMMA SendKept ==
    ASSUME DraftInv, NEW s \in sends, NEW accepted \in BOOLEAN, SendAnswered(s, accepted)
    PROVE  DraftInv'
<1> DEFINE content == IF accepted THEN Answered(draft.content, s.content) ELSE draft.content
           document == IF draft.composing \/ draft.content = content THEN draft.document ELSE content
           pictures == IF accepted THEN {} ELSE draft.files
           submitting == draft.submitting /\ ~(s.mount = draft.mount /\ draft.mode = "text")
<1>0. draft \in Drafts /\ UNCHANGED <<pastes, heard, returning>> /\ s \in Sends /\ sends' = sends \ {s}
  BY DEF DraftInv, DraftTyped, SendAnswered
<1>1. draft' = [draft EXCEPT !.content = content, !.document = document, !.files = pictures, !.submitting = submitting]
  BY <1>0 DEF SendAnswered, Shown, Drafts
<1>2. content \in Texts /\ document \in Texts /\ pictures \subseteq Images
  <2>1. <<>> \in Texts
    BY DEF Texts
  <2> QED
    BY <1>0, <2>1 DEF Drafts, Answered
<1>3. submitting \in BOOLEAN
  OBVIOUS
<1>4. Words(content) \ Words(document) \subseteq draft.withdrawn
  <2>1. CASE content = draft.content
    BY <2>1 DEF DraftInv
  <2>2. CASE content = <<>>
    BY <2>2, WordsOf
  <2> QED
    BY <2>1, <2>2 DEF Answered
<1>5. \A w \in Words(draft.content) : w \in Words(content) \/ (accepted /\ w \in Words(s.content))
  BY DEF Answered
<1> HIDE DEF content, document, pictures, submitting
<1>6. /\ draft' \in Drafts /\ draft'.pasting = draft.pasting
      /\ draft'.mount = draft.mount /\ draft'.mode = draft.mode
      /\ draft'.typed = draft.typed /\ draft'.content = content /\ draft'.document = document
      /\ draft'.withdrawn = draft.withdrawn /\ draft'.lost = draft.lost /\ draft'.restored = draft.restored
  BY <1>0, <1>1, <1>2, <1>3 DEF Drafts
<1> DEFINE new == [content |-> s.content, files |-> s.files]
<1>7. new \in Messages /\ new.content = s.content /\ queued' = IF accepted THEN queued \cup {new} ELSE queued
  BY <1>0 DEF SendAnswered, Messages, Sends
<1> HIDE DEF new
<1>8. DraftTyped'
  BY <1>0, <1>6, <1>7 DEF DraftInv, DraftTyped
<1>9. Saving' = Saving
  BY <1>0, <1>6 DEF Saving, Here
<1>10. \A w : Somewhere(w) => Somewhere(w)'
  <2> SUFFICES ASSUME NEW w, Somewhere(w) PROVE Somewhere(w)'
    OBVIOUS
  <2>1. CASE w \in Words(draft.content)
    BY <1>5, <1>6, <1>7, <2>1 DEF Somewhere
  <2>2. CASE w \notin Words(draft.content)
    BY <1>0, <1>6, <1>7, <2>2 DEF Somewhere
  <2> QED
    BY <2>1, <2>2
<1> QED
  BY <1>0, <1>4, <1>6, <1>8, <1>9, <1>10 DEF DraftInv

\* A message of the queue is taken by the run or by the user.
LEMMA TakenKept ==
    ASSUME DraftInv, NEW m \in queued, Taken(m) \/ Withdraw(m)
    PROVE  DraftInv'
<1>0. draft \in Drafts /\ m \in Messages /\ Words(m.content) \subseteq Nat
  <2>1. draft \in Drafts /\ m \in Messages
    BY DEF DraftInv, DraftTyped
  <2> QED
    BY <2>1, WordsOf DEF Messages
<1>1. CASE Taken(m)
  <2>1. /\ queued' = queued \ {m} /\ heard' = heard \cup Words(m.content)
        /\ UNCHANGED <<draft, sends, pastes, returning>>
    BY <1>1 DEF Taken
  <2>2. DraftTyped'
    BY <1>0, <2>1 DEF DraftInv, DraftTyped
  <2>3. Saving' = Saving
    BY <2>1 DEF Saving, Here
  <2>4. \A w : Somewhere(w) => Somewhere(w)'
    BY <2>1 DEF Somewhere
  <2> QED
    BY <2>1, <2>2, <2>3, <2>4 DEF DraftInv
<1>2. CASE Withdraw(m)
  <2> DEFINE withdrawn == draft.withdrawn \cup Words(m.content)
  <2>1. /\ queued' = queued \ {m} /\ returning' = returning \cup {m} /\ UNCHANGED <<sends, pastes, heard>>
        /\ draft' = [draft EXCEPT !.withdrawn = withdrawn]
    BY <1>2 DEF Withdraw
  <2>2. withdrawn \subseteq Nat /\ draft.withdrawn \subseteq withdrawn /\ Words(m.content) \subseteq withdrawn
    BY <1>0 DEF Drafts
  <2> HIDE DEF withdrawn
  <2>3. /\ draft' \in Drafts /\ draft'.pasting = draft.pasting
        /\ draft'.mount = draft.mount /\ draft'.mode = draft.mode
        /\ draft'.typed = draft.typed /\ draft'.content = draft.content /\ draft'.document = draft.document
        /\ draft'.withdrawn = withdrawn /\ draft'.lost = draft.lost /\ draft'.restored = draft.restored
    BY <1>0, <2>1, <2>2 DEF Drafts
  <2>4. DraftTyped'
    BY <1>0, <2>1, <2>3 DEF DraftInv, DraftTyped
  <2>5. Saving' = Saving
    BY <2>1, <2>3 DEF Saving, Here
  <2>6. \A w : Somewhere(w) => Somewhere(w)'
    BY <2>1, <2>3 DEF Somewhere
  <2> QED
    BY <2>1, <2>2, <2>3, <2>4, <2>5, <2>6 DEF DraftInv
<1> QED
  BY <1>1, <1>2

\* A withdrawn message arrives; one that was not rendered yet is lost.
LEMMA WithdrawnKept ==
    ASSUME DraftInv, NEW m \in returning, Withdrawn(m)
    PROVE  DraftInv'
<1> DEFINE lost == draft.lost \cup UNION {Words(c) : c \in draft.restored}
           pictures == draft.files \cup m.files
<1>0. draft \in Drafts /\ m \in Messages
  BY DEF DraftInv, DraftTyped
<1>1. /\ returning' = returning \ {m} /\ UNCHANGED <<sends, pastes, queued, heard>>
      /\ draft' = [draft EXCEPT !.restored = {m.content}, !.files = pictures, !.lost = lost]
  BY DEF Withdrawn
<1>2. lost \subseteq Nat /\ pictures \subseteq Images /\ {m.content} \subseteq Texts
  BY <1>0, WordsOf DEF Drafts, Messages
<1>3. lost \subseteq draft.withdrawn
  BY DEF DraftInv
<1>4. \A w : w \in draft.lost \/ (\E c \in draft.restored : w \in Words(c)) => w \in lost
  OBVIOUS
<1> HIDE DEF lost, pictures
<1>5. /\ draft' \in Drafts /\ draft'.pasting = draft.pasting
      /\ draft'.mount = draft.mount /\ draft'.mode = draft.mode
      /\ draft'.typed = draft.typed /\ draft'.content = draft.content /\ draft'.document = draft.document
      /\ draft'.withdrawn = draft.withdrawn /\ draft'.lost = lost /\ draft'.restored = {m.content}
  BY <1>0, <1>1, <1>2 DEF Drafts
<1>6. DraftTyped'
  BY <1>1, <1>5 DEF DraftInv, DraftTyped
<1>7. Saving' = Saving
  BY <1>1, <1>5 DEF Saving, Here
<1>8. \A w : Somewhere(w) => Somewhere(w)'
  BY <1>1, <1>4, <1>5 DEF Somewhere
<1> QED
  BY <1>1, <1>3, <1>5, <1>6, <1>7, <1>8 DEF DraftInv

LEMMA RenderKept ==
    ASSUME DraftInv, Render
    PROVE  DraftInv'
<1>0. draft \in Drafts /\ UNCHANGED <<sends, pastes, queued, heard, returning>> /\ draft.restored # {}
  BY DEF DraftInv, DraftTyped, Render
<1>1. PICK c \in draft.restored : c = CHOOSE d \in draft.restored : TRUE
  BY <1>0
<1> DEFINE content == draft.content \o c
           document == IF draft.composing \/ draft.content = content THEN draft.document ELSE content
<1>2. draft' = [draft EXCEPT !.content = content, !.document = document, !.restored = {}]
  BY <1>0, <1>1 DEF Render, Shown, Drafts
<1>3. c \in Texts /\ content \in Texts /\ document \in Texts
  BY <1>0, ConcatProperties DEF Drafts, Texts
<1>4. Words(content) = Words(draft.content) \cup Words(c) /\ Words(c) \subseteq draft.withdrawn
  BY <1>0, <1>3, WordsOf DEF Drafts, DraftInv
<1>5. Words(content) \ Words(document) \subseteq draft.withdrawn
  BY <1>4 DEF DraftInv
<1>6. draft.restored = {c}
  BY DEF DraftInv
<1> HIDE DEF content, document
<1>7. /\ draft' \in Drafts /\ draft'.pasting = draft.pasting
      /\ draft'.mount = draft.mount /\ draft'.mode = draft.mode
      /\ draft'.typed = draft.typed /\ draft'.content = content /\ draft'.document = document
      /\ draft'.withdrawn = draft.withdrawn /\ draft'.lost = draft.lost /\ draft'.restored = {}
  BY <1>0, <1>2, <1>3 DEF Drafts
<1>8. \A w : Somewhere(w) => Somewhere(w)'
  BY <1>0, <1>4, <1>6, <1>7 DEF Somewhere
<1>9. \A w \in 1..draft'.typed : Somewhere(w)'
  BY <1>7, <1>8 DEF DraftInv
<1> QED
  BY <1>0, <1>5, <1>7, <1>9, DraftStep DEF DraftInv

\* The composer is replaced: no image was pasted in a new one.
LEMMA ToggleKept ==
    ASSUME DraftInv, ToggleAutoPlay
    PROVE  DraftInv'
<1> DEFINE mode == IF draft.mode = "text" THEN "voice" ELSE "text"
           mount == IF draft.mode = "voice" THEN draft.mount + 1 ELSE draft.mount
           none == 0
<1>0. draft \in Drafts /\ UNCHANGED <<sends, pastes, queued, heard, returning>>
  BY DEF DraftInv, DraftTyped, ToggleAutoPlay
<1>1. draft' = [draft EXCEPT !.mode = mode, !.mount = mount, !.document = draft.content,
                             !.submitting = FALSE, !.pasting = none]
  BY <1>0 DEF ToggleAutoPlay, Drafts
<1>2. /\ mode \in {"text", "voice"} /\ mount \in Nat /\ none \in Nat /\ draft.mount <= mount
      /\ mode = "text" => mount > draft.mount /\ none = 0
  BY <1>0 DEF Drafts
<1> HIDE DEF mode, mount, none
<1>3. /\ draft' \in Drafts /\ draft'.pasting = none
      /\ draft'.mount = mount /\ draft'.mode = mode
      /\ draft'.typed = draft.typed /\ draft'.content = draft.content /\ draft'.document = draft.content
      /\ draft'.withdrawn = draft.withdrawn /\ draft'.lost = draft.lost /\ draft'.restored = draft.restored
  BY <1>0, <1>1, <1>2 DEF Drafts
<1>4. DraftTyped'
  BY <1>0, <1>3 DEF DraftInv, DraftTyped
<1>5. \A x \in pastes : x.mount <= draft.mount /\ x.mount \in Nat /\ draft.mount \in Nat
  BY <1>0 DEF DraftInv, DraftTyped, Pastes, Drafts
<1>6. mode = "text" => Saving' = {}
  BY <1>0, <1>2, <1>3, <1>5 DEF Saving, Here
<1>7. draft'.mode = "text" => draft'.pasting = Cardinality(Saving')
  BY <1>2, <1>3, <1>6, FS_EmptySet
<1>8. \A w : Somewhere(w)' <=> Somewhere(w)
  BY <1>0, <1>3 DEF Somewhere
<1>9. \A x \in pastes' : x.mount <= draft'.mount
  BY <1>0, <1>2, <1>3, <1>5
<1> QED
  BY <1>0, <1>3, <1>4, <1>7, <1>8, <1>9 DEF DraftInv

LEMMA DraftInvKept == DraftInv /\ [DraftNext]_draftVars => DraftInv'
<1> SUFFICES ASSUME DraftInv, [DraftNext]_draftVars PROVE DraftInv'
  OBVIOUS
<1>1. CASE UNCHANGED draftVars
  BY <1>1 DEF draftVars, DraftInv, DraftTyped, Saving, Here, Somewhere
<1>2. CASE DraftNext
  BY <1>2, TypingKept, EditingKept, PastingKept, SubmitKept, SendKept, TakenKept, WithdrawnKept,
     RenderKept, ToggleKept DEF DraftNext
<1> QED
  BY <1>1, <1>2

LEMMA DraftInvSafe == DraftInv => DraftKept
<1> SUFFICES ASSUME DraftInv PROVE DraftKept
  OBVIOUS
<1>1. ASSUME NEW w \in 1..draft.typed
      PROVE  w \in Words(draft.content) \cup heard \cup draft.lost
                      \cup (UNION {Words(m.content) : m \in queued \cup returning})
                      \cup UNION {Words(c) : c \in draft.restored}
  <2>1. Somewhere(w)
    BY DEF DraftInv
  <2>2. CASE \E m \in queued \cup returning : w \in Words(m.content)
    BY <2>2
  <2>3. CASE \E c \in draft.restored : w \in Words(c)
    <3>1. PICK c \in draft.restored : w \in Words(c)
      BY <2>3
    <3>2. Words(c) \in {Words(d) : d \in draft.restored}
      OBVIOUS
    <3> QED
      BY <3>1, <3>2
  <2> QED
    BY <2>1, <2>2, <2>3 DEF Somewhere
<1> QED
  BY <1>1 DEF DraftInv, DraftKept

-----------------------------------------------------------------------------
(* The strip of the queue *)

\* The events on their way are those the strip has not shown, in order.
StripInv ==
    /\ strip \in [queue : Nat, shown : Nat, updated : BOOLEAN, events : Seq(Nat),
                  asked : {"no", "asked", "read", "done", "failed"}, answer : Nat]
    /\ \A i \in 1..Len(strip.events) : strip.events[i] = (strip.queue - Len(strip.events)) + i
    /\ Len(strip.events) <= strip.queue
    /\ strip.updated => strip.shown + Len(strip.events) = strip.queue
    /\ ~strip.updated => Len(strip.events) = strip.queue
    /\ ~strip.updated /\ strip.asked # "done" => strip.shown = 0
    /\ strip.answer <= strip.queue
    /\ strip.asked = "done" /\ ~strip.updated => strip.shown <= strip.queue

LEMMA StripStarts == ComposerInit => StripInv
BY DEF ComposerInit, StripInv

LEMMA StripInvKept == StripInv /\ [StripNext]_strip => StripInv'
<1> SUFFICES ASSUME StripInv, [StripNext]_strip PROVE StripInv'
  OBVIOUS
<1>0. /\ strip.queue \in Nat /\ strip.shown \in Nat /\ strip.events \in Seq(Nat) /\ strip.answer \in Nat
      /\ Len(strip.events) \in Nat /\ DOMAIN strip.events = 1..Len(strip.events)
  BY LenProperties DEF StripInv
<1>5. /\ Len(strip.events) <= strip.queue /\ strip.answer <= strip.queue
      /\ strip.updated => strip.shown + Len(strip.events) = strip.queue
      /\ ~strip.updated => Len(strip.events) = strip.queue
      /\ strip.asked = "done" /\ ~strip.updated => strip.shown <= strip.queue
  BY DEF StripInv
<1>1. CASE UNCHANGED strip
  BY <1>1 DEF StripInv
<1>2. CASE QueueChanges
  <2> DEFINE n == strip.queue + 1
             es == Append(strip.events, n)
  <2>1. n \in Nat /\ strip' = [strip EXCEPT !.queue = n, !.events = es]
    BY <1>0, <1>2 DEF QueueChanges
  <2>2. /\ es \in Seq(Nat) /\ Len(es) = Len(strip.events) + 1 /\ es[Len(strip.events) + 1] = n
        /\ \A i \in 1..Len(strip.events) : es[i] = strip.events[i]
    BY <1>0, AppendProperties
  <2>3. \A i \in 1..Len(es) : es[i] = (n - Len(es)) + i
    <3> SUFFICES ASSUME NEW i \in 1..Len(es) PROVE es[i] = (n - Len(es)) + i
      OBVIOUS
    <3> HIDE DEF es
    <3>1. CASE i \in 1..Len(strip.events)
      BY <1>0, <2>2, <3>1 DEF StripInv
    <3>2. CASE i = Len(strip.events) + 1
      BY <1>0, <2>2, <3>2
    <3> QED
      BY <1>0, <2>2, <3>1, <3>2
  <2> HIDE DEF es
  <2>4. n = strip.queue + 1
    OBVIOUS
  <2> HIDE DEF n
  <2>5. /\ strip'.queue = n /\ strip'.events = es /\ strip'.shown = strip.shown /\ strip'.updated = strip.updated
        /\ strip'.asked = strip.asked /\ strip'.answer = strip.answer
        /\ strip' \in [queue : Nat, shown : Nat, updated : BOOLEAN, events : Seq(Nat),
                  asked : {"no", "asked", "read", "done", "failed"}, answer : Nat]
    BY <2>1, <2>2 DEF StripInv
  <2>6. /\ strip.updated => n = strip.shown + Len(es)
        /\ ~strip.updated => Len(es) = n
        /\ Len(es) <= n /\ strip.answer <= n
        /\ strip.asked = "done" /\ ~strip.updated => strip.shown <= n
    <3>1. PICK k \in Nat, l \in Nat : k = Len(strip.events) /\ l = Len(es) /\ l = k + 1
      BY <1>0, <2>2
    <3>2. PICK q \in Nat, a \in Nat, s \in Nat : q = strip.queue /\ a = strip.answer /\ s = strip.shown
      BY <1>0
    <3>3. /\ k <= q /\ a <= q /\ (strip.updated => s + k = q) /\ (~strip.updated => k = q)
          /\ strip.asked = "done" /\ ~strip.updated => s <= q
      BY <1>5, <3>1, <3>2
    <3>4. n = q + 1
      BY <2>4, <3>2
    <3>5. l <= n /\ a <= n
      BY <3>1, <3>3, <3>4
    <3>6. strip.updated => n = s + l
      BY <3>1, <3>3, <3>4
    <3>7. ~strip.updated => l = n
      BY <3>1, <3>3, <3>4
    <3>8. strip.asked = "done" /\ ~strip.updated => s <= n
      BY <3>3, <3>4
    <3> QED
      BY <3>1, <3>2, <3>5, <3>6, <3>7, <3>8
  <2>7. ~strip.updated /\ strip.asked # "done" => strip.shown = 0
    BY DEF StripInv
  <2> QED
    BY <2>3, <2>5, <2>6, <2>7 DEF StripInv
<1>3. CASE QueueEvent
  <2> DEFINE n == Head(strip.events)
             es == Tail(strip.events)
  <2>1. strip' = [strip EXCEPT !.shown = n, !.updated = TRUE, !.events = es] /\ strip.events # <<>>
    BY <1>3 DEF QueueEvent
  <2>2. /\ es \in Seq(Nat) /\ Len(es) = Len(strip.events) - 1 /\ n = strip.events[1] /\ n \in Nat
        /\ \A i \in 1..Len(es) : es[i] = strip.events[i + 1] /\ Len(strip.events) >= 1
    BY <1>0, <2>1, HeadTailProperties, EmptySeq, ElementOfSeq
  <2> HIDE DEF n, es
  <2>3. Len(strip.events) >= 1
    BY <1>0, <2>1, EmptySeq
  <2>4. /\ strip'.queue = strip.queue /\ strip'.events = es /\ strip'.shown = n /\ strip'.updated
        /\ strip'.asked = strip.asked /\ strip'.answer = strip.answer
        /\ strip' \in [queue : Nat, shown : Nat, updated : BOOLEAN, events : Seq(Nat),
                  asked : {"no", "asked", "read", "done", "failed"}, answer : Nat]
    BY <2>1, <2>2 DEF StripInv
  <2>5. n = (strip.queue - Len(strip.events)) + 1
    BY <1>0, <2>2, <2>3 DEF StripInv
  <2>6. \A i \in 1..Len(es) : es[i] = (strip.queue - Len(es)) + i
    BY <1>0, <2>2, <2>3 DEF StripInv
  <2> QED
    <3>1. n + Len(es) = strip.queue /\ Len(es) <= strip.queue /\ strip.answer <= strip.queue
      <4>1. PICK k \in Nat, l \in Nat : k = Len(strip.events) /\ l = Len(es) /\ l + 1 = k
        BY <1>0, <2>2, <2>3
      <4>2. PICK q \in Nat, a \in Nat : q = strip.queue /\ a = strip.answer /\ k <= q /\ a <= q
        BY <1>0, <1>5, <4>1
      <4>3. n = (q - k) + 1
        BY <2>5, <4>1, <4>2
      <4>4. n + l = q /\ l <= q
        BY <4>1, <4>2, <4>3
      <4> QED
        BY <4>1, <4>2, <4>4
    <3> QED
      BY <2>4, <2>6, <3>1 DEF StripInv
<1>4. CASE Followups \/ FollowupsRead \/ FollowupsFailed \/ FollowupsAnswered
  <2>1. /\ strip'.queue = strip.queue /\ strip'.events = strip.events /\ strip'.updated = strip.updated
        /\ strip'.answer \in {strip.answer, strip.queue}
        /\ strip' \in [queue : Nat, shown : Nat, updated : BOOLEAN, events : Seq(Nat),
                  asked : {"no", "asked", "read", "done", "failed"}, answer : Nat]
        /\ strip'.asked = "done" => strip.asked = "read"
        /\ strip.asked # "done"
        /\ strip'.shown = IF strip'.asked = "done" /\ ~strip.updated THEN strip.answer ELSE strip.shown
    BY ZenonT(60), <1>0, <1>4 DEF Followups, FollowupsRead, FollowupsFailed, FollowupsAnswered, StripInv
  <2> QED
    BY <1>0, <2>1 DEF StripInv
<1> QED
  BY <1>1, <1>2, <1>3, <1>4 DEF StripNext

LEMMA StripInvSafe == StripInv => StripAgrees
<1> SUFFICES ASSUME StripInv, strip.events = <<>>, strip.asked = "done" PROVE strip.shown = strip.queue
  BY DEF StripAgrees
<1>1. Len(strip.events) = 0 /\ strip.queue \in Nat /\ strip.shown \in Nat
  BY DEF StripInv
<1> QED
  BY <1>1 DEF StripInv

-----------------------------------------------------------------------------
(* The suggestions *)

\* A timer is of the suggestions there are now, in an empty editor.
CarouselInv ==
    /\ carousel.list \in Nat
    /\ DOMAIN carousel = {"list", "empty", "effect", "active", "typed", "timers"}
    /\ \A x \in carousel.timers :
          /\ carousel.empty /\ x.of[1] = carousel.list
          /\ DOMAIN x = {"effect", "then", "of"}
    /\ SuggestionShown

LEMMA CarouselStarts == ComposerInit => CarouselInv
BY DEF ComposerInit, CarouselInv, SuggestionShown

LEMMA EffectInv ==
    ASSUME CarouselInv, NEW c, c.list \in Nat, carousel' = EffectAgain(c),
           DOMAIN c = {"list", "empty", "effect", "active", "typed", "timers"}
    PROVE  CarouselInv'
<1>1. \A n : <<c.list, n>>[1] = c.list
  OBVIOUS
<1> QED
  BY <1>1 DEF EffectAgain, EditorEffect, CarouselInv, SuggestionShown

LEMMA CarouselInvKept == CarouselInv /\ [CarouselNext]_carousel => CarouselInv'
<1> SUFFICES ASSUME CarouselInv, [CarouselNext]_carousel PROVE CarouselInv'
  OBVIOUS
<1>1. CASE UNCHANGED carousel
  BY <1>1 DEF CarouselInv, SuggestionShown
<1>2. CASE SuggestionsArrive
  <2> DEFINE c == [carousel EXCEPT !.list = @ + 1]
  <2>1. c.list \in Nat /\ DOMAIN c = {"list", "empty", "effect", "active", "typed", "timers"}
    BY DEF CarouselInv
  <2>2. carousel' = EffectAgain(c)
    BY <1>2 DEF SuggestionsArrive
  <2> HIDE DEF c
  <2> QED
    BY <2>1, <2>2, EffectInv
<1>3. CASE TextChanges \/ TabApplies
  <2>1. PICK b : carousel' = EffectAgain([carousel EXCEPT !.empty = b])
    BY <1>3 DEF TextChanges, TabApplies
  <2> DEFINE c == [carousel EXCEPT !.empty = b]
  <2>2. c.list \in Nat /\ DOMAIN c = {"list", "empty", "effect", "active", "typed", "timers"}
    BY DEF CarouselInv
  <2>3. carousel' = EffectAgain(c)
    BY <2>1
  <2> HIDE DEF c
  <2> QED
    BY <2>2, <2>3, EffectInv
<1>4. ASSUME NEW x \in carousel.timers, TimerFires(x) PROVE CarouselInv'
  <2>1. /\ carousel.empty /\ x.of[1] = carousel.list /\ NextOf(x.of)[1] = carousel.list
        /\ DOMAIN x = {"effect", "then", "of"}
    BY DEF CarouselInv, NextOf
  <2>2. CASE x.then = "erase"
    <3> DEFINE y == [x EXCEPT !.then = "type", !.of = NextOf(x.of)]
               ts == (carousel.timers \ {x}) \cup {y}
               none == <<>>
    <3>1. y.of[1] = carousel.list /\ DOMAIN y = {"effect", "then", "of"}
      BY <2>1
    <3>2. carousel' = [carousel EXCEPT !.active = none, !.timers = ts] /\ none = <<>>
      BY <1>4, <2>2, <2>1 DEF TimerFires, CarouselInv
    <3>3. \A z \in ts : z \in carousel.timers \/ z = y
      OBVIOUS
    <3> HIDE DEF y, ts, none
    <3>4. /\ carousel'.list = carousel.list /\ carousel'.empty = carousel.empty /\ carousel'.active = none
          /\ carousel'.timers = ts /\ DOMAIN carousel' = {"list", "empty", "effect", "active", "typed", "timers"}
      BY <3>2 DEF CarouselInv
    <3> QED
      BY <2>1, <3>1, <3>2, <3>3, <3>4 DEF CarouselInv, SuggestionShown
  <2>3. CASE x.then # "erase"
    <3> DEFINE y == [x EXCEPT !.then = "erase"]
               ts == (carousel.timers \ {x}) \cup {y}
    <3>1. y.of[1] = carousel.list /\ DOMAIN y = {"effect", "then", "of"}
      BY <2>1
    <3>2. carousel' = [carousel EXCEPT !.active = x.of, !.typed = x.of, !.timers = ts]
      BY <1>4, <2>3, <2>1 DEF TimerFires, CarouselInv
    <3>3. \A z \in ts : z \in carousel.timers \/ z = y
      OBVIOUS
    <3> HIDE DEF y, ts
    <3>4. /\ carousel'.list = carousel.list /\ carousel'.empty = carousel.empty /\ carousel'.active = x.of
          /\ carousel'.typed = x.of
          /\ carousel'.timers = ts /\ DOMAIN carousel' = {"list", "empty", "effect", "active", "typed", "timers"}
      BY <3>2 DEF CarouselInv
    <3> QED
      BY <2>1, <3>1, <3>3, <3>4 DEF CarouselInv, SuggestionShown
  <2> QED
    BY <2>2, <2>3
<1> QED
  BY <1>1, <1>2, <1>3, <1>4 DEF CarouselNext

-----------------------------------------------------------------------------
(* The composer *)

ComposerInv == DraftInv /\ StripInv /\ CarouselInv

LEMMA ComposerStarts == ComposerInit => ComposerInv
BY DraftStarts, StripStarts, CarouselStarts DEF ComposerInv

LEMMA ComposerInvSafe == ComposerInv => ComposerAgrees
BY DraftInvSafe, StripInvSafe DEF ComposerInv, CarouselInv, ComposerAgrees

-----------------------------------------------------------------------------
(* Speech *)

SpeechStates == {"none", "waiting", "connection", "connecting", "started", "finishing", "ended"}
Over == {"none", "ended"}
Underway == {"connection", "connecting", "started", "finishing"}
SpeechEvents == [task : Recordings \cup Readings, kind : {"audio", "finished", "error"}]
Takes == [at : {"none", "settings", "microphone", "worklet", "task", "recording", "flushing",
                "finishing", "over"}, cancelled : BOOLEAN, open : BOOLEAN]

SpeechTyped ==
    /\ speech \in [Recordings \cup Readings -> SpeechStates]
    /\ channel \in Seq(SpeechEvents)
    /\ recording \in [Recordings -> Takes]
    /\ current \in Recordings \cup {NoRecording}
    /\ playback \in [tasks : SUBSET Readings, complete : SUBSET Readings, sources : Seq(Readings),
                     interrupted : BOOLEAN, inputActive : BOOLEAN]
    /\ chat \in [on : BOOLEAN, heard : Nat, partial : BOOLEAN, draft : Seq(Nat), final : BOOLEAN,
                 timer : BOOLEAN, sending : {"no", "stopping", "submitting"}, content : Seq(Nat),
                 sent : Seq(Nat)]

\* The event at a place of the channel ends the reading i.
EndOf(c, a, i) == c[a].task = i /\ c[a].kind # "audio"

\* One reading is live at a time; those before it are over; the events and the
\* sounds of readings come in their order; and what the playback still listens
\* to ends, in the channel, before anything of a later reading.
Orderly(s, c, listens, sounds) ==
    /\ \A i, j \in Readings : i < j /\ s[j] \in Underway => s[i] \in Over
    /\ \A a, b \in 1 .. Len(c) :
          a < b /\ c[a].task \in Readings /\ c[b].task \in Readings => c[a].task <= c[b].task
    /\ \A i \in Readings : \A a \in 1 .. Len(c) :
          s[i] \notin Over /\ c[a].task \in Readings => c[a].task <= i
    /\ \A x, y \in 1 .. Len(sounds) : x < y => sounds[x] <= sounds[y]
    /\ \A x \in 1 .. Len(sounds) :
          /\ \A a \in 1 .. Len(c) : c[a].task \in Readings => sounds[x] <= c[a].task
          /\ \A i \in Readings : s[i] \notin Over => sounds[x] <= i
          /\ \A i \in listens : sounds[x] <= i
    /\ \A i \in listens :
          /\ \A b \in 1 .. Len(c) : c[b].task \in Readings /\ c[b].task > i
                => \E a \in 1 .. Len(c) : a < b /\ EndOf(c, a, i)
          /\ s[i] \in Over => \E a \in 1 .. Len(c) : EndOf(c, a, i)

\* A recording that was not cancelled is the current one, and only its
\* microphone is open.
MicrophoneInv ==
    /\ \A r \in Recordings :
          /\ recording[r].at # "none" /\ ~recording[r].cancelled => current = r
          /\ recording[r].open => current = r
    /\ current # NoRecording => ~recording[current].cancelled

\* What was said is in one place, whole sentences are sent, and a pause runs on
\* a final transcript of a voice that is still active.
Said == chat.sent \o chat.content \o chat.draft
ChatInv ==
    /\ chat.on =>
          /\ Said = [n \in 1 .. chat.heard + (IF chat.partial THEN 1 ELSE 0) |-> n]
          /\ Len(chat.sent) + Len(chat.content) <= chat.heard
          /\ current # NoRecording /\ chat.final => playback.inputActive /\ ~chat.partial
    /\ chat.timer => chat.on /\ chat.final /\ chat.sending = "no" /\ current # NoRecording
    /\ chat.sending = "no" => chat.content = <<>>
    /\ ~chat.on => chat.sending = "no"

SpeechInv ==
    /\ SpeechTyped
    /\ Orderly(speech, channel, playback.tasks, playback.sources)
    /\ MicrophoneInv
    /\ ChatInv
-----------------------------------------------------------------------------
(* The order of readings, for any tasks s, events c, readings listened to    *)
(* and sounds scheduled                                                      *)

Tasks == [Recordings \cup Readings -> SpeechStates]

\* What the order says of tasks is which are over.
LEMMA OrderlyAgree ==
    ASSUME NEW s, NEW u, NEW c, NEW listens \in SUBSET Readings, NEW sounds,
           Orderly(s, c, listens, sounds),
           \A i, j \in Readings : i < j /\ u[j] \in Underway => u[i] \in Over,
           \A i \in Readings : u[i] \in Over <=> s[i] \in Over
    PROVE  Orderly(u, c, listens, sounds)
<1>1. \A i \in Readings : \A a \in 1 .. Len(c) :
          u[i] \notin Over /\ c[a].task \in Readings => c[a].task <= i
  BY DEF Orderly
<1>2. \A x \in 1 .. Len(sounds) : \A i \in Readings : u[i] \notin Over => sounds[x] <= i
  BY DEF Orderly
<1>3. \A i \in listens : u[i] \in Over => \E a \in 1 .. Len(c) : EndOf(c, a, i)
  BY DEF Orderly
<1> QED
  BY <1>1, <1>2, <1>3 DEF Orderly

LEMMA OrderlySame ==
    ASSUME NEW s, NEW u, NEW c, NEW listens \in SUBSET Readings, NEW sounds,
           Orderly(s, c, listens, sounds), \A i \in Readings : u[i] = s[i]
    PROVE  Orderly(u, c, listens, sounds)
<1>1. \A i, j \in Readings : i < j /\ u[j] \in Underway => u[i] \in Over
  BY DEF Orderly
<1> QED
  BY <1>1, OrderlyAgree

\* Whatever is under way stays so, and a turn that comes waited for those before.
LEMMA OrderlyAdvance ==
    ASSUME NEW s \in Tasks, NEW u \in Tasks, NEW c, NEW listens \in SUBSET Readings, NEW sounds,
           NEW i \in Readings, Orderly(s, c, listens, sounds),
           s[i] \notin Over, u[i] \in Underway,
           s[i] \in Underway \/ \A j \in Readings : j < i => s[j] \in Over,
           \A j \in Readings : j # i => u[j] = s[j]
    PROVE  Orderly(u, c, listens, sounds)
<1>1. \A j, k \in Readings : j < k /\ u[k] \in Underway => u[j] \in Over
  BY DEF Orderly, Over, Underway, Readings
<1>2. \A j \in Readings : u[j] \in Over <=> s[j] \in Over
  BY DEF Over, Underway
<1> QED
  BY <1>1, <1>2, OrderlyAgree

\* Nothing is read after everything was stopped.
LEMMA OrderlyStopped ==
    ASSUME NEW s, NEW u, NEW c, NEW listens, NEW sounds, Orderly(s, c, listens, sounds),
           \A i \in Readings : u[i] \in Over
    PROVE  Orderly(u, c, {}, <<>>)
  BY DEF Orderly, Over, Underway

LEMMA OrderlyPlayed ==
    ASSUME NEW s, NEW c, NEW listens, NEW sounds \in Seq(Readings),
           Orderly(s, c, listens, sounds), sounds # <<>>
    PROVE  Orderly(s, c, listens, Tail(sounds))
<1> DEFINE rest == Tail(sounds)
<1>1. /\ rest \in Seq(Readings) /\ Len(rest) = Len(sounds) - 1 /\ Len(sounds) \in Nat
      /\ \A x \in 1 .. Len(rest) : rest[x] = sounds[x + 1] /\ x + 1 \in 1 .. Len(sounds)
  BY HeadTailProperties
<1> HIDE DEF rest
<1>2. \A x, y \in 1 .. Len(rest) : x < y => rest[x] <= rest[y]
  <2> TAKE x, y \in 1 .. Len(rest)
  <2> HAVE x < y
  <2>1. x + 1 < y + 1
    BY <1>1
  <2> QED
    BY <1>1, <2>1 DEF Orderly
<1>3. \A x \in 1 .. Len(rest) : \E y \in 1 .. Len(sounds) : rest[x] = sounds[y]
  BY <1>1
<1>4. Orderly(s, c, listens, rest)
  BY <1>2, <1>3 DEF Orderly
<1> QED
  BY <1>4 DEF rest

\* A new reading comes after all that anything refers to.
LEMMA OrderlyNew ==
    ASSUME NEW s \in Tasks, NEW c \in Seq(SpeechEvents), NEW listens \in SUBSET Readings,
           NEW sounds \in Seq(Readings), NEW i \in Readings,
           Orderly(s, c, listens, sounds),
           \A j \in Readings : s[j] \notin Over => j < i,
           \A a \in 1 .. Len(c) : c[a].task \in Readings => c[a].task < i,
           \A x \in 1 .. Len(sounds) : sounds[x] < i,
           \A j \in listens : j < i
    PROVE  Orderly([s EXCEPT ![i] = "waiting"], c, listens \cup {i}, sounds)
<1> DEFINE u == [s EXCEPT ![i] = "waiting"]
<1>1. u \in Tasks /\ u[i] = "waiting" /\ \A j \in Readings : j # i => u[j] = s[j]
  BY DEF Tasks, SpeechStates
<1>2. \A j \in Readings : u[j] \notin Over => j <= i
  BY <1>1 DEF Readings
<1> HIDE DEF u
<1>3. \A j, k \in Readings : j < k /\ u[k] \in Underway => u[j] \in Over
  <2> TAKE j, k \in Readings
  <2> HAVE j < k /\ u[k] \in Underway
  <2>1. k # i
    BY <1>1 DEF Underway
  <2>2. k < i
    BY <2>1, <1>1 DEF Over, Underway
  <2>3. j # i
    BY <2>2 DEF Readings
  <2> QED
    BY <2>1, <2>3, <1>1 DEF Orderly
<1>4. \A j \in Readings : \A a \in 1 .. Len(c) : u[j] \notin Over /\ c[a].task \in Readings => c[a].task <= j
  <2> TAKE j \in Readings
  <2>1. CASE j = i
    BY <2>1 DEF Readings
  <2>2. CASE j # i
    BY <2>2, <1>1 DEF Orderly
  <2> QED
    BY <2>1, <2>2
<1>5. \A x \in 1 .. Len(sounds) : sounds[x] \in Readings
  BY ElementOfSeq
<1>6. \A x \in 1 .. Len(sounds) : sounds[x] <= i
  BY <1>5 DEF Readings
<1>7. \A x \in 1 .. Len(sounds) :
          /\ \A a \in 1 .. Len(c) : c[a].task \in Readings => sounds[x] <= c[a].task
          /\ \A j \in Readings : u[j] \notin Over => sounds[x] <= j
          /\ \A j \in listens \cup {i} : sounds[x] <= j
  BY <1>1, <1>6 DEF Orderly
<1>8. \A j \in listens \cup {i} :
          /\ \A b \in 1 .. Len(c) : c[b].task \in Readings /\ c[b].task > j
                => \E a \in 1 .. Len(c) : a < b /\ EndOf(c, a, j)
          /\ u[j] \in Over => \E a \in 1 .. Len(c) : EndOf(c, a, j)
  <2> TAKE j \in listens \cup {i}
  <2>1. CASE j = i
    <3>1. \A b \in 1 .. Len(c) : c[b].task \in Readings => ~(c[b].task > i)
      BY DEF Readings
    <3> QED
      BY <2>1, <3>1, <1>1 DEF Over
  <2>2. CASE j # i
    <3>1. j \in listens /\ u[j] = s[j]
      BY <2>2, <1>1
    <3> QED
      BY <3>1 DEF Orderly
  <2> QED
    BY <2>1, <2>2
<1>9. Orderly(u, c, listens \cup {i}, sounds)
  BY <1>3, <1>4, <1>7, <1>8 DEF Orderly
<1> QED
  BY <1>9 DEF u

\* An event of the reading under way goes to the end of the channel.
LEMMA OrderlyEmit ==
    ASSUME NEW s \in Tasks, NEW u \in Tasks, NEW c \in Seq(SpeechEvents),
           NEW listens \in SUBSET Readings, NEW sounds \in Seq(Readings), NEW e \in SpeechEvents,
           Orderly(s, c, listens, sounds),
           e.task \in Readings => s[e.task] \in Underway,
           \A i \in Readings : u[i] = s[i] \/ (i = e.task /\ u[i] = "ended" /\ e.kind # "audio")
    PROVE  Orderly(u, Append(c, e), listens, sounds)
<1> DEFINE d == Append(c, e)
<1> PICK n \in Nat : n = Len(c)
  OBVIOUS
<1>1. /\ d \in Seq(SpeechEvents) /\ Len(d) = n + 1 /\ d[n + 1] = e
      /\ \A a \in 1 .. n : d[a] = c[a]
  BY AppendProperties
<1> HIDE DEF d
<1>2. \A a \in 1 .. n + 1 : a \in 1 .. n \/ a = n + 1
  OBVIOUS
<1>3. \A i \in Readings : u[i] \notin Over => u[i] = s[i] /\ s[i] \notin Over
  BY DEF Over
<1>4. \A i \in Readings : i < e.task /\ e.task \in Readings => s[i] \in Over
  BY DEF Orderly
<1>5. \A i \in Readings : s[i] \notin Over /\ e.task \in Readings => e.task <= i
  BY <1>4 DEF Readings
<1>6. \A i, j \in Readings : i < j /\ u[j] \in Underway => u[i] \in Over
  <2>1. \A j \in Readings : u[j] \in Underway => u[j] = s[j]
    BY DEF Underway
  <2>2. \A j \in Readings : s[j] \in Over => u[j] \in Over
    BY DEF Over
  <2> QED
    BY <2>1, <2>2 DEF Orderly
<1>7. \A a, b \in 1 .. n + 1 :
          a < b /\ d[a].task \in Readings /\ d[b].task \in Readings => d[a].task <= d[b].task
  <2> TAKE a, b \in 1 .. n + 1
  <2> HAVE a < b /\ d[a].task \in Readings /\ d[b].task \in Readings
  <2>1. a \in 1 .. n /\ d[a] = c[a]
    BY <1>1
  <2>2. CASE b = n + 1
    <3>1. d[b] = e /\ s[e.task] \notin Over
      BY <2>2, <1>1 DEF Over, Underway
    <3> QED
      BY <2>1, <3>1 DEF Orderly
  <2>3. CASE b # n + 1
    BY <2>1, <2>3, <1>1, <1>2 DEF Orderly
  <2> QED
    BY <2>2, <2>3
<1>8. \A i \in Readings : \A a \in 1 .. n + 1 :
          u[i] \notin Over /\ d[a].task \in Readings => d[a].task <= i
  <2> TAKE i \in Readings
  <2> TAKE a \in 1 .. n + 1
  <2> HAVE u[i] \notin Over /\ d[a].task \in Readings
  <2>1. s[i] \notin Over
    BY <1>3
  <2>2. CASE a = n + 1
    BY <2>1, <2>2, <1>1, <1>5
  <2>3. CASE a # n + 1
    BY <2>1, <2>3, <1>1, <1>2 DEF Orderly
  <2> QED
    BY <2>2, <2>3
<1>9. \A x \in 1 .. Len(sounds) :
          /\ \A a \in 1 .. n + 1 : d[a].task \in Readings => sounds[x] <= d[a].task
          /\ \A i \in Readings : u[i] \notin Over => sounds[x] <= i
  <2> TAKE x \in 1 .. Len(sounds)
  <2>1. \A i \in Readings : s[i] \notin Over => sounds[x] <= i
    BY DEF Orderly
  <2>2. e.task \in Readings => sounds[x] <= e.task
    BY <2>1 DEF Over, Underway
  <2>3. \A a \in 1 .. n + 1 : d[a].task \in Readings => sounds[x] <= d[a].task
    BY <2>2, <1>1, <1>2 DEF Orderly
  <2> QED
    BY <2>1, <2>3, <1>3
<1>10. \A i \in listens :
          /\ \A b \in 1 .. n + 1 : d[b].task \in Readings /\ d[b].task > i
                => \E a \in 1 .. n + 1 : a < b /\ EndOf(d, a, i)
          /\ u[i] \in Over => \E a \in 1 .. n + 1 : EndOf(d, a, i)
  <2> TAKE i \in listens
  <2>1. \A a \in 1 .. n : EndOf(c, a, i) => a \in 1 .. n + 1 /\ a < n + 1 /\ EndOf(d, a, i)
    BY <1>1 DEF EndOf
  <2>2. s[i] \in Over => \E a \in 1 .. n : EndOf(c, a, i)
    BY DEF Orderly
  <2>3. ASSUME NEW b \in 1 .. n + 1, d[b].task \in Readings, d[b].task > i
        PROVE  \E a \in 1 .. n + 1 : a < b /\ EndOf(d, a, i)
    <3>1. CASE b = n + 1
      <4>1. s[i] \in Over
        BY <2>3, <3>1, <1>1, <1>4 DEF Readings
      <4> QED
        BY <4>1, <2>1, <2>2, <3>1
    <3>2. CASE b # n + 1
      <4>1. b \in 1 .. n /\ d[b] = c[b]
        BY <3>2, <1>1, <1>2
      <4>2. PICK a \in 1 .. n : a < b /\ EndOf(c, a, i)
        BY <4>1, <2>3 DEF Orderly
      <4> QED
        BY <4>2, <2>1
    <3> QED
      BY <3>1, <3>2
  <2>4. ASSUME u[i] \in Over PROVE \E a \in 1 .. n + 1 : EndOf(d, a, i)
    <3>1. CASE u[i] = s[i]
      BY <3>1, <2>4, <2>1, <2>2
    <3>2. CASE u[i] # s[i]
      <4>1. EndOf(d, n + 1, i)
        BY <3>2, <1>1 DEF EndOf
      <4> QED
        BY <4>1
    <3> QED
      BY <3>1, <3>2
  <2> QED
    BY <2>3, <2>4
<1>11. \A x, y \in 1 .. Len(sounds) : x < y => sounds[x] <= sounds[y]
  BY DEF Orderly
<1>12. \A x \in 1 .. Len(sounds) : \A i \in listens : sounds[x] <= i
  BY DEF Orderly
<1>13. Orderly(u, d, listens, sounds)
  BY <1>1, <1>6, <1>7, <1>8, <1>9, <1>10, <1>11, <1>12 DEF Orderly
<1> QED
  BY <1>13 DEF d

\* The first event arrives: what it ends is listened to no longer, and its sound
\* comes after those that are scheduled.
LEMMA OrderlyArrive ==
    ASSUME NEW s, NEW c \in Seq(SpeechEvents), NEW listens \in SUBSET Readings,
           NEW left \in SUBSET listens, NEW sounds \in Seq(Readings), NEW more,
           Orderly(s, c, listens, sounds), c # <<>>,
           c[1].kind # "audio" => c[1].task \notin left,
           more = sounds \/ (c[1].task \in listens /\ more = Append(sounds, c[1].task))
    PROVE  Orderly(s, Tail(c), left, more)
<1> DEFINE d == Tail(c)
           e == c[1]
<1> PICK n \in Nat : n = Len(c) - 1
  OBVIOUS
<1>1. /\ d \in Seq(SpeechEvents) /\ Len(d) = n /\ Len(c) = n + 1
      /\ \A a \in 1 .. n : d[a] = c[a + 1] /\ a + 1 \in 1 .. n + 1
      /\ 1 \in 1 .. n + 1 /\ e \in SpeechEvents
  BY HeadTailProperties
<1> HIDE DEF d, e
<1>2. \A a, b \in 1 .. n :
          a < b /\ d[a].task \in Readings /\ d[b].task \in Readings => d[a].task <= d[b].task
  <2> TAKE a, b \in 1 .. n
  <2> HAVE a < b /\ d[a].task \in Readings /\ d[b].task \in Readings
  <2>1. a + 1 < b + 1
    OBVIOUS
  <2> QED
    BY <2>1, <1>1 DEF Orderly
<1>3. \A i \in Readings : \A a \in 1 .. n : s[i] \notin Over /\ d[a].task \in Readings => d[a].task <= i
  BY <1>1 DEF Orderly
<1>4. \A i \in left :
          /\ \A b \in 1 .. n : d[b].task \in Readings /\ d[b].task > i
                => \E a \in 1 .. n : a < b /\ EndOf(d, a, i)
          /\ s[i] \in Over => \E a \in 1 .. n : EndOf(d, a, i)
  <2> TAKE i \in left
  <2>1. ~EndOf(c, 1, i)
    BY DEF EndOf
  <2>2. ASSUME NEW a \in 1 .. n + 1, EndOf(c, a, i)
        PROVE  a - 1 \in 1 .. n /\ EndOf(d, a - 1, i)
    <3>1. a # 1
      BY <2>1, <2>2
    <3>2. a - 1 \in 1 .. n /\ (a - 1) + 1 = a
      BY <3>1
    <3>3. d[a - 1] = c[a]
      BY <3>2, <1>1
    <3> QED
      BY <2>2, <3>2, <3>3 DEF EndOf
  <2>3. ASSUME NEW b \in 1 .. n, d[b].task \in Readings, d[b].task > i
        PROVE  \E a \in 1 .. n : a < b /\ EndOf(d, a, i)
    <3>1. PICK a \in 1 .. n + 1 : a < b + 1 /\ EndOf(c, a, i)
      BY <1>1, <2>3 DEF Orderly
    <3>2. a - 1 \in 1 .. n /\ EndOf(d, a - 1, i)
      BY <3>1, <2>2
    <3>3. a - 1 < b
      BY <3>1
    <3> QED
      BY <3>2, <3>3
  <2>4. ASSUME s[i] \in Over PROVE \E a \in 1 .. n : EndOf(d, a, i)
    <3>1. PICK a \in 1 .. n + 1 : EndOf(c, a, i)
      BY <1>1, <2>4 DEF Orderly
    <3> QED
      BY <3>1, <2>2
  <2> QED
    BY <2>3, <2>4
<1>5. \A i, j \in Readings : i < j /\ s[j] \in Underway => s[i] \in Over
  BY DEF Orderly
<1>6. CASE more = sounds
  <2>1. \A x \in 1 .. Len(sounds) :
          /\ \A a \in 1 .. n : d[a].task \in Readings => sounds[x] <= d[a].task
          /\ \A i \in Readings : s[i] \notin Over => sounds[x] <= i
          /\ \A i \in left : sounds[x] <= i
    BY <1>1 DEF Orderly
  <2>2. \A x, y \in 1 .. Len(sounds) : x < y => sounds[x] <= sounds[y]
    BY DEF Orderly
  <2>3. Orderly(s, d, left, sounds)
    BY <2>1, <2>2, <1>1, <1>2, <1>3, <1>4, <1>5 DEF Orderly
  <2> QED
    BY <2>3, <1>6 DEF d
<1>7. CASE e.task \in listens /\ more = Append(sounds, e.task)
  <2>1. e.task \in Readings
    BY <1>7
  <2> PICK m \in Nat : m = Len(sounds)
    OBVIOUS
  <2>2. /\ more \in Seq(Readings) /\ Len(more) = m + 1 /\ more[m + 1] = e.task
        /\ \A x \in 1 .. m : more[x] = sounds[x]
    BY <1>7, <2>1, AppendProperties
  <2>3. \A x \in 1 .. m + 1 : x \in 1 .. m \/ x = m + 1
    OBVIOUS
  <2>4. \A x \in 1 .. m : sounds[x] \in Readings /\ sounds[x] <= e.task
    <3>1. \A x \in 1 .. m : sounds[x] \in Readings
      BY ElementOfSeq
    <3> QED
      BY <3>1, <2>1, <1>1 DEF Orderly, e
  <2>5. /\ \A a \in 1 .. n : d[a].task \in Readings => e.task <= d[a].task
        /\ \A i \in Readings : s[i] \notin Over => e.task <= i
    <3>1. ASSUME NEW a \in 1 .. n, d[a].task \in Readings PROVE e.task <= d[a].task
      <4>1. a + 1 \in 1 .. n + 1 /\ 1 < a + 1 /\ d[a] = c[a + 1]
        BY <1>1
      <4> QED
        BY <4>1, <3>1, <2>1, <1>1 DEF Orderly, e
    <3> QED
      BY <3>1, <2>1, <1>1 DEF Orderly, e
  <2>6. \A i \in left : e.task <= i
    <3> TAKE i \in left
    <3>1. ~\E a \in 1 .. n + 1 : a < 1 /\ EndOf(c, a, i)
      OBVIOUS
    <3>2. ~(e.task > i)
      BY <3>1, <2>1, <1>1 DEF Orderly, e
    <3> QED
      BY <3>2, <2>1 DEF Readings
  <2>7. \A x \in 1 .. m + 1 :
          /\ \A a \in 1 .. n : d[a].task \in Readings => more[x] <= d[a].task
          /\ \A i \in Readings : s[i] \notin Over => more[x] <= i
          /\ \A i \in left : more[x] <= i
    <3> TAKE x \in 1 .. m + 1
    <3>1. CASE x = m + 1
      BY <3>1, <2>2, <2>5, <2>6
    <3>2. CASE x # m + 1
      BY <3>2, <2>2, <2>3, <1>1 DEF Orderly
    <3> QED
      BY <3>1, <3>2
  <2>8. \A x, y \in 1 .. m + 1 : x < y => more[x] <= more[y]
    <3> TAKE x, y \in 1 .. m + 1
    <3> HAVE x < y
    <3>1. x \in 1 .. m /\ more[x] = sounds[x]
      BY <2>2
    <3>2. CASE y = m + 1
      BY <3>1, <3>2, <2>2, <2>4
    <3>3. CASE y # m + 1
      BY <3>1, <3>3, <2>2, <2>3 DEF Orderly
    <3> QED
      BY <3>2, <3>3
  <2>9. Orderly(s, d, left, more)
    BY <2>2, <2>7, <2>8, <1>1, <1>2, <1>3, <1>4, <1>5 DEF Orderly
  <2> QED
    BY <2>9 DEF d
<1> QED
  BY <1>6, <1>7 DEF e

-----------------------------------------------------------------------------
(* The tasks of the main process and the playback *)

Playbacks == [tasks : SUBSET Readings, complete : SUBSET Readings, sources : Seq(Readings),
              interrupted : BOOLEAN, inputActive : BOOLEAN]

OrderInv == Orderly(speech, channel, playback.tasks, playback.sources)

LEMMA Apart == \A r \in Recordings : r \notin Readings
  BY SpeechConstants DEF Readings

LEMMA Rows ==
    ASSUME SpeechTyped
    PROVE  /\ speech \in Tasks /\ channel \in Seq(SpeechEvents)
           /\ playback \in Playbacks /\ playback.tasks \in SUBSET Readings
           /\ playback.sources \in Seq(Readings)
  BY DEF SpeechTyped, Tasks, Playbacks

LEMMA TasksStopped ==
    ASSUME SpeechTyped, NEW ids
    PROVE  /\ StoppedTasks(ids) \in Tasks
           /\ \A i \in Recordings \cup Readings :
                 StoppedTasks(ids)[i] = IF i \in ids /\ speech[i] # "none" THEN "ended" ELSE speech[i]
           /\ \A i \in ids \cap (Recordings \cup Readings) : StoppedTasks(ids)[i] \in Over
<1>1. speech \in Tasks /\ DOMAIN speech = Recordings \cup Readings
  BY DEF SpeechTyped, Tasks
<1>2. \A i \in Recordings \cup Readings :
          StoppedTasks(ids)[i] = IF i \in ids /\ speech[i] # "none" THEN "ended" ELSE speech[i]
  BY <1>1 DEF StoppedTasks
<1>3. StoppedTasks(ids) \in Tasks
  BY <1>1 DEF StoppedTasks, Tasks, SpeechStates
<1> QED
  BY <1>2, <1>3 DEF Over

LEMMA Silence ==
    ASSUME SpeechTyped
    PROVE  /\ Silent(playback) \in Playbacks /\ Silent(playback).tasks = {}
           /\ Silent(playback).sources = <<>>
           /\ Silent(playback).inputActive = playback.inputActive
<1> DEFINE none == {}
           still == <<>>
<1>1. none \in SUBSET Readings /\ still \in Seq(Readings)
  OBVIOUS
<1>2. Silent(playback) = [playback EXCEPT !.tasks = none, !.complete = none, !.sources = still]
  BY DEF Silent
<1>3. playback \in Playbacks
  BY Rows
<1> HIDE DEF none, still
<1>4. /\ Silent(playback) \in Playbacks /\ Silent(playback).tasks = none
      /\ Silent(playback).sources = still /\ Silent(playback).inputActive = playback.inputActive
  BY <1>1, <1>2, <1>3 DEF Playbacks
<1> QED
  BY <1>4 DEF none, still

LEMMA ChatSame ==
    ASSUME ChatInv, UNCHANGED <<chat, current>>, playback'.inputActive = playback.inputActive
    PROVE  ChatInv'
  BY DEF ChatInv, Said

LEMMA MicrophoneSame ==
    ASSUME MicrophoneInv, UNCHANGED <<recording, current>>
    PROVE  MicrophoneInv'
  BY DEF MicrophoneInv

LEMMA MainKept ==
    ASSUME SpeechInv, NEW i \in Recordings \cup Readings,
           PreviousDone(i) \/ ConnectionGiven(i) \/ TaskStarted(i) \/ TaskFails(i) \/ Audio(i)
               \/ TaskFinished(i)
    PROVE  SpeechInv'
<1>1. SpeechTyped /\ OrderInv /\ MicrophoneInv /\ ChatInv
  BY DEF SpeechInv, OrderInv
<1>2. UNCHANGED <<recording, current, playback, chat>>
  BY DEF PreviousDone, ConnectionGiven, TaskStarted, TaskFails, Audio, TaskFinished, windowVars
<1>3. MicrophoneInv' /\ ChatInv'
  BY <1>1, <1>2, ChatSame, MicrophoneSame
<1>4. SUFFICES speech' \in Tasks /\ channel' \in Seq(SpeechEvents)
                  /\ Orderly(speech', channel', playback.tasks, playback.sources)
  BY <1>1, <1>2, <1>3, <1>4 DEF SpeechInv, SpeechTyped, Tasks
<1>5. /\ speech \in Tasks /\ channel \in Seq(SpeechEvents)
      /\ playback.tasks \in SUBSET Readings /\ playback.sources \in Seq(Readings)
      /\ Orderly(speech, channel, playback.tasks, playback.sources)
  BY <1>1, Rows DEF OrderInv
<1>6. ASSUME NEW x \in Underway, speech' = [speech EXCEPT ![i] = x], channel' = channel,
             speech[i] \notin Over, speech[i] \in Underway \/ Turn(i)
      PROVE  speech' \in Tasks /\ Orderly(speech', channel', playback.tasks, playback.sources)
  <2>0. x \in SpeechStates
    BY DEF Underway, SpeechStates
  <2>1. /\ speech' \in Tasks /\ speech'[i] = x
        /\ \A j \in Recordings \cup Readings : j # i => speech'[j] = speech[j]
    BY <2>0, <1>5, <1>6 DEF Tasks
  <2>2. CASE i \in Readings
    <3>1. speech[i] \in Underway \/ \A j \in Readings : j < i => speech[j] \in Over
      BY <1>6, <2>2 DEF Turn, Over
    <3>2. \A j \in Readings : j # i => speech'[j] = speech[j]
      BY <2>1
    <3>3. Orderly(speech', channel, playback.tasks, playback.sources)
      BY <1>5, <1>6, <2>1, <2>2, <3>1, <3>2, OrderlyAdvance
    <3> QED
      BY <2>1, <3>3, <1>6
  <2>3. CASE i \notin Readings
    <3>1. \A j \in Readings : speech'[j] = speech[j]
      BY <2>1, <2>3
    <3>2. Orderly(speech', channel, playback.tasks, playback.sources)
      BY <1>5, <3>1, OrderlySame
    <3> QED
      BY <2>1, <3>2, <1>6
  <2> QED
    BY <2>2, <2>3
<1>7. ASSUME NEW k \in {"audio", "finished", "error"}, Emit(i, k), speech[i] \in Underway,
             speech' = speech \/ (Removed(i) /\ k # "audio")
      PROVE  /\ speech' \in Tasks /\ channel' \in Seq(SpeechEvents)
             /\ Orderly(speech', channel', playback.tasks, playback.sources)
  <2> DEFINE e == [task |-> i, kind |-> k]
  <2>1. e \in SpeechEvents /\ e.task = i /\ e.kind = k /\ channel' = Append(channel, e)
    BY <1>7 DEF Emit, SpeechEvents
  <2> HIDE DEF e
  <2>2. speech' \in Tasks /\ \A j \in Readings : speech'[j] = speech[j]
                               \/ (j = i /\ speech'[j] = "ended" /\ k # "audio")
    <3>1. CASE speech' = speech
      <4>1. \A j \in Readings : speech'[j] = speech[j]
        BY <3>1
      <4> QED
        BY <3>1, <4>1, <1>5
    <3>2. CASE Removed(i) /\ k # "audio"
      <4>1. speech' = [speech EXCEPT ![i] = "ended"] /\ "ended" \in SpeechStates
        BY <3>2 DEF Removed, SpeechStates
      <4>2. /\ speech' \in Tasks /\ speech'[i] = "ended"
            /\ \A j \in Recordings \cup Readings : j # i => speech'[j] = speech[j]
        BY <4>1, <1>5 DEF Tasks
      <4> QED
        BY <4>2, <3>2
    <3> QED
      BY <3>1, <3>2, <1>7
  <2>3. e.task \in Readings => speech[e.task] \in Underway
    BY <2>1, <1>7
  <2>4. \A j \in Readings : speech'[j] = speech[j] \/ (j = e.task /\ speech'[j] = "ended" /\ e.kind # "audio")
    BY <2>1, <2>2
  <2>5. Orderly(speech', Append(channel, e), playback.tasks, playback.sources)
    BY <1>5, <2>1, <2>2, <2>3, <2>4, OrderlyEmit
  <2> QED
    BY <2>1, <2>2, <2>5, <1>5, AppendProperties
<1>8. CASE PreviousDone(i)
  BY <1>8, <1>5, <1>6 DEF PreviousDone, Underway, Over
<1>9. CASE ConnectionGiven(i)
  BY <1>9, <1>5, <1>6 DEF ConnectionGiven, Underway, Over
<1>10. CASE TaskStarted(i)
  BY <1>10, <1>5, <1>6 DEF TaskStarted, Underway, Over
<1>11. CASE TaskFails(i)
  BY <1>11, <1>7 DEF TaskFails, Underway
<1>12. CASE Audio(i)
  <2>1. speech' = speech /\ speech[i] \in Underway /\ Emit(i, "audio")
    BY <1>12 DEF Audio, Underway
  <2> QED
    BY <2>1, <1>7
<1>13. CASE TaskFinished(i)
  BY <1>13, <1>7 DEF TaskFinished, Underway
<1> QED
  BY <1>8, <1>9, <1>10, <1>11, <1>12, <1>13

\* Everything that is read stops: tasks, sounds and what the playback listens to.
LEMMA Stopping ==
    ASSUME SpeechTyped, OrderInv, StopPlayback, channel' = channel
    PROVE  speech' \in Tasks /\ Orderly(speech', channel', {}, <<>>)
<1>1. speech' \in Tasks /\ \A i \in Readings : speech'[i] \in Over
  BY TasksStopped DEF StopPlayback
<1> QED
  BY <1>1, OrderlyStopped DEF OrderInv

LEMMA FreshKept ==
    ASSUME SpeechTyped, OrderInv, NEW i \in Readings, Fresh(i)
    PROVE  /\ [speech EXCEPT ![i] = "waiting"] \in Tasks
           /\ Orderly([speech EXCEPT ![i] = "waiting"], channel, playback.tasks \cup {i}, playback.sources)
<1>1. /\ speech \in Tasks /\ channel \in Seq(SpeechEvents)
      /\ playback.tasks \in SUBSET Readings /\ playback.sources \in Seq(Readings)
  BY Rows
<1>2. \A j \in Readings :
          speech[j] \notin {"none", "ended"} \/ j \in playback.tasks
              \/ Contains(playback.sources, j) \/ (\E e \in ToSet(channel) : e.task = j) => j < i
  BY DEF Fresh, Used
<1>3. \A j \in Readings : speech[j] \notin Over => j < i
  BY <1>2 DEF Over
<1>4. \A a \in 1 .. Len(channel) : channel[a].task \in Readings => channel[a].task < i
  <2>1. \A a \in 1 .. Len(channel) : channel[a] \in ToSet(channel)
    BY DEF ToSet
  <2> QED
    BY <2>1, <1>2
<1>5. \A x \in 1 .. Len(playback.sources) : playback.sources[x] < i
  <2>1. \A x \in 1 .. Len(playback.sources) :
            playback.sources[x] \in Readings /\ Contains(playback.sources, playback.sources[x])
    BY <1>1, ElementOfSeq DEF Contains
  <2> QED
    BY <2>1, <1>2
<1>6. \A j \in playback.tasks : j < i
  BY <1>1, <1>2
<1>7. [speech EXCEPT ![i] = "waiting"] \in Tasks
  BY <1>1 DEF Tasks, SpeechStates
<1>8. Orderly(speech, channel, playback.tasks, playback.sources)
  BY DEF OrderInv
<1> QED
  BY <1>1, <1>3, <1>4, <1>5, <1>6, <1>7, <1>8, OrderlyNew

LEMMA NewTaskKept ==
    ASSUME SpeechInv, NEW p \in Playbacks, p.tasks = playback.tasks, p.sources = playback.sources,
           p.inputActive = playback.inputActive, NEW complete \in BOOLEAN, NewTask(p, complete)
    PROVE  SpeechInv'
<1>1. SpeechTyped /\ OrderInv /\ MicrophoneInv /\ ChatInv
  BY DEF SpeechInv, OrderInv
<1>2. PICK i \in Readings :
          /\ Fresh(i)
          /\ speech' = [speech EXCEPT ![i] = "waiting"]
          /\ playback' = [p EXCEPT !.tasks = @ \cup {i}, !.complete = IF complete THEN @ \cup {i} ELSE @]
  BY DEF NewTask
<1>3. UNCHANGED <<channel, recording, current, chat>>
  BY DEF NewTask
<1>4. speech' \in Tasks /\ Orderly(speech', channel, playback.tasks \cup {i}, playback.sources)
  BY <1>1, <1>2, FreshKept
<1>5. /\ playback' \in Playbacks /\ playback'.tasks = p.tasks \cup {i}
      /\ playback'.sources = p.sources /\ playback'.inputActive = p.inputActive
  BY <1>2 DEF Playbacks
<1>6. Orderly(speech, channel, playback.tasks, playback.sources)'
  BY <1>3, <1>4, <1>5
<1>7. SpeechTyped'
  BY <1>1, <1>3, <1>4, <1>5 DEF SpeechTyped, Tasks, Playbacks
<1>8. MicrophoneInv' /\ ChatInv'
  BY <1>1, <1>3, <1>5, ChatSame, MicrophoneSame
<1> QED
  BY <1>6, <1>7, <1>8 DEF SpeechInv

\* The playback falls silent; what else it does is of the voice.
LEMMA SilenceKept ==
    ASSUME SpeechInv, StopPlayback, UNCHANGED <<channel, recording, current, chat>>,
           playback' \in Playbacks, playback'.tasks = {}, playback'.sources = <<>>,
           playback'.inputActive = playback.inputActive
    PROVE  SpeechInv'
<1>1. SpeechTyped /\ OrderInv /\ MicrophoneInv /\ ChatInv
  BY DEF SpeechInv, OrderInv
<1>2. speech' \in Tasks /\ Orderly(speech', channel', {}, <<>>)
  BY <1>1, Stopping
<1>3. SpeechTyped'
  BY <1>1, <1>2 DEF SpeechTyped, Tasks, Playbacks
<1>4. MicrophoneInv' /\ ChatInv'
  BY <1>1, ChatSame, MicrophoneSame
<1> QED
  BY <1>2, <1>3, <1>4 DEF SpeechInv

LEMMA PlaybackKept ==
    ASSUME SpeechInv,
           \/ \E complete \in BOOLEAN : Speak(complete)
           \/ \E i \in Readings : ItemCompleted(i) \/ FinishReading(i)
           \/ ReadAloud \/ TurnStarted \/ StopReading \/ SourceEnded
    PROVE  SpeechInv'
<1>1. SpeechTyped /\ OrderInv /\ MicrophoneInv /\ ChatInv
  BY DEF SpeechInv, OrderInv
<1>2. /\ speech \in Tasks /\ channel \in Seq(SpeechEvents) /\ playback \in Playbacks
      /\ playback.tasks \in SUBSET Readings /\ playback.sources \in Seq(Readings)
      /\ Orderly(speech, channel, playback.tasks, playback.sources)
  BY <1>1, Rows DEF OrderInv
<1>3. ASSUME NEW complete \in BOOLEAN, Speak(complete) PROVE SpeechInv'
  BY <1>2, <1>3, NewTaskKept DEF Speak
<1>4. ASSUME NEW i \in Readings, ItemCompleted(i) PROVE SpeechInv'
  <2>1. /\ playback' \in Playbacks /\ playback'.tasks = playback.tasks
        /\ playback'.sources = playback.sources /\ playback'.inputActive = playback.inputActive
        /\ UNCHANGED <<speech, channel, recording, current, chat>>
    BY <1>2, <1>4 DEF ItemCompleted, Playbacks
  <2>2. SpeechTyped'
    BY <1>1, <2>1 DEF SpeechTyped, Playbacks
  <2>3. Orderly(speech, channel, playback.tasks, playback.sources)'
    BY <1>2, <2>1
  <2> QED
    BY <1>1, <2>1, <2>2, <2>3, ChatSame, MicrophoneSame DEF SpeechInv
<1>5. ASSUME NEW i \in Readings, FinishReading(i) PROVE SpeechInv'
  <2>1. UNCHANGED <<channel, recording, current, playback, chat>>
    BY <1>5 DEF FinishReading, windowVars
  <2>2. speech[i] = "started" /\ speech' = [speech EXCEPT ![i] = "finishing"]
    BY <1>5 DEF FinishReading
  <2>3. /\ speech' \in Tasks /\ speech'[i] = "finishing"
        /\ \A j \in Readings : j # i => speech'[j] = speech[j]
    BY <1>2, <2>2 DEF Tasks, SpeechStates
  <2>4. Orderly(speech', channel, playback.tasks, playback.sources)
    BY <1>2, <2>2, <2>3, OrderlyAdvance DEF Over, Underway
  <2>5. SpeechTyped'
    BY <1>1, <2>1, <2>3 DEF SpeechTyped, Tasks
  <2>6. Orderly(speech, channel, playback.tasks, playback.sources)'
    BY <2>1, <2>4
  <2> QED
    BY <1>1, <2>1, <2>5, <2>6, ChatSame, MicrophoneSame DEF SpeechInv
<1>6. CASE ReadAloud
  <2> DEFINE p == [playback EXCEPT !.interrupted = @ /\ playback.inputActive]
  <2>1. /\ p \in Playbacks /\ p.tasks = playback.tasks /\ p.sources = playback.sources
        /\ p.inputActive = playback.inputActive
    BY <1>2 DEF Playbacks
  <2>2. NewTask(p, TRUE) /\ TRUE \in BOOLEAN
    BY <1>6 DEF ReadAloud
  <2> HIDE DEF p
  <2> QED
    BY <2>1, <2>2, NewTaskKept
<1>7. CASE TurnStarted
  <2> DEFINE q == Silent(playback)
  <2>1. /\ q \in Playbacks /\ q.tasks = {} /\ q.sources = <<>>
        /\ q.inputActive = playback.inputActive
    BY <1>1, Silence
  <2>2. /\ playback' = [q EXCEPT !.interrupted = @ /\ playback.inputActive]
        /\ StopPlayback /\ UNCHANGED <<channel, recording, current, chat>>
    BY <1>7 DEF TurnStarted
  <2> HIDE DEF q
  <2>3. /\ playback' \in Playbacks /\ playback'.tasks = q.tasks /\ playback'.sources = q.sources
        /\ playback'.inputActive = q.inputActive
    BY <1>2, <2>1, <2>2 DEF Playbacks
  <2> QED
    BY <2>1, <2>2, <2>3, SilenceKept
<1>8. CASE StopReading
  BY <1>1, <1>8, Silence, SilenceKept DEF StopReading
<1>9. CASE SourceEnded
  <2>1. /\ playback.sources # <<>> /\ playback' = [playback EXCEPT !.sources = Tail(@)]
        /\ UNCHANGED <<speech, channel, recording, current, chat>>
    BY <1>9 DEF SourceEnded
  <2>2. Tail(playback.sources) \in Seq(Readings)
    BY <1>2, <2>1, HeadTailProperties
  <2>3. /\ playback' \in Playbacks /\ playback'.tasks = playback.tasks
        /\ playback'.sources = Tail(playback.sources) /\ playback'.inputActive = playback.inputActive
    BY <1>2, <2>1, <2>2 DEF Playbacks
  <2>4. Orderly(speech, channel, playback.tasks, Tail(playback.sources))
    BY <1>2, <2>1, OrderlyPlayed
  <2>5. Orderly(speech, channel, playback.tasks, playback.sources)'
    BY <2>1, <2>3, <2>4
  <2>6. SpeechTyped'
    BY <1>1, <2>1, <2>3 DEF SpeechTyped, Playbacks
  <2> QED
    BY <1>1, <2>1, <2>3, <2>5, <2>6, ChatSame, MicrophoneSame DEF SpeechInv
<1> QED
  BY <1>3, <1>4, <1>5, <1>6, <1>7, <1>8, <1>9

-----------------------------------------------------------------------------
(* The recordings *)

\* One recording takes a step, and the recording the user sees stays that one.
LEMMA TakeKept ==
    ASSUME SpeechTyped, MicrophoneInv, NEW r \in Recordings, NEW y \in Takes,
           recording' = [recording EXCEPT ![r] = y], current' = current,
           ~y.cancelled /\ y.at # "none" => current = r,
           y.open => current = r,
           current = r => ~y.cancelled
    PROVE  recording' \in [Recordings -> Takes] /\ MicrophoneInv'
<1>1. recording \in [Recordings -> Takes] /\ NoRecording \notin Recordings
  BY SpeechConstants DEF SpeechTyped
<1>2. /\ recording' \in [Recordings -> Takes] /\ recording'[r] = y
      /\ \A x \in Recordings : x # r => recording'[x] = recording[x]
  BY <1>1
<1>3. \A x \in Recordings :
          /\ recording'[x].at # "none" /\ ~recording'[x].cancelled => current' = x
          /\ recording'[x].open => current' = x
  <2> TAKE x \in Recordings
  <2>1. CASE x = r
    BY <2>1, <1>2
  <2>2. CASE x # r
    BY <2>2, <1>2 DEF MicrophoneInv
  <2> QED
    BY <2>1, <2>2
<1>4. current' # NoRecording => ~recording'[current'].cancelled
  <2>1. current \in Recordings \cup {NoRecording}
    BY DEF SpeechTyped
  <2>2. CASE current = r
    BY <2>2, <1>2
  <2>3. CASE current # r
    BY <2>1, <2>3, <1>2 DEF MicrophoneInv
  <2> QED
    BY <2>2, <2>3
<1> QED
  BY <1>2, <1>3, <1>4 DEF MicrophoneInv

LEMMA RecordKept ==
    ASSUME SpeechTyped, MicrophoneInv, NEW r \in Recordings, ToggleOn(r)
    PROVE  recording' \in [Recordings -> Takes] /\ current' = r /\ MicrophoneInv'
<1> DEFINE y == [recording[r] EXCEPT !.at = "settings"]
<1>1. recording \in [Recordings -> Takes]
  BY DEF SpeechTyped
<1>2. /\ y \in Takes /\ ~y.cancelled /\ ~y.open
      /\ recording' = [recording EXCEPT ![r] = y] /\ current' = r /\ current = NoRecording
  <2>3. recording[r] \in Takes /\ recording[r].cancelled = FALSE /\ recording[r].open = FALSE
    <3>1. recording[r] = NoTake /\ recording[r] \in Takes
      BY <1>1 DEF ToggleOn
    <3>2. NoTake.cancelled = FALSE /\ NoTake.open = FALSE
      BY DEF NoTake
    <3> QED
      BY <3>1, <3>2
  <2>4. y \in Takes
    BY <2>3 DEF Takes
  <2>1. y.cancelled = FALSE /\ y.open = FALSE /\ y \in Takes
    BY <2>3, <2>4 DEF Takes
  <2>2. recording' = [recording EXCEPT ![r] = y] /\ current' = r /\ current = NoRecording
    BY <1>1 DEF ToggleOn
  <2> QED
    BY <2>1, <2>2
<1> HIDE DEF y
<1>3. /\ recording' \in [Recordings -> Takes] /\ recording'[r] = y
      /\ \A x \in Recordings : x # r => recording'[x] = recording[x]
  BY <1>1, <1>2
<1>4. NoRecording \notin Recordings
  BY SpeechConstants
<1>5. \A x \in Recordings :
          /\ recording'[x].at # "none" /\ ~recording'[x].cancelled => x = r
          /\ recording'[x].open => x = r
  BY <1>2, <1>3, <1>4 DEF MicrophoneInv
<1> QED
  BY <1>2, <1>3, <1>5 DEF MicrophoneInv

\* The current recording, if there is one, is cancelled and its microphone closed.
LEMMA DisposeKept ==
    ASSUME SpeechTyped, MicrophoneInv, NEW w,
           w = Cancelled \/ (current \in Recordings /\ w = [Cancelled EXCEPT ![current].at = "over"]),
           recording' = w, current' = NoRecording
    PROVE  recording' \in [Recordings -> Takes] /\ MicrophoneInv'
<1>1. recording \in [Recordings -> Takes] /\ current \in Recordings \cup {NoRecording}
      /\ NoRecording \notin Recordings
  BY SpeechConstants DEF SpeechTyped
<1>2. /\ Cancelled \in [Recordings -> Takes]
      /\ \A x \in Recordings : x # current => Cancelled[x] = recording[x]
      /\ current \in Recordings => Cancelled[current].cancelled /\ ~Cancelled[current].open
  BY ZenonT(60), <1>1 DEF Cancelled, Takes
<1>3. /\ w \in [Recordings -> Takes]
      /\ \A x \in Recordings : x # current => w[x] = recording[x]
      /\ current \in Recordings => w[current].cancelled /\ ~w[current].open
  <2>1. CASE w = Cancelled
    BY <2>1, <1>2
  <2>2. CASE current \in Recordings /\ w = [Cancelled EXCEPT ![current].at = "over"]
    BY <2>2, <1>2 DEF Takes
  <2> QED
    BY <2>1, <2>2
<1>4. \A x \in Recordings :
          /\ w[x].at # "none" /\ ~w[x].cancelled => FALSE
          /\ ~w[x].open
  <2> TAKE x \in Recordings
  <2>1. CASE x = current
    BY <2>1, <1>3
  <2>2. CASE x # current
    <3>1. w[x] = recording[x]
      BY <2>2, <1>3
    <3> QED
      BY <2>2, <3>1, <1>1 DEF MicrophoneInv, Takes
  <2> QED
    BY <2>1, <2>2
<1> QED
  BY <1>3, <1>4 DEF MicrophoneInv

LEMMA RecordingsStopped ==
    ASSUME SpeechTyped, NEW c, NEW listens \in SUBSET Readings, NEW sounds,
           Orderly(speech, c, listens, sounds)
    PROVE  /\ StoppedTasks(Recordings) \in Tasks
           /\ Orderly(StoppedTasks(Recordings), c, listens, sounds)
<1>1. /\ StoppedTasks(Recordings) \in Tasks
      /\ \A i \in Readings : StoppedTasks(Recordings)[i] = speech[i]
  BY TasksStopped, Apart
<1> QED
  BY <1>1, OrderlySame

\* A task of a recording is of no reading.
LEMMA TaskOfRecording ==
    ASSUME SpeechTyped, OrderInv, NEW r \in Recordings, NEW x \in SpeechStates,
           speech' = speech \/ speech' = [speech EXCEPT ![r] = x]
    PROVE  speech' \in Tasks /\ Orderly(speech', channel, playback.tasks, playback.sources)
<1>1. speech \in Tasks /\ playback.tasks \in SUBSET Readings
  BY Rows
<1>2. speech' \in Tasks /\ \A i \in Readings : speech'[i] = speech[i]
  <2>1. CASE speech' = speech
    <3>1. \A i \in Readings : speech'[i] = speech[i]
      BY <2>1
    <3> QED
      BY <2>1, <3>1, <1>1
  <2>2. CASE speech' = [speech EXCEPT ![r] = x]
    <3>1. \A i \in Readings : i # r
      BY Apart
    <3> QED
      BY <2>2, <3>1, <1>1 DEF Tasks
  <2> QED
    BY <2>1, <2>2
<1> QED
  BY <1>1, <1>2, OrderlySame DEF OrderInv

\* The pause ends with the recording.
LEMMA PauseEnds ==
    ASSUME SpeechTyped, ChatInv, chat' = [chat EXCEPT !.timer = FALSE], current' = NoRecording
    PROVE  chat' = [chat EXCEPT !.timer = FALSE] /\ ChatInv'
<1>1. /\ chat'.timer = FALSE /\ chat'.on = chat.on /\ chat'.heard = chat.heard
      /\ chat'.partial = chat.partial /\ chat'.draft = chat.draft /\ chat'.final = chat.final
      /\ chat'.sending = chat.sending /\ chat'.content = chat.content /\ chat'.sent = chat.sent
  BY DEF SpeechTyped
<1> QED
  BY <1>1 DEF ChatInv, Said

LEMMA ChatSilent ==
    ASSUME ChatInv, ~chat.on, chat' = chat
    PROVE  ChatInv'
  BY DEF ChatInv

LEMMA RecordingKept ==
    ASSUME SpeechInv, NEW r \in Recordings,
           \/ Record(r) \/ Flushed(r) \/ SettingsRead(r) \/ MicrophoneOpened(r) \/ WorkletLoaded(r)
           \/ RecordingStarted(r) \/ RecordingFails(r) \/ ForgetRecording(r) \/ CancelRecording
           \/ FinishRecording
    PROVE  SpeechInv'
<1>1. SpeechTyped /\ OrderInv /\ MicrophoneInv /\ ChatInv
  BY DEF SpeechInv, OrderInv
<1>2. /\ speech \in Tasks /\ channel \in Seq(SpeechEvents) /\ playback \in Playbacks
      /\ playback.tasks \in SUBSET Readings /\ playback.sources \in Seq(Readings)
      /\ Orderly(speech, channel, playback.tasks, playback.sources)
  BY <1>1, Rows DEF OrderInv
<1>3. /\ recording \in [Recordings -> Takes] /\ NoRecording \notin Recordings
      /\ current \in Recordings \cup {NoRecording}
  BY <1>1, SpeechConstants DEF SpeechTyped
<1>4. SUFFICES /\ speech' \in Tasks /\ channel' = channel /\ playback' \in Playbacks
               /\ Orderly(speech', channel, playback'.tasks, playback'.sources)
               /\ recording' \in [Recordings -> Takes] /\ current' \in Recordings \cup {NoRecording}
               /\ MicrophoneInv' /\ ChatInv'
               /\ chat' = chat \/ chat' = [chat EXCEPT !.timer = FALSE]
  BY <1>1, <1>2 DEF SpeechInv, SpeechTyped, Tasks, Playbacks
\* The recordings: one moves on, while the user sees the same one.
<1>5. ASSUME NEW x \in Recordings, NEW y \in Takes, recording' = [recording EXCEPT ![x] = y],
             y.cancelled = recording[x].cancelled, recording[x].at # "none",
             y.open => recording[x].open \/ ~y.cancelled,
             UNCHANGED <<current, chat>>, playback'.inputActive = playback.inputActive
      PROVE  /\ recording' \in [Recordings -> Takes] /\ current' \in Recordings \cup {NoRecording}
             /\ MicrophoneInv' /\ ChatInv'
  <2>1. ~y.cancelled => current = x
    BY <1>1, <1>5 DEF MicrophoneInv
  <2>2. y.open => current = x
    BY <1>1, <1>5, <2>1 DEF MicrophoneInv
  <2>3. current = x => ~y.cancelled
    BY <1>1, <1>3, <1>5 DEF MicrophoneInv
  <2>4. recording' \in [Recordings -> Takes] /\ MicrophoneInv'
    BY <1>1, <1>5, <2>1, <2>2, <2>3, TakeKept
  <2> QED
    BY <1>1, <1>3, <1>5, <2>4, ChatSame
<1>6. ASSUME NEW x \in Recordings, NEW at \in {"microphone", "worklet", "task", "recording",
                 "flushing", "finishing", "over"}, TakeAt(x, at), recording[x].at # "none",
             UNCHANGED <<current, chat>>, playback'.inputActive = playback.inputActive
      PROVE  /\ recording' \in [Recordings -> Takes] /\ current' \in Recordings \cup {NoRecording}
             /\ MicrophoneInv' /\ ChatInv'
  <2> DEFINE y == [recording[x] EXCEPT !.at = at]
  <2>1. y \in Takes /\ y.cancelled = recording[x].cancelled /\ y.open = recording[x].open
    BY <1>3 DEF Takes
  <2>2. recording' = [recording EXCEPT ![x] = y]
    BY <1>3, <1>6 DEF TakeAt
  <2> HIDE DEF y
  <2> QED
    BY <1>5, <1>6, <2>1, <2>2
<1>7. CASE Record(r)
  <2>1. ToggleOn(r) /\ ~chat.on /\ UNCHANGED <<speech, channel, playback, chat>>
    BY <1>7 DEF Record
  <2> QED
    BY <1>1, <1>2, <2>1, RecordKept, ChatSilent
<1>8. CASE Flushed(r)
  <2> DEFINE y == [recording[r] EXCEPT !.at = "finishing", !.open = FALSE]
  <2>1. y \in Takes /\ y.cancelled = recording[r].cancelled /\ y.open = FALSE
    BY <1>3 DEF Takes
  <2>2. /\ recording' = [recording EXCEPT ![r] = y] /\ recording[r].at # "none"
        /\ UNCHANGED <<channel, current, playback, chat>>
    BY <1>3, <1>8 DEF Flushed
  <2>3. speech' = speech \/ speech' = [speech EXCEPT ![r] = "finishing"]
    BY <1>2, <1>8 DEF Flushed, Tasks
  <2> HIDE DEF y
  <2>4. speech' \in Tasks /\ Orderly(speech', channel, playback.tasks, playback.sources)
    BY <1>1, <2>3, TaskOfRecording DEF SpeechStates
  <2> QED
    BY <1>2, <1>5, <2>1, <2>2, <2>4
<1>9. CASE SettingsRead(r)
  <2>1. /\ TakeAt(r, "microphone") /\ recording[r].at # "none" /\ StopPlayback
        /\ playback' = Silent(playback) /\ UNCHANGED <<channel, current, chat>>
    BY <1>9 DEF SettingsRead
  <2>2. /\ playback' \in Playbacks /\ playback'.tasks = {} /\ playback'.sources = <<>>
        /\ playback'.inputActive = playback.inputActive
    BY <1>1, <2>1, Silence
  <2>3. speech' \in Tasks /\ Orderly(speech', channel, {}, <<>>)
    BY <1>1, <2>1, Stopping
  <2> QED
    BY <1>6, <2>1, <2>2, <2>3
<1>10. CASE MicrophoneOpened(r)
  <2>1. recording[r].at # "none" /\ UNCHANGED <<speech, channel, current, playback, chat>>
    BY <1>10 DEF MicrophoneOpened
  <2>2. CASE recording[r].cancelled
    BY <1>2, <1>6, <1>10, <2>1, <2>2 DEF MicrophoneOpened
  <2>3. CASE ~recording[r].cancelled
    <3> DEFINE y == [recording[r] EXCEPT !.open = TRUE, !.at = "worklet"]
    <3>1. y \in Takes /\ y.cancelled = recording[r].cancelled
      BY <1>3 DEF Takes
    <3>2. recording' = [recording EXCEPT ![r] = y]
      BY <1>3, <1>10, <2>3 DEF MicrophoneOpened
    <3> HIDE DEF y
    <3> QED
      BY <1>2, <1>5, <2>1, <2>3, <3>1, <3>2
  <2> QED
    BY <2>2, <2>3
<1>11. CASE WorkletLoaded(r)
  <2>1. /\ recording[r].at # "none" /\ (TakeAt(r, "over") \/ TakeAt(r, "task"))
        /\ UNCHANGED <<channel, current, playback, chat>>
    BY <1>11 DEF WorkletLoaded
  <2>2. speech' = speech \/ speech' = [speech EXCEPT ![r] = "connection"]
    BY <1>11 DEF WorkletLoaded
  <2>3. speech' \in Tasks /\ Orderly(speech', channel, playback.tasks, playback.sources)
    BY <1>1, <2>2, TaskOfRecording DEF SpeechStates
  <2> QED
    BY <1>2, <1>6, <2>1, <2>3
<1>12. CASE RecordingStarted(r)
  <2>1. /\ recording[r].at # "none" /\ (TakeAt(r, "over") \/ TakeAt(r, "recording"))
        /\ UNCHANGED <<speech, channel, current, playback, chat>>
    BY <1>12 DEF RecordingStarted
  <2> QED
    BY <1>2, <1>6, <2>1
<1>13. CASE RecordingFails(r)
  <2>1. recording[r].at # "none" /\ UNCHANGED <<channel, playback>>
    BY <1>13 DEF RecordingFails
  <2>2. CASE recording[r].cancelled
    <3>1. TakeAt(r, "over") /\ UNCHANGED <<current, speech, chat>>
      BY <1>13, <2>2 DEF RecordingFails
    <3> QED
      BY <1>2, <1>6, <2>1, <3>1
  <2>3. CASE ~recording[r].cancelled
    <3>1. /\ recording' = [Cancelled EXCEPT ![r].at = "over"] /\ current' = NoRecording
          /\ speech' = StoppedTasks(Recordings) /\ chat' = [chat EXCEPT !.timer = FALSE]
      BY <1>13, <2>3 DEF RecordingFails
    <3>2. current = r
      BY <1>1, <2>1, <2>3 DEF MicrophoneInv
    <3>3. recording' \in [Recordings -> Takes] /\ MicrophoneInv'
      BY <1>1, <3>1, <3>2, DisposeKept
    <3>4. ChatInv'
      <4>1. chat.timer => current # NoRecording
        BY <1>1 DEF ChatInv
      <4>2. playback' = playback
        BY <2>1
      <4> QED
        BY <1>1, <3>1, PauseEnds
    <3>5. speech' \in Tasks /\ Orderly(speech', channel, playback.tasks, playback.sources)
      BY <1>1, <1>2, <3>1, RecordingsStopped
    <3> QED
      BY <1>2, <2>1, <3>1, <3>3, <3>4, <3>5
  <2> QED
    BY <2>2, <2>3
<1>14. CASE ForgetRecording(r)
  <2>1. /\ recording[r].cancelled /\ recording' = [recording EXCEPT ![r] = NoTake]
        /\ speech' = [speech EXCEPT ![r] = "none"] /\ UNCHANGED <<channel, current, playback, chat>>
    BY <1>14 DEF ForgetRecording
  <2>2. NoTake \in Takes /\ NoTake.at = "none" /\ NoTake.open = FALSE
    BY DEF NoTake, Takes
  <2>3. current # r
    BY <1>1, <1>3, <2>1 DEF MicrophoneInv
  <2>4. recording' \in [Recordings -> Takes] /\ MicrophoneInv'
    BY <1>1, <2>1, <2>2, <2>3, TakeKept
  <2>5. speech' \in Tasks /\ Orderly(speech', channel, playback.tasks, playback.sources)
    BY <1>1, <2>1, TaskOfRecording DEF SpeechStates
  <2>6. ChatInv'
    BY <1>1, <2>1, ChatSame
  <2> QED
    BY <1>2, <1>3, <2>1, <2>4, <2>5, <2>6
<1>15. CASE CancelRecording
  <2>1. /\ Dispose /\ ~chat.on /\ speech' = StoppedTasks(Recordings)
        /\ UNCHANGED <<channel, playback, chat>>
    BY <1>15 DEF CancelRecording
  <2>2. recording' \in [Recordings -> Takes] /\ MicrophoneInv' /\ current' = NoRecording
    BY <1>1, <2>1, DisposeKept DEF Dispose
  <2>3. speech' \in Tasks /\ Orderly(speech', channel, playback.tasks, playback.sources)
    BY <1>1, <1>2, <2>1, RecordingsStopped
  <2> QED
    BY <1>1, <1>2, <2>1, <2>2, <2>3, ChatSilent
<1>16. CASE FinishRecording
  <2>1. /\ current \in Recordings /\ recording[current].at # "none" /\ TakeAt(current, "flushing")
        /\ UNCHANGED <<speech, channel, current, playback, chat>>
    BY <1>3, <1>16 DEF FinishRecording
  <2> QED
    BY <1>2, <1>6, <2>1
<1> QED
  BY <1>7, <1>8, <1>9, <1>10, <1>11, <1>12, <1>13, <1>14, <1>15, <1>16

-----------------------------------------------------------------------------
(* The events *)

LEMMA EventKept ==
    ASSUME SpeechInv, EventArrives
    PROVE  SpeechInv'
<1>1. SpeechTyped /\ OrderInv /\ MicrophoneInv /\ ChatInv
  BY DEF SpeechInv, OrderInv
<1>2. /\ speech \in Tasks /\ channel \in Seq(SpeechEvents) /\ playback \in Playbacks
      /\ playback.tasks \in SUBSET Readings /\ playback.sources \in Seq(Readings)
      /\ Orderly(speech, channel, playback.tasks, playback.sources)
  BY <1>1, Rows DEF OrderInv
<1>3. /\ channel # <<>> /\ channel' = Tail(channel) /\ channel' \in Seq(SpeechEvents)
      /\ channel[1] \in SpeechEvents
  BY <1>2, HeadTailProperties DEF EventArrives
<1> DEFINE e == channel[1]
<1>4. ASSUME NEW left \in SUBSET playback.tasks, NEW more,
             e.kind # "audio" => e.task \notin left,
             more = playback.sources
                 \/ (e.task \in playback.tasks /\ more = Append(playback.sources, e.task))
      PROVE  Orderly(speech, channel', left, more)
  BY <1>2, <1>3, <1>4, OrderlyArrive
<1>5. IF e.task \in Recordings THEN RecordingEvent(e) ELSE ReadingEvent(e)
  BY DEF EventArrives
<1>6. e.task \in Recordings \cup Readings /\ e.kind \in {"audio", "finished", "error"}
  BY <1>3 DEF SpeechEvents
<1> HIDE DEF e
<1>7. SUFFICES /\ speech' \in Tasks /\ playback' \in Playbacks
               /\ Orderly(speech', channel', playback'.tasks, playback'.sources)
               /\ recording' \in [Recordings -> Takes] /\ current' \in Recordings \cup {NoRecording}
               /\ MicrophoneInv' /\ ChatInv'
               /\ chat' = chat \/ chat' = [chat EXCEPT !.timer = FALSE]
  BY <1>1, <1>3 DEF SpeechInv, SpeechTyped, Tasks, Playbacks
<1>8. CASE e.task \in Recordings
  <2>1. RecordingEvent(e) /\ playback' = playback
    BY <1>5, <1>8 DEF RecordingEvent
  <2>2. e.task \notin playback.tasks
    BY <1>2, <1>8, Apart
  <2>3. Orderly(speech, channel', playback.tasks, playback.sources)
    BY <1>4, <2>2
  <2>4. CASE recording[e.task].cancelled
    <3>1. UNCHANGED <<speech, recording, current, chat, playback>>
      BY <2>1, <2>4 DEF RecordingEvent
    <3> QED
      BY <1>1, <1>2, <2>3, <3>1, ChatSame, MicrophoneSame DEF SpeechTyped
  <2>5. CASE ~recording[e.task].cancelled
    <3>1. /\ Dispose /\ speech' = StoppedTasks(Recordings)
          /\ chat' = [chat EXCEPT !.timer = FALSE]
      BY <2>1, <2>5 DEF RecordingEvent
    <3>2. recording' \in [Recordings -> Takes] /\ MicrophoneInv' /\ current' = NoRecording
      BY <1>1, <3>1, DisposeKept DEF Dispose
    <3>3. speech' \in Tasks /\ Orderly(speech', channel', playback.tasks, playback.sources)
      BY <1>1, <1>2, <2>3, <3>1, RecordingsStopped
    <3>4. ChatInv'
      BY <1>1, <3>1, <3>2, PauseEnds
    <3> QED
      BY <1>2, <2>1, <3>1, <3>2, <3>3, <3>4
  <2> QED
    BY <2>4, <2>5
<1>9. CASE e.task \notin Recordings
  <2>1. ReadingEvent(e) /\ UNCHANGED <<recording, current, chat>> /\ e.task \in Readings
    BY <1>5, <1>6, <1>9 DEF ReadingEvent
  <2>2. SUFFICES /\ speech' \in Tasks /\ playback' \in Playbacks
                 /\ Orderly(speech', channel', playback'.tasks, playback'.sources)
                 /\ playback'.inputActive = playback.inputActive
    BY <1>1, <2>1, ChatSame, MicrophoneSame DEF SpeechTyped
  <2>3. CASE e.task \notin playback.tasks
    <3>1. UNCHANGED <<speech, playback>>
      BY <2>1, <2>3 DEF ReadingEvent
    <3>2. Orderly(speech, channel', playback.tasks, playback.sources)
      BY <1>4, <2>3
    <3> QED
      BY <1>2, <3>1, <3>2
  <2>4. CASE e.task \in playback.tasks /\ e.kind = "audio"
    <3>1. speech' = speech /\ playback' = [playback EXCEPT !.sources = Append(@, e.task)]
      BY <2>1, <2>4 DEF ReadingEvent
    <3>2. Append(playback.sources, e.task) \in Seq(Readings)
      BY <1>2, <2>1, AppendProperties
    <3>3. /\ playback' \in Playbacks /\ playback'.tasks = playback.tasks
          /\ playback'.sources = Append(playback.sources, e.task)
          /\ playback'.inputActive = playback.inputActive
      BY <1>2, <3>1, <3>2 DEF Playbacks
    <3>4. Orderly(speech, channel', playback.tasks, Append(playback.sources, e.task))
      BY <1>4, <2>4
    <3> QED
      BY <1>2, <3>1, <3>3, <3>4
  <2>5. CASE e.task \in playback.tasks /\ e.kind = "finished"
    <3>1. speech' = speech /\ playback' = [playback EXCEPT !.tasks = @ \ {e.task}]
      BY <2>1, <2>5 DEF ReadingEvent
    <3>2. /\ playback' \in Playbacks /\ playback'.tasks = playback.tasks \ {e.task}
          /\ playback'.sources = playback.sources /\ playback'.inputActive = playback.inputActive
      BY <1>2, <3>1 DEF Playbacks
    <3>3. Orderly(speech, channel', playback.tasks \ {e.task}, playback.sources)
      BY <1>4
    <3> QED
      BY <1>2, <3>1, <3>2, <3>3
  <2>6. CASE e.task \in playback.tasks /\ e.kind = "error"
    <3>1. StopPlayback /\ playback' = Silent(playback)
      BY <2>1, <2>6 DEF ReadingEvent
    <3>2. /\ playback' \in Playbacks /\ playback'.tasks = {} /\ playback'.sources = <<>>
          /\ playback'.inputActive = playback.inputActive
      BY <1>1, <3>1, Silence
    <3>3. Orderly(speech, channel', {}, playback.sources)
      BY <1>4
    <3>4. speech' \in Tasks /\ \A i \in Readings : speech'[i] \in Over
      BY <1>1, <3>1, TasksStopped DEF StopPlayback
    <3>5. Orderly(speech', channel', {}, <<>>)
      BY <3>3, <3>4, OrderlyStopped
    <3> QED
      BY <3>2, <3>4, <3>5
  <2> QED
    BY <1>6, <2>3, <2>4, <2>5, <2>6
<1> QED
  BY <1>8, <1>9

-----------------------------------------------------------------------------
(* The chat *)

\* The numbers of the first n sentences, in the order they were spoken.
Told(n) == [k \in 1 .. n |-> k]

LEMMA Associative ==
    ASSUME NEW a \in Seq(Nat), NEW b \in Seq(Nat), NEW c \in Seq(Nat)
    PROVE  /\ (a \o b) \o c = a \o (b \o c)
           /\ a \o b \in Seq(Nat) /\ Len(a \o b) = Len(a) + Len(b)
<1>1. (a \o b) \o c = a \o (b \o c)
  BY ConcatAssociative
<1>2. a \o b \in Seq(Nat) /\ Len(a \o b) = Len(a) + Len(b)
  BY ConcatProperties
<1> QED
  BY <1>1, <1>2

\* What a sentence heard in part adds to the draft.
LEMMA SaidMore ==
    ASSUME NEW b \in Seq(Nat), NEW c \in Seq(Nat), NEW n \in Nat, b \o c = Told(n)
    PROVE  b \o Append(c, n + 1) = Told(n + 1)
<1>0. PICK m \in Nat : m = n + 1
  OBVIOUS
<1> DEFINE d == Append(c, m)
<1>2. d \in Seq(Nat)
  BY AppendProperties
<1>3. d = c \o <<m>>
  BY AppendIsConcat
<1> HIDE DEF d
<1>4. Told(n) \in Seq(Nat) /\ Len(Told(n)) = n
  BY DEF Told
<1>5. b \o d = Append(Told(n), m)
  <2>0. <<m>> \in Seq(Nat)
    OBVIOUS
  <2>1. PICK one \in Seq(Nat) : one = <<m>>
    BY <2>0
  <2>2. b \o (c \o one) = (b \o c) \o one
    BY ZenonT(60), Associative
  <2>3. Told(n) \o one = Append(Told(n), m)
    BY <1>4, <2>1, AppendIsConcat
  <2> QED
    BY <1>3, <2>1, <2>2, <2>3
<1>6. Append(Told(n), m) = Told(m)
  <2>1. /\ Append(Told(n), m) \in Seq(Nat) /\ Len(Append(Told(n), m)) = m
        /\ Append(Told(n), m)[m] = m
        /\ \A k \in 1 .. n : Append(Told(n), m)[k] = Told(n)[k]
    <3>1. PICK t \in Seq(Nat) : t = Told(n) /\ Len(t) = n
      BY <1>4
    <3>2. /\ Append(t, m) \in Seq(Nat) /\ Len(Append(t, m)) = n + 1 /\ Append(t, m)[n + 1] = m
          /\ \A k \in 1 .. n : Append(t, m)[k] = t[k]
      BY <3>1, AppendProperties
    <3> QED
      BY <1>0, <3>1, <3>2
  <2>2. Told(m) \in Seq(Nat) /\ Len(Told(m)) = m
    BY DEF Told
  <2>3. \A k \in 1 .. m : Append(Told(n), m)[k] = Told(m)[k]
    <3> TAKE k \in 1 .. m
    <3>1. Told(m)[k] = k
      BY DEF Told
    <3>2. CASE k = m
      BY <2>1, <3>1, <3>2
    <3>3. CASE k # m
      <4>1. k \in 1 .. n
        BY <1>0, <3>3
      <4>2. Told(n)[k] = k
        BY <4>1 DEF Told
      <4> QED
        BY <2>1, <3>1, <4>1, <4>2
    <3> QED
      BY <3>2, <3>3
  <2> QED
    BY <2>1, <2>2, <2>3, SeqEqual
<1> QED
  BY <1>0, <1>5, <1>6 DEF d

Talks == [on : BOOLEAN, heard : Nat, partial : BOOLEAN, draft : Seq(Nat), final : BOOLEAN,
          timer : BOOLEAN, sending : {"no", "stopping", "submitting"}, content : Seq(Nat),
          sent : Seq(Nat)]

\* How many sentences were begun.
Uttered(c) == c.heard + (IF c.partial THEN 1 ELSE 0)
AllSaid(c) == c.sent \o c.content \o c.draft = Told(Uttered(c))

\* What ChatInv says of a chat c, given whether there is a recording and a voice.
Talk(c, records, active) ==
    /\ c.on => /\ AllSaid(c) /\ Len(c.sent) + Len(c.content) <= c.heard
               /\ records /\ c.final => active /\ ~c.partial
    /\ c.timer => c.on /\ c.final /\ c.sending = "no" /\ records
    /\ c.sending = "no" => c.content = <<>>
    /\ ~c.on => c.sending = "no"

LEMMA ChatIsTalk == ChatInv <=> Talk(chat, current # NoRecording, playback.inputActive)
  BY DEF ChatInv, Talk, AllSaid, Uttered, Told, Said

LEMMA SilentTalk == SilentChat \in Talks /\ SilentChat.on = FALSE
                        /\ \A b, d \in BOOLEAN : Talk(SilentChat, b, d)
<1> DEFINE none == <<>>
           zero == 0
<1>1. none \in Seq(Nat) /\ zero \in Nat /\ "no" \in {"no", "stopping", "submitting"}
  OBVIOUS
<1>2. SilentChat = [on |-> FALSE, heard |-> zero, partial |-> FALSE, draft |-> none, final |-> FALSE,
                    timer |-> FALSE, sending |-> "no", content |-> none, sent |-> none]
  BY DEF SilentChat
<1> HIDE DEF none, zero
<1>3. SilentChat \in Talks
  BY <1>1, <1>2 DEF Talks
<1>4. /\ SilentChat.on = FALSE /\ SilentChat.timer = FALSE /\ SilentChat.sending = "no"
      /\ SilentChat.content = none
  BY <1>2
<1> QED
  BY <1>3, <1>4 DEF Talk, none

\* A chat that opens has said nothing.
LEMMA OpenedTalk ==
    /\ [SilentChat EXCEPT !.on = TRUE] \in Talks
    /\ \A b, d \in BOOLEAN : Talk([SilentChat EXCEPT !.on = TRUE], b, d)
<1> DEFINE none == <<>>
           zero == 0
           c == [SilentChat EXCEPT !.on = TRUE]
           silent == [on |-> FALSE, heard |-> zero, partial |-> FALSE, draft |-> none, final |-> FALSE,
                      timer |-> FALSE, sending |-> "no", content |-> none, sent |-> none]
<1>1. none \in Seq(Nat) /\ zero \in Nat /\ "no" \in {"no", "stopping", "submitting"}
  OBVIOUS
<1>2. c = [silent EXCEPT !.on = TRUE]
  BY DEF SilentChat
<1>3. none \o none \o none = Told(zero) /\ Len(none) = 0
  BY DEF Told
<1> HIDE DEF none, zero, c
<1>4. c \in Talks
  BY <1>1, <1>2 DEF Talks
<1>5. /\ c.on = TRUE /\ c.heard = zero /\ c.partial = FALSE /\ c.final = FALSE /\ c.timer = FALSE /\ c.sending = "no"
      /\ c.content = none /\ c.sent = none /\ c.draft = none
  BY <1>2
<1>6. Uttered(c) = zero
  BY <1>1, <1>5 DEF Uttered
<1>7. AllSaid(c)
  BY <1>3, <1>5, <1>6 DEF AllSaid
<1>8. Len(c.sent) + Len(c.content) <= c.heard
  BY <1>3, <1>5 DEF zero
<1>9. ASSUME NEW b \in BOOLEAN, NEW d \in BOOLEAN PROVE Talk(c, b, d)
  BY <1>2, <1>5, <1>7, <1>8 DEF Talk, none
<1> QED
  BY <1>4, <1>9 DEF c

\* The pause is set by what has been said, and nothing else is.
LEMMA ScheduledRow ==
    ASSUME NEW c \in Talks
    PROVE  LET s == Scheduled(c) IN
               /\ s \in Talks /\ s.on = c.on /\ s.heard = c.heard /\ s.partial = c.partial
               /\ s.draft = c.draft /\ s.final = c.final /\ s.sending = c.sending
               /\ s.content = c.content /\ s.sent = c.sent
               /\ s.timer => c.on /\ current # NoRecording /\ c.final /\ c.sending = "no"
<1> DEFINE t == c.on /\ current # NoRecording /\ c.final /\ c.draft # <<>> /\ c.sending = "no"
<1>1. t \in BOOLEAN /\ (t => c.on /\ current # NoRecording /\ c.final /\ c.sending = "no")
  BY DEF Talks
<1>2. Scheduled(c) = [c EXCEPT !.timer = t]
  BY DEF Scheduled
<1> HIDE DEF t
<1> QED
  BY <1>1, <1>2 DEF Talks

LEMMA InPartRow ==
    ASSUME NEW c \in Talks, AllSaid(c)
    PROVE  LET s == InPart(c) IN
               /\ s \in Talks /\ s.on = c.on /\ s.heard = c.heard /\ s.partial = TRUE
               /\ s.final = c.final /\ s.sending = c.sending /\ s.timer = c.timer
               /\ s.content = c.content /\ s.sent = c.sent /\ AllSaid(s)
<1> DEFINE d == IF c.partial THEN c.draft ELSE Append(c.draft, c.heard + 1)
           s == InPart(c)
<1>1. c.draft \in Seq(Nat) /\ c.sent \in Seq(Nat) /\ c.content \in Seq(Nat) /\ c.heard \in Nat
  BY DEF Talks
<1>2. d \in Seq(Nat)
  <2>1. c.heard + 1 \in Nat
    BY <1>1
  <2> QED
    BY <1>1, <2>1, AppendProperties
<1>3. s = [c EXCEPT !.partial = TRUE, !.draft = d]
  BY DEF InPart
<1>4. c.sent \o c.content \o d = Told(c.heard + 1)
  <2> PICK b \in Seq(Nat) : b = c.sent \o c.content
    BY <1>1, ConcatProperties
  <2>1. CASE c.partial
    BY <2>1, <1>1 DEF AllSaid, Uttered
  <2>2. CASE ~c.partial
    <3>1. b \o c.draft = Told(c.heard)
      <4>1. Uttered(c) = c.heard
        BY <2>2, <1>1 DEF Uttered
      <4> QED
        BY <4>1 DEF AllSaid
    <3>2. b \o Append(c.draft, c.heard + 1) = Told(c.heard + 1)
      BY <3>1, <1>1, SaidMore
    <3> QED
      BY <2>2, <3>2
  <2> QED
    BY <2>1, <2>2
<1> HIDE DEF d, s
<1>5. /\ s \in Talks /\ s.on = c.on /\ s.heard = c.heard /\ s.partial = TRUE
      /\ s.final = c.final /\ s.sending = c.sending /\ s.timer = c.timer
      /\ s.content = c.content /\ s.sent = c.sent /\ s.draft = d
  BY <1>2, <1>3 DEF Talks
<1>6. Uttered(s) = c.heard + 1
  BY <1>1, <1>5 DEF Uttered
<1>7. AllSaid(s)
  BY <1>4, <1>5, <1>6 DEF AllSaid
<1> QED
  BY <1>5, <1>7 DEF s

LEMMA ChatKept ==
    ASSUME SpeechInv,
           \/ \E r \in Recordings : OpenChat(r)
           \/ CloseChat \/ HeardBriefly \/ HeardInPart \/ Heard \/ Send \/ SendStopped \/ Submitted
           \/ SendFails
    PROVE  SpeechInv'
<1>1. SpeechTyped /\ OrderInv /\ MicrophoneInv /\ ChatInv
  BY DEF SpeechInv, OrderInv
<1>2. /\ speech \in Tasks /\ channel \in Seq(SpeechEvents) /\ playback \in Playbacks
      /\ playback.tasks \in SUBSET Readings /\ playback.sources \in Seq(Readings)
      /\ Orderly(speech, channel, playback.tasks, playback.sources)
  BY <1>1, Rows DEF OrderInv
<1>3. /\ recording \in [Recordings -> Takes] /\ NoRecording \notin Recordings
      /\ current \in Recordings \cup {NoRecording} /\ chat \in Talks
      /\ Talk(chat, current # NoRecording, playback.inputActive)
  BY <1>1, SpeechConstants, ChatIsTalk DEF SpeechTyped, Talks
<1>4. SUFFICES /\ speech' \in Tasks /\ channel' = channel /\ playback' \in Playbacks
               /\ Orderly(speech', channel, playback'.tasks, playback'.sources)
               /\ recording' \in [Recordings -> Takes] /\ current' \in Recordings \cup {NoRecording}
               /\ MicrophoneInv' /\ chat' \in Talks
               /\ Talk(chat', current' # NoRecording, playback'.inputActive)
  <2>1. ChatInv'
    BY <1>4 DEF ChatInv, Talk, AllSaid, Uttered, Told, Said
  <2>2. SpeechTyped'
    BY <1>2, <1>4 DEF SpeechTyped, Tasks, Playbacks, Talks
  <2> QED
    BY <1>4, <2>1, <2>2 DEF SpeechInv
\* The reader falls silent, the recording goes on.
<1>5. ASSUME NEW p \in Playbacks, StopPlayback, playback' = p, p.tasks = {}, p.sources = <<>>,
             UNCHANGED <<channel, recording, current>>
      PROVE  /\ speech' \in Tasks /\ channel' = channel /\ playback' \in Playbacks
             /\ Orderly(speech', channel, playback'.tasks, playback'.sources)
             /\ recording' \in [Recordings -> Takes] /\ current' \in Recordings \cup {NoRecording}
             /\ MicrophoneInv'
  BY <1>1, <1>3, <1>5, Stopping, MicrophoneSame
<1>6. ASSUME NEW p \in Playbacks, chatUnchanged, playback' = p, p.tasks = playback.tasks,
             p.sources = playback.sources
      PROVE  /\ speech' \in Tasks /\ channel' = channel /\ playback' \in Playbacks
             /\ Orderly(speech', channel, playback'.tasks, playback'.sources)
             /\ recording' \in [Recordings -> Takes] /\ current' \in Recordings \cup {NoRecording}
             /\ MicrophoneInv' /\ current' = current
  <2>1. UNCHANGED <<speech, channel, recording, current>>
    BY <1>6 DEF chatUnchanged
  <2> QED
    BY <1>1, <1>2, <1>3, <1>6, <2>1, MicrophoneSame
\* It is interrupted by the voice of the user.
<1> DEFINE q == [Silent(playback) EXCEPT !.interrupted = TRUE, !.inputActive = TRUE]
<1>7. q \in Playbacks /\ q.tasks = {} /\ q.sources = <<>> /\ q.inputActive = TRUE
  <2> PICK w : w = Silent(playback)
    OBVIOUS
  <2>1. w \in Playbacks /\ w.tasks = {} /\ w.sources = <<>>
    BY <1>1, Silence
  <2> QED
    BY <2>1 DEF Playbacks
<1> HIDE DEF q
<1>8. CASE \E r \in Recordings : OpenChat(r)
  <2> PICK r \in Recordings : OpenChat(r)
    BY <1>8
  <2>1. ToggleOn(r) /\ UNCHANGED <<speech, channel, playback>> /\ chat' = [SilentChat EXCEPT !.on = TRUE]
    BY DEF OpenChat
  <2>2. recording' \in [Recordings -> Takes] /\ current' = r /\ MicrophoneInv'
    BY <1>1, <2>1, RecordKept
  <2>3. chat' \in Talks /\ Talk(chat', current' # NoRecording, playback'.inputActive)
    <3>1. playback'.inputActive \in BOOLEAN
      BY <1>2, <2>1 DEF Playbacks
    <3> QED
      BY <2>1, <3>1, OpenedTalk
  <2> QED
    BY <1>2, <1>4, <2>1, <2>2, <2>3
<1>9. CASE CloseChat
  <2>1. /\ Dispose /\ chat' = SilentChat /\ channel' = channel
        /\ playback' = [Silent(playback) EXCEPT !.inputActive = FALSE]
        /\ speech' = [i \in DOMAIN speech |-> IF i \in Recordings /\ current = NoRecording THEN speech[i]
                                      ELSE IF speech[i] # "none" THEN "ended" ELSE speech[i]]
    BY <1>9 DEF CloseChat
  <2>2. recording' \in [Recordings -> Takes] /\ current' = NoRecording /\ MicrophoneInv'
    BY <1>1, <2>1, DisposeKept DEF Dispose
  <2>3. /\ playback' \in Playbacks /\ playback'.tasks = {} /\ playback'.sources = <<>>
        /\ playback'.inputActive = FALSE
    <3> PICK w : w = Silent(playback)
      OBVIOUS
    <3>1. w \in Playbacks /\ w.tasks = {} /\ w.sources = <<>>
      BY <1>1, Silence
    <3> QED
      BY <2>1, <3>1 DEF Playbacks
  <2>4. speech' \in Tasks
    BY <1>2, <2>1 DEF Tasks, SpeechStates
  <2>5. \A i \in Readings : speech'[i] \in Over
    BY <1>2, <2>1, Apart DEF Tasks, Over
  <2>6. Orderly(speech', channel, {}, <<>>)
    BY <1>2, <2>5, OrderlyStopped
  <2>7. chat' \in Talks /\ Talk(chat', current' # NoRecording, playback'.inputActive)
    BY <2>1, <2>3, SilentTalk
  <2> QED
    BY <1>4, <2>1, <2>2, <2>3, <2>4, <2>6, <2>7
<1>10. CASE HeardBriefly
  <2>1. /\ chat.on /\ current # NoRecording /\ ~playback.inputActive /\ chat' = InPart(chat)
        /\ playback' = playback /\ chatUnchanged
    BY <1>10 DEF HeardBriefly, Listening
  <2>2. AllSaid(chat) /\ ~chat.final
    BY <1>3, <2>1 DEF Talk
  <2>3. /\ chat' \in Talks /\ chat'.on = chat.on /\ chat'.heard = chat.heard
        /\ chat'.final = chat.final /\ chat'.sending = chat.sending /\ chat'.timer = chat.timer
        /\ chat'.content = chat.content /\ chat'.sent = chat.sent /\ AllSaid(chat')
    BY <1>3, <2>1, <2>2, InPartRow
  <2>4. Talk(chat', current # NoRecording, playback.inputActive)
    BY <1>3, <2>1, <2>2, <2>3 DEF Talk
  <2> QED
    BY <1>2, <1>4, <1>6, <2>1, <2>3, <2>4
<1>11. CASE HeardInPart
  <2> DEFINE c == InPart(chat)
             y == [c EXCEPT !.final = FALSE]
  <2>1. /\ chat.on /\ current # NoRecording /\ chat' = Scheduled(y) /\ StopPlayback
        /\ playback' = q /\ UNCHANGED <<channel, recording, current>>
    BY <1>11 DEF HeardInPart, Listening, q
  <2>2. AllSaid(chat)
    BY <1>3, <2>1 DEF Talk
  <2>3. /\ c \in Talks /\ c.on = chat.on /\ c.heard = chat.heard /\ c.partial = TRUE
        /\ c.sending = chat.sending /\ c.content = chat.content /\ c.sent = chat.sent /\ AllSaid(c)
    BY <1>3, <2>2, InPartRow
  <2> HIDE DEF c
  <2>4. /\ y \in Talks /\ y.on = c.on /\ y.heard = c.heard /\ y.partial = c.partial
        /\ y.sending = c.sending /\ y.content = c.content /\ y.sent = c.sent /\ y.final = FALSE
        /\ y.draft = c.draft
    BY <2>3 DEF Talks
  <2> HIDE DEF y
  <2>5. /\ chat' \in Talks /\ chat'.on = y.on /\ chat'.heard = y.heard /\ chat'.partial = y.partial
        /\ chat'.draft = y.draft /\ chat'.final = y.final /\ chat'.sending = y.sending
        /\ chat'.content = y.content /\ chat'.sent = y.sent
        /\ chat'.timer => y.final
    BY <2>1, <2>4, ScheduledRow
  <2>6. AllSaid(chat')
    BY <2>3, <2>4, <2>5 DEF AllSaid, Uttered
  <2>7. Talk(chat', current # NoRecording, TRUE)
    BY ZenonT(60), <1>3, <2>1, <2>3, <2>4, <2>5, <2>6 DEF Talk
  <2> QED
    BY <1>4, <1>5, <1>7, <2>1, <2>5, <2>7
<1>12. CASE Heard
  <2> PICK h \in Nat : h = chat.heard
    BY <1>3 DEF Talks
  <2> PICK m \in Nat : m = h + 1
    OBVIOUS
  <2> DEFINE y == [chat EXCEPT !.final = TRUE, !.partial = FALSE, !.heard = m]
  <2>1. /\ chat.on /\ chat.partial /\ current # NoRecording /\ chat' = Scheduled(y) /\ StopPlayback
        /\ playback' = q /\ UNCHANGED <<channel, recording, current>>
    BY <1>12 DEF Heard, Listening, q
  <2>2. AllSaid(chat) /\ Len(chat.sent) + Len(chat.content) <= chat.heard
    BY <1>3, <2>1 DEF Talk
  <2>3. /\ y \in Talks /\ y.on = chat.on /\ y.heard = m /\ y.partial = FALSE
        /\ y.sending = chat.sending /\ y.content = chat.content /\ y.sent = chat.sent
        /\ y.draft = chat.draft
    BY <1>3 DEF Talks
  <2> HIDE DEF y
  <2>4. /\ chat' \in Talks /\ chat'.on = y.on /\ chat'.heard = y.heard /\ chat'.partial = y.partial
        /\ chat'.draft = y.draft /\ chat'.final = y.final /\ chat'.sending = y.sending
        /\ chat'.content = y.content /\ chat'.sent = y.sent
        /\ chat'.timer => y.on /\ current # NoRecording /\ y.final /\ y.sending = "no"
    BY <2>3, ScheduledRow, <2>1
  <2>5. Uttered(chat') = h + 1 /\ Uttered(chat) = h + 1
    BY <2>1, <2>3, <2>4 DEF Uttered
  <2>6. AllSaid(chat')
    BY <2>2, <2>3, <2>4, <2>5 DEF AllSaid
  <2>7. Len(chat'.sent) + Len(chat'.content) <= chat'.heard
    <3>1. PICK j \in Nat : j = Len(chat.sent)
      BY <1>3 DEF Talks
    <3>2. PICK k \in Nat : k = Len(chat.content)
      BY <1>3 DEF Talks
    <3>3. j + k <= h
      BY <2>2, <3>1, <3>2
    <3>4. j + k <= m
      BY <3>3
    <3>5. Len(chat'.sent) = j /\ Len(chat'.content) = k /\ chat'.heard = m
      BY <2>3, <2>4, <3>1, <3>2
    <3> QED
      BY <3>4, <3>5
  <2>8. ~chat'.partial
    BY <2>3, <2>4
  <2>9. Talk(chat', current # NoRecording, TRUE)
    BY <1>3, <2>1, <2>3, <2>4, <2>6, <2>7, <2>8 DEF Talk
  <2> QED
    BY <1>4, <1>5, <1>7, <2>1, <2>4, <2>9
<1>13. CASE Send
  <2> DEFINE none == <<>>
             p == [playback EXCEPT !.inputActive = FALSE]
  <2>1. /\ chat.on /\ chat.timer /\ playback' = p /\ chatUnchanged
        /\ chat' = [chat EXCEPT !.timer = FALSE, !.content = chat.draft, !.draft = none, !.final = FALSE,
                                !.partial = FALSE, !.sending = "stopping"]
    BY <1>13 DEF Send
  <2>2. /\ p \in Playbacks /\ p.tasks = playback.tasks /\ p.sources = playback.sources
    BY <1>2 DEF Playbacks
  <2>3. /\ AllSaid(chat) /\ ~chat.partial /\ chat.content = none
    BY <1>3, <2>1 DEF Talk
  <2>4. none \in Seq(Nat) /\ \A s \in Seq(Nat) : s \o none = s
    BY ConcatEmptySeq
  <2>5. /\ chat.sent \in Seq(Nat) /\ chat.draft \in Seq(Nat) /\ chat.heard \in Nat
    BY <1>3 DEF Talks
  <2>6. chat.sent \o chat.draft = Told(chat.heard)
    <3>1. Uttered(chat) = chat.heard
      BY <2>3, <2>5 DEF Uttered
    <3> QED
      BY <2>3, <2>4, <2>5, <3>1 DEF AllSaid
  <2>7. Len(chat.sent) + Len(chat.draft) = chat.heard
    <3>1. Len(Told(chat.heard)) = chat.heard
      BY <2>5 DEF Told
    <3>2. Len(chat.sent \o chat.draft) = Len(chat.sent) + Len(chat.draft)
      BY <2>5, ConcatProperties
    <3> QED
      BY <2>6, <3>1, <3>2
  <2> HIDE DEF none, p
  <2>8. /\ chat' \in Talks /\ chat'.on = chat.on /\ chat'.heard = chat.heard /\ chat'.partial = FALSE
        /\ chat'.draft = none /\ chat'.final = FALSE /\ chat'.timer = FALSE
        /\ chat'.sending = "stopping" /\ chat'.content = chat.draft /\ chat'.sent = chat.sent
    BY <1>3, <2>1, <2>4, <2>5 DEF Talks
  <2>9. AllSaid(chat')
    <3>1. Uttered(chat') = chat.heard
      BY <2>5, <2>8 DEF Uttered
    <3>2. Told(chat.heard) \in Seq(Nat)
      BY <2>5 DEF Told
    <3> QED
      BY <2>4, <2>6, <2>8, <3>1, <3>2 DEF AllSaid
  <2>10. Len(chat'.sent) + Len(chat'.content) <= chat'.heard
    <3>1. PICK h \in Nat : h = chat.heard
      BY <2>5
    <3>2. Len(chat'.sent) + Len(chat'.content) = h /\ chat'.heard = h
      BY <2>7, <2>8, <3>1
    <3>3. h <= h
      OBVIOUS
    <3> QED
      BY <3>2, <3>3
  <2>11. Talk(chat', current # NoRecording, p.inputActive)
    BY <2>1, <2>8, <2>9, <2>10 DEF Talk
  <2> QED
    BY <1>4, <1>6, <2>1, <2>2, <2>8, <2>11
<1>14. CASE SendStopped
  <2>1. /\ chat.sending = "stopping" /\ chat' = [chat EXCEPT !.sending = "submitting"]
        /\ playback' = playback /\ chatUnchanged
    BY <1>14 DEF SendStopped
  <2>2. /\ chat' \in Talks /\ chat'.on = chat.on /\ chat'.heard = chat.heard
        /\ chat'.partial = chat.partial /\ chat'.draft = chat.draft /\ chat'.final = chat.final
        /\ chat'.timer = chat.timer /\ chat'.sending = "submitting" /\ chat'.content = chat.content
        /\ chat'.sent = chat.sent
    BY <1>3, <2>1 DEF Talks
  <2>3. AllSaid(chat') <=> AllSaid(chat)
    BY <2>2 DEF AllSaid, Uttered
  <2>4. Talk(chat', current # NoRecording, playback.inputActive)
    BY <1>3, <2>1, <2>2, <2>3 DEF Talk
  <2> QED
    BY <1>2, <1>4, <1>6, <2>1, <2>2, <2>4
<1>15. CASE Submitted
  <2> DEFINE none == <<>>
             y == [chat EXCEPT !.sending = "no", !.content = none, !.sent = @ \o chat.content]
  <2>1. /\ chat.sending = "submitting" /\ chat' = Scheduled(y) /\ playback' = playback /\ chatUnchanged
    BY <1>15 DEF Submitted
  <2>2. none \in Seq(Nat) /\ (\A s \in Seq(Nat) : s \o none = s) /\ Len(none) = 0
    BY ConcatEmptySeq
  <2>3. /\ chat.sent \in Seq(Nat) /\ chat.content \in Seq(Nat) /\ chat.draft \in Seq(Nat)
        /\ chat.heard \in Nat
    BY <1>3 DEF Talks
  <2>4. PICK all \in Seq(Nat) : /\ all = chat.sent \o chat.content
                                /\ Len(all) = Len(chat.sent) + Len(chat.content)
    BY <2>3, ConcatProperties
  <2> HIDE DEF none
  <2>5. /\ y \in Talks /\ y.on = chat.on /\ y.heard = chat.heard /\ y.partial = chat.partial
        /\ y.draft = chat.draft /\ y.final = chat.final /\ y.sending = "no" /\ y.content = none
        /\ y.sent = all
    BY <1>3, <2>2, <2>4 DEF Talks
  <2> HIDE DEF y
  <2>6. /\ chat' \in Talks /\ chat'.on = y.on /\ chat'.heard = y.heard /\ chat'.partial = y.partial
        /\ chat'.draft = y.draft /\ chat'.final = y.final /\ chat'.sending = y.sending
        /\ chat'.content = y.content /\ chat'.sent = y.sent
        /\ chat'.timer => y.on /\ current # NoRecording /\ y.final /\ y.sending = "no"
    BY <2>1, <2>5, ScheduledRow
  <2>7. ASSUME chat.on PROVE AllSaid(chat') /\ Len(chat'.sent) + Len(chat'.content) <= chat'.heard
    <3>1. AllSaid(chat) /\ Len(chat.sent) + Len(chat.content) <= chat.heard
      BY <1>3, <2>7 DEF Talk
    <3>2. chat'.sent \o chat'.content = all
      BY <2>2, <2>4, <2>5, <2>6
    <3>3. AllSaid(chat')
      BY <3>1, <3>2, <2>4, <2>5, <2>6 DEF AllSaid, Uttered
    <3>4. Len(chat'.sent) + Len(chat'.content) <= chat'.heard
      <4>1. PICK j \in Nat : j = Len(chat.sent) + Len(chat.content)
        <5>1. Len(chat.sent) \in Nat /\ Len(chat.content) \in Nat
          BY <2>3
        <5>2. PICK k \in Nat : k = Len(chat.sent)
          BY <5>1
        <5>3. PICK l \in Nat : l = Len(chat.content)
          BY <5>1
        <5>4. k + l \in Nat
          OBVIOUS
        <5> QED
          BY <5>2, <5>3, <5>4
      <4>2. Len(chat'.sent) = j /\ Len(chat'.content) = 0 /\ chat'.heard = chat.heard
        BY <2>2, <2>4, <2>5, <2>6, <4>1
      <4>3. j <= chat.heard
        BY <3>1, <4>1
      <4>4. j + 0 = j
        OBVIOUS
      <4> QED
        BY <4>2, <4>3, <4>4
    <3> QED
      BY <3>3, <3>4
  <2>8. Talk(chat', current # NoRecording, playback.inputActive)
    BY <1>3, <2>1, <2>5, <2>6, <2>7 DEF Talk, none
  <2> QED
    BY <1>2, <1>4, <1>6, <2>1, <2>6, <2>8
<1>16. CASE SendFails
  <2> DEFINE none == <<>>
  <2>1. /\ chat.sending # "no" /\ Dispose /\ UNCHANGED <<channel, playback>>
        /\ (speech' = speech \/ speech' = StoppedTasks(Recordings))
        /\ chat' = [chat EXCEPT !.sending = "no", !.content = none,
                                !.draft = chat.content \o chat.draft, !.final = TRUE]
    BY <1>16 DEF SendFails
  <2>2. none \in Seq(Nat) /\ (\A s \in Seq(Nat) : s \o none = s) /\ Len(none) = 0
    BY ConcatEmptySeq
  <2>3. PICK a \in Seq(Nat) : a = chat.sent
    BY <1>3 DEF Talks
  <2>4. PICK b \in Seq(Nat) : b = chat.content
    BY <1>3 DEF Talks
  <2>5. PICK c \in Seq(Nat) : c = chat.draft
    BY <1>3 DEF Talks
  <2>6. /\ (a \o b) \o c = a \o (b \o c) /\ b \o c \in Seq(Nat)
    BY ZenonT(60), Associative
  <2> HIDE DEF none
  <2>7. /\ chat' \in Talks /\ chat'.on = chat.on /\ chat'.heard = chat.heard
        /\ chat'.partial = chat.partial /\ chat'.draft = b \o c /\ chat'.sending = "no"
        /\ chat'.content = none /\ chat'.sent = a /\ chat'.timer = chat.timer
    BY <1>3, <2>1, <2>2, <2>3, <2>4, <2>5, <2>6 DEF Talks
  <2>8. ASSUME chat.on PROVE AllSaid(chat') /\ Len(chat'.sent) + Len(chat'.content) <= chat'.heard
    <3>1. AllSaid(chat) /\ Len(a) + Len(b) <= chat.heard
      BY <1>3, <2>3, <2>4, <2>8 DEF Talk
    <3>2. chat'.sent \o chat'.content = a
      BY <2>2, <2>7
    <3>3. AllSaid(chat')
      BY <3>1, <3>2, <2>3, <2>4, <2>5, <2>6, <2>7 DEF AllSaid, Uttered
    <3>4. Len(a) \in Nat /\ Len(b) \in Nat /\ chat.heard \in Nat
      BY <1>3 DEF Talks
    <3>5. Len(chat'.sent) + Len(chat'.content) <= chat'.heard
      BY <3>1, <3>4, <2>2, <2>7
    <3> QED
      BY <3>3, <3>5
  <2>9. recording' \in [Recordings -> Takes] /\ MicrophoneInv' /\ current' = NoRecording
    BY <1>1, <2>1, DisposeKept DEF Dispose
  <2>10. ~chat'.timer
    BY <1>3, <2>1, <2>7 DEF Talk
  <2>11. Talk(chat', current' # NoRecording, playback.inputActive)
    BY <2>7, <2>8, <2>9, <2>10 DEF Talk, none
  <2>12. speech' \in Tasks /\ Orderly(speech', channel, playback.tasks, playback.sources)
    BY <1>1, <1>2, <2>1, RecordingsStopped
  <2> QED
    BY <1>2, <1>4, <2>1, <2>7, <2>9, <2>11, <2>12
<1> QED
  BY <1>8, <1>9, <1>10, <1>11, <1>12, <1>13, <1>14, <1>15, <1>16

-----------------------------------------------------------------------------
(* Every step of the component *)

LEMMA SpeechStarts == SpeechInit => SpeechInv
<1> SUFFICES ASSUME SpeechInit PROVE SpeechInv
  OBVIOUS
<1> DEFINE none == <<>>
           nothing == {}
<1>1. /\ speech = [i \in Recordings \cup Readings |-> "none"] /\ channel = none
      /\ recording = [r \in Recordings |-> NoTake] /\ current = NoRecording /\ chat = SilentChat
      /\ playback = [tasks |-> nothing, complete |-> nothing, sources |-> none,
                     interrupted |-> FALSE, inputActive |-> FALSE]
  BY DEF SpeechInit
<1>2. none \in Seq(SpeechEvents) /\ none \in Seq(Readings) /\ nothing \in SUBSET Readings /\ Len(none) = 0
  OBVIOUS
<1> HIDE DEF none, nothing
<1>3. NoTake \in Takes /\ NoTake.at = "none" /\ NoTake.open = FALSE
  BY DEF NoTake, Takes
<1>4. /\ playback \in Playbacks /\ playback.tasks = nothing /\ playback.sources = none
      /\ playback.inputActive = FALSE
  BY <1>1, <1>2 DEF Playbacks
<1>5. chat \in Talks /\ ChatInv
  <2>1. Talk(SilentChat, FALSE, FALSE) /\ SilentChat \in Talks
    BY SilentTalk
  <2> QED
    BY <2>1, <1>1, <1>4, ChatIsTalk
<1>6. speech \in Tasks /\ \A i \in Readings : speech[i] \in Over
  BY <1>1 DEF Tasks, SpeechStates, Over
<1>7. recording \in [Recordings -> Takes]
  BY <1>1, <1>3
<1>8. SpeechTyped
  BY <1>1, <1>2, <1>4, <1>5, <1>6, <1>7 DEF SpeechTyped, Tasks, Playbacks, Talks
<1>9. MicrophoneInv
  BY <1>1, <1>3 DEF MicrophoneInv
<1>10. Orderly(speech, none, {}, none)
  BY <1>2, <1>6 DEF Orderly, Over, Underway
<1> QED
  BY <1>1, <1>4, <1>5, <1>8, <1>9, <1>10 DEF SpeechInv, nothing

LEMMA SpeechKept == SpeechInv /\ [SpeechNext]_speechVars => SpeechInv'
<1> SUFFICES ASSUME SpeechInv, [SpeechNext]_speechVars PROVE SpeechInv'
  OBVIOUS
<1>1. CASE UNCHANGED speechVars
  <2>1. UNCHANGED <<speech, channel, recording, current, playback, chat>>
    BY <1>1 DEF speechVars
  <2>2. SpeechTyped' /\ MicrophoneInv' /\ ChatInv'
    BY <2>1, MicrophoneSame, ChatSame DEF SpeechInv, SpeechTyped
  <2>3. Orderly(speech, channel, playback.tasks, playback.sources)'
    BY <2>1 DEF SpeechInv
  <2> QED
    BY <2>2, <2>3 DEF SpeechInv
<1>2. CASE SpeechNext
  <2>1. CASE \E i \in Recordings \cup Readings :
            PreviousDone(i) \/ ConnectionGiven(i) \/ TaskStarted(i) \/ TaskFails(i) \/ Audio(i)
                \/ TaskFinished(i)
    BY <2>1, MainKept
  <2>2. CASE \/ \E complete \in BOOLEAN : Speak(complete)
             \/ \E i \in Readings : ItemCompleted(i) \/ FinishReading(i)
             \/ ReadAloud \/ TurnStarted \/ StopReading \/ SourceEnded
    BY <2>2, PlaybackKept
  <2>3. CASE EventArrives
    BY <2>3, EventKept
  <2>4. CASE \E r \in Recordings :
            \/ Record(r) \/ Flushed(r) \/ SettingsRead(r) \/ MicrophoneOpened(r) \/ WorkletLoaded(r)
            \/ RecordingStarted(r) \/ RecordingFails(r) \/ ForgetRecording(r)
    BY <2>4, RecordingKept
  <2>5. CASE CancelRecording \/ FinishRecording
    <3>1. current \in Recordings
      BY <2>5 DEF CancelRecording, FinishRecording, SpeechInv, SpeechTyped
    <3> QED
      BY <2>5, <3>1, RecordingKept
  <2>6. CASE \/ \E r \in Recordings : OpenChat(r)
             \/ CloseChat \/ HeardBriefly \/ HeardInPart \/ Heard \/ Send \/ SendStopped
             \/ Submitted \/ SendFails
    BY <2>6, ChatKept
  <2> QED
    BY <1>2, <2>1, <2>2, <2>3, <2>4, <2>5, <2>6 DEF SpeechNext
<1> QED
  BY <1>1, <1>2

LEMMA SpeechInvSafe ==
    SpeechInv => SpeechTypeOK /\ ReadInTurn /\ MicrophoneReleased /\ SpokenKept
<1> SUFFICES ASSUME SpeechInv PROVE SpeechTypeOK /\ ReadInTurn /\ MicrophoneReleased /\ SpokenKept
  OBVIOUS
<1>1. SpeechTyped /\ MicrophoneInv /\ ChatInv /\ Orderly(speech, channel, playback.tasks, playback.sources)
  BY DEF SpeechInv
<1>2. SpeechTypeOK
  BY <1>1 DEF SpeechTypeOK, SpeechTyped, SpeechStates, MicrophoneInv
<1>3. ReadInTurn
  <2>1. playback.sources \in Seq(Readings) /\ DOMAIN playback.sources = 1 .. Len(playback.sources)
    BY <1>1, Rows
  <2> QED
    BY <1>1, <2>1 DEF ReadInTurn, Orderly
<1>4. MicrophoneReleased
  BY <1>1 DEF MicrophoneReleased, MicrophoneInv
<1>5. SpokenKept
  <2> SUFFICES ASSUME chat.on
               PROVE  \A n \in ToSet(chat.sent) \cup ToSet(chat.content) : n <= chat.heard
    BY <1>1 DEF SpokenKept, ChatInv, Said
  <2>1. chat \in Talks
    BY <1>1 DEF SpeechTyped, Talks
  <2> PICK h \in Nat : h = chat.heard
    BY <2>1 DEF Talks
  <2>2. PICK a \in Seq(Nat) : a = chat.sent
    BY <2>1 DEF Talks
  <2>3. PICK b \in Seq(Nat) : b = chat.content
    BY <2>1 DEF Talks
  <2>4. PICK c \in Seq(Nat) : c = chat.draft
    BY <2>1 DEF Talks
  <2>5. PICK j \in Nat : j = Len(a)
    OBVIOUS
  <2>6. PICK k \in Nat : k = Len(b)
    OBVIOUS
  <2>7. PICK l \in Nat : l = Len(c)
    OBVIOUS
  <2>8. j + k <= h
    BY <1>1, <2>2, <2>3, <2>5, <2>6 DEF ChatInv
  <2>9. PICK ab \in Seq(Nat) : ab = a \o b /\ Len(ab) = j + k
    BY <2>5, <2>6, ConcatProperties
  <2>10. ab \o c = Told(Uttered(chat))
    BY <1>1, <2>2, <2>3, <2>4, <2>9 DEF ChatInv, Said, Told, Uttered
  <2>11. \A i \in 1 .. j + k : ab[i] = i
    <3> TAKE i \in 1 .. j + k
    <3>0. PICK n \in Nat : n = j + k
      OBVIOUS
    <3>7. i \in 1 .. n + l /\ i <= n /\ i \in 1 .. n
      BY <3>0
    <3>8. (ab \o c)[i] = ab[i] /\ Len(ab \o c) = n + l
      BY <2>7, <2>9, <3>0, <3>7, ConcatProperties
    <3>1. (ab \o c)[i] = ab[i] /\ i \in 1 .. Len(ab \o c)
      BY <3>7, <3>8
    <3>2. Uttered(chat) \in Nat
      BY <2>1 DEF Uttered, Talks
    <3>3. Len(Told(Uttered(chat))) = Uttered(chat)
      BY <3>2 DEF Told
    <3>4. i \in 1 .. Uttered(chat)
      BY <3>1, <3>2, <3>3, <2>10
    <3>5. Told(Uttered(chat))[i] = i
      BY <3>4 DEF Told
    <3> QED
      BY <3>1, <3>5, <2>10
  <2>12. \A i \in 1 .. j : a[i] = i
    <3> TAKE i \in 1 .. j
    <3>1. i \in 1 .. j + k
      OBVIOUS
    <3>2. (a \o b)[i] = a[i]
      BY <2>5, <2>6, <3>1, ConcatProperties
    <3> QED
      BY <2>9, <2>11, <3>1, <3>2
  <2>13. \A i \in 1 .. k : b[i] = j + i
    <3> TAKE i \in 1 .. k
    <3>1. j + i \in 1 .. j + k /\ ~(j + i <= j) /\ (j + i) - j = i
      OBVIOUS
    <3>2. (a \o b)[j + i] = b[i]
      BY <2>5, <2>6, <3>1, ConcatProperties
    <3> QED
      BY <2>9, <2>11, <3>1, <3>2
  <2>14. \A n \in ToSet(a) : n <= h
    BY <2>5, <2>8, <2>12 DEF ToSet
  <2>15. \A n \in ToSet(b) : n <= h
    BY <2>6, <2>8, <2>13 DEF ToSet
  <2> QED
    BY <2>2, <2>3, <2>14, <2>15
<1> QED
  BY <1>2, <1>3, <1>4, <1>5

-----------------------------------------------------------------------------
(* The browser *)

NoneOr(S) == S \cup {NoPage}

Sessions  == [number : Nat, tabs : Seq(Pages), selected : NoneOr(Pages), opened : BOOLEAN]
Panels    == [id : Conversations \cup {NoConversation}, bounds : BOOLEAN, mounted : NoneOr(Pages)]
Views     == [window : BOOLEAN, bounds : BOOLEAN, mounted : NoneOr(Pages)]
Layouts   == [panel : Panels, detached : [Conversations -> Views], visible : SUBSET Pages]
CallRows  == [at : {"idle", "queued", "overlay", "page", "done"}, session : Nat, page : NoneOr(Pages),
              aborted : BOOLEAN]
Transfers == [owner : Conversations \cup {NoConversation}, active : BOOLEAN, listed : BOOLEAN]
Owners    == [Pages -> Conversations \cup {NoConversation}]

\* A tab is a page of its conversation, the selected page is one of its tabs, and
\* a page belongs to a session.
Owned(ss, pg) ==
    /\ ss \in [Conversations -> Sessions] /\ pg \in Owners
    /\ \A c \in Conversations :
          /\ \A i, j \in 1 .. Len(ss[c].tabs) : ss[c].tabs[i] = ss[c].tabs[j] => i = j
          /\ \A i \in 1 .. Len(ss[c].tabs) : pg[ss[c].tabs[i]] = c
          /\ ss[c].selected # NoPage => \E i \in 1 .. Len(ss[c].tabs) : ss[c].tabs[i] = ss[c].selected
          /\ ss[c].number = 0 => ss[c] = NoSession
    /\ \A p \in Pages : pg[p] # NoConversation => ss[pg[p]].number > 0

\* What is visible is mounted once: in the window of its conversation, or in the
\* main window when it has none.
Sorted(w, pg) ==
    /\ w \in Layouts
    /\ \A p \in Pages : p \in w.visible <=> \/ p = w.panel.mounted
                                            \/ \E c \in Conversations : p = w.detached[c].mounted
    /\ w.panel.mounted # NoPage =>
          /\ pg[w.panel.mounted] \in Conversations
          /\ ~w.detached[pg[w.panel.mounted]].window
    /\ \A c \in Conversations : w.detached[c].mounted # NoPage =>
          w.detached[c].window /\ pg[w.detached[c].mounted] = c

\* Each window shows what it presents.
Beside(ss, w, c) == IF w.detached[c].window THEN Presents(ss[c], w.detached[c].bounds) ELSE NoPage
Follows(ss, w) ==
    /\ w.panel.mounted = MainPage(ss, w)
    /\ \A c \in Conversations : w.detached[c].mounted = Beside(ss, w, c)

CallsTyped ==
    /\ toolQueue \in [Conversations -> Seq(ToolCalls)]
    /\ toolCall \in [ToolCalls -> CallRows]

\* A download on record is of a session.
Recorded(ss, ds) ==
    /\ ds \in [Downloads -> Transfers]
    /\ \A d \in Downloads : ds[d].listed => ds[d].owner \in Conversations /\ ss[ds[d].owner].number > 0

LEMMA PresentsTyped ==
    ASSUME NEW ss, NEW pg, Owned(ss, pg), NEW c \in Conversations, NEW b \in BOOLEAN
    PROVE  /\ Presents(ss[c], b) \in NoneOr(Pages)
           /\ Presents(ss[c], b) # NoPage => pg[Presents(ss[c], b)] = c
<1>1. ss[c] \in Sessions /\ ss[c].selected \in NoneOr(Pages) /\ ss[c].opened \in BOOLEAN
  BY DEF Owned, Sessions
<1>2. ss[c].selected # NoPage => pg[ss[c].selected] = c
  BY DEF Owned
<1> QED
  BY <1>1, <1>2 DEF Presents, NoneOr

LEMMA Synced ==
    ASSUME NEW ss, NEW pg, NEW w, Owned(ss, pg), Sorted(w, pg), SyncView(ss, w)
    PROVE  Sorted(Windows', pg) /\ Follows(ss, Windows')
<1> DEFINE nx == [c \in Conversations |-> Beside(ss, w, c)]
           main == MainPage(ss, w)
           swapped == {c \in Conversations : w.detached[c].window /\ w.detached[c].mounted # nx[c]}
           beside == (w.visible \ {w.detached[c].mounted : c \in swapped}) \cup {nx[c] : c \in swapped}
<1>1. /\ w \in Layouts /\ w.panel \in Panels /\ w.detached \in [Conversations -> Views]
      /\ w.visible \in SUBSET Pages
      /\ \A c \in Conversations : w.detached[c] \in Views
  BY DEF Sorted, Layouts
<1>2. /\ w.panel.id \in Conversations \cup {NoConversation} /\ w.panel.bounds \in BOOLEAN
      /\ w.panel.mounted \in NoneOr(Pages)
      /\ \A c \in Conversations : /\ w.detached[c].window \in BOOLEAN /\ w.detached[c].bounds \in BOOLEAN
                                  /\ w.detached[c].mounted \in NoneOr(Pages)
  BY <1>1 DEF Panels, Views
<1>3. \A c \in Conversations : nx[c] \in NoneOr(Pages) /\ (nx[c] # NoPage => w.detached[c].window /\ pg[nx[c]] = c)
  BY <1>2, PresentsTyped DEF Beside, NoneOr
<1>4. /\ main \in NoneOr(Pages)
      /\ main # NoPage => pg[main] \in Conversations /\ ~w.detached[pg[main]].window
  <2> DEFINE c == w.panel.id
             shown == Presents(ss[c], w.panel.bounds)
  <2>1. CASE c = NoConversation \/ (c \in Conversations /\ w.detached[c].window)
    <3>1. main = NoPage
      BY <2>1 DEF MainPage
    <3> QED
      BY <3>1 DEF NoneOr
  <2>2. CASE ~(c = NoConversation \/ (c \in Conversations /\ w.detached[c].window))
    <3>1. main = shown /\ c \in Conversations /\ ~w.detached[c].window
      BY <1>2, <2>2 DEF MainPage
    <3>2. shown \in NoneOr(Pages) /\ (shown # NoPage => pg[shown] = c)
      BY <1>2, <3>1, PresentsTyped
    <3> HIDE DEF main, shown, c
    <3> QED
      BY <3>1, <3>2
  <2> QED
    BY <2>1, <2>2
<1>5. /\ detached' = [c \in Conversations |->
            IF c \in swapped THEN [w.detached[c] EXCEPT !.mounted = nx[c]] ELSE w.detached[c]]
      /\ panel' = [w.panel EXCEPT !.mounted = main]
      /\ visible' = (IF w.panel.mounted = main THEN beside
                     ELSE (beside \ {w.panel.mounted}) \cup {main}) \ {NoPage}
  <2>1. SyncView(ss, w)
    OBVIOUS
  <2>2. \A c \in Conversations : nx[c] = Beside(ss, w, c)
    OBVIOUS
  <2>3. swapped = {c \in Conversations : w.detached[c].window /\ w.detached[c].mounted # Beside(ss, w, c)}
    OBVIOUS
  <2>4. {nx[c] : c \in swapped} = {Beside(ss, w, c) : c \in swapped}
    OBVIOUS
  <2> HIDE DEF nx
  <2> QED
    BY <2>1, <2>2, <2>3, <2>4 DEF SyncView, Beside
<1>6. \A c \in Conversations : c \in swapped <=> w.detached[c].window /\ w.detached[c].mounted # nx[c]
  OBVIOUS
<1>0. \A p : p \in beside <=> \/ p \in w.visible /\ \A c \in swapped : p # w.detached[c].mounted
                            \/ \E c \in swapped : p = nx[c]
  <2> HIDE DEF nx, swapped
  <2> QED
    OBVIOUS
<1>14. \A c \in swapped : c \in Conversations
  OBVIOUS
<1> HIDE DEF nx, main, swapped, beside
<1>7. \A c \in Conversations :
          /\ detached'[c] = [w.detached[c] EXCEPT !.mounted = nx[c]]
          /\ detached'[c].window = w.detached[c].window /\ detached'[c].bounds = w.detached[c].bounds
          /\ detached'[c].mounted = nx[c] /\ detached'[c] \in Views
  <2> SUFFICES ASSUME NEW c \in Conversations
               PROVE  /\ detached'[c] = [w.detached[c] EXCEPT !.mounted = nx[c]]
                      /\ detached'[c].window = w.detached[c].window /\ detached'[c].bounds = w.detached[c].bounds
                      /\ detached'[c].mounted = nx[c] /\ detached'[c] \in Views
    OBVIOUS
  <2>1. c \notin swapped => w.detached[c].mounted = nx[c]
    BY <1>2, <1>3, <1>6 DEF Sorted
  <2>2. c \notin swapped => w.detached[c] = [w.detached[c] EXCEPT !.mounted = nx[c]]
    BY <1>1, <2>1 DEF Views
  <2>3. detached'[c] = [w.detached[c] EXCEPT !.mounted = nx[c]]
    BY <1>5, <2>2
  <2> QED
    BY <1>1, <1>2, <1>3, <2>3 DEF Views
<1>8. /\ panel' \in Panels /\ panel'.id = w.panel.id /\ panel'.bounds = w.panel.bounds /\ panel'.mounted = main
      /\ detached' \in [Conversations -> Views]
  BY <1>1, <1>4, <1>5, <1>7 DEF Panels
<1>9. \A p \in Pages : p \in visible' <=> p = main \/ \E c \in Conversations : p = nx[c]
  <2> SUFFICES ASSUME NEW p \in Pages PROVE p \in visible' <=> p = main \/ \E c \in Conversations : p = nx[c]
    OBVIOUS
  <2>0. p # NoPage
    BY BrowserConstants
  <2>1. p \in visible' <=> \/ p \in beside /\ (w.panel.mounted # main => p # w.panel.mounted)
                           \/ w.panel.mounted # main /\ p = main
    BY <1>5, <2>0
  <2>2. p \in w.visible <=> p = w.panel.mounted \/ \E c \in Conversations : p = w.detached[c].mounted
    BY DEF Sorted
  <2>3. \A c \in Conversations : p = w.detached[c].mounted => w.detached[c].window /\ pg[p] = c
    BY <2>0 DEF Sorted
  <2>4. p = w.panel.mounted => pg[p] \in Conversations /\ ~w.detached[pg[p]].window
    BY <2>0 DEF Sorted
  <2>5. \A c \in Conversations : p = nx[c] => w.detached[c].window /\ pg[p] = c
    BY <2>0, <1>3
  <2>6. p = main => pg[p] \in Conversations /\ ~w.detached[pg[p]].window
    BY <2>0, <1>4
  <2>7. p \in beside <=> \/ p \in w.visible /\ \A c \in swapped : p # w.detached[c].mounted
                        \/ \E c \in swapped : p = nx[c]
    BY <1>0, Zenon
  <2>8. \A c \in swapped : c \in Conversations
    BY <1>14
  <2>9. CASE p = main
    <3>1. \A c \in Conversations : p # nx[c] /\ p # w.detached[c].mounted
      BY <2>3, <2>5, <2>6, <2>9
    <3>2. w.panel.mounted = main => p \in w.visible
      BY <2>2, <2>9
    <3> QED
      BY <2>1, <2>7, <2>8, <2>9, <3>1, <3>2
  <2>10. CASE p # main
    <3>1. ASSUME NEW c \in Conversations, p = nx[c] PROVE p \in visible'
      <4>1. p # w.panel.mounted
        BY <2>4, <2>5, <3>1
      <4>2. \A d \in swapped : p = w.detached[d].mounted => d = c
        BY <2>3, <2>5, <2>8, <3>1
      <4>3. c \notin swapped => w.detached[c].mounted = p
        BY <1>6, <2>5, <3>1
      <4>4. c \notin swapped => p \in w.visible
        BY <2>2, <4>3
      <4> QED
        BY <2>1, <2>7, <3>1, <4>1, <4>2, <4>4
    <3>2. ASSUME p \in visible' PROVE \E c \in Conversations : p = nx[c]
      <4>1. p \in beside /\ (w.panel.mounted # main => p # w.panel.mounted)
        BY <2>1, <2>10, <3>2
      <4>2. CASE \E c \in swapped : p = nx[c]
        BY <2>8, <4>2
      <4>3. CASE p \in w.visible /\ \A c \in swapped : p # w.detached[c].mounted
        <5>1. p # w.panel.mounted
          BY <2>10, <4>1
        <5>2. PICK c \in Conversations : p = w.detached[c].mounted
          BY <2>2, <4>3, <5>1
        <5> QED
          BY <1>6, <2>3, <4>3, <5>2
      <4> QED
        BY <2>7, <4>1, <4>2, <4>3
    <3> QED
      BY <2>10, <3>1, <3>2
  <2> QED
    BY <2>9, <2>10
<1>10. /\ Windows' = [panel |-> panel', detached |-> detached', visible |-> visible']
       /\ visible' \subseteq Pages
  BY <1>1, <1>2, <1>3, <1>4, <1>5 DEF Windows, NoneOr, beside, swapped
<1>11. Sorted(Windows', pg)
  BY <1>3, <1>4, <1>7, <1>8, <1>9, <1>10 DEF Sorted, Layouts
<1>12. MainPage(ss, Windows') = main
  BY <1>2, <1>7, <1>8, <1>10 DEF main, MainPage
<1>13. \A c \in Conversations : Beside(ss, Windows', c) = nx[c]
  BY <1>7, <1>10 DEF nx, Beside
<1> QED
  BY <1>7, <1>8, <1>10, <1>11, <1>12, <1>13 DEF Follows

LEMMA PageRemoved ==
    ASSUME NEW q \in Seq(Pages), NEW p \in Pages,
           \A i, j \in 1 .. Len(q) : q[i] = q[j] => i = j
    PROVE  /\ RemoveFirst(q, p) \in Seq(Pages)
           /\ \A i, j \in 1 .. Len(RemoveFirst(q, p)) : RemoveFirst(q, p)[i] = RemoveFirst(q, p)[j] => i = j
           /\ \A i \in 1 .. Len(RemoveFirst(q, p)) :
                 RemoveFirst(q, p)[i] # p /\ \E j \in 1 .. Len(q) : q[j] = RemoveFirst(q, p)[i]
           /\ \A j \in 1 .. Len(q) : q[j] # p => \E i \in 1 .. Len(RemoveFirst(q, p)) : RemoveFirst(q, p)[i] = q[j]
<1>1. CASE \E i \in 1 .. Len(q) : q[i] = p
  <2>1. PICK n \in 1 .. Len(q) : q[n] = p
    BY <1>1
  <2>2. RemoveFirst(q, p) = RemoveAt(q, SelectInSeq(q, LAMBDA v : v = p))
    BY <1>1 DEF RemoveFirst
  <2>3. {i \in 1 .. Len(q) : q[i] = p} = {n}
    BY <2>1
  <2>4. Min({n}) = n
    <3>1. \E x \in {n} : \A y \in {n} : x <= y
      BY <2>1
    <3> QED
      BY <2>1, <3>1 DEF Min
  <2>5. SelectInSeq(q, LAMBDA v : v = p) = n
    BY <2>3, <2>4 DEF SelectInSeq
  <2> DEFINE w == RemoveAt(q, n)
  <2>6. /\ w \in Seq(Pages) /\ Len(w) = Len(q) - 1
        /\ \A k \in 1 .. Len(q) - 1 : w[k] = q[IF k < n THEN k ELSE k + 1]
    BY <2>1, Removal
  <2>7. RemoveFirst(q, p) = w
    BY <2>2, <2>5
  <2> HIDE DEF w
  <2> DEFINE old(k) == IF k < n THEN k ELSE k + 1
  <2>8. \A k \in 1 .. Len(w) : old(k) \in 1 .. Len(q) /\ old(k) # n /\ w[k] = q[old(k)]
    BY <2>1, <2>6
  <2>9. \A i, j \in 1 .. Len(w) : old(i) = old(j) => i = j
    BY <2>1, <2>6
  <2>10. ASSUME NEW j \in 1 .. Len(q), q[j] # p PROVE \E i \in 1 .. Len(w) : w[i] = q[j]
    <3>1. j # n
      BY <2>1, <2>10
    <3>2. CASE j < n
      <4>1. j \in 1 .. Len(w) /\ w[j] = q[j]
        BY <2>1, <2>6, <3>2
      <4> QED
        BY <4>1
    <3>3. CASE j > n
      <4>1. j - 1 \in 1 .. Len(w) /\ ~(j - 1 < n) /\ j - 1 + 1 = j
        BY <2>1, <2>6, <3>3
      <4>2. w[j - 1] = q[j]
        BY <2>6, <4>1
      <4> QED
        BY <4>1, <4>2
    <3> QED
      BY <2>1, <3>1, <3>2, <3>3
  <2> HIDE DEF old
  <2>11. \A i, j \in 1 .. Len(w) : w[i] = w[j] => i = j
    BY <2>8, <2>9
  <2>12. \A i \in 1 .. Len(w) : w[i] # p /\ \E j \in 1 .. Len(q) : q[j] = w[i]
    BY <2>1, <2>8
  <2> QED
    BY <2>6, <2>7, <2>10, <2>11, <2>12
<1>2. CASE ~\E i \in 1 .. Len(q) : q[i] = p
  <2>1. RemoveFirst(q, p) = q
    BY <1>2 DEF RemoveFirst
  <2> QED
    BY <1>2, <2>1
<1> QED
  BY <1>1, <1>2

\* A conversation always gets a session: there is a number nothing has.
LEMMA FreeNumber ==
    ASSUME NEW c \in Conversations, session[c].number = 0
    PROVE  \E n \in 1 .. Cardinality(Conversations) + Cardinality(ToolCalls) : n \notin Numbers
<1> DEFINE N == Cardinality(Conversations) + Cardinality(ToolCalls)
           S == {session[d].number : d \in Conversations}
           T == {toolCall[k].session : k \in ToolCalls}
<1>1. /\ Cardinality(Conversations) \in Nat /\ Cardinality(ToolCalls) \in Nat
      /\ IsFiniteSet(Conversations) /\ IsFiniteSet(ToolCalls)
  BY BrowserConstants, FS_CardinalityType
<1>2. IsFiniteSet(S) /\ Cardinality(S) <= Cardinality(Conversations) /\ Cardinality(S) \in Nat
  <2>1. [d \in Conversations |-> session[d].number] \in Surjection(Conversations, S)
    BY DEF Surjection
  <2> HIDE DEF S
  <2> QED
    BY <1>1, <2>1, FS_Surjection, FS_CardinalityType
<1>3. IsFiniteSet(T) /\ Cardinality(T) <= Cardinality(ToolCalls) /\ Cardinality(T) \in Nat
  <2>1. [k \in ToolCalls |-> toolCall[k].session] \in Surjection(ToolCalls, T)
    BY DEF Surjection
  <2> HIDE DEF T
  <2> QED
    BY <1>1, <2>1, FS_Surjection, FS_CardinalityType
<1>4. /\ IsFiniteSet(S \cup T) /\ Cardinality(S \cup T) \in Nat
      /\ Cardinality(S \cup T) <= Cardinality(S) + Cardinality(T)
  <2> HIDE DEF S, T
  <2>1. IsFiniteSet(S \cap T) /\ Cardinality(S \cap T) \in Nat
    BY <1>2, FS_Intersection, FS_CardinalityType
  <2>2. /\ IsFiniteSet(S \cup T)
        /\ Cardinality(S \cup T) = Cardinality(S) + Cardinality(T) - Cardinality(S \cap T)
    BY <1>2, <1>3, FS_Union
  <2>3. Cardinality(S \cup T) \in Nat
    BY <2>2, FS_CardinalityType
  <2> QED
    BY <1>2, <1>3, <2>1, <2>2, <2>3
<1>5. N \in Nat /\ Cardinality(S \cup T) <= N
  BY <1>1, <1>2, <1>3, <1>4
<1>6. 0 \in S
  OBVIOUS
<1>7. Numbers = S \cup T
  BY DEF Numbers
<1> HIDE DEF N, S, T
<1>8. SUFFICES ASSUME \A n \in 1 .. N : n \in S \cup T PROVE FALSE
  BY <1>7 DEF N
<1>9. 0 .. N \subseteq S \cup T
  BY <1>5, <1>6, <1>8
<1>10. Cardinality(0 .. N) = N + 1
  BY <1>5, FS_Interval
<1> QED
  BY <1>4, <1>5, <1>9, <1>10, FS_Subset

LEMMA SessionGiven ==
    ASSUME Owned(session, page), NEW c \in Conversations
    PROVE  /\ Session(c) \in Sessions /\ Session(c).number > 0 /\ Session(c).tabs = session[c].tabs
           /\ Session(c).selected = session[c].selected /\ Session(c).opened = session[c].opened
<1>1. session[c] \in Sessions /\ (session[c].number = 0 => session[c] = NoSession)
  BY DEF Owned
<1>2. CASE Live(session[c])
  BY <1>1, <1>2 DEF Live, Session, Sessions
<1>3. CASE ~Live(session[c])
  <2>1. session[c].number = 0 /\ session[c] = NoSession
    BY <1>1, <1>3 DEF Live, Sessions
  <2> DEFINE n == CHOOSE m \in 1 .. Cardinality(Conversations) + Cardinality(ToolCalls) : m \notin Numbers
  <2>2. n \in 1 .. Cardinality(Conversations) + Cardinality(ToolCalls)
    BY <2>1, FreeNumber
  <2>3. n \in Nat /\ n > 0
    BY <2>2
  <2>4. Session(c) = [NoSession EXCEPT !.number = n]
    BY <1>3 DEF Session
  <2> HIDE DEF n
  <2>5. <<>> \in Seq(Pages) /\ NoSession.tabs = <<>>
    BY DEF NoSession
  <2> QED
    BY <2>1, <2>3, <2>4, <2>5 DEF NoSession, Sessions, NoneOr
<1> QED
  BY <1>2, <1>3

\* A session may be opened, closed or selected as long as its tabs stay.
LEMMA OwnedAfter ==
    ASSUME NEW ss, NEW pg, Owned(ss, pg), NEW c \in Conversations, NEW s \in Sessions,
           s.number > 0, s.tabs = ss[c].tabs,
           s.selected # NoPage => \E i \in 1 .. Len(s.tabs) : s.tabs[i] = s.selected
    PROVE  Owned([ss EXCEPT ![c] = s], pg)
<1> DEFINE new == [ss EXCEPT ![c] = s]
<1>1. new \in [Conversations -> Sessions] /\ pg \in Owners /\ ss \in [Conversations -> Sessions]
  BY DEF Owned
<1>2. \A d \in Conversations : new[d] = IF d = c THEN s ELSE ss[d]
  BY <1>1
<1> HIDE DEF new
<1>3. \A p \in Pages : pg[p] # NoConversation => new[pg[p]].number > 0
  BY <1>1, <1>2 DEF Owned, Owners
<1>4. ASSUME NEW d \in Conversations
      PROVE  /\ \A i, j \in 1 .. Len(new[d].tabs) : new[d].tabs[i] = new[d].tabs[j] => i = j
             /\ \A i \in 1 .. Len(new[d].tabs) : pg[new[d].tabs[i]] = d
             /\ new[d].selected # NoPage => \E i \in 1 .. Len(new[d].tabs) : new[d].tabs[i] = new[d].selected
             /\ new[d].number = 0 => new[d] = NoSession
  <2>1. CASE d = c
    <3>1. new[d] = s
      BY <1>2, <2>1
    <3>2. s.number # 0
      BY DEF Sessions
    <3> QED
      BY <2>1, <3>1, <3>2 DEF Owned
  <2>2. CASE d # c
    <3>1. new[d] = ss[d]
      BY <1>2, <2>2
    <3> QED
      BY <3>1 DEF Owned
  <2> QED
    BY <2>1, <2>2
<1>5. Owned(new, pg)
  BY <1>1, <1>3, <1>4 DEF Owned
<1> QED
  BY <1>5 DEF new

LEMMA TabAdded ==
    ASSUME Owned(session, page), NEW c \in Conversations, NEW p \in Pages, page[p] = NoConversation
    PROVE  Owned([session EXCEPT ![c] = WithTab(Session(c), p)], [page EXCEPT ![p] = c])
<1> DEFINE s == WithTab(Session(c), p)
           new == [session EXCEPT ![c] = s]
           pg == [page EXCEPT ![p] = c]
<1>1. /\ Session(c) \in Sessions /\ Session(c).number > 0 /\ Session(c).tabs = session[c].tabs
      /\ session \in [Conversations -> Sessions] /\ session[c] \in Sessions /\ page \in Owners
  BY SessionGiven DEF Owned
<1>2. PICK q \in Seq(Pages) : q = session[c].tabs
  BY <1>1 DEF Sessions
<1>3. /\ Append(q, p) \in Seq(Pages) /\ Len(q) \in Nat /\ Len(Append(q, p)) = Len(q) + 1
      /\ \A i \in 1 .. Len(q) : Append(q, p)[i] = q[i]
      /\ Append(q, p)[Len(q) + 1] = p
  OBVIOUS
<1>4. s = [Session(c) EXCEPT !.tabs = Append(q, p), !.selected = p, !.opened = TRUE]
  BY <1>1, <1>2 DEF WithTab
<1>5. /\ s \in Sessions /\ s.number > 0 /\ s.number # 0 /\ s.tabs = Append(q, p) /\ s.selected = p
  <2>1. PICK sq \in Seq(Pages), o \in Sessions : sq = Append(q, p) /\ o = Session(c) /\ o.number > 0
    BY <1>1, <1>3
  <2>2. s = [o EXCEPT !.tabs = sq, !.selected = p, !.opened = TRUE]
    BY <1>4, <2>1
  <2>3. p \in NoneOr(Pages)
    BY DEF NoneOr
  <2> HIDE DEF s
  <2>4. s \in Sessions /\ s.number = o.number /\ s.tabs = sq /\ s.selected = p /\ s.number \in Nat
    BY <2>2, <2>3 DEF Sessions
  <2>5. s.number > 0 /\ s.number # 0
    BY <2>1, <2>4
  <2> QED
    BY <2>1, <2>4, <2>5
<1> HIDE DEF s
<1>6. new \in [Conversations -> Sessions] /\ pg \in Owners
  BY <1>1, <1>5 DEF Owners
<1>7. /\ \A d \in Conversations : new[d] = IF d = c THEN s ELSE session[d]
      /\ \A r \in Pages : pg[r] = IF r = p THEN c ELSE page[r]
  BY <1>1 DEF Owners
<1>8. c # NoConversation
  BY BrowserConstants
<1> HIDE DEF new, pg
<1>9. ASSUME NEW r \in Pages, pg[r] # NoConversation PROVE new[pg[r]].number > 0
  <2>1. CASE r = p
    BY <1>5, <1>7, <2>1
  <2>2. CASE r # p
    <3>1. pg[r] = page[r] /\ page[r] \in Conversations /\ session[page[r]].number > 0
      BY <1>1, <1>7, <1>9, <2>2 DEF Owned, Owners
    <3> QED
      BY <1>5, <1>7, <3>1
  <2> QED
    BY <2>1, <2>2
<1>10. ASSUME NEW d \in Conversations
       PROVE  /\ \A i, j \in 1 .. Len(new[d].tabs) : new[d].tabs[i] = new[d].tabs[j] => i = j
              /\ \A i \in 1 .. Len(new[d].tabs) : pg[new[d].tabs[i]] = d
              /\ new[d].selected # NoPage => \E i \in 1 .. Len(new[d].tabs) : new[d].tabs[i] = new[d].selected
              /\ new[d].number = 0 => new[d] = NoSession
  <2>0. /\ session[d].tabs \in Seq(Pages)
        /\ \A i, j \in 1 .. Len(session[d].tabs) : session[d].tabs[i] = session[d].tabs[j] => i = j
        /\ \A i \in 1 .. Len(session[d].tabs) : session[d].tabs[i] \in Pages /\ page[session[d].tabs[i]] = d
    <3>1. session[d].tabs \in Seq(Pages)
      BY <1>1 DEF Sessions
    <3>2. \A i \in 1 .. Len(session[d].tabs) : session[d].tabs[i] \in Pages
      BY <3>1
    <3> QED
      BY <3>1, <3>2 DEF Owned
  <2>1. CASE d = c
    <3>1. new[d] = s
      BY <1>7, <2>1
    <3>2. \A i \in 1 .. Len(q) : q[i] \in Pages /\ page[q[i]] = c /\ q[i] # p
      BY <1>2, <1>8, <2>0, <2>1
    <3>3. \A i \in 1 .. Len(q) + 1 : i \in 1 .. Len(q) \/ i = Len(q) + 1
      BY <1>3
    <3>4. \A i \in 1 .. Len(q) + 1 : pg[Append(q, p)[i]] = c
      BY <1>3, <1>7, <3>2, <3>3
    <3>5. \A i, j \in 1 .. Len(q) : q[i] = q[j] => i = j
      BY <1>2, <2>0, <2>1
    <3>6. \A i, j \in 1 .. Len(q) + 1 : Append(q, p)[i] = Append(q, p)[j] => i = j
      BY <1>3, <3>2, <3>3, <3>5
    <3>7. Len(q) + 1 \in 1 .. Len(q) + 1
      BY <1>3
    <3> QED
      BY <1>3, <1>5, <2>1, <3>1, <3>4, <3>6, <3>7
  <2>2. CASE d # c
    <3>1. new[d] = session[d]
      BY <1>7, <2>2
    <3>2. \A i \in 1 .. Len(session[d].tabs) : pg[session[d].tabs[i]] = d
      BY <1>7, <1>8, <2>0, BrowserConstants
    <3> QED
      BY <3>1, <3>2 DEF Owned
  <2> QED
    BY <2>1, <2>2
<1>11. Owned(new, pg)
  BY <1>6, <1>9, <1>10 DEF Owned
<1> QED
  BY <1>11 DEF new, pg, s

LEMMA TabRemoved ==
    ASSUME Owned(session, page), NEW c \in Conversations, NEW p \in Pages, page[p] = c
    PROVE  Owned([session EXCEPT ![c] = WithoutTab(@, p)], [page EXCEPT ![p] = NoConversation])
<1> DEFINE s == WithoutTab(session[c], p)
           new == [session EXCEPT ![c] = s]
           pg == [page EXCEPT ![p] = NoConversation]
           q == session[c].tabs
           left == RemoveFirst(q, p)
           sel == IF session[c].selected # p THEN session[c].selected ELSE IF left = <<>> THEN NoPage ELSE left[1]
<1>1. /\ session \in [Conversations -> Sessions] /\ session[c] \in Sessions /\ page \in Owners
      /\ q \in Seq(Pages) /\ session[c].selected \in NoneOr(Pages) /\ session[c].number > 0
      /\ c # NoConversation
  BY BrowserConstants DEF Owned, Sessions
<1>2. /\ \A i, j \in 1 .. Len(q) : q[i] = q[j] => i = j
      /\ \A i \in 1 .. Len(q) : page[q[i]] = c
      /\ session[c].selected # NoPage => \E i \in 1 .. Len(q) : q[i] = session[c].selected
  BY DEF Owned
<1> HIDE DEF q
<1>3. /\ left \in Seq(Pages)
      /\ \A i, j \in 1 .. Len(left) : left[i] = left[j] => i = j
      /\ \A i \in 1 .. Len(left) : left[i] # p /\ \E j \in 1 .. Len(q) : q[j] = left[i]
      /\ \A j \in 1 .. Len(q) : q[j] # p => \E i \in 1 .. Len(left) : left[i] = q[j]
  BY <1>1, <1>2, PageRemoved
<1> HIDE DEF left
<1>4. left # <<>> => 1 \in 1 .. Len(left) /\ left[1] \in Pages
  BY <1>3
<1>5. sel \in NoneOr(Pages) /\ (sel # NoPage => \E i \in 1 .. Len(left) : left[i] = sel)
  <2>1. CASE session[c].selected # p
    BY <1>1, <1>2, <1>3, <2>1
  <2>2. CASE session[c].selected = p
    BY <1>4, <2>2 DEF NoneOr
  <2> QED
    BY <2>1, <2>2
<1>6. s = [session[c] EXCEPT !.tabs = left, !.selected = sel]
  BY DEF WithoutTab, left, q
<1> HIDE DEF sel
<1>7. s \in Sessions /\ s.number > 0 /\ s.number # 0 /\ s.tabs = left /\ s.selected = sel
  <2>1. PICK o \in Sessions : o = session[c] /\ o.number > 0
    BY <1>1
  <2>2. s = [o EXCEPT !.tabs = left, !.selected = sel]
    BY <1>6, <2>1
  <2> HIDE DEF s
  <2>3. s \in Sessions /\ s.number = o.number /\ s.tabs = left /\ s.selected = sel /\ s.number \in Nat
    BY <1>3, <1>5, <2>2 DEF Sessions
  <2>4. s.number > 0 /\ s.number # 0
    BY <2>1, <2>3
  <2> QED
    BY <2>3, <2>4
<1> HIDE DEF s
<1>8. new \in [Conversations -> Sessions] /\ pg \in Owners
  BY <1>1, <1>7 DEF Owners
<1>9. /\ \A d \in Conversations : new[d] = IF d = c THEN s ELSE session[d]
      /\ \A r \in Pages : pg[r] = IF r = p THEN NoConversation ELSE page[r]
  BY <1>1 DEF Owners
<1> HIDE DEF new, pg
<1>10. ASSUME NEW r \in Pages, pg[r] # NoConversation PROVE new[pg[r]].number > 0
  <2>1. pg[r] = page[r] /\ page[r] \in Conversations /\ session[page[r]].number > 0
    BY <1>1, <1>9, <1>10 DEF Owned, Owners
  <2> QED
    BY <1>7, <1>9, <2>1
<1>11. ASSUME NEW d \in Conversations
       PROVE  /\ \A i, j \in 1 .. Len(new[d].tabs) : new[d].tabs[i] = new[d].tabs[j] => i = j
              /\ \A i \in 1 .. Len(new[d].tabs) : pg[new[d].tabs[i]] = d
              /\ new[d].selected # NoPage => \E i \in 1 .. Len(new[d].tabs) : new[d].tabs[i] = new[d].selected
              /\ new[d].number = 0 => new[d] = NoSession
  <2>1. CASE d = c
    <3>1. new[d] = s
      BY <1>9, <2>1
    <3>2. \A i \in 1 .. Len(left) : left[i] \in Pages /\ left[i] # p /\ page[left[i]] = c
      BY <1>2, <1>3
    <3>3. \A i \in 1 .. Len(left) : pg[left[i]] = c
      BY <1>9, <3>2
    <3> QED
      BY <1>3, <1>5, <1>7, <2>1, <3>1, <3>3
  <2>2. CASE d # c
    <3>1. new[d] = session[d] /\ session[d].tabs \in Seq(Pages)
      BY <1>1, <1>9, <2>2 DEF Sessions
    <3>2. \A i \in 1 .. Len(session[d].tabs) : session[d].tabs[i] \in Pages /\ page[session[d].tabs[i]] = d
      BY <3>1 DEF Owned
    <3>3. \A i \in 1 .. Len(session[d].tabs) : pg[session[d].tabs[i]] = d
      BY <1>9, <2>2, <3>2
    <3> QED
      BY <3>1, <3>3 DEF Owned
  <2> QED
    BY <2>1, <2>2
<1>12. Owned(new, pg)
  BY <1>8, <1>10, <1>11 DEF Owned
<1> QED
  BY <1>12 DEF new, pg, s

-----------------------------------------------------------------------------
(* Windows *)

LEMMA Unmounted ==
    ASSUME NEW w, NEW pg, NEW po, Sorted(w, pg), NEW gone \in SUBSET Pages,
           \A p \in Pages \ gone : po[p] = pg[p]
    PROVE  /\ Sorted(Unmount(w, gone), po)
           /\ \A c \in Conversations :
                 /\ Unmount(w, gone).detached[c].mounted \in NoneOr(Pages \ gone)
                 /\ Unmount(w, gone).detached[c].window = w.detached[c].window
           /\ Unmount(w, gone).panel.mounted \in NoneOr(Pages \ gone)
<1> DEFINE u == Unmount(w, gone)
<1>1. /\ w.panel \in Panels /\ w.detached \in [Conversations -> Views] /\ w.visible \in SUBSET Pages
      /\ w.panel.mounted \in NoneOr(Pages)
      /\ \A c \in Conversations : w.detached[c] \in Views /\ w.detached[c].mounted \in NoneOr(Pages)
  BY DEF Sorted, Layouts, Panels, Views
<1>2. /\ u.panel = [w.panel EXCEPT !.mounted = IF w.panel.mounted \in gone THEN NoPage ELSE w.panel.mounted]
      /\ u.detached = [c \in Conversations |-> [w.detached[c] EXCEPT !.mounted =
                         IF w.detached[c].mounted \in gone THEN NoPage ELSE w.detached[c].mounted]]
      /\ u.visible = w.visible \ gone
      /\ u = [panel |-> u.panel, detached |-> u.detached, visible |-> u.visible]
  BY DEF Unmount
<1> HIDE DEF u
<1>3. /\ u.panel \in Panels
      /\ u.panel.mounted = IF w.panel.mounted \in gone THEN NoPage ELSE w.panel.mounted
  BY <1>1, <1>2 DEF Panels, NoneOr
<1>4. ASSUME NEW c \in Conversations
      PROVE  /\ u.detached[c] \in Views /\ u.detached[c].window = w.detached[c].window
             /\ u.detached[c].mounted = IF w.detached[c].mounted \in gone THEN NoPage ELSE w.detached[c].mounted
  <2>1. u.detached[c] = [w.detached[c] EXCEPT !.mounted =
                            IF w.detached[c].mounted \in gone THEN NoPage ELSE w.detached[c].mounted]
    BY <1>2
  <2> QED
    BY <1>1, <2>1 DEF Views, NoneOr
<1>5. u \in Layouts
  <2>1. u.detached \in [Conversations -> Views] /\ u.visible \in SUBSET Pages
    BY <1>1, <1>2, <1>4
  <2> QED
    BY <1>2, <1>3, <2>1 DEF Layouts
<1>6. \A p \in Pages : p \in u.visible <=> p = u.panel.mounted \/ \E c \in Conversations : p = u.detached[c].mounted
  <2> SUFFICES ASSUME NEW p \in Pages
               PROVE  p \in u.visible <=> p = u.panel.mounted \/ \E c \in Conversations : p = u.detached[c].mounted
    OBVIOUS
  <2>0. p # NoPage
    BY BrowserConstants
  <2>1. p \in w.visible <=> p = w.panel.mounted \/ \E c \in Conversations : p = w.detached[c].mounted
    BY DEF Sorted
  <2>2. p \in u.visible <=> p \in w.visible /\ p \notin gone
    BY <1>2
  <2>3. p = u.panel.mounted <=> p = w.panel.mounted /\ p \notin gone
    BY <1>3, <2>0
  <2>4. \A c \in Conversations : p = u.detached[c].mounted <=> p = w.detached[c].mounted /\ p \notin gone
    BY <1>4, <2>0
  <2> QED
    BY <2>1, <2>2, <2>3, <2>4
<1>7. u.panel.mounted # NoPage =>
         po[u.panel.mounted] \in Conversations /\ ~u.detached[po[u.panel.mounted]].window
  <2> SUFFICES ASSUME u.panel.mounted # NoPage
               PROVE  po[u.panel.mounted] \in Conversations /\ ~u.detached[po[u.panel.mounted]].window
    OBVIOUS
  <2>1. /\ u.panel.mounted = w.panel.mounted /\ w.panel.mounted # NoPage
        /\ w.panel.mounted \in Pages \ gone
    BY <1>1, <1>3 DEF NoneOr
  <2>2. po[w.panel.mounted] = pg[w.panel.mounted]
    BY <2>1
  <2> QED
    BY <1>4, <2>1, <2>2 DEF Sorted
<1>8. ASSUME NEW c \in Conversations, u.detached[c].mounted # NoPage
      PROVE  u.detached[c].window /\ po[u.detached[c].mounted] = c
  <2>1. /\ u.detached[c].mounted = w.detached[c].mounted /\ w.detached[c].mounted # NoPage
        /\ w.detached[c].mounted \in Pages \ gone
    BY <1>1, <1>4, <1>8 DEF NoneOr
  <2>2. po[w.detached[c].mounted] = pg[w.detached[c].mounted]
    BY <2>1
  <2> QED
    BY <1>4, <2>1, <2>2 DEF Sorted
<1>9. Sorted(u, po)
  BY <1>5, <1>6, <1>7, <1>8 DEF Sorted
<1>10. /\ \A c \in Conversations : /\ u.detached[c].mounted \in NoneOr(Pages \ gone)
                                   /\ u.detached[c].window = w.detached[c].window
       /\ u.panel.mounted \in NoneOr(Pages \ gone)
  BY <1>1, <1>3, <1>4 DEF NoneOr
<1> QED
  BY <1>9, <1>10 DEF u

\* A page that nobody had may be given to a conversation.
LEMMA PageGiven ==
    ASSUME NEW w, NEW pg, NEW po, Sorted(w, pg),
           \A p \in Pages : pg[p] \in Conversations => po[p] = pg[p]
    PROVE  Sorted(w, po)
<1>1. /\ w.panel.mounted \in NoneOr(Pages)
      /\ \A c \in Conversations : w.detached[c].mounted \in NoneOr(Pages)
  BY DEF Sorted, Layouts, Panels, Views
<1>2. w.panel.mounted # NoPage => w.panel.mounted \in Pages /\ po[w.panel.mounted] = pg[w.panel.mounted]
  BY <1>1 DEF Sorted, NoneOr
<1>3. \A c \in Conversations : w.detached[c].mounted # NoPage => po[w.detached[c].mounted] = c
  BY <1>1 DEF Sorted, NoneOr
<1> QED
  BY <1>2, <1>3 DEF Sorted

\* Windows without a page may close.
LEMMA WindowsClosed ==
    ASSUME NEW w, NEW pg, Sorted(w, pg), NEW closed \in SUBSET Conversations,
           \A c \in closed : w.detached[c].mounted = NoPage
    PROVE  Sorted([w EXCEPT !.detached = [c \in Conversations |-> IF c \in closed THEN Docked ELSE @[c]]], pg)
<1> DEFINE d == [c \in Conversations |-> IF c \in closed THEN Docked ELSE w.detached[c]]
           u == [w EXCEPT !.detached = d]
<1>1. w \in Layouts /\ w.detached \in [Conversations -> Views]
  BY DEF Sorted, Layouts
<1>2. Docked \in Views /\ Docked.mounted = NoPage /\ ~Docked.window
  BY DEF Docked, Views, NoneOr
<1>3. d \in [Conversations -> Views] /\ \A c \in Conversations : d[c].mounted = w.detached[c].mounted
                                                               /\ (d[c].window => w.detached[c].window)
                                                               /\ (c \notin closed => d[c] = w.detached[c])
  BY <1>1, <1>2
<1> HIDE DEF d
<1>4. u \in Layouts /\ u.detached = d /\ u.panel = w.panel /\ u.visible = w.visible
  BY <1>1, <1>3 DEF Layouts
<1> HIDE DEF u
<1>5. Sorted(u, pg)
  <2>1. \A p \in Pages : p \in u.visible <=> p = u.panel.mounted \/ \E c \in Conversations : p = u.detached[c].mounted
    BY <1>3, <1>4 DEF Sorted
  <2>2. u.panel.mounted # NoPage =>
           pg[u.panel.mounted] \in Conversations /\ ~u.detached[pg[u.panel.mounted]].window
    BY <1>3, <1>4 DEF Sorted
  <2>3. ASSUME NEW c \in Conversations, u.detached[c].mounted # NoPage
        PROVE  u.detached[c].window /\ pg[u.detached[c].mounted] = c
    BY <1>3, <1>4, <2>3 DEF Sorted
  <2> QED
    BY <1>4, <2>1, <2>2, <2>3 DEF Sorted
<1>6. u = [w EXCEPT !.detached = [c \in Conversations |-> IF c \in closed THEN Docked ELSE @[c]]]
  BY DEF u, d
<1> QED
  BY <1>5, <1>6

-----------------------------------------------------------------------------
(* Pages come and go *)

Displayed ==
    /\ Owned(session, page)
    /\ Sorted(Windows, page) /\ Follows(session, Windows)
    /\ dialog \subseteq {p \in Pages : page[p] # NoConversation}

\* No session ends.
Outlast == \A c \in Conversations : session[c].number > 0 => session'[c].number > 0

LEMMA CreateKept ==
    ASSUME Displayed, NEW c \in Conversations, NEW p \in Pages, CreateTab(c, p)
    PROVE  Displayed' /\ Outlast
<1>1. /\ page[p] = NoConversation /\ dialog' = dialog
      /\ page' = [page EXCEPT ![p] = c] /\ session' = [session EXCEPT ![c] = WithTab(Session(c), p)]
      /\ SyncView(session', Windows)
  BY DEF CreateTab
<1>2. Owned(session, page) /\ page \in Owners /\ session \in [Conversations -> Sessions] /\ c # NoConversation
  BY BrowserConstants DEF Displayed, Owned
<1>3. Owned(session', page')
  BY <1>1, <1>2, TabAdded
<1>4. \A r \in Pages : page'[r] = IF r = p THEN c ELSE page[r]
  BY <1>1, <1>2 DEF Owners
<1>5. \A r \in Pages : page[r] \in Conversations => page'[r] = page[r]
  BY <1>1, <1>4, BrowserConstants
<1>6. Sorted(Windows, page')
  BY <1>5, PageGiven DEF Displayed
<1>7. Sorted(Windows', page') /\ Follows(session', Windows')
  BY <1>1, <1>3, <1>6, Synced
<1>8. dialog' \subseteq {r \in Pages : page'[r] # NoConversation}
  BY <1>1, <1>2, <1>4 DEF Displayed
<1>9. Outlast
  <2>1. WithTab(Session(c), p).number = Session(c).number
    BY <1>2, SessionGiven DEF WithTab, Sessions
  <2> QED
    BY <1>1, <1>2, <2>1, SessionGiven DEF Outlast
<1> QED
  BY <1>3, <1>7, <1>8, <1>9 DEF Displayed

LEMMA RemoveKept ==
    ASSUME Displayed, NEW c \in Conversations, NEW p \in Pages, page[p] = c, RemoveTab(c, p)
    PROVE  Displayed' /\ Outlast
<1>1. /\ page' = [page EXCEPT ![p] = NoConversation] /\ dialog' = dialog \ {p}
      /\ session' = [session EXCEPT ![c] = WithoutTab(session[c], p)]
      /\ SyncView(session', Unmount(Windows, {p}))
  BY DEF RemoveTab
<1>2. Owned(session, page) /\ page \in Owners /\ session \in [Conversations -> Sessions]
  BY DEF Displayed, Owned
<1>3. Owned(session', page')
  BY <1>1, <1>2, TabRemoved
<1>4. \A r \in Pages : page'[r] = IF r = p THEN NoConversation ELSE page[r]
  BY <1>1, <1>2 DEF Owners
<1>5. Sorted(Unmount(Windows, {p}), page')
  <2>1. \A r \in Pages \ {p} : page'[r] = page[r]
    BY <1>4
  <2>2. Sorted(Windows, page) /\ {p} \in SUBSET Pages
    BY DEF Displayed
  <2> QED
    BY <2>1, <2>2, Unmounted
<1>6. Sorted(Windows', page') /\ Follows(session', Windows')
  BY <1>1, <1>3, <1>5, Synced
<1>7. dialog' \subseteq {r \in Pages : page'[r] # NoConversation}
  BY <1>1, <1>4 DEF Displayed
<1>8. Outlast
  <2>1. WithoutTab(session[c], p).number = session[c].number
    BY <1>2 DEF WithoutTab, Sessions
  <2> QED
    BY <1>1, <1>2, <2>1 DEF Outlast
<1> QED
  BY <1>3, <1>6, <1>7, <1>8 DEF Displayed

\* A session is changed otherwise, or the windows are.
LEMMA SessionChanged ==
    ASSUME Displayed, NEW c \in Conversations, NEW s \in Sessions, s.number > 0, s.tabs = session[c].tabs,
           s.selected # NoPage => \E i \in 1 .. Len(s.tabs) : s.tabs[i] = s.selected,
           session' = [session EXCEPT ![c] = s],
           NEW w, Sorted(w, page), SyncView(session', w), UNCHANGED page, dialog' \subseteq dialog
    PROVE  Displayed' /\ Outlast
<1>1. Owned(session, page) /\ session \in [Conversations -> Sessions]
  BY DEF Displayed, Owned
<1>2. Owned(session', page')
  BY <1>1, OwnedAfter
<1>3. Sorted(Windows', page') /\ Follows(session', Windows')
  BY <1>2, Synced
<1>4. Outlast
  BY <1>1 DEF Outlast
<1> QED
  BY <1>2, <1>3, <1>4 DEF Displayed

LEMMA WindowsChanged ==
    ASSUME Displayed, UNCHANGED <<session, page, dialog>>, NEW w, Sorted(w, page), SyncView(session, w)
    PROVE  Displayed' /\ Outlast
<1>1. Sorted(Windows', page) /\ Follows(session, Windows')
  BY Synced DEF Displayed
<1> QED
  BY <1>1 DEF Displayed, Outlast

\* Whatever page a window has mounted is a tab of its conversation.
LEMMA MountedTab ==
    ASSUME Displayed
    PROVE  /\ \A c \in Conversations : detached[c].mounted # NoPage =>
                 \E i \in 1 .. Len(session[c].tabs) : session[c].tabs[i] = detached[c].mounted
           /\ panel.mounted # NoPage => /\ panel.id \in Conversations /\ page[panel.mounted] = panel.id
                                        /\ ~detached[panel.id].window
                                        /\ \E i \in 1 .. Len(session[panel.id].tabs) :
                                              session[panel.id].tabs[i] = panel.mounted
<1>1. /\ \A c \in Conversations : session[c].selected # NoPage =>
             \E i \in 1 .. Len(session[c].tabs) : session[c].tabs[i] = session[c].selected
      /\ \A c \in Conversations : \A i \in 1 .. Len(session[c].tabs) : page[session[c].tabs[i]] = c
  BY DEF Displayed, Owned
<1>2. /\ \A c \in Conversations : detached[c].mounted =
             IF detached[c].window THEN Presents(session[c], detached[c].bounds) ELSE NoPage
      /\ panel.mounted = MainPage(session, Windows)
  BY DEF Displayed, Follows, Beside, Windows
<1>3. ASSUME NEW c \in Conversations, detached[c].mounted # NoPage
      PROVE  \E i \in 1 .. Len(session[c].tabs) : session[c].tabs[i] = detached[c].mounted
  BY <1>1, <1>2, <1>3 DEF Presents
<1>4. ASSUME panel.mounted # NoPage
      PROVE  /\ panel.id \in Conversations /\ page[panel.mounted] = panel.id /\ ~detached[panel.id].window
             /\ \E i \in 1 .. Len(session[panel.id].tabs) : session[panel.id].tabs[i] = panel.mounted
  <2>1. panel.id \in Conversations \cup {NoConversation}
    BY DEF Displayed, Sorted, Layouts, Panels, Windows
  <2>2. /\ panel.id # NoConversation /\ ~(panel.id \in Conversations /\ detached[panel.id].window)
        /\ panel.mounted = Presents(session[panel.id], panel.bounds)
    BY <1>2, <1>4 DEF MainPage, Windows
  <2>3. panel.id \in Conversations /\ panel.mounted = session[panel.id].selected
    BY <1>4, <2>1, <2>2 DEF Presents
  <2> QED
    BY <1>1, <1>4, <2>2, <2>3
<1> QED
  BY <1>3, <1>4

LEMMA MoveKept ==
    ASSUME Displayed, NEW c \in Conversations, NEW b \in BOOLEAN, Move(c, b)
    PROVE  Displayed' /\ Outlast
<1> DEFINE moved == ToSet(Session(c).tabs)
           docked == [Docked EXCEPT !.window = b]
           d == [detached EXCEPT ![c] = docked]
           pan == [panel EXCEPT !.mounted = IF panel.mounted \in moved THEN NoPage ELSE panel.mounted]
           w == [panel |-> pan, detached |-> d, visible |-> visible \ moved]
<1>1. /\ session' = [session EXCEPT ![c] = Session(c)] /\ SyncView(session', w)
      /\ UNCHANGED page /\ dialog' = dialog /\ detached[c].window # b
  BY DEF Move, UserUnchanged, pageVars
<1>2. /\ Session(c) \in Sessions /\ Session(c).number > 0 /\ Session(c).tabs = session[c].tabs
      /\ Session(c).selected = session[c].selected
  BY SessionGiven DEF Displayed
<1>3. /\ session[c].tabs \in Seq(Pages)
      /\ session[c].selected # NoPage =>
            \E i \in 1 .. Len(session[c].tabs) : session[c].tabs[i] = session[c].selected
      /\ \A i \in 1 .. Len(session[c].tabs) : page[session[c].tabs[i]] = c
  BY <1>2 DEF Displayed, Owned, Sessions
<1>4. /\ moved \subseteq Pages
      /\ \A p \in moved : page[p] = c
      /\ \A i \in 1 .. Len(session[c].tabs) : session[c].tabs[i] \in moved
  BY <1>2, <1>3 DEF ToSet
<1>5. /\ panel \in Panels /\ detached \in [Conversations -> Views] /\ visible \subseteq Pages
      /\ panel.mounted \in NoneOr(Pages)
      /\ \A e \in Conversations : detached[e].mounted \in NoneOr(Pages)
      /\ panel.mounted # NoPage =>
            page[panel.mounted] \in Conversations /\ ~detached[page[panel.mounted]].window
      /\ \A e \in Conversations : detached[e].mounted # NoPage =>
            detached[e].window /\ page[detached[e].mounted] = e
      /\ \A p \in Pages : p \in visible <=> p = panel.mounted \/ \E e \in Conversations : p = detached[e].mounted
  BY DEF Displayed, Sorted, Layouts, Panels, Views, Windows
<1> HIDE DEF moved
<1>6. docked \in Views /\ docked.window = b /\ docked.mounted = NoPage
  BY DEF Docked, Views, NoneOr
<1>7. /\ pan \in Panels
      /\ pan.mounted = IF panel.mounted \in moved THEN NoPage ELSE panel.mounted
  BY <1>5 DEF Panels, NoneOr
<1>8. /\ d \in [Conversations -> Views]
      /\ \A e \in Conversations : d[e] = IF e = c THEN docked ELSE detached[e]
  BY <1>5, <1>6
<1> HIDE DEF docked, pan, d
<1>9. /\ w \in Layouts /\ w.panel = pan /\ w.detached = d /\ w.visible = visible \ moved
  BY <1>5, <1>7, <1>8 DEF Layouts
<1> HIDE DEF w
<1>10. \A p \in Pages : p \in w.visible <=> p = w.panel.mounted \/ \E e \in Conversations : p = w.detached[e].mounted
  <2> SUFFICES ASSUME NEW p \in Pages
               PROVE  p \in w.visible <=> p = w.panel.mounted \/ \E e \in Conversations : p = w.detached[e].mounted
    OBVIOUS
  <2>0. p # NoPage
    BY BrowserConstants
  <2>1. p = w.panel.mounted <=> p = panel.mounted /\ p \notin moved
    BY <1>7, <1>9, <2>0
  <2>2. p \in w.visible <=> p \in visible /\ p \notin moved
    BY <1>9
  <2>3. p = detached[c].mounted => p \in moved
    BY <1>4, <2>0, MountedTab
  <2>4. \A e \in Conversations : p = detached[e].mounted /\ p \in moved => e = c
    BY <1>4, <1>5, <2>0
  <2>5. \A e \in Conversations : p = w.detached[e].mounted <=> p = detached[e].mounted /\ p \notin moved
    BY <1>6, <1>8, <1>9, <2>0, <2>3, <2>4
  <2> QED
    BY <1>5, <2>1, <2>2, <2>5
<1>11. w.panel.mounted # NoPage =>
          page[w.panel.mounted] \in Conversations /\ ~w.detached[page[w.panel.mounted]].window
  <2> SUFFICES ASSUME w.panel.mounted # NoPage
               PROVE  page[w.panel.mounted] \in Conversations /\ ~w.detached[page[w.panel.mounted]].window
    OBVIOUS
  <2>1. w.panel.mounted = panel.mounted /\ panel.mounted \notin moved /\ panel.mounted # NoPage
    BY <1>7, <1>9
  <2>2. page[panel.mounted] # c
    BY <1>4, <2>1, MountedTab
  <2> QED
    BY <1>5, <1>8, <1>9, <2>1, <2>2
<1>12. \A e \in Conversations : w.detached[e].mounted # NoPage =>
          w.detached[e].window /\ page[w.detached[e].mounted] = e
  BY <1>5, <1>6, <1>8, <1>9
<1>13. Sorted(w, page)
  BY <1>9, <1>10, <1>11, <1>12 DEF Sorted
<1>14. SyncView(session', w)
  BY <1>1 DEF w, pan, d, docked, moved
<1>15. Session(c).selected # NoPage =>
          \E i \in 1 .. Len(Session(c).tabs) : Session(c).tabs[i] = Session(c).selected
  BY <1>2, <1>3
<1> QED
  BY <1>1, <1>2, <1>13, <1>14, <1>15, SessionChanged

LEMMA LayoutKept ==
    ASSUME Displayed, NEW c \in Conversations \cup {NoConversation}, NEW b \in BOOLEAN, Layout(c, b)
    PROVE  Displayed' /\ Outlast
<1> DEFINE pan == [panel EXCEPT !.id = c, !.bounds = b]
           w == [panel |-> pan, detached |-> detached, visible |-> visible]
<1>1. /\ panel \in Panels /\ detached \in [Conversations -> Views] /\ visible \in SUBSET Pages
      /\ Sorted(Windows, page) /\ Windows = [panel |-> panel, detached |-> detached, visible |-> visible]
  BY DEF Displayed, Sorted, Layouts, Windows
<1>2. pan \in Panels /\ pan.mounted = panel.mounted
  BY <1>1 DEF Panels
<1> HIDE DEF pan
<1>3. w \in Layouts
  BY <1>1, <1>2 DEF Layouts
<1>4. Sorted(w, page)
  BY <1>1, <1>2, <1>3 DEF Sorted
<1>5. w = [Windows EXCEPT !.panel = [@ EXCEPT !.id = c, !.bounds = b]]
  BY DEF Windows, pan
<1>6. SyncView(session, w) /\ UNCHANGED <<session, page, dialog>>
  BY <1>5 DEF Layout, UserUnchanged, pageVars
<1> QED
  BY <1>4, <1>6, WindowsChanged

LEMMA LayoutDetachedKept ==
    ASSUME Displayed, NEW c \in Conversations, NEW b \in BOOLEAN, LayoutDetached(c, b)
    PROVE  Displayed' /\ Outlast
<1> DEFINE d == [detached EXCEPT ![c].bounds = b]
           w == [panel |-> panel, detached |-> d, visible |-> visible]
<1>1. /\ panel \in Panels /\ detached \in [Conversations -> Views] /\ visible \in SUBSET Pages
      /\ Sorted(Windows, page) /\ Windows = [panel |-> panel, detached |-> detached, visible |-> visible]
  BY DEF Displayed, Sorted, Layouts, Windows
<1>2. /\ d \in [Conversations -> Views]
      /\ \A e \in Conversations : d[e].mounted = detached[e].mounted /\ d[e].window = detached[e].window
  BY <1>1 DEF Views
<1> HIDE DEF d
<1>3. w \in Layouts
  BY <1>1, <1>2 DEF Layouts
<1>4. Sorted(w, page)
  BY <1>1, <1>2, <1>3 DEF Sorted
<1>5. w = [Windows EXCEPT !.detached[c].bounds = b]
  BY DEF Windows, d
<1>6. SyncView(session, w) /\ UNCHANGED <<session, page, dialog>>
  BY <1>5 DEF LayoutDetached, UserUnchanged, pageVars
<1> QED
  BY <1>4, <1>6, WindowsChanged

LEMMA OpenedKept ==
    ASSUME Displayed, NEW c \in Conversations, NEW b \in BOOLEAN, SetOpened(c, b)
    PROVE  Displayed' /\ Outlast
<1>1. /\ Session(c) \in Sessions /\ Session(c).number > 0 /\ Session(c).tabs = session[c].tabs
      /\ Session(c).selected = session[c].selected
      /\ session[c].selected # NoPage =>
            \E i \in 1 .. Len(session[c].tabs) : session[c].tabs[i] = session[c].selected
  BY SessionGiven DEF Displayed, Owned
<1>2. PICK s : s = [Session(c) EXCEPT !.opened = b]
  OBVIOUS
<1>3. /\ s \in Sessions /\ s.number = Session(c).number /\ s.tabs = Session(c).tabs
      /\ s.selected = Session(c).selected
  BY <1>1, <1>2 DEF Sessions
<1>4. /\ session' = [session EXCEPT ![c] = s] /\ SyncView(session', Windows)
      /\ UNCHANGED page /\ dialog' = dialog
  BY <1>2 DEF SetOpened, UserUnchanged, pageVars
<1>5. s.number > 0 /\ s.tabs = session[c].tabs
      /\ (s.selected # NoPage => \E i \in 1 .. Len(s.tabs) : s.tabs[i] = s.selected)
  BY <1>1, <1>3
<1>6. Sorted(Windows, page)
  BY DEF Displayed
<1> QED
  BY <1>3, <1>4, <1>5, <1>6, SessionChanged

\* The user or a tool selects a page.
LEMMA SelectKept ==
    ASSUME Displayed, NEW c \in Conversations, NEW p \in Pages, Contains(session[c].tabs, p), NEW o,
           session' = [session EXCEPT ![c] = [session[c] EXCEPT !.selected = p, !.opened = o]],
           o \in BOOLEAN, SyncView(session', Windows), UNCHANGED page, dialog' \subseteq dialog
    PROVE  Displayed' /\ Outlast
<1>1. PICK s : s = [session[c] EXCEPT !.selected = p, !.opened = o]
  OBVIOUS
<1>2. session[c] \in Sessions /\ p \in NoneOr(Pages)
  BY DEF Displayed, Owned, NoneOr
<1>3. s \in Sessions /\ s.number = session[c].number /\ s.tabs = session[c].tabs /\ s.selected = p
  BY <1>1, <1>2 DEF Sessions
<1>4. \E i \in 1 .. Len(s.tabs) : s.tabs[i] = s.selected
  BY <1>3 DEF Contains
<1>5. page[p] = c /\ c # NoConversation
  BY BrowserConstants DEF Contains, Displayed, Owned
<1>6. session[c].number > 0
  BY <1>5 DEF Displayed, Owned
<1>7. session' = [session EXCEPT ![c] = s] /\ Sorted(Windows, page)
  BY <1>1 DEF Displayed
<1>8. s.number > 0
  BY <1>3, <1>6
<1> QED
  BY <1>3, <1>4, <1>7, <1>8, SessionChanged

\* Sessions are closed: their pages, windows and records of downloads go with them.
LEMMA CloseKept ==
    ASSUME Displayed, Recorded(session, download), NEW closed \in SUBSET Conversations, CloseSession(closed)
    PROVE  Displayed' /\ Recorded(session', download')
<1> DEFINE gone == {p \in Pages : page[p] \in closed}
           u == Unmount(Windows, gone)
           w == [u EXCEPT !.detached = [c \in Conversations |-> IF c \in closed THEN Docked ELSE @[c]]]
<1>1. /\ session' = [c \in Conversations |-> IF c \in closed THEN NoSession ELSE session[c]]
      /\ page' = [p \in Pages |-> IF page[p] \in closed THEN NoConversation ELSE page[p]]
      /\ dialog' = {p \in dialog : page[p] \notin closed}
      /\ download' = Released(closed)
      /\ SyncView(session', w)
  BY DEF CloseSession, Dropped
<1>2. /\ Owned(session, page) /\ page \in Owners /\ session \in [Conversations -> Sessions]
      /\ Sorted(Windows, page) /\ dialog \subseteq {p \in Pages : page[p] # NoConversation}
  BY DEF Displayed, Owned
<1>3. /\ NoSession \in Sessions /\ Len(NoSession.tabs) = 0 /\ NoSession.selected = NoPage
      /\ \A i \in 1 .. Len(NoSession.tabs) : FALSE
  BY DEF NoSession, Sessions, NoneOr
<1>4. Owned(session', page')
  <2>1. session' \in [Conversations -> Sessions] /\ page' \in Owners
    BY <1>1, <1>2, <1>3 DEF Owners
  <2>2. \A p \in Pages : page'[p] # NoConversation => session'[page'[p]].number > 0
    <3> SUFFICES ASSUME NEW p \in Pages, page'[p] # NoConversation PROVE session'[page'[p]].number > 0
      OBVIOUS
    <3>1. page'[p] = page[p] /\ page[p] \notin closed /\ page[p] \in Conversations
      BY <1>1, <1>2 DEF Owners
    <3> QED
      BY <1>1, <1>2, <3>1 DEF Owned
  <2>3. ASSUME NEW c \in Conversations
        PROVE  /\ \A i, j \in 1 .. Len(session'[c].tabs) : session'[c].tabs[i] = session'[c].tabs[j] => i = j
               /\ \A i \in 1 .. Len(session'[c].tabs) : page'[session'[c].tabs[i]] = c
               /\ session'[c].selected # NoPage =>
                     \E i \in 1 .. Len(session'[c].tabs) : session'[c].tabs[i] = session'[c].selected
               /\ session'[c].number = 0 => session'[c] = NoSession
    <3>1. CASE c \in closed
      <4>1. session'[c] = NoSession
        BY <1>1, <3>1
      <4> QED
        BY <1>3, <4>1
    <3>2. CASE c \notin closed
      <4>1. session'[c] = session[c] /\ session[c].tabs \in Seq(Pages)
        BY <1>1, <1>2, <3>2 DEF Sessions
      <4>2. \A i \in 1 .. Len(session[c].tabs) : session[c].tabs[i] \in Pages /\ page[session[c].tabs[i]] = c
        BY <1>2, <4>1 DEF Owned
      <4>3. \A i \in 1 .. Len(session[c].tabs) : page'[session[c].tabs[i]] = c
        BY <1>1, <3>2, <4>2
      <4> QED
        BY <1>2, <4>1, <4>3 DEF Owned
    <3> QED
      BY <3>1, <3>2
  <2> QED
    BY <2>1, <2>2, <2>3 DEF Owned
<1>5. gone \in SUBSET Pages /\ \A p \in Pages : p \in gone <=> page[p] \in closed
  OBVIOUS
<1>6. \A p \in Pages \ gone : page'[p] = page[p]
  BY <1>1, <1>5
<1> HIDE DEF gone
<1>7. /\ Sorted(u, page')
      /\ \A c \in Conversations : u.detached[c].mounted \in NoneOr(Pages \ gone)
  BY <1>2, <1>5, <1>6, Unmounted
<1> HIDE DEF u
<1>8. \A c \in closed : u.detached[c].mounted = NoPage
  <2> SUFFICES ASSUME NEW c \in closed, u.detached[c].mounted # NoPage PROVE FALSE
    OBVIOUS
  <2>1. u.detached[c].mounted \in Pages \ gone
    BY <1>7 DEF NoneOr
  <2>2. page'[u.detached[c].mounted] = c
    BY <1>7 DEF Sorted
  <2> QED
    BY <1>5, <1>6, <2>1, <2>2
<1>9. Sorted(w, page')
  BY <1>7, <1>8, WindowsClosed
<1> HIDE DEF w
<1>10. Sorted(Windows', page') /\ Follows(session', Windows')
  BY <1>1, <1>4, <1>9, Synced
<1>11. dialog' \subseteq {p \in Pages : page'[p] # NoConversation}
  BY <1>1, <1>2
<1>12. Recorded(session', download')
  <2>1. download \in [Downloads -> Transfers] /\ NoDownload \in Transfers /\ ~NoDownload.listed
    BY DEF Recorded, NoDownload, Transfers
  <2>2. download' \in [Downloads -> Transfers]
    BY <1>1, <2>1 DEF Released
  <2>3. ASSUME NEW i \in Downloads, download'[i].listed
        PROVE  download'[i].owner \in Conversations /\ session'[download'[i].owner].number > 0
    <3>1. download'[i] = download[i] /\ download[i].owner \notin closed
      BY <1>1, <2>1, <2>3 DEF Released
    <3>2. download[i].owner \in Conversations /\ session[download[i].owner].number > 0
      BY <2>3, <3>1 DEF Recorded
    <3> QED
      BY <1>1, <3>1, <3>2
  <2> QED
    BY <2>2, <2>3 DEF Recorded
<1> QED
  BY <1>4, <1>10, <1>11, <1>12 DEF Displayed

LEMMA RecordedOn ==
    ASSUME Recorded(session, download), Outlast, UNCHANGED download
    PROVE  Recorded(session', download')
BY DEF Recorded, Outlast

-----------------------------------------------------------------------------
(* Tools *)

CallsInv == CallsTyped /\ ToolsInTurn

LEMMA AtKept ==
    ASSUME CallsInv, NEW k \in ToolCalls, NEW a \in {"queued", "overlay", "page"}, NEW r \in CallRows,
           r.at = a, toolCall' = [toolCall EXCEPT ![k] = r], UNCHANGED toolQueue, a # "queued" => First(k)
    PROVE  CallsInv'
<1>1. /\ toolCall \in [ToolCalls -> CallRows] /\ toolQueue \in [Conversations -> Seq(ToolCalls)]
      /\ \A j \in ToolCalls : toolCall[j].at \in {"overlay", "page"} => First(j)
  BY DEF CallsInv, CallsTyped, ToolsInTurn
<1>2. toolCall' \in [ToolCalls -> CallRows] /\ \A j \in ToolCalls : toolCall'[j] = IF j = k THEN r ELSE toolCall[j]
  BY <1>1
<1>3. \A j \in ToolCalls : First(j)' <=> First(j)
  BY DEF First
<1>4. \A j \in ToolCalls : toolCall'[j].at \in {"overlay", "page"} => First(j)'
  BY <1>1, <1>2, <1>3
<1> QED
  BY <1>1, <1>2, <1>4 DEF CallsInv, CallsTyped, ToolsInTurn

LEMMA LeaveKept ==
    ASSUME CallsInv, NEW k \in ToolCalls, First(k), Leave(k)
    PROVE  CallsInv'
<1> DEFINE c == CallOf[k]
           r == [toolCall[k] EXCEPT !.at = "done", !.page = NoPage]
<1>1. /\ toolCall \in [ToolCalls -> CallRows] /\ toolQueue \in [Conversations -> Seq(ToolCalls)]
      /\ \A j \in ToolCalls : toolCall[j].at \in {"overlay", "page"} => First(j)
      /\ c \in Conversations /\ \A j \in ToolCalls : CallOf[j] \in Conversations
  BY BrowserConstants DEF CallsInv, CallsTyped, ToolsInTurn
<1>2. toolCall' = [toolCall EXCEPT ![k] = r] /\ toolQueue' = [toolQueue EXCEPT ![c] = Tail(toolQueue[c])]
  BY DEF Leave
<1>3. r \in CallRows /\ r.at = "done"
  BY <1>1 DEF CallRows, NoneOr
<1> HIDE DEF r
<1>4. toolCall' \in [ToolCalls -> CallRows] /\ \A j \in ToolCalls : toolCall'[j] = IF j = k THEN r ELSE toolCall[j]
  BY <1>1, <1>2, <1>3
<1>5. toolQueue[c] \in Seq(ToolCalls) /\ toolQueue[c] # <<>> /\ toolQueue[c][1] = k
  BY <1>1 DEF First
<1>6. Tail(toolQueue[c]) \in Seq(ToolCalls)
  BY <1>5
<1> HIDE DEF c
<1>7. /\ toolQueue' \in [Conversations -> Seq(ToolCalls)]
      /\ \A d \in Conversations \ {c} : toolQueue'[d] = toolQueue[d]
  BY <1>1, <1>2, <1>6
<1>8. ASSUME NEW j \in ToolCalls, toolCall'[j].at \in {"overlay", "page"} PROVE First(j)'
  <2>1. j # k /\ First(j)
    BY <1>1, <1>3, <1>4, <1>8
  <2>2. CallOf[j] # c
    BY <1>5, <2>1 DEF First
  <2>3. toolQueue'[CallOf[j]] = toolQueue[CallOf[j]]
    BY <1>1, <1>7, <2>2
  <2> QED
    BY <2>1, <2>3 DEF First
<1> QED
  BY <1>4, <1>7, <1>8 DEF CallsInv, CallsTyped, ToolsInTurn

LEMMA CallKept ==
    ASSUME CallsInv, Displayed, NEW k \in ToolCalls, CallTool(k)
    PROVE  CallsInv'
<1>1. PICK c \in Conversations : c = CallOf[k]
  BY BrowserConstants
<1>2. /\ toolCall \in [ToolCalls -> CallRows] /\ toolQueue \in [Conversations -> Seq(ToolCalls)]
      /\ \A j \in ToolCalls : toolCall[j].at \in {"overlay", "page"} => First(j)
      /\ \A j \in ToolCalls : CallOf[j] \in Conversations
  BY BrowserConstants DEF CallsInv, CallsTyped, ToolsInTurn
<1>3. PICK n \in Nat : n = Session(c).number
  BY SessionGiven DEF Displayed, Sessions
<1>4. PICK r : r = [toolCall[k] EXCEPT !.at = "queued", !.session = n]
  OBVIOUS
<1>5. r \in CallRows /\ r.at = "queued"
  BY <1>2, <1>4 DEF CallRows
<1>6. toolCall' = [toolCall EXCEPT ![k] = r] /\ toolQueue' = [toolQueue EXCEPT ![c] = Append(toolQueue[c], k)]
  BY <1>1, <1>3, <1>4 DEF CallTool
<1>7. toolCall' \in [ToolCalls -> CallRows] /\ \A j \in ToolCalls : toolCall'[j] = IF j = k THEN r ELSE toolCall[j]
  BY <1>2, <1>5, <1>6
<1>8. PICK q \in Seq(ToolCalls) : q = toolQueue[c]
  BY <1>2
<1>9. Append(q, k) \in Seq(ToolCalls) /\ (q # <<>> => Append(q, k) # <<>> /\ Append(q, k)[1] = q[1])
  OBVIOUS
<1>10. /\ toolQueue' \in [Conversations -> Seq(ToolCalls)]
       /\ \A d \in Conversations : toolQueue'[d] = IF d = c THEN Append(q, k) ELSE toolQueue[d]
  BY <1>2, <1>6, <1>8, <1>9
<1>11. \A j \in ToolCalls : First(j) => First(j)'
  BY <1>2, <1>8, <1>9, <1>10 DEF First
<1>12. \A j \in ToolCalls : toolCall'[j].at \in {"overlay", "page"} => First(j)'
  BY <1>2, <1>5, <1>7, <1>11
<1> QED
  BY <1>7, <1>10, <1>12 DEF CallsInv, CallsTyped, ToolsInTurn

LEMMA CallsUnchanged ==
    ASSUME CallsInv, UNCHANGED toolVars
    PROVE  CallsInv'
BY DEF CallsInv, CallsTyped, ToolsInTurn, First, toolVars

-----------------------------------------------------------------------------
(* The browser as a whole *)

BrowserInv ==
    Displayed /\ CallsInv /\ Recorded(session, download) /\ tracking \in BOOLEAN

LEMMA BrowserStarts == BrowserInit => BrowserInv
<1> SUFFICES ASSUME BrowserInit PROVE BrowserInv
  OBVIOUS
<1> DEFINE none == <<>>
           idle == [at |-> "idle", session |-> 0, page |-> NoPage, aborted |-> FALSE]
           pan == [id |-> NoConversation, bounds |-> FALSE, mounted |-> NoPage]
<1>1. /\ session = [c \in Conversations |-> NoSession] /\ page = [p \in Pages |-> NoConversation]
      /\ dialog = {} /\ panel = pan /\ detached = [c \in Conversations |-> Docked] /\ visible = {}
      /\ toolQueue = [c \in Conversations |-> none] /\ toolCall = [k \in ToolCalls |-> idle]
      /\ download = [d \in Downloads |-> NoDownload] /\ tracking = TRUE
  BY DEF BrowserInit
<1>2. none \in Seq(ToolCalls) /\ idle \in CallRows /\ idle.at = "idle"
  BY DEF CallRows, NoneOr
<1>3. /\ NoSession \in Sessions /\ NoSession.selected = NoPage /\ ~NoSession.opened
      /\ \A i \in 1 .. Len(NoSession.tabs) : FALSE
  BY DEF NoSession, Sessions, NoneOr
<1>4. /\ Docked \in Views /\ Docked.mounted = NoPage /\ ~Docked.window
      /\ pan \in Panels /\ pan.mounted = NoPage /\ pan.id = NoConversation
      /\ NoDownload \in Transfers /\ ~NoDownload.listed
  BY DEF Docked, Views, NoneOr, Panels, NoDownload, Transfers
<1> HIDE DEF none, idle, pan
<1>5. Owned(session, page)
  BY <1>1, <1>3 DEF Owned, Owners
<1>6. Sorted(Windows, page)
  <2>1. Windows \in Layouts
    BY <1>1, <1>4 DEF Windows, Layouts
  <2>2. Windows.panel = pan /\ Windows.visible = {} /\ \A c \in Conversations : Windows.detached[c] = Docked
    BY <1>1 DEF Windows
  <2> QED
    BY <1>4, <2>1, <2>2, BrowserConstants DEF Sorted
<1>7. Follows(session, Windows)
  BY <1>1, <1>4 DEF Follows, Windows, MainPage, Beside
<1>8. CallsInv
  BY <1>1, <1>2 DEF CallsInv, CallsTyped, ToolsInTurn
<1>9. Recorded(session, download) /\ tracking \in BOOLEAN
  BY <1>1, <1>4 DEF Recorded
<1> QED
  BY <1>1, <1>5, <1>6, <1>7, <1>8, <1>9 DEF BrowserInv, Displayed

LEMMA ShownUnaffected ==
    ASSUME Displayed, UNCHANGED <<session, page, panel, detached, visible>>,
           dialog' \subseteq {p \in Pages : page[p] # NoConversation}
    PROVE  Displayed' /\ Outlast
<1>1. Windows' = Windows
  BY DEF Windows
<1> QED
  BY <1>1 DEF Displayed, Outlast

\* A call makes a session, which shows nothing yet.
LEMMA CallShown ==
    ASSUME Displayed, NEW k \in ToolCalls, CallTool(k)
    PROVE  Displayed' /\ Outlast
<1>1. PICK c \in Conversations : c = CallOf[k]
  BY BrowserConstants
<1>2. /\ session' = [session EXCEPT ![c] = Session(c)] /\ page' = page /\ dialog' = dialog
      /\ UNCHANGED <<panel, detached, visible>>
  BY <1>1 DEF CallTool, pageVars, viewVars
<1>3. /\ Session(c) \in Sessions /\ Session(c).number > 0 /\ Session(c).tabs = session[c].tabs
      /\ Session(c).selected = session[c].selected /\ Session(c).opened = session[c].opened
      /\ session[c].selected # NoPage =>
            \E i \in 1 .. Len(session[c].tabs) : session[c].tabs[i] = session[c].selected
      /\ session \in [Conversations -> Sessions]
  BY SessionGiven DEF Displayed, Owned
<1>4. Owned(session', page')
  <2>1. Session(c).selected # NoPage =>
           \E i \in 1 .. Len(Session(c).tabs) : Session(c).tabs[i] = Session(c).selected
    BY <1>3
  <2> QED
    BY <1>2, <1>3, <2>1, OwnedAfter DEF Displayed
<1>5. Windows' = Windows
  BY <1>2 DEF Windows
<1>6. \A d \in Conversations, b \in BOOLEAN : Presents(session'[d], b) = Presents(session[d], b)
  BY <1>2, <1>3 DEF Presents
<1>7. /\ Windows.panel.bounds \in BOOLEAN /\ Windows.panel.id \in Conversations \cup {NoConversation}
      /\ \A d \in Conversations : Windows.detached[d].bounds \in BOOLEAN
  BY DEF Displayed, Sorted, Layouts, Panels, Views
<1>8. Follows(session', Windows)
  <2>1. MainPage(session', Windows) = MainPage(session, Windows)
    BY <1>6, <1>7 DEF MainPage
  <2>2. \A d \in Conversations : Beside(session', Windows, d) = Beside(session, Windows, d)
    BY <1>6, <1>7 DEF Beside
  <2> QED
    BY <2>1, <2>2 DEF Displayed, Follows
<1>9. Outlast
  BY <1>2, <1>3 DEF Outlast
<1> QED
  BY <1>2, <1>4, <1>5, <1>8, <1>9 DEF Displayed

\* Records of downloads change.
LEMMA TransferKept ==
    ASSUME Recorded(session, download), Outlast, NEW d \in Downloads, NEW x \in Transfers,
           download' = [download EXCEPT ![d] = x],
           x.listed => x.owner \in Conversations /\ session[x.owner].number > 0
    PROVE  Recorded(session', download')
<1>1. download \in [Downloads -> Transfers]
  BY DEF Recorded
<1>2. /\ download' \in [Downloads -> Transfers]
      /\ \A i \in Downloads : download'[i] = IF i = d THEN x ELSE download[i]
  BY <1>1
<1>3. ASSUME NEW i \in Downloads, download'[i].listed
      PROVE  download'[i].owner \in Conversations /\ session'[download'[i].owner].number > 0
  BY <1>2, <1>3 DEF Recorded, Outlast
<1> QED
  BY <1>2, <1>3 DEF Recorded

LEMMA OverlayKept ==
    ASSUME BrowserInv, NEW k \in ToolCalls, OverlayReady(k)
    PROVE  BrowserInv'
<1>1. /\ Displayed /\ CallsInv /\ Recorded(session, download) /\ tracking \in BOOLEAN /\ First(k)
      /\ toolCall \in [ToolCalls -> CallRows] /\ toolCall[k] \in CallRows
  BY DEF BrowserInv, CallsInv, CallsTyped, ToolsInTurn, OverlayReady
<1>2. PICK c \in Conversations : c = CallOf[k]
  BY BrowserConstants
<1>3. \A p \in Pages : [toolCall[k] EXCEPT !.at = "page", !.page = p] \in CallRows
                       /\ [toolCall[k] EXCEPT !.at = "page", !.page = p].at = "page"
  BY <1>1 DEF CallRows, NoneOr
<1>4. CASE Leave(k) /\ Unaffected
  <2>1. CallsInv'
    BY <1>1, <1>4, LeaveKept
  <2>2. /\ UNCHANGED <<session, page, panel, detached, visible, download, tracking>> /\ dialog' = dialog
    BY <1>4 DEF Unaffected, pageVars, viewVars, downloadVars
  <2>3. Displayed' /\ Outlast
    BY <1>1, <2>2, ShownUnaffected DEF Displayed
  <2> QED
    BY <1>1, <2>1, <2>2, <2>3, RecordedOn DEF BrowserInv
<1>5. ASSUME NEW p \in Pages, ActOnPage(k, p) PROVE BrowserInv'
  <2>1. /\ Contains(session[c].tabs, p) /\ SyncView(session', Windows) /\ UNCHANGED page /\ tracking' = tracking
        /\ session' = [session EXCEPT ![c] = [session[c] EXCEPT !.selected = p, !.opened = TRUE]]
    BY <1>2, <1>5 DEF ActOnPage
  <2>2. dialog' \subseteq dialog
    BY <1>5 DEF ActOnPage, AnsweredAtOnce
  <2>3. Displayed' /\ Outlast
    BY <1>1, <2>1, <2>2, SelectKept
  <2>4. CASE AnsweredAtOnce(k, p)
    <3>1. CallsInv'
      BY <1>1, <2>4, LeaveKept DEF AnsweredAtOnce
    <3>2. Recorded(session', download')
      <4>1. CASE UNCHANGED download
        BY <1>1, <2>3, <4>1, RecordedOn
      <4>2. ASSUME NEW d \in Downloads, CancelDownload(k, d) PROVE Recorded(session', download')
        <5>1. /\ download[d] \in Transfers /\ download[d].listed
              /\ download[d].owner \in Conversations /\ session[download[d].owner].number > 0
          BY <1>1, <4>2 DEF Recorded, CancelDownload
        <5>2. PICK x : x = [download[d] EXCEPT !.active = FALSE]
          OBVIOUS
        <5>3. x \in Transfers /\ x.owner = download[d].owner
          BY <5>1, <5>2 DEF Transfers
        <5>4. download' = [download EXCEPT ![d] = x]
          BY <4>2, <5>2 DEF CancelDownload
        <5> QED
          BY <1>1, <2>3, <5>1, <5>3, <5>4, TransferKept
      <4> QED
        BY <2>4, <4>1, <4>2 DEF AnsweredAtOnce
    <3> QED
      BY <1>1, <2>1, <2>3, <3>1, <3>2 DEF BrowserInv
  <2>5. CASE /\ toolCall' = [toolCall EXCEPT ![k] = [@ EXCEPT !.at = "page", !.page = p]]
             /\ UNCHANGED <<toolQueue, dialog, download>>
    <3>1. CallsInv'
      BY <1>1, <1>3, <2>5, AtKept
    <3> QED
      BY <1>1, <2>1, <2>3, <2>5, <3>1, RecordedOn DEF BrowserInv
  <2> QED
    BY <1>5, <2>4, <2>5 DEF ActOnPage
<1>6. ASSUME NEW p \in Pages, ToolOpens(k, p) PROVE BrowserInv'
  <2>1. Displayed' /\ Outlast
    BY <1>1, <1>2, <1>6, CreateKept DEF ToolOpens
  <2>2. /\ toolCall' = [toolCall EXCEPT ![k] = [toolCall[k] EXCEPT !.at = "page", !.page = p]]
        /\ toolQueue' = toolQueue /\ UNCHANGED download /\ tracking' = tracking
    BY <1>6 DEF ToolOpens, downloadVars
  <2>3. CallsInv'
    BY <1>1, <1>3, <2>2, AtKept
  <2> QED
    BY <1>1, <2>1, <2>2, <2>3, RecordedOn DEF BrowserInv
<1>7. ASSUME NEW p \in Pages, ToolCloses(k, p) PROVE BrowserInv'
  <2>1. Contains(session[c].tabs, p) /\ RemoveTab(c, p) /\ Leave(k) /\ UNCHANGED download /\ tracking' = tracking
    BY <1>2, <1>7 DEF ToolCloses, downloadVars
  <2>2. page[p] = c
    BY <1>1, <2>1 DEF Contains, Displayed, Owned
  <2>3. Displayed' /\ Outlast
    BY <1>1, <2>1, <2>2, RemoveKept
  <2>4. CallsInv'
    BY <1>1, <2>1, LeaveKept
  <2> QED
    BY <1>1, <2>1, <2>3, <2>4, RecordedOn DEF BrowserInv
<1> QED
  BY <1>4, <1>5, <1>6, <1>7 DEF OverlayReady

\* What changes neither calls nor downloads needs only to keep what is shown.
LEMMA OnlyShown ==
    ASSUME BrowserInv, Displayed', Outlast, UNCHANGED <<toolVars, downloadVars>>
    PROVE  BrowserInv'
<1>1. UNCHANGED toolVars /\ UNCHANGED download /\ tracking' = tracking
  BY DEF downloadVars
<1> QED
  BY <1>1, CallsUnchanged, RecordedOn DEF BrowserInv

LEMMA UserKept ==
    ASSUME BrowserInv, NEW c \in Conversations,
           \/ \E b \in BOOLEAN : SetOpened(c, b) \/ Layout(c, b) \/ LayoutDetached(c, b) \/ Move(c, b)
           \/ \E p \in Pages : UserSelects(c, p) \/ UserOpens(c, p)
    PROVE  BrowserInv'
<1>0. Displayed
  BY DEF BrowserInv
<1>1. ASSUME NEW b \in BOOLEAN, SetOpened(c, b) \/ Layout(c, b) \/ LayoutDetached(c, b) \/ Move(c, b)
      PROVE  BrowserInv'
  <2>1. Displayed' /\ Outlast
    BY <1>0, <1>1, OpenedKept, LayoutKept, LayoutDetachedKept, MoveKept
  <2>2. UNCHANGED <<toolVars, downloadVars>>
    BY <1>1 DEF SetOpened, Layout, LayoutDetached, Move, UserUnchanged
  <2> QED
    BY <2>1, <2>2, OnlyShown
<1>2. ASSUME NEW p \in Pages, UserSelects(c, p) PROVE BrowserInv'
  <2>1. /\ Contains(session[c].tabs, p) /\ SyncView(session', Windows)
        /\ session' = [session EXCEPT ![c].selected = p]
        /\ UNCHANGED page /\ dialog' = dialog /\ UNCHANGED <<toolVars, downloadVars>>
    BY <1>2 DEF UserSelects, Select, UserUnchanged, pageVars
  <2>2. PICK o : o = session[c].opened
    OBVIOUS
  <2>3. session[c] \in Sessions /\ session \in [Conversations -> Sessions] /\ o \in BOOLEAN
    BY <1>0, <2>2 DEF Displayed, Owned, Sessions
  <2>4. [session[c] EXCEPT !.selected = p] = [session[c] EXCEPT !.selected = p, !.opened = o]
    BY <2>2, <2>3 DEF Sessions
  <2>5. session' = [session EXCEPT ![c] = [session[c] EXCEPT !.selected = p, !.opened = o]]
    BY <2>1, <2>3, <2>4
  <2>6. Displayed' /\ Outlast
    BY <1>0, <2>1, <2>3, <2>5, SelectKept
  <2> QED
    BY <2>1, <2>6, OnlyShown
<1>3. ASSUME NEW p \in Pages, UserOpens(c, p) PROVE BrowserInv'
  BY <1>0, <1>3, CreateKept, OnlyShown DEF UserOpens
<1> QED
  BY <1>1, <1>2, <1>3

LEMMA ClosingKept ==
    ASSUME BrowserInv, NEW closed \in SUBSET Conversations, CloseSession(closed), tracking' \in BOOLEAN
    PROVE  BrowserInv'
<1>1. Displayed' /\ Recorded(session', download')
  BY CloseKept DEF BrowserInv
<1>2. CallsInv'
  BY CallsUnchanged DEF BrowserInv, CloseSession, Dropped
<1> QED
  BY <1>1, <1>2 DEF BrowserInv

LEMMA ToolKept ==
    ASSUME BrowserInv, NEW k \in ToolCalls,
           CallTool(k) \/ AbortCall(k) \/ BeginCall(k) \/ OverlayReady(k) \/ EndCall(k)
    PROVE  BrowserInv'
<1>0. /\ Displayed /\ CallsInv /\ Recorded(session, download) /\ tracking \in BOOLEAN
      /\ toolCall \in [ToolCalls -> CallRows] /\ toolCall[k] \in CallRows
  BY DEF BrowserInv, CallsInv, CallsTyped
<1>1. CASE CallTool(k)
  <2>1. UNCHANGED download /\ tracking' = tracking
    BY <1>1 DEF CallTool, downloadVars
  <2>2. Displayed' /\ Outlast /\ CallsInv'
    BY <1>0, <1>1, CallShown, CallKept
  <2> QED
    BY <1>0, <2>1, <2>2, RecordedOn DEF BrowserInv
<1>2. CASE AbortCall(k)
  <2>1. /\ toolCall' = [toolCall EXCEPT ![k].aborted = TRUE] /\ toolCall[k].at \in {"queued", "overlay", "page"}
        /\ dialog' \subseteq dialog /\ toolQueue' = toolQueue
        /\ UNCHANGED <<session, page, panel, detached, visible, download, tracking>>
    BY <1>2 DEF AbortCall, viewVars, downloadVars
  <2>2. Displayed' /\ Outlast
    BY <1>0, <2>1, ShownUnaffected DEF Displayed
  <2>3. PICK r : r = [toolCall[k] EXCEPT !.aborted = TRUE]
    OBVIOUS
  <2>4. r \in CallRows /\ r.at = toolCall[k].at
    BY <1>0, <2>3 DEF CallRows
  <2>5. toolCall' = [toolCall EXCEPT ![k] = r]
    BY <2>1, <2>3
  <2>6. r.at # "queued" => First(k)
    BY <1>0, <2>1, <2>4 DEF CallsInv, ToolsInTurn
  <2>7. CallsInv'
    BY <1>0, <2>1, <2>4, <2>5, <2>6, AtKept
  <2> QED
    BY <1>0, <2>1, <2>2, <2>7, RecordedOn DEF BrowserInv
<1>3. CASE BeginCall(k)
  <2>1. /\ First(k) /\ dialog' = dialog
        /\ UNCHANGED <<session, page, panel, detached, visible, download, tracking>>
        /\ Leave(k) \/ (At(k, "overlay") /\ UNCHANGED toolQueue)
    BY <1>3 DEF BeginCall, Unaffected, pageVars, viewVars, downloadVars
  <2>2. Displayed' /\ Outlast
    BY <1>0, <2>1, ShownUnaffected DEF Displayed
  <2>3. CASE Leave(k)
    <3>1. CallsInv'
      BY <1>0, <2>1, <2>3, LeaveKept
    <3> QED
      BY <1>0, <2>1, <2>2, <3>1, RecordedOn DEF BrowserInv
  <2>4. CASE At(k, "overlay") /\ UNCHANGED toolQueue
    <3>1. PICK r : r = [toolCall[k] EXCEPT !.at = "overlay"]
      OBVIOUS
    <3>2. r \in CallRows /\ r.at = "overlay"
      BY <1>0, <3>1 DEF CallRows
    <3>3. toolCall' = [toolCall EXCEPT ![k] = r]
      BY <2>4, <3>1 DEF At
    <3>4. CallsInv'
      BY <1>0, <2>1, <2>4, <3>2, <3>3, AtKept
    <3> QED
      BY <1>0, <2>1, <2>2, <3>4, RecordedOn DEF BrowserInv
  <2> QED
    BY <2>1, <2>3, <2>4
<1>4. CASE OverlayReady(k)
  BY <1>4, OverlayKept
<1>5. CASE EndCall(k)
  <2>1. /\ First(k) /\ Leave(k) /\ SyncView(session, Windows)
        /\ UNCHANGED <<session, page, dialog, download, tracking>>
    BY <1>0, <1>5 DEF EndCall, pageVars, downloadVars, CallsInv, ToolsInTurn
  <2>2. Displayed' /\ Outlast
    BY <1>0, <2>1, WindowsChanged DEF Displayed
  <2>3. CallsInv'
    BY <1>0, <2>1, LeaveKept
  <2> QED
    BY <1>0, <2>1, <2>2, <2>3, RecordedOn DEF BrowserInv
<1> QED
  BY <1>1, <1>2, <1>3, <1>4, <1>5

LEMMA DownloadKept ==
    ASSUME BrowserInv, NEW d \in Downloads,
           DownloadDone(d) \/ DismissDownload(d) \/ \E p \in Pages : StartDownload(d, p)
    PROVE  BrowserInv'
<1>0. /\ Displayed /\ CallsInv /\ Recorded(session, download) /\ tracking \in BOOLEAN
      /\ download \in [Downloads -> Transfers] /\ download[d] \in Transfers
      /\ NoDownload \in Transfers /\ ~NoDownload.listed
      /\ download[d].listed => download[d].owner \in Conversations /\ session[download[d].owner].number > 0
  BY DEF BrowserInv, Recorded, NoDownload, Transfers
<1>1. /\ UNCHANGED <<session, page, panel, detached, visible>> /\ dialog' = dialog /\ tracking' = tracking
      /\ UNCHANGED toolVars
  BY DEF DownloadDone, DismissDownload, StartDownload, DownloadUnchanged, pageVars, viewVars
<1>2. Displayed' /\ Outlast
  BY <1>0, <1>1, ShownUnaffected DEF Displayed
<1>3. CallsInv'
  BY <1>0, <1>1, CallsUnchanged
<1>4. \E x \in Transfers : /\ download' = [download EXCEPT ![d] = x]
                           /\ x.listed => x.owner \in Conversations /\ session[x.owner].number > 0
  <2>1. CASE DownloadDone(d)
    <3>1. CASE download[d].listed
      <4>1. PICK x : x = [download[d] EXCEPT !.active = FALSE]
        OBVIOUS
      <4>2. x \in Transfers /\ x.owner = download[d].owner
        BY <1>0, <4>1 DEF Transfers
      <4>3. download' = [download EXCEPT ![d] = x]
        BY <2>1, <3>1, <4>1 DEF DownloadDone
      <4> QED
        BY <1>0, <3>1, <4>2, <4>3
    <3>2. CASE ~download[d].listed
      <4>1. download' = [download EXCEPT ![d] = NoDownload]
        BY <2>1, <3>2 DEF DownloadDone
      <4> QED
        BY <1>0, <4>1
    <3> QED
      BY <3>1, <3>2
  <2>2. CASE DismissDownload(d)
    <3>1. CASE download[d].active
      <4>1. PICK x : x = [download[d] EXCEPT !.listed = FALSE]
        OBVIOUS
      <4>2. x \in Transfers /\ ~x.listed
        BY <1>0, <4>1 DEF Transfers
      <4>3. download' = [download EXCEPT ![d] = x]
        BY <2>2, <3>1, <4>1 DEF DismissDownload
      <4> QED
        BY <4>2, <4>3
    <3>2. CASE ~download[d].active
      <4>1. download' = [download EXCEPT ![d] = NoDownload]
        BY <2>2, <3>2 DEF DismissDownload
      <4> QED
        BY <1>0, <4>1
    <3> QED
      BY <3>1, <3>2
  <2>3. ASSUME NEW p \in Pages, StartDownload(d, p)
        PROVE  \E x \in Transfers : /\ download' = [download EXCEPT ![d] = x]
                                    /\ x.listed => x.owner \in Conversations /\ session[x.owner].number > 0
    <3>1. PICK x : x = [owner |-> page[p], active |-> TRUE, listed |-> tracking]
      OBVIOUS
    <3>2. page[p] \in Conversations /\ session[page[p]].number > 0
      BY <1>0, <2>3 DEF StartDownload, Displayed, Owned, Owners
    <3>3. x \in Transfers /\ x.owner = page[p]
      BY <1>0, <3>1, <3>2 DEF Transfers
    <3>4. download' = [download EXCEPT ![d] = x]
      BY <2>3, <3>1 DEF StartDownload
    <3> QED
      BY <3>2, <3>3, <3>4
  <2> QED
    BY <2>1, <2>2, <2>3
<1>5. Recorded(session', download')
  BY <1>0, <1>2, <1>4, TransferKept
<1> QED
  BY <1>0, <1>1, <1>2, <1>3, <1>5 DEF BrowserInv

LEMMA BrowserKept == BrowserInv /\ [BrowserNext]_browserVars => BrowserInv'
<1> SUFFICES ASSUME BrowserInv, [BrowserNext]_browserVars PROVE BrowserInv'
  OBVIOUS
<1>0. Displayed /\ Owned(session, page) /\ page \in Owners /\ session \in [Conversations -> Sessions]
  BY DEF BrowserInv, Displayed, Owned
<1>1. CASE UNCHANGED browserVars
  <2>1. /\ UNCHANGED <<session, page, panel, detached, visible, toolVars, downloadVars>> /\ dialog' = dialog
    BY <1>1 DEF browserVars, pageVars, viewVars
  <2>2. Displayed' /\ Outlast
    BY <1>0, <2>1, ShownUnaffected DEF Displayed
  <2> QED
    BY <2>1, <2>2, OnlyShown
<1>2. ASSUME NEW c \in Conversations, ConversationDeleted(c) PROVE BrowserInv'
  <2>1. CloseSession({c}) /\ {c} \in SUBSET Conversations /\ tracking' \in BOOLEAN
    BY <1>2 DEF ConversationDeleted, BrowserInv
  <2> QED
    BY <2>1, ClosingKept
<1>3. CASE SignOut
  <2>1. PICK closed \in SUBSET Conversations : CloseSession(closed) /\ tracking' = FALSE
    BY <1>3 DEF SignOut
  <2> QED
    BY <2>1, ClosingKept
<1>4. ASSUME NEW p \in Pages, NEW q \in Pages, Popup(p, q) PROVE BrowserInv'
  <2>1. page[p] \in Conversations /\ CreateTab(page[p], q) /\ UNCHANGED <<toolVars, downloadVars>>
    BY <1>0, <1>4 DEF Popup, Owners
  <2> QED
    BY <1>0, <2>1, CreateKept, OnlyShown
<1>5. ASSUME NEW p \in Pages, PageDestroyed(p) PROVE BrowserInv'
  <2>1. page[p] \in Conversations /\ RemoveTab(page[p], p) /\ UNCHANGED <<toolVars, downloadVars>>
    BY <1>0, <1>5 DEF PageDestroyed, Owners
  <2> QED
    BY <1>0, <2>1, RemoveKept, OnlyShown
<1>6. ASSUME NEW p \in Pages, DialogOpens(p) PROVE BrowserInv'
  <2>1. /\ UNCHANGED <<session, page, panel, detached, visible, toolVars, downloadVars>>
        /\ dialog' \subseteq {r \in Pages : page[r] # NoConversation}
    BY <1>0, <1>6 DEF DialogOpens, viewVars, Displayed
  <2> QED
    BY <1>0, <2>1, ShownUnaffected, OnlyShown
<1>7. CASE Layout(NoConversation, FALSE)
  <2>1. Displayed' /\ Outlast /\ UNCHANGED <<toolVars, downloadVars>>
    BY <1>0, <1>7, LayoutKept DEF Layout, UserUnchanged
  <2> QED
    BY <2>1, OnlyShown
<1> QED
  BY <1>1, <1>2, <1>3, <1>4, <1>5, <1>6, <1>7, UserKept, ToolKept, DownloadKept DEF BrowserNext

LEMMA BrowserInvSafe == BrowserInv => BrowserTypeOK /\ ViewsFollow /\ ToolsInTurn
<1> SUFFICES ASSUME BrowserInv PROVE BrowserTypeOK /\ ViewsFollow /\ ToolsInTurn
  OBVIOUS
<1>1. Displayed /\ CallsInv /\ Recorded(session, download)
  BY DEF BrowserInv
<1>2. BrowserTypeOK
  <2>1. ASSUME NEW c \in Conversations
        PROVE  /\ IsInjective(session[c].tabs)
               /\ \A p \in ToSet(session[c].tabs) : page[p] = c
               /\ session[c].selected # NoPage => Contains(session[c].tabs, session[c].selected)
    <3>1. /\ session[c].tabs \in Seq(Pages) /\ DOMAIN session[c].tabs = 1 .. Len(session[c].tabs)
          /\ \A i, j \in 1 .. Len(session[c].tabs) : session[c].tabs[i] = session[c].tabs[j] => i = j
          /\ \A i \in 1 .. Len(session[c].tabs) : page[session[c].tabs[i]] = c
          /\ session[c].selected # NoPage =>
                \E i \in 1 .. Len(session[c].tabs) : session[c].tabs[i] = session[c].selected
      BY <1>1, LenProperties DEF Displayed, Owned, Sessions
    <3>2. IsInjective(session[c].tabs)
      BY <3>1 DEF IsInjective
    <3>3. \A p \in ToSet(session[c].tabs) : page[p] = c
      BY <3>1 DEF ToSet
    <3> QED
      BY <3>1, <3>2, <3>3 DEF Contains
  <2>2. dialog \subseteq {p \in Pages : page[p] # NoConversation}
    BY <1>1 DEF Displayed
  <2>3. \A k \in ToolCalls : toolCall[k].at \in {"idle", "queued", "overlay", "page", "done"}
    BY <1>1 DEF CallsInv, CallsTyped, CallRows
  <2>4. \A d \in Downloads : download[d].listed => Live(session[download[d].owner])
    BY <1>1 DEF Recorded, Live
  <2> QED
    BY <2>1, <2>2, <2>3, <2>4 DEF BrowserTypeOK
<1>3. ViewsFollow
  <2>1. /\ Windows.panel = panel /\ Windows.detached = detached /\ Windows.visible = visible
    BY DEF Windows
  <2>2. /\ visible \subseteq Pages /\ panel.mounted \in NoneOr(Pages)
        /\ \A c \in Conversations : detached[c].mounted \in NoneOr(Pages)
        /\ \A p \in Pages : p \in visible <=> p = panel.mounted \/ \E c \in Conversations : p = detached[c].mounted
    BY <1>1, <2>1 DEF Displayed, Sorted, Layouts, Panels, Views
  <2>3. visible = Mounted \ {NoPage}
    BY <2>2, BrowserConstants DEF Mounted, NoneOr
  <2>4. panel.mounted = MainPage(session, Windows)
    BY <1>1, <2>1 DEF Displayed, Follows
  <2>5. \A c \in Conversations : detached[c].mounted =
            IF detached[c].window THEN Presents(session[c], detached[c].bounds) ELSE NoPage
    BY <1>1, <2>1 DEF Displayed, Follows, Beside
  <2> QED
    BY <2>3, <2>4, <2>5 DEF ViewsFollow
<1> QED
  BY <1>1, <1>2, <1>3 DEF CallsInv

-----------------------------------------------------------------------------
(* The desktop together *)

Composing == {"draft", "strip", "suggestions"}
Finding   == {"projects", "finder", "search"}
Talking   == {"reading", "voice"}
Browsing  == {"views", "tools", "downloads"}

\* One that is not in focus stays as it began.
DesktopInv ==
    /\ focus = "collaboration" => CollaborationInv
    /\ focus \in Finding => ListInv /\ FinderInv /\ SearchInv
    /\ focus \in Composing => ComposerInv
    /\ focus \in Talking => SpeechInv
    /\ focus \in Browsing => BrowserInv

LEMMA DesktopStarts == Init => DesktopInv
  BY CollaborationStarts, ListStarts, FinderStarts, MatchStarts, ComposerStarts, SpeechStarts, BrowserStarts
     DEF Init, DesktopInv

\* What is in focus takes a step of its own.
LEMMA InFocus ==
    ASSUME [Next]_desktopVars
    PROVE  /\ focus' = focus
           /\ focus = "collaboration" => [CollaborationNext]_collaborationVars
           /\ [ProjectsNext]_projectVars /\ [FinderNext]_finderVars /\ [SearchNext]_searchVars
           /\ [DraftNext]_draftVars /\ [StripNext]_strip /\ [CarouselNext]_carousel
           /\ [SpeechNext]_speechVars
           /\ [BrowserNext]_browserVars
<1>1. CASE UNCHANGED desktopVars
  BY <1>1 DEF desktopVars, sidebarVars, projectVars, finderVars, searchVars, composerVars, draftVars
<1>2. CASE Next
  <2>1. focus' = focus /\ (focus = "collaboration" => CollaborationNext /\ SendsOrStops)
    BY <1>2 DEF Next
  <2>2. [ProjectsNext]_projectVars /\ [FinderNext]_finderVars /\ [SearchNext]_searchVars
    BY <1>2 DEF Next, sidebarVars, projectVars, finderVars, searchVars
  <2>3. [DraftNext]_draftVars /\ [StripNext]_strip /\ [CarouselNext]_carousel
    BY <1>2 DEF Next, composerVars, draftVars
  <2>4. [SpeechNext]_speechVars
    BY <1>2 DEF Next
  <2>5. [BrowserNext]_browserVars
    BY <1>2 DEF Next
  <2> QED
    BY <2>1, <2>2, <2>3, <2>4, <2>5
<1> QED
  BY <1>1, <1>2

LEMMA DesktopKept == DesktopInv /\ [Next]_desktopVars => DesktopInv'
<1> SUFFICES ASSUME DesktopInv, [Next]_desktopVars PROVE DesktopInv'
  OBVIOUS
<1>1. /\ focus' = focus
      /\ focus = "collaboration" => [CollaborationNext]_collaborationVars
      /\ [ProjectsNext]_projectVars /\ [FinderNext]_finderVars /\ [SearchNext]_searchVars
      /\ [DraftNext]_draftVars /\ [StripNext]_strip /\ [CarouselNext]_carousel
      /\ [SpeechNext]_speechVars
      /\ [BrowserNext]_browserVars
  BY InFocus
<1>2. focus = "collaboration" => CollaborationInv'
  BY <1>1, CollaborationKept DEF DesktopInv
<1>3. focus \in Finding => (ListInv /\ FinderInv /\ SearchInv)'
  BY <1>1, ListKept, FinderKept, SearchKept DEF DesktopInv
<1>4. focus \in Composing => ComposerInv'
  BY <1>1, DraftInvKept, StripInvKept, CarouselInvKept DEF DesktopInv, ComposerInv
<1>5. focus \in Talking => SpeechInv'
  BY <1>1, SpeechKept DEF DesktopInv
<1>6. focus \in Browsing => BrowserInv'
  BY <1>1, BrowserKept DEF DesktopInv
<1> QED
  BY <1>1, <1>2, <1>3, <1>4, <1>5, <1>6 DEF DesktopInv, Finding, Composing, Talking, Browsing

LEMMA DesktopAlways == Spec => []DesktopInv
<1>1. Init => DesktopInv
  BY DesktopStarts
<1>2. DesktopInv /\ [Next]_desktopVars => DesktopInv'
  BY DesktopKept
<1> QED
  BY <1>1, <1>2, PTL DEF Spec

\* THE FLOOR: one member of a team speaks at a time, each waits in one place, a
\* running team has a speaker, and past the limit of turns only the host runs,
\* whatever the orchestrators of a crashed or closed page still post (commands.py,
\* state.py): for any members, requests and limit.
THEOREM FloorKept == Spec => []CollaborationSafe
<1>1. DesktopInv => CollaborationSafe
  BY CollaborationInvSafe DEF DesktopInv, CollaborationSafe
<1> QED
  BY <1>1, DesktopAlways, PTL

\* THE DRAFT: no word or image the user put into a message gets lost or sent twice,
\* whatever answers while the input method composes, and the strip and the
\* suggestions are those of now (TaskComposer.tsx, PromptEditor.tsx): for any
\* images, words and timers.
THEOREM DraftsKept == Spec => []ComposerSafe
<1>1. DesktopInv => ComposerSafe
  BY ComposerInvSafe DEF DesktopInv, ComposerSafe, Composing
<1> QED
  BY <1>1, DesktopAlways, PTL

\* THE LISTS: the list of chats and what is found answer the newest question,
\* whichever answer comes last (ProjectList.tsx, useConversationSearch.ts): for any
\* chats, queries and messages.
THEOREM ListsAgree == Spec => []SidebarSafe
<1>1. DesktopInv => SidebarSafe
  BY SidebarInvSafe DEF DesktopInv, SidebarSafe, Finding
<1> QED
  BY <1>1, DesktopAlways, PTL

\* SPEECH: answers are read one after the other in their order, no microphone stays
\* open without the recording the user sees, and each sentence of a voice chat is
\* sent at most once and in order (desktop/src/features/speech, speech-service.ts):
\* for any readings, recordings and sentences.
THEOREM ReadsInTurn == Spec => []SpeechSafe
<1>1. DesktopInv => SpeechSafe
  BY SpeechInvSafe DEF DesktopInv, SpeechSafe, Talking
<1> QED
  BY <1>1, DesktopAlways, PTL

\* THE BROWSER: a native view is visible exactly where a window has it mounted, it is
\* the selected page of an open session of that window's conversation, and the tools
\* of a conversation act one at a time in the order of their calls (browser-host.ts):
\* for any conversations, pages, calls and downloads.
THEOREM ViewsAgree == Spec => []BrowserSafe
<1>1. DesktopInv => BrowserSafe
  BY BrowserInvSafe DEF DesktopInv, BrowserSafe, Browsing
<1> QED
  BY <1>1, DesktopAlways, PTL

=============================================================================
