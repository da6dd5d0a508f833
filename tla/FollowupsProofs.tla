--------------------------- MODULE FollowupsProofs ---------------------------
(***************************************************************************)
(* Proofs about the queue of follow-ups, for any number of messages, turns, *)
(* kills and requests on their way.  It loses no message and starts none by *)
(* itself, whether or not exchanges with the API overtake each other        *)
(* (QueueSafety, from QueueInv).  When they do not, and nothing is steered  *)
(* or resumed while deliveries are checked, a message reaches one run at    *)
(* most, none once the user has it back (OneDelivery), and no wakeup of the *)
(* queue is lost (NoWakeupLost), both from OnceInv beside QueueInv.         *)
(***************************************************************************)
EXTENDS Followups, TLAPS, SequenceTheorems, FiniteSetTheorems

-----------------------------------------------------------------------------
(* Types *)

Requests ==
    [kind : {"start"}, turn : Turns, waited : {FALSE}, answer : {"none"}]
        \cup [kind : {"steer"}, id : Inputs, turn : Turns, waited : BOOLEAN,
              answer : {"none", "refused"}]
        \cup [kind : {"check"}, id : Inputs, turn : Turns, initial : BOOLEAN,
              caller : {"load", "resume", "finish"}, rest : SUBSET Items, waited : {TRUE},
              answer : {"none", "received", "waiting", "not_received"}]

Typed ==
    /\ queue \in Seq(Items)
    /\ wire \in Seq(Requests)
    /\ paused \in BOOLEAN /\ loaded \in BOOLEAN /\ stopping \in BOOLEAN
    /\ active \in 0 .. turns /\ turns \in 0 .. MaxTurns
    /\ origin \in [Turns -> Inputs \cup {0}]
    /\ drains \in Nat
    /\ finishing \subseteq Turns \X BOOLEAN /\ removing \subseteq Inputs
    /\ run \in [Turns -> {"absent", "live", "completed", "failed"}]
    /\ waiting \in [Turns -> SUBSET Inputs]
    /\ heard \in [Turns -> SUBSET Inputs]
    /\ told \in [Turns -> SUBSET Inputs]
    /\ added \in 0 .. MaxInputs /\ withdrawn \subseteq Inputs
    /\ Ids(queue) \subseteq 1 .. added /\ held \subseteq 1 .. added
    /\ crashes \in 0 .. MaxCrashes

-----------------------------------------------------------------------------
(* The inductive invariant *)

\* An item that is on its way names a turn that has begun; one that is being
\* sent, the turn that was dispatched for it.
Sent(item) ==
    /\ item.turn = 0 <=> item.status = "queued"
    /\ item.turn <= turns
    /\ item.status = "sending" => origin[item.turn] = item.id

\* A message is in a queue once.
Single(q) == \A j, k \in DOMAIN q : q[j].id = q[k].id => j = k

QueueOk(q) == Single(q) /\ \A k \in DOMAIN q : Sent(q[k])

\* What is asked about an item is answered for the turn it was sent to, and a
\* start request finds no run of its turn.
Fine(r) ==
    /\ r.turn <= turns
    /\ r.kind = "check" =>
           /\ r.initial => origin[r.turn] = r.id
           /\ r.answer = "received" => r.id \in heard[r.turn]
           /\ \A item \in r.rest : Sent(item) /\ item.turn # 0
    /\ r.kind = "start" => run[r.turn] = "absent"

\* One start request for each turn.
OneStart(w) ==
    \A j, k \in DOMAIN w :
        w[j].kind = "start" /\ w[k].kind = "start" /\ w[j].turn = w[k].turn => j = k

WireOk(w) == OneStart(w) /\ \A k \in DOMAIN w : Fine(w[k])

\* A run has heard the message it was dispatched for, and nothing before it
\* began; the stream tells what the run heard, and what is removed was told.
RunsOk ==
    /\ \A t \in Turns : t > turns => run[t] = "absent"
    /\ \A t \in Turns : run[t] = "absent" => heard[t] = {} /\ waiting[t] = {}
    /\ \A t \in Turns : run[t] # "absent" => origin[t] \in heard[t] \cup {0}
    /\ \A i \in removing : Hearing(i) # {}

QueueInv == Typed /\ QueueOk(queue) /\ WireOk(wire) /\ RunsOk /\ NeverLost /\ RestartHolds

-----------------------------------------------------------------------------
(* Sequences of requests and of items *)

LEMMA Taken ==
    ASSUME NEW S, NEW s \in Seq(S), NEW k \in DOMAIN s
    PROVE  /\ RemoveAt(s, k) \in Seq(S)
           /\ Len(RemoveAt(s, k)) = Len(s) - 1
           /\ \A j \in DOMAIN RemoveAt(s, k) :
                  /\ (IF j < k THEN j ELSE j + 1) \in DOMAIN s \ {k}
                  /\ RemoveAt(s, k)[j] = s[IF j < k THEN j ELSE j + 1]
<1> DEFINE a == SubSeq(s, 1, k - 1)
           b == SubSeq(s, k + 1, Len(s))
<1>1. k \in Nat /\ Len(s) \in Nat /\ 1 <= k /\ k <= Len(s) /\ DOMAIN s = 1 .. Len(s)
  BY LenProperties
<1>2. /\ a \in Seq(S) /\ Len(a) = k - 1 /\ \A j \in 1 .. k - 1 : a[j] = s[j]
      /\ b \in Seq(S) /\ Len(b) = Len(s) - k /\ \A j \in 1 .. Len(s) - k : b[j] = s[k + j]
  <2>1. \A j \in 1 .. Len(s) : s[j] \in S
    BY ElementOfSeq
  <2>2. /\ a \in Seq(S) /\ Len(a) = k - 1 /\ \A j \in 1 .. k - 1 : a[j] = s[j]
    BY <1>1, <2>1, SubSeqProperties
  <2>3. /\ b \in Seq(S) /\ Len(b) = Len(s) - k
    BY <1>1, <2>1, SubSeqProperties
  <2>4. \A j \in 1 .. Len(s) - (k + 1) + 1 : b[j] = s[k + 1 + j - 1]
    BY <1>1, <2>1, SubSeqProperties
  <2>5. \A j \in 1 .. Len(s) - k : b[j] = s[k + j]
    BY <1>1, <2>4
  <2> QED BY <2>2, <2>3, <2>5
<1> HIDE DEF a, b
<1>3. /\ a \o b \in Seq(S) /\ Len(a \o b) = Len(s) - 1
      /\ \A j \in 1 .. Len(s) - 1 : (a \o b)[j] = IF j <= k - 1 THEN a[j] ELSE b[j - (k - 1)]
  <2>1. /\ a \o b \in Seq(S) /\ Len(a \o b) = Len(a) + Len(b)
        /\ \A j \in 1 .. Len(a) + Len(b) :
               (a \o b)[j] = IF j <= Len(a) THEN a[j] ELSE b[j - Len(a)]
    BY <1>2, ConcatProperties
  <2>2. Len(a) + Len(b) = Len(s) - 1
    BY <1>1, <1>2
  <2> QED BY <1>2, <2>1, <2>2
<1>4. RemoveAt(s, k) = a \o b
  BY DEF RemoveAt, a, b
<1>5. ASSUME NEW j \in 1 .. Len(s) - 1
      PROVE  /\ (IF j < k THEN j ELSE j + 1) \in DOMAIN s \ {k}
             /\ (a \o b)[j] = s[IF j < k THEN j ELSE j + 1]
  <2>1. CASE j < k
    BY <1>1, <1>2, <1>3, <2>1
  <2>2. CASE ~(j < k)
    <3>1. j - (k - 1) \in 1 .. Len(s) - k /\ k + (j - (k - 1)) = j + 1
      BY <1>1, <2>2
    <3>2. (a \o b)[j] = b[j - (k - 1)]
      BY <1>1, <1>3, <2>2
    <3>3. b[j - (k - 1)] = s[j + 1]
      BY <1>2, <3>1
    <3>4. j + 1 \in DOMAIN s \ {k}
      BY <1>1, <2>2
    <3> QED BY <2>2, <3>2, <3>3, <3>4
  <2> QED BY <2>1, <2>2
<1>6. DOMAIN (a \o b) = 1 .. Len(s) - 1
  BY <1>3, LenProperties
<1> QED BY <1>3, <1>4, <1>5, <1>6
\* Every request of v is one of w at a place of its own, as far as its kind and
\* its turn go.
LEMMA StartsKept ==
    ASSUME NEW v, NEW w, OneStart(w),
           NEW f \in [DOMAIN v -> DOMAIN w], \A j, k \in DOMAIN v : f[j] = f[k] => j = k,
           \A k \in DOMAIN v : v[k].kind = w[f[k]].kind /\ v[k].turn = w[f[k]].turn
    PROVE  OneStart(v)
  BY DEF OneStart

LEMMA TakenOk ==
    ASSUME Typed, WireOk(wire), NEW k \in DOMAIN wire
    PROVE  RemoveAt(wire, k) \in Seq(Requests) /\ WireOk(RemoveAt(wire, k))
<1> DEFINE v == RemoveAt(wire, k)
           f == [j \in DOMAIN v |-> IF j < k THEN j ELSE j + 1]
<1>1. /\ v \in Seq(Requests)
      /\ \A j \in DOMAIN v : f[j] \in DOMAIN wire /\ v[j] = wire[f[j]]
  BY Taken DEF Typed
<1>2. \A j \in DOMAIN v : j \in Nat
  BY <1>1, LenProperties
<1>3. k \in Nat
  BY LenProperties DEF Typed
<1>4. f \in [DOMAIN v -> DOMAIN wire] /\ \A i, j \in DOMAIN v : f[i] = f[j] => i = j
  BY <1>1, <1>2, <1>3
<1> HIDE DEF v, f
<1>5. OneStart(v)
  BY <1>1, <1>4, StartsKept DEF WireOk
<1>6. \A j \in DOMAIN v : Fine(v[j])
  BY <1>1, <1>4 DEF WireOk
<1> QED BY <1>1, <1>5, <1>6 DEF WireOk, v

LEMMA AddedOk ==
    ASSUME Typed, NEW w \in Seq(Requests), WireOk(w), NEW r \in Requests, Fine(r),
           r.kind = "start" => \A k \in DOMAIN w : w[k].kind = "start" => w[k].turn # r.turn
    PROVE  Append(w, r) \in Seq(Requests) /\ WireOk(Append(w, r))
<1>1. /\ Append(w, r) \in Seq(Requests)
      /\ DOMAIN Append(w, r) = 1 .. Len(w) + 1 /\ DOMAIN w = 1 .. Len(w) /\ Len(w) \in Nat
      /\ \A k \in 1 .. Len(w) : Append(w, r)[k] = w[k]
      /\ Append(w, r)[Len(w) + 1] = r
  BY AppendProperties, LenProperties
<1>2. \A k \in DOMAIN Append(w, r) : Fine(Append(w, r)[k])
  BY <1>1 DEF WireOk
<1>3. ASSUME NEW j \in DOMAIN Append(w, r), NEW k \in DOMAIN Append(w, r),
             Append(w, r)[j].kind = "start", Append(w, r)[k].kind = "start",
             Append(w, r)[j].turn = Append(w, r)[k].turn
      PROVE  j = k
  <2>1. CASE j \in DOMAIN w /\ k \in DOMAIN w
    BY <1>1, <1>3, <2>1 DEF WireOk, OneStart
  <2>2. CASE j \notin DOMAIN w \/ k \notin DOMAIN w
    BY <1>1, <1>3, <2>2
  <2> QED BY <2>1, <2>2
<1> QED BY <1>1, <1>2, <1>3 DEF WireOk, OneStart

LEMMA ChangedOk ==
    ASSUME Typed, WireOk(wire), NEW k \in DOMAIN wire, NEW r \in Requests, Fine(r),
           r.kind = wire[k].kind, r.turn = wire[k].turn
    PROVE  [wire EXCEPT ![k] = r] \in Seq(Requests) /\ WireOk([wire EXCEPT ![k] = r])
<1> DEFINE v == [wire EXCEPT ![k] = r]
<1>1. k \in 1 .. Len(wire) /\ DOMAIN wire = 1 .. Len(wire)
  BY LenProperties DEF Typed
<1>2. v \in Seq(Requests)
  BY <1>1, ExceptSeq DEF Typed
<1>3. DOMAIN v = DOMAIN wire /\ \A j \in DOMAIN v : v[j] = IF j = k THEN r ELSE wire[j]
  OBVIOUS
<1> HIDE DEF v
<1> QED BY <1>2, <1>3 DEF WireOk, OneStart, v

LEMMA WithoutItem ==
    ASSUME NEW q \in Seq(Items), Single(q), NEW i
    PROVE  /\ Without(q, i) \in Seq(Items) /\ Single(Without(q, i))
           /\ \A k \in DOMAIN Without(q, i) : \E j \in DOMAIN q : Without(q, i)[k] = q[j]
           /\ Ids(Without(q, i)) = Ids(q) \ {i}
<1>1. CASE i \notin Ids(q)
  BY <1>1 DEF Without
<1>2. CASE i \in Ids(q)
  <2>1. PICK n \in DOMAIN q : q[n].id = i
    BY <1>2 DEF Ids
  <2>2. (CHOOSE k \in DOMAIN q : q[k].id = i) = n
    BY <2>1 DEF Single
  <2> DEFINE w == RemoveAt(q, n)
  <2>3. Without(q, i) = w
    BY <1>2, <2>2 DEF Without
  <2>4. /\ w \in Seq(Items) /\ Len(w) = Len(q) - 1
        /\ \A j \in DOMAIN w : /\ (IF j < n THEN j ELSE j + 1) \in DOMAIN q \ {n}
                               /\ w[j] = q[IF j < n THEN j ELSE j + 1]
    BY Taken
  <2>5. DOMAIN w = 1 .. Len(q) - 1 /\ DOMAIN q = 1 .. Len(q) /\ Len(q) \in Nat
    BY <2>4, LenProperties
  <2> HIDE DEF w
  <2>6. Single(w)
    BY <2>4, <2>5 DEF Single
  <2>7. Ids(w) \subseteq Ids(q) \ {i}
    BY <2>1, <2>4 DEF Ids, Single
  <2>8. ASSUME NEW k \in DOMAIN q, q[k].id # i PROVE q[k].id \in Ids(w)
    <3>1. k # n
      BY <2>1, <2>8
    <3>2. PICK j \in 1 .. Len(q) - 1 : k = IF j < n THEN j ELSE j + 1
      <4>1. CASE k < n
        BY <2>5, <4>1
      <4>2. CASE k > n
        <5>1. k - 1 \in 1 .. Len(q) - 1 /\ ~(k - 1 < n) /\ k = (k - 1) + 1
          BY <2>5, <4>2
        <5> QED BY <5>1
      <4> QED BY <2>5, <3>1, <4>1, <4>2
    <3> QED BY <2>4, <2>5, <3>2 DEF Ids
  <2>9. Ids(w) = Ids(q) \ {i}
    BY <2>7, <2>8 DEF Ids
  <2>10. \A k \in DOMAIN w : \E j \in DOMAIN q : w[k] = q[j]
    BY <2>4
  <2> QED BY <2>3, <2>4, <2>6, <2>9, <2>10
<1> QED BY <1>1, <1>2

LEMMA WithItem ==
    ASSUME NEW q \in Seq(Items), NEW i \in Inputs, NEW s \in {"queued", "sending", "steering"},
           NEW t \in Turns \cup {0}
    PROVE  /\ With(q, i, s, t) \in Seq(Items) /\ DOMAIN With(q, i, s, t) = DOMAIN q
           /\ \A k \in DOMAIN q :
                  With(q, i, s, t)[k] =
                      IF q[k].id = i THEN [id |-> i, status |-> s, turn |-> t] ELSE q[k]
           /\ Single(q) => Single(With(q, i, s, t))
           /\ Ids(With(q, i, s, t)) = Ids(q)
<1> DEFINE item(k) == IF q[k].id = i THEN [id |-> i, status |-> s, turn |-> t] ELSE q[k]
<1>1. DOMAIN q = 1 .. Len(q) /\ Len(q) \in Nat
  BY LenProperties
<1>2. \A k \in 1 .. Len(q) : item(k) \in Items
  BY <1>1, ElementOfSeq DEF Items
<1>3. [k \in 1 .. Len(q) |-> item(k)] \in Seq(Items)
  BY <1>1, <1>2, IsASeq
<1>4. With(q, i, s, t) = [k \in 1 .. Len(q) |-> item(k)]
  BY <1>1 DEF With
<1>5. \A k \in DOMAIN q : With(q, i, s, t)[k].id = q[k].id
  BY <1>1, <1>4
<1>6. DOMAIN With(q, i, s, t) = DOMAIN q
  BY <1>1, <1>4
<1>7. Single(q) => Single(With(q, i, s, t))
  BY <1>5, <1>6 DEF Single
<1>8. Ids(With(q, i, s, t)) = Ids(q)
  BY <1>5, <1>6 DEF Ids
<1> QED BY <1>1, <1>3, <1>4, <1>6, <1>7, <1>8

-----------------------------------------------------------------------------
(* What a step leaves true of queues and requests *)

Grows ==
    /\ turns <= turns'
    /\ \A t \in 1 .. turns : origin'[t] = origin[t]
    /\ \A t \in Turns : heard[t] \subseteq heard'[t]

LEMMA SentKept ==
    ASSUME Typed, turns' \in Nat, Grows, NEW item \in Items, Sent(item)
    PROVE  Sent(item)'
<1>1. turns \in Nat /\ turns' \in Nat /\ item.turn \in Nat
  BY QueueAssumption DEF Typed, Items, Turns
<1>2. item.turn <= turns'
  BY <1>1 DEF Grows, Sent
<1>3. ASSUME item.status = "sending" PROVE origin'[item.turn] = item.id
  <2>1. item.turn # 0
    BY <1>3 DEF Sent
  <2>2. item.turn \in 1 .. turns
    BY <1>1, <2>1 DEF Sent
  <2> QED BY <1>3, <2>2 DEF Grows, Sent
<1> QED BY <1>2, <1>3 DEF Sent

LEMMA FineKept ==
    ASSUME Typed, turns' \in Nat, Grows, NEW r \in Requests, Fine(r),
           r.kind = "start" => run'[r.turn] = "absent"
    PROVE  Fine(r)'
<1>1. turns \in Nat /\ turns' \in Nat /\ r.turn \in Turns /\ Turns \subseteq Nat \ {0}
  <2>1. turns \in Nat /\ turns' \in Nat
    BY QueueAssumption DEF Typed
  <2>2. r.turn \in Turns
    BY DEF Requests
  <2>3. Turns \subseteq Nat \ {0}
    BY QueueAssumption DEF Turns
  <2> QED BY <2>1, <2>2, <2>3
<1>2. r.turn <= turns' /\ r.turn \in 1 .. turns
  <2>1. r.turn <= turns
    BY DEF Fine
  <2>2. turns <= turns'
    BY DEF Grows
  <2>3. \A n \in Nat \ {0} : n <= turns => n <= turns' /\ n \in 1 .. turns
    BY <1>1, <2>2
  <2>4. r.turn \in Nat \ {0}
    BY <1>1
  <2> QED BY <2>1, <2>3, <2>4
<1>3. ASSUME r.kind = "check"
      PROVE  /\ r.initial => origin'[r.turn] = r.id
             /\ r.answer = "received" => r.id \in heard'[r.turn]
             /\ \A item \in r.rest : Sent(item)' /\ item.turn # 0
  <2>1. r.rest \subseteq Items
    BY <1>3 DEF Requests
  <2> QED BY <1>1, <1>2, <1>3, <2>1, SentKept DEF Fine, Grows
<1> QED BY <1>2, <1>3 DEF Fine

LEMMA Kept ==
    ASSUME Typed, turns' \in Nat, Grows, NEW q \in Seq(Items), QueueOk(q),
           NEW w \in Seq(Requests), WireOk(w),
           \A k \in DOMAIN w : w[k].kind = "start" => run'[w[k].turn] = "absent"
    PROVE  QueueOk(q)' /\ WireOk(w)'
<1>1. /\ \A k \in DOMAIN q : q[k] \in Items
      /\ \A k \in DOMAIN w : w[k] \in Requests
  BY ElementOfSeq, LenProperties
<1>2. \A k \in DOMAIN q : Sent(q[k])'
  BY <1>1, SentKept DEF QueueOk
<1>3. \A k \in DOMAIN w : Fine(w[k])'
  BY <1>1, FineKept DEF WireOk
<1> QED BY <1>2, <1>3 DEF QueueOk, WireOk, Single, OneStart

LEMMA Proceeds ==
    ASSUME Typed, NEW q \in Seq(Items), NEW w \in Seq(Requests), WireOk(w),
           NEW caller \in {"load", "resume", "finish"}, NEW items \in SUBSET Items,
           \A item \in items : Sent(item) /\ item.turn # 0,
           NEW p \in BOOLEAN, Proceed(caller, items, q, p, w)
    PROVE  /\ queue' = q
           /\ wire' \in Seq(Requests) /\ WireOk(wire')
           /\ paused' \in BOOLEAN /\ drains' \in Nat
           /\ held' = {} \/ (held' = held /\ paused' = p)
<1>1. CASE items # {}
  <2>1. PICK item \in FirstOf(items) : wire' = Append(w, Check(caller, item, items \ {item}))
    BY <1>1 DEF Proceed
  <2>2. item \in Items /\ Sent(item) /\ item.turn # 0
    BY <2>1 DEF FirstOf
  <2> DEFINE r == Check(caller, item, items \ {item})
  <2>3. r \in Requests
    BY <2>2 DEF Check, Requests, Items
  <2>4. Fine(r)
    BY <2>2 DEF Check, Fine, Sent
  <2>5. r.kind # "start"
    BY DEF Check
  <2> HIDE DEF r
  <2>6. Append(w, r) \in Seq(Requests) /\ WireOk(Append(w, r))
    BY <2>3, <2>4, <2>5, AddedOk
  <2>7. wire' = Append(w, r)
    BY <2>1 DEF r
  <2> QED BY <1>1, <2>6, <2>7 DEF Proceed, Typed
<1>2. CASE items = {}
  <2>1. wire' = w /\ queue' = q
    BY <1>2 DEF Proceed
  <2>2. paused' \in BOOLEAN /\ drains' \in Nat
    <3>1. paused' = FALSE \/ paused' = p
      BY <1>2 DEF Proceed
    <3>2. paused' \in BOOLEAN
      BY <3>1
    <3>3. drains' = drains + 1 \/ drains' = drains
      BY <1>2 DEF Proceed, CallDrain
    <3>4. drains \in Nat
      BY DEF Typed
    <3> QED BY <3>2, <3>3, <3>4
  <2>3. held' = {} \/ (held' = held /\ paused' = p)
    BY <1>2 DEF Proceed
  <2> QED BY <2>1, <2>2, <2>3
<1> QED BY <1>1, <1>2

-----------------------------------------------------------------------------
(* A step of the queue *)

LEMMA HeardOn ==
    ASSUME \A t \in Turns : heard[t] \subseteq heard'[t], NEW i, Hearing(i) # {}
    PROVE  Hearing(i)' # {}
<1>1. PICK t \in Turns : i \in heard[t]
  BY DEF Hearing
<1>2. i \in heard'[t]
  BY <1>1
<1> QED BY <1>2 DEF Hearing

LEMMA StillThere ==
    ASSUME NeverLost, added' = added, withdrawn \subseteq withdrawn',
           \A t \in Turns : heard[t] \subseteq heard'[t],
           \A i \in Ids(queue) : i \in Ids(queue') \/ i \in withdrawn' \/ Hearing(i) # {}
    PROVE  NeverLost'
<1> SUFFICES ASSUME NEW i \in 1 .. added
             PROVE  i \in Ids(queue') \/ i \in withdrawn' \/ Hearing(i)' # {}
  BY DEF NeverLost
<1>1. i \in Ids(queue) \/ i \in withdrawn \/ Hearing(i) # {}
  BY DEF NeverLost
<1> QED BY <1>1, HeardOn

LEMMA ProceedKeeps ==
    ASSUME QueueInv, NEW q \in Seq(Items), QueueOk(q), NEW w \in Seq(Requests), WireOk(w),
           NEW caller \in {"load", "resume", "finish"}, NEW items \in SUBSET Items,
           \A item \in items : Sent(item) /\ item.turn # 0,
           NEW p \in BOOLEAN, Proceed(caller, items, q, p, w),
           UNCHANGED <<turn, server, removing, added, withdrawn, crashes>>,
           loaded' \in BOOLEAN, finishing' \subseteq Turns \X BOOLEAN,
           Ids(q) \subseteq Ids(queue),
           \A i \in Ids(queue) \ Ids(q) : Hearing(i) # {},
           loaded' /\ held \cap Ids(q) # {} => p
    PROVE  QueueInv'
<1> USE DEF turn, server
<1>1. /\ queue' = q
      /\ wire' \in Seq(Requests) /\ WireOk(wire')
      /\ paused' \in BOOLEAN /\ drains' \in Nat
      /\ held' = {} \/ (held' = held /\ paused' = p)
  <2>1. Typed
    BY DEF QueueInv
  <2> QED BY <2>1, Proceeds
<1>2. Typed'
  <2>1. Typed
    BY DEF QueueInv
  <2>2. held' \subseteq 1 .. added
    BY <1>1, <2>1 DEF Typed
  <2> QED BY <1>1, <2>1, <2>2 DEF Typed
<1>3. Grows
  BY <1>2 DEF Grows, QueueInv, Typed
<1>4. QueueOk(queue)' /\ WireOk(wire)'
  <2>1. Typed /\ QueueOk(queue')
    BY <1>1 DEF QueueInv
  <2>2. queue' \in Seq(Items)
    BY <1>1
  <2>3. \A k \in DOMAIN wire' : wire'[k].kind = "start" => run'[wire'[k].turn] = "absent"
    BY <1>1 DEF WireOk, Fine
  <2>4. turns' \in Nat
    BY QueueAssumption, <1>2 DEF Typed
  <2> QED BY <1>1, <1>2, <1>3, <2>1, <2>2, <2>3, <2>4, Kept
<1>5. RunsOk'
  BY DEF QueueInv, RunsOk, Hearing
<1>6. NeverLost'
  <2>1. NeverLost /\ \A i \in Ids(queue) : i \in Ids(queue') \/ Hearing(i) # {}
    BY <1>1 DEF QueueInv
  <2>2. \A t \in Turns : heard[t] \subseteq heard'[t]
    BY <1>3 DEF Grows
  <2> QED BY <2>1, <2>2, StillThere
<1>7. RestartHolds'
  BY <1>1 DEF RestartHolds
<1> QED BY <1>2, <1>4, <1>5, <1>6, <1>7 DEF QueueInv

LEMMA UncertainOk ==
    ASSUME QueueInv
    PROVE  /\ Uncertain(queue) \in SUBSET Items
           /\ \A item \in Uncertain(queue) : Sent(item) /\ item.turn # 0
<1>1. \A k \in DOMAIN queue : queue[k] \in Items /\ Sent(queue[k])
  <2>1. queue \in Seq(Items)
    BY DEF QueueInv, Typed
  <2> QED BY <2>1, LenProperties, ElementOfSeq DEF QueueInv, QueueOk
<1> QED BY <1>1 DEF Uncertain

LEMMA LoadStep == ASSUME QueueInv, Load PROVE QueueInv'
<1>1. PICK p \in BOOLEAN : p = (paused \/ queue # <<>>)
  OBVIOUS
<1>2. Proceed("load", Uncertain(queue), queue, p, wire)
  BY <1>1 DEF Load
<1>3. held \cap Ids(queue) # {} => p
  <2>1. queue = <<>> => Ids(queue) = {}
    BY DEF Ids
  <2> QED BY <1>1, <2>1
<1>4. /\ queue \in Seq(Items) /\ QueueOk(queue) /\ wire \in Seq(Requests) /\ WireOk(wire)
      /\ finishing' \subseteq Turns \X BOOLEAN
  BY DEF QueueInv, Typed, Load
<1>5. /\ UNCHANGED <<turn, server, removing, added, withdrawn, crashes>>
      /\ loaded' \in BOOLEAN
  BY DEF Load
<1> QED BY <1>2, <1>3, <1>4, <1>5, UncertainOk, ProceedKeeps

LEMMA ResumeStep == ASSUME QueueInv, Resume PROVE QueueInv'
<1>1. PICK p \in BOOLEAN : p = paused
  BY DEF QueueInv, Typed
<1>2. Proceed("resume", Uncertain(queue), queue, p, wire)
  BY <1>1 DEF Resume
<1>3. loaded' /\ held \cap Ids(queue) # {} => p
  BY <1>1 DEF Resume
<1>4. /\ queue \in Seq(Items) /\ QueueOk(queue) /\ wire \in Seq(Requests) /\ WireOk(wire)
      /\ finishing' \subseteq Turns \X BOOLEAN
  BY DEF QueueInv, Typed, Resume
<1>5. /\ UNCHANGED <<turn, server, removing, added, withdrawn, crashes>>
      /\ loaded' \in BOOLEAN
  BY DEF Resume, QueueInv, Typed
<1> QED BY <1>2, <1>3, <1>4, <1>5, UncertainOk, ProceedKeeps

LEMMA Asked ==
    ASSUME QueueInv, NEW k \in DOMAIN wire, Checking(k)
    PROVE  /\ wire[k].caller \in {"load", "resume", "finish"}
           /\ wire[k].rest \in SUBSET Items
           /\ \A item \in wire[k].rest : Sent(item) /\ item.turn # 0
           /\ wire[k].id \in Inputs /\ wire[k].turn \in Turns
           /\ wire[k].answer \in {"none", "received", "waiting", "not_received"}
           /\ wire[k].answer = "received" => wire[k].id \in heard[wire[k].turn]
<1>1. wire[k] \in Requests /\ Fine(wire[k]) /\ wire[k].kind = "check"
  <2>1. wire \in Seq(Requests)
    BY DEF QueueInv, Typed
  <2> QED BY <2>1, LenProperties, ElementOfSeq DEF QueueInv, WireOk, Checking
<1>2. wire[k] \in [kind : {"check"}, id : Inputs, turn : Turns, initial : BOOLEAN,
                   caller : {"load", "resume", "finish"}, rest : SUBSET Items, waited : {TRUE},
                   answer : {"none", "received", "waiting", "not_received"}]
  BY <1>1 DEF Requests
<1> QED BY <1>1, <1>2 DEF Fine

LEMMA ResetOk ==
    ASSUME QueueInv, NEW i \in Inputs
    PROVE  Reset(queue, i) \in Seq(Items) /\ QueueOk(Reset(queue, i)) /\ Ids(Reset(queue, i)) = Ids(queue)
<1> DEFINE q == Reset(queue, i)
<1>1. /\ q \in Seq(Items) /\ DOMAIN q = DOMAIN queue /\ Single(q) /\ Ids(q) = Ids(queue)
      /\ \A k \in DOMAIN q :
             q[k] = IF queue[k].id = i THEN [id |-> i, status |-> "queued", turn |-> 0] ELSE queue[k]
  <2>1. queue \in Seq(Items) /\ Single(queue)
    BY DEF QueueInv, Typed, QueueOk
  <2>2. "queued" \in {"queued", "sending", "steering"} /\ 0 \in Turns \cup {0}
    OBVIOUS
  <2>3. q = With(queue, i, "queued", 0)
    BY DEF Reset
  <2>4. \A s \in {"queued", "sending", "steering"}, t \in Turns \cup {0} :
            /\ With(queue, i, s, t) \in Seq(Items) /\ DOMAIN With(queue, i, s, t) = DOMAIN queue
            /\ Single(With(queue, i, s, t)) /\ Ids(With(queue, i, s, t)) = Ids(queue)
            /\ \A k \in DOMAIN queue :
                   With(queue, i, s, t)[k] =
                       IF queue[k].id = i THEN [id |-> i, status |-> s, turn |-> t] ELSE queue[k]
    BY <2>1, WithItem
  <2> HIDE DEF q
  <2> QED BY <2>2, <2>3, <2>4
<1>2. Sent([id |-> i, status |-> "queued", turn |-> 0])
  <2>1. 0 <= turns
    BY QueueAssumption DEF QueueInv, Typed
  <2> QED BY <2>1 DEF Sent
<1>3. \A k \in DOMAIN queue : Sent(queue[k])
  BY DEF QueueInv, QueueOk
<1> HIDE DEF q
<1>4. \A k \in DOMAIN q : Sent(q[k])
  BY <1>1, <1>2, <1>3
<1> QED BY <1>1, <1>4 DEF QueueOk, q

LEMMA WithoutOk ==
    ASSUME QueueInv, NEW i
    PROVE  /\ Without(queue, i) \in Seq(Items) /\ QueueOk(Without(queue, i))
           /\ Ids(Without(queue, i)) = Ids(queue) \ {i}
<1>1. queue \in Seq(Items) /\ Single(queue)
  BY DEF QueueInv, Typed, QueueOk
<1>2. \A k \in DOMAIN queue : Sent(queue[k])
  BY DEF QueueInv, QueueOk
<1> QED BY <1>1, <1>2, WithoutItem DEF QueueOk

LEMMA CheckFailsStep ==
    ASSUME QueueInv, NEW k \in DOMAIN wire, CheckFails(k) PROVE QueueInv'
<1>1. PICK p \in BOOLEAN : p = paused
  BY DEF QueueInv, Typed
<1>2. Proceed(wire[k].caller, wire[k].rest, queue, p, RemoveAt(wire, k))
  BY <1>1 DEF CheckFails
<1>3. loaded' /\ held \cap Ids(queue) # {} => p
  BY <1>1 DEF CheckFails, QueueInv, RestartHolds
<1>4. /\ queue \in Seq(Items) /\ QueueOk(queue) /\ finishing' \subseteq Turns \X BOOLEAN
      /\ loaded' \in BOOLEAN
  BY DEF QueueInv, Typed, CheckFails
<1>5. RemoveAt(wire, k) \in Seq(Requests) /\ WireOk(RemoveAt(wire, k))
  BY TakenOk DEF QueueInv
<1>6. UNCHANGED <<turn, server, removing, added, withdrawn, crashes>>
  BY DEF CheckFails
<1>7. Checking(k)
  BY DEF CheckFails
<1> QED BY ZenonT(60), <1>2, <1>3, <1>4, <1>5, <1>6, <1>7, Asked, ProceedKeeps

LEMMA CheckAnsweredStep ==
    ASSUME QueueInv, NEW k \in DOMAIN wire, CheckAnswered(k) PROVE QueueInv'
<1>1. PICK p \in BOOLEAN : p = paused
  BY DEF QueueInv, Typed
<1> DEFINE q == Apply(queue, wire[k])
<1>2. Proceed(wire[k].caller, wire[k].rest, q, p, RemoveAt(wire, k))
  BY <1>1 DEF CheckAnswered
<1>3. Checking(k) /\ wire[k].answer # "none"
  BY DEF CheckAnswered
<1>4. /\ q \in Seq(Items) /\ QueueOk(q)
      /\ Ids(q) \subseteq Ids(queue)
      /\ \A i \in Ids(queue) \ Ids(q) : Hearing(i) # {}
  <2>1. CASE wire[k].answer = "received"
    <3>1. q = Without(queue, wire[k].id)
      BY <2>1 DEF Apply
    <3>2. Hearing(wire[k].id) # {}
      BY <1>3, <2>1, Asked DEF Hearing
    <3> QED BY <3>1, <3>2, WithoutOk
  <2>2. CASE wire[k].answer = "not_received"
    <3>1. q = Reset(queue, wire[k].id)
      BY <2>2 DEF Apply
    <3> QED BY <1>3, <3>1, Asked, ResetOk
  <2>3. CASE wire[k].answer = "waiting"
    <3>1. q = queue
      BY <2>3 DEF Apply
    <3> QED BY <3>1 DEF QueueInv, Typed
  <2> QED BY <1>3, <2>1, <2>2, <2>3, Asked
<1>5. loaded' /\ held \cap Ids(q) # {} => p
  BY <1>1, <1>4 DEF CheckAnswered, QueueInv, RestartHolds
<1>6. finishing' \subseteq Turns \X BOOLEAN /\ loaded' \in BOOLEAN
  BY DEF QueueInv, Typed, CheckAnswered
<1>7. RemoveAt(wire, k) \in Seq(Requests) /\ WireOk(RemoveAt(wire, k))
  BY TakenOk DEF QueueInv
<1>8. UNCHANGED <<turn, server, removing, added, withdrawn, crashes>>
  BY DEF CheckAnswered
<1>9. /\ wire[k].caller \in {"load", "resume", "finish"}
      /\ wire[k].rest \in SUBSET Items
      /\ \A item \in wire[k].rest : Sent(item) /\ item.turn # 0
  BY <1>3, Asked
<1> HIDE DEF q
<1> QED BY <1>2, <1>4, <1>5, <1>6, <1>7, <1>8, <1>9, ProceedKeeps

LEMMA FinishStep ==
    ASSUME QueueInv, NEW t \in Turns, NEW b \in BOOLEAN, Finish(t, b) PROVE QueueInv'
<1>1. CASE ~b
  <2>1. Proceed("finish", Uncertain(queue), queue, TRUE, wire)
    BY <1>1 DEF Finish
  <2>2. /\ queue \in Seq(Items) /\ QueueOk(queue) /\ wire \in Seq(Requests) /\ WireOk(wire)
        /\ finishing' \subseteq Turns \X BOOLEAN /\ loaded' \in BOOLEAN
    BY DEF QueueInv, Typed, Finish
  <2>3. UNCHANGED <<turn, server, removing, added, withdrawn, crashes>>
    BY DEF Finish
  <2> QED BY <2>1, <2>2, <2>3, UncertainOk, ProceedKeeps
<1>2. CASE b
  <2>1. UNCHANGED <<saved, wire, held, loaded, turn, removing, server, added, withdrawn, crashes>>
    BY <1>2 DEF Finish
  <2>2. finishing' \subseteq Turns \X BOOLEAN /\ drains' \in Nat
    <3>1. finishing \subseteq Turns \X BOOLEAN /\ drains \in Nat
      BY DEF QueueInv, Typed
    <3>2. finishing' \subseteq finishing
      BY DEF Finish
    <3>3. drains' = drains + 1
      BY <1>2 DEF Finish, CallDrain
    <3> QED BY <3>1, <3>2, <3>3
  <2>3. Typed'
    BY <2>1, <2>2 DEF QueueInv, Typed, saved, turn, server
  <2>4. QueueOk(queue)' /\ WireOk(wire)'
    BY <2>1 DEF QueueInv, QueueOk, Single, Sent, WireOk, OneStart, Fine, saved, turn, server
  <2>5. RunsOk' /\ NeverLost' /\ RestartHolds'
    BY <2>1 DEF QueueInv, RunsOk, NeverLost, RestartHolds, Hearing, saved, turn, server
  <2> QED BY <2>3, <2>4, <2>5 DEF QueueInv
<1> QED BY <1>1, <1>2

LEMMA BeginOk ==
    ASSUME QueueInv, NEW i \in Inputs \cup {0}, Begin(i), UNCHANGED server
    PROVE  /\ turns' = turns + 1 /\ turns \in Nat /\ turns' \in 0 .. MaxTurns
           /\ turns + 1 \in Turns /\ active' = turns + 1
           /\ origin' = [origin EXCEPT ![turns + 1] = i]
           /\ origin' \in [Turns -> Inputs \cup {0}] /\ Grows
           /\ wire' \in Seq(Requests) /\ WireOk(wire)'
           /\ run[turns + 1] = "absent"
<1>1. /\ turns' = turns + 1 /\ turns \in Nat /\ turns' \in 0 .. MaxTurns /\ MaxTurns \in Nat
      /\ turns + 1 \in Turns /\ active' = turns + 1
  BY QueueAssumption DEF Begin, QueueInv, Typed, Turns
<1>2. origin' = [origin EXCEPT ![turns + 1] = i] /\ origin \in [Turns -> Inputs \cup {0}]
  BY DEF Begin, QueueInv, Typed
<1>3. origin' \in [Turns -> Inputs \cup {0}]
  BY <1>2
<1>4. Grows
  <2>1. \A t \in 1 .. turns : t \in Turns /\ t # turns + 1
    BY <1>1 DEF Turns
  <2>2. heard' = heard
    BY DEF server
  <2> QED BY <1>1, <1>2, <2>1, <2>2 DEF Grows
<1>5. run[turns + 1] = "absent"
  BY <1>1 DEF QueueInv, RunsOk
<1>6. PICK r \in Requests : r = Start(turns + 1) /\ r.kind = "start" /\ r.turn = turns + 1
  <2>1. \A t \in Turns : /\ Start(t) \in Requests
                        /\ Start(t).kind = "start" /\ Start(t).turn = t
    BY DEF Start, Requests
  <2> QED BY <1>1, <2>1
<1>7. Fine(r)'
  <2>1. run'[turns + 1] = "absent" /\ turns + 1 <= turns'
    BY <1>1, <1>5 DEF server
  <2>2. r.kind # "check"
    BY <1>6
  <2>3. r.turn <= turns' /\ run'[r.turn] = "absent"
    BY <1>6, <2>1
  <2> QED BY <2>2, <2>3 DEF Fine
<1>8. wire' = Append(wire, r) /\ wire \in Seq(Requests)
  BY <1>6 DEF Begin, QueueInv, Typed
<1>9. /\ wire' \in Seq(Requests)
      /\ DOMAIN wire' = 1 .. Len(wire) + 1 /\ DOMAIN wire = 1 .. Len(wire) /\ Len(wire) \in Nat
      /\ \A k \in 1 .. Len(wire) : wire'[k] = wire[k]
      /\ wire'[Len(wire) + 1] = r
  BY <1>6, <1>8, AppendProperties, LenProperties
<1>10. \A k \in DOMAIN wire : wire[k] \in Requests /\ Fine(wire[k]) /\ Fine(wire[k])' /\ wire[k].turn # turns + 1
  <2> SUFFICES ASSUME NEW k \in DOMAIN wire
               PROVE wire[k] \in Requests /\ Fine(wire[k]) /\ Fine(wire[k])' /\ wire[k].turn # turns + 1
    OBVIOUS
  <2>1. PICK x \in Requests : x = wire[k]
    BY <1>8, ElementOfSeq, <1>9
  <2>2. Fine(x) /\ x.turn <= turns /\ (x.kind = "start" => run'[x.turn] = "absent")
    BY <2>1 DEF QueueInv, WireOk, Fine, server
  <2>3. Fine(x)'
    BY <1>1, <1>4, <2>2, FineKept DEF QueueInv
  <2>4. x.turn \in Nat
    <3>1. x.turn \in Turns
      BY DEF Requests
    <3> QED BY <3>1, QueueAssumption DEF Turns
  <2>5. x.turn # turns + 1
    BY <1>1, <2>2, <2>4
  <2>6. wire'[k] = x
    BY <1>9, <2>1
  <2> QED BY <2>1, <2>2, <2>3, <2>5, <2>6, <1>9
<1>11. \A k \in DOMAIN wire' : Fine(wire[k])'
  <2> SUFFICES ASSUME NEW k \in DOMAIN wire' PROVE Fine(wire[k])'
    OBVIOUS
  <2>1. CASE k \in DOMAIN wire
    BY <1>9, <1>10, <2>1
  <2>2. CASE k = Len(wire) + 1
    BY <1>7, <1>9, <2>2
  <2> QED BY <1>9, <2>1, <2>2
<1>12. OneStart(wire)'
  <2> SUFFICES ASSUME NEW j \in DOMAIN wire', NEW k \in DOMAIN wire',
                      wire'[j].kind = "start", wire'[k].kind = "start", wire'[j].turn = wire'[k].turn
               PROVE  j = k
    BY DEF OneStart
  <2>1. CASE j \in DOMAIN wire /\ k \in DOMAIN wire
    BY <1>9, <2>1 DEF QueueInv, WireOk, OneStart
  <2>2. CASE j \notin DOMAIN wire \/ k \notin DOMAIN wire
    BY <1>6, <1>9, <1>10, <2>2
  <2> QED BY <2>1, <2>2
<1> QED BY <1>1, <1>2, <1>3, <1>4, <1>5, <1>9, <1>11, <1>12 DEF WireOk

LEMMA AppendItem ==
    ASSUME NEW q \in Seq(Items), Single(q), NEW item \in Items, item.id \notin Ids(q)
    PROVE  /\ Append(q, item) \in Seq(Items) /\ Single(Append(q, item))
           /\ Ids(Append(q, item)) = Ids(q) \cup {item.id}
           /\ \A k \in DOMAIN Append(q, item) :
                  Append(q, item)[k] = item \/ \E j \in DOMAIN q : Append(q, item)[k] = q[j]
<1> DEFINE w == Append(q, item)
<1>1. /\ w \in Seq(Items)
      /\ DOMAIN w = 1 .. Len(q) + 1 /\ DOMAIN q = 1 .. Len(q) /\ Len(q) \in Nat
      /\ \A k \in 1 .. Len(q) : w[k] = q[k]
      /\ w[Len(q) + 1] = item
  BY AppendProperties, LenProperties
<1> HIDE DEF w
<1>2. \A k \in DOMAIN w : k \in DOMAIN q \/ k = Len(q) + 1
  BY <1>1
<1>3. \A k \in DOMAIN q : w[k].id # item.id /\ w[k] = q[k] /\ k \in DOMAIN w
  BY <1>1 DEF Ids
<1>4. Len(q) + 1 \in DOMAIN w
  BY <1>1
<1>5. Single(w)
  BY <1>1, <1>2, <1>3 DEF Single
<1>6. Ids(w) = Ids(q) \cup {item.id}
  <2>1. Ids(w) \subseteq Ids(q) \cup {item.id}
    BY <1>1, <1>2, <1>3 DEF Ids
  <2>2. Ids(q) \subseteq Ids(w)
    BY <1>3 DEF Ids
  <2>3. item.id \in Ids(w)
    BY <1>1, <1>4 DEF Ids
  <2> QED BY <2>1, <2>2, <2>3
<1>7. \A k \in DOMAIN w : w[k] = item \/ \E j \in DOMAIN q : w[k] = q[j]
  BY <1>1, <1>2, <1>3
<1> QED BY <1>1, <1>5, <1>6, <1>7 DEF w

\* A step that leaves the turns and the server alone, and the requests that
\* start a turn.
LEMMA HostKeeps ==
    ASSUME QueueInv, UNCHANGED <<turns, origin, run, heard>>, Typed',
           QueueOk(queue'), WireOk(wire')
    PROVE  QueueOk(queue)' /\ WireOk(wire)'
<1>1. queue' \in Seq(Items) /\ wire' \in Seq(Requests)
  BY DEF Typed
<1>2. Grows /\ turns' \in Nat /\ Typed
  BY QueueAssumption DEF Grows, QueueInv, Typed
<1>3. \A k \in DOMAIN wire' : wire'[k].kind = "start" => run'[wire'[k].turn] = "absent"
  BY DEF WireOk, Fine
<1> QED BY <1>1, <1>2, <1>3, Kept

LEMMA EnqueueStep == ASSUME QueueInv, Enqueue PROVE QueueInv'
<1> USE DEF turn, server
<1>1. PICK item \in Items : /\ item = [id |-> added + 1, status |-> "queued", turn |-> 0]
                            /\ item.id = added + 1 /\ item.turn = 0 /\ item.status = "queued"
  <2>1. added + 1 \in Inputs
    BY QueueAssumption DEF Enqueue, QueueInv, Typed, Inputs
  <2>2. \A i \in Inputs : [id |-> i, status |-> "queued", turn |-> 0] \in Items
    BY DEF Items
  <2> QED BY <2>1, <2>2
<1>2. queue' = Append(queue, item) /\ added' = added + 1 /\ added \in Nat
  BY <1>1, QueueAssumption DEF Enqueue, QueueInv, Typed
<1>3. item.id \notin Ids(queue)
  BY <1>1, <1>2 DEF QueueInv, Typed
<1>4. queue \in Seq(Items) /\ Single(queue) /\ \A k \in DOMAIN queue : Sent(queue[k])
  BY DEF QueueInv, Typed, QueueOk
<1>5. /\ queue' \in Seq(Items) /\ Single(queue')
      /\ Ids(queue') = Ids(queue) \cup {added + 1}
      /\ \A k \in DOMAIN queue' : queue'[k] = item \/ \E j \in DOMAIN queue : queue'[k] = queue[j]
  BY <1>1, <1>2, <1>3, <1>4, AppendItem
<1>6. Sent(item)
  <2>1. 0 <= turns
    BY QueueAssumption DEF QueueInv, Typed
  <2> QED BY <1>1, <2>1 DEF Sent
<1>7. QueueOk(queue')
  BY <1>4, <1>5, <1>6 DEF QueueOk
<1>8. Typed'
  <2>1. drains' \in Nat
    BY DEF Enqueue, CallDrain, QueueInv, Typed
  <2>2. added' \in 0 .. MaxInputs /\ Ids(queue') \subseteq 1 .. added' /\ held' \subseteq 1 .. added'
    BY <1>2, <1>5, QueueAssumption DEF Enqueue, QueueInv, Typed
  <2> QED BY <1>5, <2>1, <2>2 DEF Enqueue, QueueInv, Typed
<1>9. QueueOk(queue)' /\ WireOk(wire)'
  <2>1. UNCHANGED <<turns, origin, run, heard>> /\ wire' = wire
    BY DEF Enqueue
  <2>2. WireOk(wire')
    BY <2>1 DEF QueueInv
  <2> QED BY <1>7, <1>8, <2>1, <2>2, HostKeeps
<1>10. RunsOk'
  BY DEF Enqueue, QueueInv, RunsOk, Hearing
<1>11. NeverLost'
  <2> SUFFICES ASSUME NEW i \in 1 .. added + 1
               PROVE  i \in Ids(queue') \/ i \in withdrawn \/ Hearing(i)' # {}
    BY <1>2 DEF NeverLost, Enqueue
  <2>1. CASE i = added + 1
    BY <1>5, <2>1
  <2>2. CASE i \in 1 .. added
    <3>1. i \in Ids(queue) \/ i \in withdrawn \/ Hearing(i) # {}
      BY <2>2 DEF QueueInv, NeverLost
    <3>2. \A t \in Turns : heard[t] \subseteq heard'[t]
      BY DEF Enqueue
    <3> QED BY <1>5, <3>1, <3>2, HeardOn
  <2> QED BY <1>2, <2>1, <2>2
<1>12. RestartHolds'
  <2>1. added + 1 \notin held
    BY <1>2 DEF QueueInv, Typed
  <2> QED BY <1>5, <2>1 DEF Enqueue, QueueInv, RestartHolds
<1> QED BY <1>8, <1>9, <1>10, <1>11, <1>12 DEF QueueInv

\* A step that takes a message from the queue.
LEMMA TakenStep ==
    ASSUME QueueInv, NEW i, queue' = Without(queue, i), Typed',
           UNCHANGED <<paused, loaded, turns, origin, run, heard, waiting, wire, added, held>>,
           removing' \subseteq removing, withdrawn \subseteq withdrawn',
           i \in withdrawn' \/ Hearing(i) # {}
    PROVE  QueueInv'
<1>1. QueueOk(queue') /\ Ids(queue') = Ids(queue) \ {i}
  BY WithoutOk
<1>2. QueueOk(queue)' /\ WireOk(wire)'
  <2>1. WireOk(wire')
    BY DEF QueueInv
  <2> QED BY <1>1, <2>1, HostKeeps
<1>3. RunsOk'
  BY DEF QueueInv, RunsOk, Hearing
<1>4. NeverLost'
  <2>1. \A j \in Ids(queue) : j \in Ids(queue') \/ j \in withdrawn' \/ Hearing(j) # {}
    BY <1>1
  <2>2. NeverLost /\ \A t \in Turns : heard[t] \subseteq heard'[t]
    BY DEF QueueInv
  <2> QED BY <2>1, <2>2, StillThere
<1>5. RestartHolds'
  BY <1>1 DEF QueueInv, RestartHolds
<1> QED BY <1>2, <1>3, <1>4, <1>5 DEF QueueInv

LEMMA WithdrawStep == ASSUME QueueInv, NEW i \in Inputs, Withdraw(i) PROVE QueueInv'
<1>1. queue' \in Seq(Items) /\ Ids(queue') = Ids(queue) \ {i}
  BY WithoutOk DEF Withdraw
<1>2. Typed'
  BY <1>1 DEF Withdraw, QueueInv, Typed, turn, calls, server
<1> QED BY <1>2, TakenStep DEF Withdraw, turn, calls, server

LEMMA ReceivedStep == ASSUME QueueInv, NEW i \in Inputs, Received(i) PROVE QueueInv'
<1>1. queue' \in Seq(Items) /\ Ids(queue') = Ids(queue) \ {i}
  BY WithoutOk DEF Received
<1>2. drains' \in Nat
  BY DEF Received, CallDrain, QueueInv, Typed
<1>3. Typed'
  BY <1>1, <1>2 DEF Received, QueueInv, Typed, turn, server, history
<1>4. Hearing(i) # {}
  BY DEF Received, QueueInv, RunsOk
<1> QED BY <1>3, <1>4, TakenStep DEF Received, turn, server, history

\* A step that leaves the queue, the requests and the server alone.
LEMMA Aside ==
    ASSUME QueueInv, Typed',
           UNCHANGED <<saved, loaded, wire, turns, origin, server, added, withdrawn, held>>,
           \A i \in removing' : Hearing(i) # {}
    PROVE  QueueInv'
<1> USE DEF saved, server
<1>1. QueueOk(queue)' /\ WireOk(wire)'
  BY HostKeeps DEF QueueInv
<1>2. RunsOk'
  BY DEF QueueInv, RunsOk, Hearing
<1>3. NeverLost' /\ RestartHolds'
  BY DEF QueueInv, NeverLost, RestartHolds, Hearing
<1> QED BY <1>1, <1>2, <1>3 DEF QueueInv

LEMMA InterruptStep == ASSUME QueueInv, Interrupt PROVE QueueInv'
<1>1. Typed'
  BY DEF Interrupt, QueueInv, Typed, saved, calls, server, history
<1> QED BY <1>1, Aside DEF Interrupt, QueueInv, RunsOk, calls, history

LEMMA EndTurnStep ==
    ASSUME QueueInv, NEW t \in Turns, NEW b \in BOOLEAN, EndTurn(t, b) PROVE QueueInv'
<1>1. finishing' \subseteq Turns \X BOOLEAN
  <2>1. PICK c \in BOOLEAN : c = (b /\ ~stopping)
    OBVIOUS
  <2>2. finishing' = finishing \cup {<<t, c>>}
    BY <2>1 DEF EndTurn
  <2> QED BY <2>2 DEF QueueInv, Typed
<1>2. active' \in 0 .. turns /\ stopping' \in BOOLEAN
  <2>1. active' = 0 /\ stopping' = FALSE
    BY DEF EndTurn
  <2>2. turns \in 0 .. MaxTurns /\ MaxTurns \in Nat
    BY QueueAssumption DEF QueueInv, Typed
  <2>3. active' \in 0 .. turns
    BY <2>1, <2>2
  <2>4. stopping' \in BOOLEAN
    BY <2>1
  <2> QED BY <2>3, <2>4
<1>3. Typed'
  BY <1>1, <1>2 DEF EndTurn, QueueInv, Typed, saved, server, history
<1>4. \A i \in removing' : Hearing(i) # {}
  BY DEF EndTurn, QueueInv, RunsOk
<1>5. UNCHANGED <<saved, loaded, wire, turns, origin, server, added, withdrawn, held>>
  BY DEF EndTurn, history
<1> QED BY <1>3, <1>4, <1>5, Aside

LEMMA SeeStartedStep ==
    ASSUME QueueInv, NEW t \in Turns, SeeStarted(t) PROVE QueueInv'
<1>1. origin[t] \in heard[t] /\ origin[t] \in Inputs
  <2>1. origin[t] # 0 /\ run[t] # "absent" /\ origin[t] \in Inputs \cup {0}
    BY DEF SeeStarted, QueueInv, Typed
  <2> QED BY <2>1 DEF QueueInv, RunsOk
<1>2. told' \in [Turns -> SUBSET Inputs] /\ removing' \subseteq Inputs
  BY <1>1 DEF SeeStarted, QueueInv, Typed
<1>3. Typed'
  BY <1>2 DEF SeeStarted, QueueInv, Typed, saved, server, history
<1>4. \A i \in removing' : Hearing(i) # {}
  BY <1>1 DEF SeeStarted, QueueInv, RunsOk, Hearing
<1>5. UNCHANGED <<saved, loaded, wire, turns, origin, server, added, withdrawn, held>>
  BY DEF SeeStarted, history
<1> QED BY <1>3, <1>4, <1>5, Aside

LEMMA SeeReceivedStep ==
    ASSUME QueueInv, NEW t \in Turns, NEW i \in Inputs, SeeReceived(t, i) PROVE QueueInv'
<1>1. told' \in [Turns -> SUBSET Inputs] /\ removing' \subseteq Inputs
  BY DEF SeeReceived, QueueInv, Typed
<1>2. Typed'
  BY <1>1 DEF SeeReceived, QueueInv, Typed, saved, server, history
<1>3. \A j \in removing' : Hearing(j) # {}
  BY DEF SeeReceived, QueueInv, RunsOk, Hearing
<1>4. UNCHANGED <<saved, loaded, wire, turns, origin, server, added, withdrawn, held>>
  BY DEF SeeReceived, history
<1> QED BY <1>2, <1>3, <1>4, Aside

\* A turn begins: no run is told of it yet.
LEMMA BeginRuns ==
    ASSUME QueueInv, NEW i \in Inputs \cup {0}, Begin(i), UNCHANGED <<server, removing>>
    PROVE  RunsOk'
<1>1. /\ turns' = turns + 1 /\ turns \in Nat /\ turns + 1 \in Turns
      /\ origin' = [origin EXCEPT ![turns + 1] = i] /\ origin \in [Turns -> Inputs \cup {0}]
      /\ run[turns + 1] = "absent"
  BY BeginOk DEF QueueInv, Typed
<1>2. \A t \in Turns : t > turns' => run'[t] = "absent"
  <2>1. \A t \in Turns : t > turns => run[t] = "absent"
    BY DEF QueueInv, RunsOk
  <2>2. \A t \in Turns : t \in Nat
    BY QueueAssumption DEF Turns
  <2> QED BY <1>1, <2>1, <2>2 DEF server
<1>3. \A t \in Turns : run'[t] # "absent" => origin'[t] \in heard'[t] \cup {0}
  BY <1>1 DEF QueueInv, RunsOk, server
<1> QED BY <1>2, <1>3 DEF QueueInv, RunsOk, Hearing, server

LEMMA StartUserTurnStep == ASSUME QueueInv, StartUserTurn PROVE QueueInv'
<1> USE DEF saved, calls, server, history
<1>1. Begin(0) /\ UNCHANGED <<saved, loaded, calls, server, history>>
  BY DEF StartUserTurn
<1>2. 0 \in Inputs \cup {0} /\ UNCHANGED <<server, removing>>
  BY <1>1
<1>3. /\ turns' = turns + 1 /\ turns \in Nat /\ turns' \in 0 .. MaxTurns
      /\ active' = turns + 1 /\ origin' \in [Turns -> Inputs \cup {0}] /\ Grows
      /\ wire' \in Seq(Requests) /\ WireOk(wire)'
  BY <1>1, <1>2, BeginOk
<1>4. active' \in 0 .. turns' /\ UNCHANGED <<stopping, told>>
  BY <1>1, <1>3 DEF Begin
<1>5. Typed'
  BY <1>1, <1>3, <1>4 DEF QueueInv, Typed
<1>6. QueueOk(queue)'
  <2>1. Typed /\ queue' \in Seq(Items) /\ QueueOk(queue') /\ turns' \in Nat
    BY <1>1, <1>3 DEF QueueInv, Typed
  <2>2. \A k \in DOMAIN queue' : queue'[k] \in Items /\ Sent(queue'[k])
    BY <2>1, ElementOfSeq, LenProperties DEF QueueOk
  <2>3. \A k \in DOMAIN queue' : Sent(queue[k])'
    BY <1>3, <2>1, <2>2, SentKept
  <2> QED BY <2>1, <2>3 DEF QueueOk, Single
<1>7. RunsOk'
  BY <1>1, <1>2, BeginRuns
<1>8. NeverLost' /\ RestartHolds'
  BY <1>1 DEF QueueInv, NeverLost, RestartHolds, Hearing
<1> QED BY <1>3, <1>5, <1>6, <1>7, <1>8 DEF QueueInv

\* The first message of the queue is marked as sent to the turn that begins.
LEMMA DrainStep == ASSUME QueueInv, Drain PROVE QueueInv'
<1> USE DEF server, history
<1>1. /\ drains' \in Nat
      /\ UNCHANGED <<paused, loaded, finishing, removing, server, history>>
  <2>1. drains \in Nat /\ drains > 0 /\ drains' = drains - 1
    BY DEF Drain, QueueInv, Typed
  <2> QED BY <2>1 DEF Drain
<1>2. CASE UNCHANGED <<turn, queue, wire>>
  <2>1. Typed'
    BY <1>1, <1>2 DEF QueueInv, Typed, turn
  <2>2. UNCHANGED <<saved, loaded, wire, turns, origin, server, added, withdrawn, held>>
    BY <1>1, <1>2 DEF turn, saved
  <2>3. \A i \in removing' : Hearing(i) # {}
    BY <1>1 DEF QueueInv, RunsOk
  <2> QED BY <2>1, <2>2, <2>3, Aside
<1>3. CASE /\ Dispatchable /\ Begin(queue[1].id)
           /\ queue' = With(queue, queue[1].id, "sending", turns + 1)
  <2>1. queue \in Seq(Items) /\ Single(queue) /\ 1 \in DOMAIN queue
    <3>1. queue \in Seq(Items) /\ queue # <<>> /\ Single(queue)
      BY <1>3 DEF Dispatchable, QueueInv, Typed, QueueOk
    <3> QED BY <3>1, EmptySeq, LenProperties
  <2>2. PICK i \in Inputs : i = queue[1].id
    <3>1. queue[1] \in Items
      BY <2>1, LenProperties, ElementOfSeq
    <3> QED BY <3>1 DEF Items
  <2>3. Begin(i)
    BY <1>3, <2>2
  <2>4. /\ turns' = turns + 1 /\ turns \in Nat /\ turns' \in 0 .. MaxTurns /\ turns + 1 \in Turns
        /\ active' = turns + 1 /\ origin' = [origin EXCEPT ![turns + 1] = i]
        /\ origin' \in [Turns -> Inputs \cup {0}] /\ Grows
        /\ wire' \in Seq(Requests) /\ WireOk(wire)'
    BY <1>1, <2>3, BeginOk
  <2>5. PICK t \in Turns : t = turns + 1
    BY <2>4
  <2>6. /\ queue' \in Seq(Items) /\ DOMAIN queue' = DOMAIN queue /\ Single(queue')
        /\ Ids(queue') = Ids(queue)
        /\ \A k \in DOMAIN queue :
               queue'[k] = IF queue[k].id = i THEN [id |-> i, status |-> "sending", turn |-> t] ELSE queue[k]
    <3>1. queue' = With(queue, i, "sending", t)
      BY <1>3, <2>2, <2>5
    <3>2. "sending" \in {"queued", "sending", "steering"} /\ t \in Turns \cup {0}
      OBVIOUS
    <3>3. \A s \in {"queued", "sending", "steering"}, u \in Turns \cup {0} :
              /\ With(queue, i, s, u) \in Seq(Items) /\ DOMAIN With(queue, i, s, u) = DOMAIN queue
              /\ Single(With(queue, i, s, u)) /\ Ids(With(queue, i, s, u)) = Ids(queue)
              /\ \A k \in DOMAIN queue :
                     With(queue, i, s, u)[k] =
                         IF queue[k].id = i THEN [id |-> i, status |-> s, turn |-> u] ELSE queue[k]
      BY <2>1, WithItem
    <3> QED BY <3>1, <3>2, <3>3
  <2>7. PICK item \in Items : /\ item = [id |-> i, status |-> "sending", turn |-> t]
                              /\ item.id = i /\ item.status = "sending" /\ item.turn = t
    <3>1. [id |-> i, status |-> "sending", turn |-> t] \in Items
      BY DEF Items
    <3> QED BY <3>1
  <2>8. Sent(item)'
    <3>1. origin'[t] = i /\ t <= turns' /\ t # 0
      BY <2>4, <2>5 DEF QueueInv, Typed
    <3> QED BY <2>7, <3>1 DEF Sent
  <2>9. \A k \in DOMAIN queue' : Sent(queue[k])'
    <3> SUFFICES ASSUME NEW k \in DOMAIN queue' PROVE Sent(queue[k])'
      OBVIOUS
    <3>1. CASE queue[k].id = i
      BY <2>6, <2>7, <2>8, <3>1
    <3>2. CASE queue[k].id # i
      <4>1. PICK x \in Items : x = queue[k]
        BY <2>1, <2>6, ElementOfSeq, LenProperties
      <4>2. Sent(x)
        BY <2>6, <4>1 DEF QueueInv, QueueOk
      <4>3. Sent(x)'
        BY <2>4, <4>2, SentKept DEF QueueInv
      <4>4. queue'[k] = x
        BY <2>6, <3>2, <4>1
      <4> QED BY <4>3, <4>4
    <3> QED BY <3>1, <3>2
  <2>10. QueueOk(queue)'
    BY <2>6, <2>9 DEF QueueOk, Single
  <2>11. Typed'
    <3>1. active' \in 0 .. turns' /\ UNCHANGED <<stopping, told>>
      BY <2>3, <2>4 DEF Begin
    <3> QED BY <1>1, <2>4, <2>6, <3>1 DEF QueueInv, Typed
  <2>12. RunsOk'
    BY <1>1, <2>3, BeginRuns
  <2>13. NeverLost' /\ RestartHolds'
    BY <1>1, <2>6 DEF QueueInv, NeverLost, RestartHolds, Hearing
  <2> QED BY <2>4, <2>10, <2>11, <2>12, <2>13 DEF QueueInv
<1> QED BY <1>2, <1>3 DEF Drain

-----------------------------------------------------------------------------
(* Steering *)

LEMMA SteerStep == ASSUME QueueInv, NEW i \in Inputs, Steer(i) PROVE QueueInv'
<1> USE DEF turn, calls, server, history
<1>1. /\ active # 0 /\ UNCHANGED <<paused, loaded, turn, calls, server, history>>
      /\ queue' = With(queue, i, "steering", active) /\ wire' = Append(wire, Post(i, active))
  BY DEF Steer
<1>2. PICK t \in Turns : t = active /\ t <= turns
  <2>1. active \in 0 .. turns /\ turns \in 0 .. MaxTurns /\ MaxTurns \in Nat
    BY QueueAssumption DEF QueueInv, Typed
  <2> QED BY <1>1, <2>1 DEF Turns
<1>3. queue \in Seq(Items) /\ Single(queue)
  BY DEF QueueInv, Typed, QueueOk
<1>4. /\ queue' \in Seq(Items) /\ DOMAIN queue' = DOMAIN queue /\ Single(queue')
      /\ Ids(queue') = Ids(queue)
      /\ \A k \in DOMAIN queue :
             queue'[k] = IF queue[k].id = i THEN [id |-> i, status |-> "steering", turn |-> t] ELSE queue[k]
  <2>1. queue' = With(queue, i, "steering", t)
    BY <1>1, <1>2
  <2>2. "steering" \in {"queued", "sending", "steering"} /\ t \in Turns \cup {0}
    OBVIOUS
  <2>3. \A s \in {"queued", "sending", "steering"}, u \in Turns \cup {0} :
            /\ With(queue, i, s, u) \in Seq(Items) /\ DOMAIN With(queue, i, s, u) = DOMAIN queue
            /\ Single(With(queue, i, s, u)) /\ Ids(With(queue, i, s, u)) = Ids(queue)
            /\ \A k \in DOMAIN queue :
                   With(queue, i, s, u)[k] =
                       IF queue[k].id = i THEN [id |-> i, status |-> s, turn |-> u] ELSE queue[k]
    BY <1>3, WithItem
  <2> QED BY <2>1, <2>2, <2>3
<1>5. QueueOk(queue')
  <2>1. Sent([id |-> i, status |-> "steering", turn |-> t])
    <3>1. t # 0
      BY QueueAssumption DEF Turns
    <3> QED BY <1>2, <3>1 DEF Sent
  <2>2. \A k \in DOMAIN queue : Sent(queue[k])
    BY DEF QueueInv, QueueOk
  <2> QED BY <1>4, <2>1, <2>2 DEF QueueOk
<1>6. wire' \in Seq(Requests) /\ WireOk(wire')
  <2>1. PICK r \in Requests : r = Post(i, t) /\ r.kind = "steer" /\ r.turn = t
    <3>1. Post(i, t) \in Requests /\ Post(i, t).kind = "steer" /\ Post(i, t).turn = t
      BY DEF Post, Requests
    <3> QED BY <3>1
  <2>2. Fine(r)
    BY <1>2, <2>1 DEF Fine
  <2>3. r.kind # "start" /\ wire' = Append(wire, r)
    BY <1>1, <1>2, <2>1
  <2>4. Typed /\ wire \in Seq(Requests) /\ WireOk(wire)
    BY DEF QueueInv, Typed
  <2> QED BY <2>2, <2>3, <2>4, AddedOk
<1>7. Typed'
  BY <1>1, <1>4, <1>6 DEF QueueInv, Typed
<1>8. QueueOk(queue)' /\ WireOk(wire)'
  BY <1>1, <1>5, <1>6, <1>7, HostKeeps
<1>9. RunsOk' /\ NeverLost' /\ RestartHolds'
  BY <1>1, <1>4 DEF QueueInv, RunsOk, NeverLost, RestartHolds, Hearing
<1> QED BY <1>7, <1>8, <1>9 DEF QueueInv

\* What a request to steer may be.
LEMMA Posted ==
    ASSUME QueueInv, NEW k \in DOMAIN wire, wire[k].kind = "steer"
    PROVE  /\ wire[k] \in [kind : {"steer"}, id : Inputs, turn : Turns, waited : BOOLEAN,
                           answer : {"none", "refused"}]
           /\ Fine(wire[k]) /\ wire[k].turn <= turns
<1>1. wire[k] \in Requests /\ Fine(wire[k])
  <2>1. wire \in Seq(Requests)
    BY DEF QueueInv, Typed
  <2> QED BY <2>1, LenProperties, ElementOfSeq DEF QueueInv, WireOk
<1> QED BY <1>1 DEF Requests, Fine

LEMMA PostChanged ==
    ASSUME QueueInv, NEW k \in DOMAIN wire, wire[k].kind = "steer",
           NEW r \in [kind : {"steer"}, id : Inputs, turn : Turns, waited : BOOLEAN,
                      answer : {"none", "refused"}],
           r.turn = wire[k].turn
    PROVE  [wire EXCEPT ![k] = r] \in Seq(Requests) /\ WireOk([wire EXCEPT ![k] = r])
<1>1. r \in Requests /\ r.kind = "steer"
  BY DEF Requests
<1>2. Fine(r)
  BY <1>1, Posted DEF Fine
<1> QED BY <1>1, <1>2, ChangedOk DEF QueueInv

LEMMA SteerRefusedStep ==
    ASSUME QueueInv, NEW k \in DOMAIN wire, SteerRefused(k) PROVE QueueInv'
<1> USE DEF turn, server, history
<1>1. wire[k].kind = "steer" /\ wire[k].id \in Inputs
  BY Posted DEF SteerRefused
<1>2. queue' \in Seq(Items) /\ QueueOk(queue') /\ Ids(queue') = Ids(queue)
  BY <1>1, ResetOk DEF SteerRefused
<1>3. wire' \in Seq(Requests) /\ WireOk(wire')
  BY TakenOk DEF SteerRefused, QueueInv
<1>4. drains' \in Nat
  BY DEF SteerRefused, CallDrain, QueueInv, Typed
<1>5. UNCHANGED <<paused, loaded, turn, finishing, removing, server, history>>
  BY DEF SteerRefused
<1>6. Typed'
  BY <1>2, <1>3, <1>4, <1>5 DEF QueueInv, Typed
<1>7. QueueOk(queue)' /\ WireOk(wire)'
  BY <1>2, <1>3, <1>5, <1>6, HostKeeps
<1>8. RunsOk' /\ NeverLost' /\ RestartHolds'
  BY <1>2, <1>5 DEF QueueInv, RunsOk, NeverLost, RestartHolds, Hearing
<1> QED BY <1>6, <1>7, <1>8 DEF QueueInv

LEMMA SteerFailsStep ==
    ASSUME QueueInv, NEW k \in DOMAIN wire, SteerFails(k) PROVE QueueInv'
<1> USE DEF turn, calls, server, history
<1>1. wire[k].kind = "steer" /\ paused' = TRUE
      /\ UNCHANGED <<queue, loaded, turn, calls, server, history>>
  BY DEF SteerFails
<1>2. wire' \in Seq(Requests) /\ WireOk(wire')
  <2>1. CASE wire[k].answer # "none"
    BY <2>1, TakenOk DEF SteerFails, QueueInv
  <2>2. CASE wire[k].answer = "none"
    <3>1. PICK r : r = [wire[k] EXCEPT !.waited = FALSE]
      OBVIOUS
    <3>2. /\ r \in [kind : {"steer"}, id : Inputs, turn : Turns, waited : BOOLEAN,
                    answer : {"none", "refused"}]
          /\ r.turn = wire[k].turn
      BY <1>1, <3>1, Posted
    <3>3. wire' = [wire EXCEPT ![k] = r]
      BY <2>2, <3>1 DEF SteerFails
    <3> QED BY <1>1, <3>2, <3>3, PostChanged
  <2> QED BY <2>1, <2>2
<1>3. Typed'
  <2>1. paused' \in BOOLEAN
    BY <1>1
  <2> QED BY <1>1, <1>2, <2>1 DEF QueueInv, Typed
<1>4. QueueOk(queue)' /\ WireOk(wire)'
  BY <1>1, <1>2, <1>3, HostKeeps DEF QueueInv
<1>5. RunsOk' /\ NeverLost' /\ RestartHolds'
  BY <1>1 DEF QueueInv, RunsOk, NeverLost, RestartHolds, Hearing
<1> QED BY <1>3, <1>4, <1>5 DEF QueueInv

-----------------------------------------------------------------------------
(* The server, the network and kills *)

LEMMA ServerKeeps ==
    ASSUME QueueInv, UNCHANGED <<saved, loaded, turn, calls, history>>,
           wire' \in Seq(Requests), WireOk(wire'),
           \A k \in DOMAIN wire' : wire'[k].kind = "start" => run'[wire'[k].turn] = "absent",
           run' \in [Turns -> {"absent", "live", "completed", "failed"}],
           waiting' \in [Turns -> SUBSET Inputs], heard' \in [Turns -> SUBSET Inputs],
           \A t \in Turns : heard[t] \subseteq heard'[t],
           \A t \in Turns : t > turns => run'[t] = "absent",
           \A t \in Turns : run'[t] = "absent" => heard'[t] = {} /\ waiting'[t] = {},
           \A t \in Turns : run'[t] # "absent" => origin[t] \in heard'[t] \cup {0}
    PROVE  QueueInv'
<1> USE DEF saved, turn, calls, history
<1>1. Typed'
  BY DEF QueueInv, Typed
<1>2. QueueOk(queue)' /\ WireOk(wire)'
  <2>1. Typed /\ turns' \in Nat /\ queue' \in Seq(Items) /\ QueueOk(queue')
    BY QueueAssumption DEF QueueInv, Typed
  <2>2. Grows
    BY <2>1 DEF Grows
  <2> QED BY <2>1, <2>2, Kept
<1>3. RunsOk'
  <2>1. \A i \in removing' : Hearing(i)' # {}
    BY HeardOn DEF QueueInv, RunsOk
  <2> QED BY <2>1 DEF RunsOk
<1>4. NeverLost'
  BY StillThere DEF QueueInv
<1>5. RestartHolds'
  BY DEF QueueInv, RestartHolds
<1> QED BY <1>1, <1>2, <1>3, <1>4, <1>5 DEF QueueInv

\* The server alone is left as it is.
LEMMA WireStep ==
    ASSUME QueueInv, UNCHANGED <<saved, loaded, turn, calls, server, history>>,
           wire' \in Seq(Requests), WireOk(wire')
    PROVE  QueueInv'
<1> USE DEF server, turn
<1>1. \A k \in DOMAIN wire' : wire'[k].kind = "start" => run'[wire'[k].turn] = "absent"
  BY DEF WireOk, Fine
<1>2. /\ run' \in [Turns -> {"absent", "live", "completed", "failed"}]
      /\ waiting' \in [Turns -> SUBSET Inputs] /\ heard' \in [Turns -> SUBSET Inputs]
  BY DEF QueueInv, Typed
<1>3. /\ \A t \in Turns : heard[t] \subseteq heard'[t]
      /\ \A t \in Turns : t > turns => run'[t] = "absent"
      /\ \A t \in Turns : run'[t] = "absent" => heard'[t] = {} /\ waiting'[t] = {}
      /\ \A t \in Turns : run'[t] # "absent" => origin[t] \in heard'[t] \cup {0}
  BY DEF QueueInv, RunsOk
<1> HIDE DEF server, turn
<1> QED BY <1>1, <1>2, <1>3, ServerKeeps

LEMMA DropStep == ASSUME QueueInv, NEW k \in DOMAIN wire, Drop(k) PROVE QueueInv'
<1>1. wire' \in Seq(Requests) /\ WireOk(wire')
  BY TakenOk DEF Drop, QueueInv
<1> QED BY <1>1, WireStep DEF Drop

LEMMA ServeCheckStep == ASSUME QueueInv, NEW k \in DOMAIN wire, ServeCheck(k) PROVE QueueInv'
<1>1. wire[k].kind = "check" /\ wire' = [wire EXCEPT ![k].answer = Status(wire[k])]
  BY DEF ServeCheck, Checking
<1>2. /\ wire[k] \in [kind : {"check"}, id : Inputs, turn : Turns, initial : BOOLEAN,
                      caller : {"load", "resume", "finish"}, rest : SUBSET Items, waited : {TRUE},
                      answer : {"none", "received", "waiting", "not_received"}]
      /\ Fine(wire[k])
  <2>1. wire \in Seq(Requests)
    BY DEF QueueInv, Typed
  <2>2. wire[k] \in Requests /\ Fine(wire[k])
    BY <2>1, LenProperties, ElementOfSeq DEF QueueInv, WireOk
  <2> QED BY <1>1, <2>2 DEF Requests
<1>3. Status(wire[k]) \in {"received", "waiting", "not_received"}
  BY DEF Status
<1>4. Status(wire[k]) = "received" => wire[k].id \in heard[wire[k].turn]
  <2> SUFFICES ASSUME Status(wire[k]) = "received" PROVE wire[k].id \in heard[wire[k].turn]
    OBVIOUS
  <2>1. /\ run[wire[k].turn] # "absent"
        /\ wire[k].initial \/ wire[k].id \in heard[wire[k].turn]
    BY DEF Status
  <2>2. CASE wire[k].initial
    <3>1. origin[wire[k].turn] = wire[k].id
      BY <1>1, <1>2, <2>2 DEF Fine
    <3>2. wire[k].turn \in Turns /\ wire[k].id \in Inputs
      BY <1>2
    <3>3. origin[wire[k].turn] \in heard[wire[k].turn] \cup {0}
      BY <2>1, <3>2 DEF QueueInv, RunsOk
    <3>4. wire[k].id # 0
      BY <3>2, QueueAssumption DEF Inputs
    <3> QED BY <3>1, <3>3, <3>4
  <2> QED BY <2>1, <2>2
<1>5. PICK r \in Requests : /\ r = [wire[k] EXCEPT !.answer = Status(wire[k])]
                            /\ r.kind = "check" /\ r.turn = wire[k].turn /\ r.id = wire[k].id
                            /\ r.initial = wire[k].initial /\ r.rest = wire[k].rest
                            /\ r.answer = Status(wire[k])
  <2>1. \A s \in {"received", "waiting", "not_received"} :
            [wire[k] EXCEPT !.answer = s] \in Requests
    BY <1>2 DEF Requests
  <2> QED BY <1>1, <1>2, <1>3, <2>1
<1>6. Fine(r)
  <2>1. r.kind # "start"
    BY <1>5
  <2>2. r.initial => origin[r.turn] = r.id
    BY <1>1, <1>2, <1>5 DEF Fine
  <2>3. r.answer = "received" => r.id \in heard[r.turn]
    BY <1>4, <1>5
  <2>4. r.turn <= turns /\ \A item \in r.rest : Sent(item) /\ item.turn # 0
    BY <1>1, <1>2, <1>5 DEF Fine
  <2> QED BY <2>1, <2>2, <2>3, <2>4 DEF Fine
<1>7. wire' = [wire EXCEPT ![k] = r]
  BY <1>1, <1>5
<1>8. wire' \in Seq(Requests) /\ WireOk(wire')
  <2>1. r.kind = wire[k].kind /\ r.turn = wire[k].turn /\ Typed /\ WireOk(wire)
    BY <1>1, <1>5 DEF QueueInv
  <2>2. [wire EXCEPT ![k] = r] \in Seq(Requests) /\ WireOk([wire EXCEPT ![k] = r])
    BY <1>6, <2>1, ChangedOk
  <2> QED BY <1>7, <2>2
<1> QED BY <1>8, WireStep DEF ServeCheck

LEMMA ServeStartStep == ASSUME QueueInv, NEW k \in DOMAIN wire, ServeStart(k) PROVE QueueInv'
<1>1. PICK t \in Turns : t = wire[k].turn /\ t <= turns /\ run[t] = "absent"
  <2>1. wire \in Seq(Requests)
    BY DEF QueueInv, Typed
  <2>2. wire[k] \in Requests /\ Fine(wire[k])
    BY <2>1, LenProperties, ElementOfSeq DEF QueueInv, WireOk
  <2>3. wire[k].turn \in Turns
    BY <2>2 DEF Requests
  <2> QED BY <2>2, <2>3 DEF Fine, ServeStart
<1>2. /\ run' = [run EXCEPT ![t] = "live"] /\ heard' = [heard EXCEPT ![t] = {origin[t]} \ {0}]
      /\ wire' = RemoveAt(wire, k)
      /\ UNCHANGED <<saved, loaded, turn, calls, waiting, history>>
  BY <1>1 DEF ServeStart
<1>3. wire' \in Seq(Requests) /\ WireOk(wire')
  BY <1>2, TakenOk DEF QueueInv
<1>4. /\ run \in [Turns -> {"absent", "live", "completed", "failed"}]
      /\ heard \in [Turns -> SUBSET Inputs] /\ waiting \in [Turns -> SUBSET Inputs]
      /\ origin \in [Turns -> Inputs \cup {0}]
  BY DEF QueueInv, Typed
<1>5. /\ run' \in [Turns -> {"absent", "live", "completed", "failed"}]
      /\ waiting' \in [Turns -> SUBSET Inputs] /\ heard' \in [Turns -> SUBSET Inputs]
  BY <1>2, <1>4
<1>6. \A j \in DOMAIN wire' : wire'[j].kind = "start" => run'[wire'[j].turn] = "absent"
  <2> SUFFICES ASSUME NEW j \in DOMAIN wire', wire'[j].kind = "start"
               PROVE  run'[wire'[j].turn] = "absent"
    OBVIOUS
  <2>1. PICK i \in DOMAIN wire \ {k} : wire'[j] = wire[i]
    BY <1>2, Taken DEF QueueInv, Typed
  <2>2. wire[i].turn # t
    BY <1>1, <2>1 DEF QueueInv, WireOk, OneStart, ServeStart
  <2>3. run[wire[i].turn] = "absent"
    BY <2>1 DEF QueueInv, WireOk, Fine
  <2> QED BY <1>2, <1>4, <2>1, <2>2, <2>3
<1>7. \A u \in Turns : heard[u] \subseteq heard'[u]
  <2>1. heard[t] = {}
    BY <1>1 DEF QueueInv, RunsOk
  <2> QED BY <1>2, <1>4, <2>1
<1>8. \A u \in Turns : u > turns => run'[u] = "absent"
  <2>1. t \in Nat /\ turns \in Nat
    BY QueueAssumption DEF Turns, QueueInv, Typed
  <2>2. \A u \in Turns : u > turns => u # t
    BY <1>1, <2>1
  <2> QED BY <1>2, <1>4, <2>2 DEF QueueInv, RunsOk
<1>9. \A u \in Turns : run'[u] = "absent" => heard'[u] = {} /\ waiting'[u] = {}
  BY <1>2, <1>4 DEF QueueInv, RunsOk
<1>10. \A u \in Turns : run'[u] # "absent" => origin[u] \in heard'[u] \cup {0}
  BY <1>2, <1>4 DEF QueueInv, RunsOk
<1> QED BY <1>2, <1>3, <1>5, <1>6, <1>7, <1>8, <1>9, <1>10, ServerKeeps

LEMMA ServeSteerStep == ASSUME QueueInv, NEW k \in DOMAIN wire, ServeSteer(k) PROVE QueueInv'
<1>1. /\ UNCHANGED <<saved, loaded, turn, calls, run, heard, history>>
      /\ wire[k].kind = "steer"
  BY DEF ServeSteer
<1>2. PICK t \in Turns, i \in Inputs : t = wire[k].turn /\ i = wire[k].id
  BY <1>1, Posted
<1>3. wire' \in Seq(Requests) /\ WireOk(wire')
  <2>1. wire' = RemoveAt(wire, k) \/ wire' = [wire EXCEPT ![k].answer = "refused"]
    BY DEF ServeSteer
  <2>2. CASE wire' = RemoveAt(wire, k)
    BY <2>2, TakenOk DEF QueueInv
  <2>3. CASE wire' = [wire EXCEPT ![k].answer = "refused"]
    <3>1. PICK r : r = [wire[k] EXCEPT !.answer = "refused"]
      OBVIOUS
    <3>2. /\ r \in [kind : {"steer"}, id : Inputs, turn : Turns, waited : BOOLEAN,
                    answer : {"none", "refused"}]
          /\ r.turn = wire[k].turn
      BY <1>1, <3>1, Posted
    <3>3. wire' = [wire EXCEPT ![k] = r]
      BY <2>3, <3>1
    <3> QED BY <1>1, <3>2, <3>3, PostChanged
  <2> QED BY <2>1, <2>2, <2>3
<1>4. /\ run \in [Turns -> {"absent", "live", "completed", "failed"}]
      /\ heard \in [Turns -> SUBSET Inputs] /\ waiting \in [Turns -> SUBSET Inputs]
  BY DEF QueueInv, Typed
<1>5. \/ waiting' = waiting
      \/ /\ run[t] # "absent" \/ i \in waiting[t] \cup heard[t]
         /\ \/ waiting' = [waiting EXCEPT ![t] = @]
            \/ waiting' = [waiting EXCEPT ![t] = @ \cup {i}]
  BY <1>2 DEF ServeSteer
<1>6. /\ waiting' \in [Turns -> SUBSET Inputs]
      /\ \A u \in Turns : run[u] = "absent" => waiting'[u] = {}
  BY <1>4, <1>5 DEF QueueInv, RunsOk
<1>7. \A j \in DOMAIN wire' : wire'[j].kind = "start" => run'[wire'[j].turn] = "absent"
  BY <1>1, <1>3 DEF WireOk, Fine
<1>8. /\ run' \in [Turns -> {"absent", "live", "completed", "failed"}]
      /\ heard' \in [Turns -> SUBSET Inputs]
      /\ \A u \in Turns : heard[u] \subseteq heard'[u]
      /\ \A u \in Turns : u > turns => run'[u] = "absent"
      /\ \A u \in Turns : run'[u] = "absent" => heard'[u] = {} /\ waiting'[u] = {}
      /\ \A u \in Turns : run'[u] # "absent" => origin[u] \in heard'[u] \cup {0}
  BY <1>1, <1>4, <1>6 DEF QueueInv, RunsOk
<1> QED BY <1>1, <1>3, <1>6, <1>7, <1>8, ServerKeeps

\* The server goes on with a run that has begun.
LEMMA LiveStep ==
    ASSUME QueueInv, UNCHANGED <<saved, loaded, turn, calls, wire, history>>,
           NEW t \in Turns, run[t] = "live",
           run' = run \/ run' = [run EXCEPT ![t] = "completed"] \/ run' = [run EXCEPT ![t] = "failed"],
           \/ UNCHANGED <<heard, waiting>>
           \/ /\ heard' = [heard EXCEPT ![t] = @ \cup waiting[t]]
              /\ waiting' = [waiting EXCEPT ![t] = {}]
    PROVE  QueueInv'
<1>1. /\ run \in [Turns -> {"absent", "live", "completed", "failed"}]
      /\ heard \in [Turns -> SUBSET Inputs] /\ waiting \in [Turns -> SUBSET Inputs]
  BY DEF QueueInv, Typed
<1>2. /\ run' \in [Turns -> {"absent", "live", "completed", "failed"}]
      /\ \A u \in Turns : run'[u] = "absent" <=> run[u] = "absent"
  BY <1>1
<1>3. /\ heard' \in [Turns -> SUBSET Inputs] /\ waiting' \in [Turns -> SUBSET Inputs]
      /\ \A u \in Turns : heard[u] \subseteq heard'[u]
      /\ \A u \in Turns : u # t => heard'[u] = heard[u] /\ waiting'[u] = waiting[u]
  BY <1>1
<1>4. wire' \in Seq(Requests) /\ WireOk(wire')
  BY DEF QueueInv, Typed
<1>5. \A j \in DOMAIN wire' : wire'[j].kind = "start" => run'[wire'[j].turn] = "absent"
  <2> SUFFICES ASSUME NEW j \in DOMAIN wire, wire[j].kind = "start"
               PROVE  run'[wire[j].turn] = "absent"
    OBVIOUS
  <2>1. run[wire[j].turn] = "absent"
    BY DEF QueueInv, WireOk, Fine
  <2>2. wire[j] \in Requests
    BY ElementOfSeq, LenProperties DEF QueueInv, Typed
  <2>3. wire[j].turn \in Turns
    BY <2>2 DEF Requests
  <2> QED BY <1>2, <2>1, <2>3
<1>6. /\ \A u \in Turns : u > turns => run'[u] = "absent"
      /\ \A u \in Turns : run'[u] = "absent" => heard'[u] = {} /\ waiting'[u] = {}
      /\ \A u \in Turns : run'[u] # "absent" => origin[u] \in heard'[u] \cup {0}
  BY <1>2, <1>3 DEF QueueInv, RunsOk
<1> QED BY <1>2, <1>3, <1>4, <1>5, <1>6, ServerKeeps

\* A kill leaves the requests that were sent, in their order.
LEMMA CrashStep == ASSUME QueueInv, Crash PROVE QueueInv'
<1> USE DEF saved, server
<1> DEFINE sent == {k \in DOMAIN wire : ~Checking(k) /\ wire[k].answer = "none"}
<1>1. wire \in Seq(Requests) /\ WireOk(wire) /\ DOMAIN wire = 1 .. Len(wire) /\ Len(wire) \in Nat
  BY LenProperties DEF QueueInv, Typed
<1>2. PICK f \in [1 .. Cardinality(sent) -> sent] :
          /\ \A j, k \in DOMAIN f : j < k => f[j] < f[k]
          /\ wire' = [k \in DOMAIN f |-> [wire[f[k]] EXCEPT !.waited = FALSE]]
  BY DEF Crash
<1>3. Cardinality(sent) \in Nat
  <2>1. IsFiniteSet(1 .. Len(wire))
    BY <1>1, FS_Interval
  <2>2. IsFiniteSet(sent)
    BY <1>1, <2>1, FS_Subset
  <2> QED BY <2>2, FS_CardinalityType
<1>4. PICK n \in Nat : n = Cardinality(sent)
  BY <1>3
<1>5. DOMAIN f = 1 .. n /\ \A k \in 1 .. n : f[k] \in DOMAIN wire /\ ~Checking(f[k]) /\ wire[f[k]].answer = "none"
  BY <1>2, <1>4
<1> HIDE DEF sent
<1>6. \A k \in 1 .. n : LET r == [wire[f[k]] EXCEPT !.waited = FALSE] IN
          /\ r \in Requests /\ Fine(r)
          /\ r.kind = wire[f[k]].kind /\ r.turn = wire[f[k]].turn
  <2> SUFFICES ASSUME NEW k \in 1 .. n, NEW x, x = wire[f[k]]
               PROVE  LET r == [x EXCEPT !.waited = FALSE] IN
                          /\ r \in Requests /\ Fine(r) /\ r.kind = x.kind /\ r.turn = x.turn
    OBVIOUS
  <2>1. x \in Requests /\ Fine(x)
    BY <1>1, <1>5, ElementOfSeq DEF WireOk
  <2>2. x.kind # "check" /\ x.answer = "none"
    BY <1>5 DEF Checking
  <2>3. CASE x \in [kind : {"start"}, turn : Turns, waited : {FALSE}, answer : {"none"}]
    <3>1. [x EXCEPT !.waited = FALSE] = x
      BY <2>3
    <3> QED BY <2>1, <3>1
  <2>4. CASE x \in [kind : {"steer"}, id : Inputs, turn : Turns, waited : BOOLEAN, answer : {"none", "refused"}]
    <3>1. PICK r : r = [x EXCEPT !.waited = FALSE]
      OBVIOUS
    <3>2. /\ r \in [kind : {"steer"}, id : Inputs, turn : Turns, waited : BOOLEAN, answer : {"none", "refused"}]
          /\ r.kind = x.kind /\ r.turn = x.turn /\ x.kind = "steer"
      BY <2>4, <3>1
    <3>3. r \in Requests
      BY <3>2 DEF Requests
    <3>4. Fine(r)
      BY <2>1, <3>2 DEF Fine
    <3> QED BY <3>1, <3>2, <3>3, <3>4
  <2> QED BY <2>1, <2>2, <2>3, <2>4 DEF Requests
<1>7. wire' = [k \in 1 .. n |-> [wire[f[k]] EXCEPT !.waited = FALSE]]
  BY <1>2, <1>5
<1>8. wire' \in Seq(Requests)
  BY <1>6, <1>7, IsASeq
<1>9. WireOk(wire')
  <2>1. \A j, k \in 1 .. n : f[j] = f[k] => j = k
    <3> SUFFICES ASSUME NEW j \in 1 .. n, NEW k \in 1 .. n, j < k PROVE f[j] # f[k]
      OBVIOUS
    <3>1. f[j] < f[k] /\ f[j] \in Nat /\ f[k] \in Nat
      BY <1>1, <1>2, <1>5
    <3> QED BY <3>1
  <2>2. PICK v : v = wire'
    OBVIOUS
  <2>3. DOMAIN v = 1 .. n /\ \A k \in 1 .. n : v[k] = [wire[f[k]] EXCEPT !.waited = FALSE]
    BY <1>7, <2>2
  <2>4. f \in [DOMAIN v -> DOMAIN wire]
    BY <1>2, <1>4, <1>5, <2>3
  <2>5. \A k \in DOMAIN v : v[k].kind = wire[f[k]].kind /\ v[k].turn = wire[f[k]].turn /\ Fine(v[k])
    BY ZenonT(60), <1>6, <2>3
  <2>6. OneStart(v)
    <3>1. OneStart(wire) /\ \A j, k \in DOMAIN v : f[j] = f[k] => j = k
      BY <1>1, <2>1, <2>3 DEF WireOk
    <3>2. \A k \in DOMAIN v : v[k].kind = wire[f[k]].kind /\ v[k].turn = wire[f[k]].turn
      BY <2>5
    <3>3. \A k \in DOMAIN v : f[k] \in DOMAIN wire
      BY <2>4
    <3> QED BY <3>1, <3>2, <3>3 DEF OneStart
  <2> QED BY <2>2, <2>5, <2>6 DEF WireOk
<1>10. /\ loaded' = FALSE /\ active' = 0 /\ stopping' = FALSE /\ drains' = 0
       /\ finishing' = {} /\ removing' = {} /\ held' = Ids(queue)
       /\ crashes' = crashes + 1 /\ crashes < MaxCrashes
       /\ UNCHANGED <<saved, turns, origin, told, server, added, withdrawn>>
  BY DEF Crash
<1>11. Typed'
  <2>1. active' \in 0 .. turns' /\ crashes' \in 0 .. MaxCrashes /\ drains' \in Nat
    BY <1>10, QueueAssumption DEF QueueInv, Typed
  <2>2. loaded' \in BOOLEAN
    BY <1>10
  <2>3. stopping' \in BOOLEAN
    BY <1>10
  <2>4. held' \subseteq 1 .. added' /\ Ids(queue') \subseteq 1 .. added'
    BY <1>10 DEF QueueInv, Typed
  <2> QED BY <1>8, <1>10, <2>1, <2>2, <2>3, <2>4 DEF QueueInv, Typed
<1>12. QueueOk(queue)' /\ WireOk(wire)'
  BY <1>9, <1>10, <1>11, HostKeeps DEF QueueInv
<1>13. RunsOk' /\ NeverLost' /\ RestartHolds'
  BY <1>10 DEF QueueInv, RunsOk, NeverLost, RestartHolds, Hearing
<1> QED BY <1>11, <1>12, <1>13 DEF QueueInv

-----------------------------------------------------------------------------
(* The theorem *)

LEMMA QueueStarts == Init => QueueInv
<1> SUFFICES ASSUME Init PROVE QueueInv
  OBVIOUS
<1> USE DEF Init
<1>1. Ids(queue) = {} /\ DOMAIN queue = {} /\ DOMAIN wire = {}
  BY DEF Ids
<1>2. /\ paused \in BOOLEAN /\ loaded \in BOOLEAN /\ stopping \in BOOLEAN
  OBVIOUS
<1>3. /\ active \in 0 .. turns /\ turns \in 0 .. MaxTurns /\ drains \in Nat
      /\ added \in 0 .. MaxInputs /\ crashes \in 0 .. MaxCrashes
  BY QueueAssumption
<1>4. Typed
  BY <1>1, <1>2, <1>3 DEF Typed
<1>5. QueueOk(queue) /\ WireOk(wire)
  BY <1>1 DEF QueueOk, WireOk, Single, OneStart
<1>6. RunsOk
  BY DEF RunsOk
<1>7. NeverLost
  <2>1. 1 .. added = {}
    OBVIOUS
  <2> QED BY <2>1 DEF NeverLost
<1>8. RestartHolds
  BY DEF RestartHolds
<1> QED BY <1>4, <1>5, <1>6, <1>7, <1>8 DEF QueueInv

LEMMA QueueNext == QueueInv /\ [Next]_vars => QueueInv'
<1> SUFFICES ASSUME QueueInv, [Next]_vars PROVE QueueInv'
  OBVIOUS
<1>1. CASE HostStep
  BY <1>1, LoadStep, EnqueueStep, ResumeStep, InterruptStep, StartUserTurnStep, DrainStep,
     WithdrawStep, ReceivedStep, SteerStep, SeeStartedStep, SeeReceivedStep, EndTurnStep,
     FinishStep, CheckAnsweredStep, CheckFailsStep, SteerRefusedStep, SteerFailsStep
     DEF HostStep
<1>2. CASE ServerStep
  <2>1. ASSUME NEW t \in Turns, ServerHears(t) PROVE QueueInv'
    BY <2>1, LiveStep DEF ServerHears
  <2>2. ASSUME NEW t \in Turns, ServerEnds(t) PROVE QueueInv'
    BY <2>2, LiveStep DEF ServerEnds
  <2> QED BY <1>2, <2>1, <2>2, ServeStartStep, ServeSteerStep, ServeCheckStep, DropStep
          DEF ServerStep
<1>3. CASE Crash
  BY <1>3, CrashStep
<1>4. CASE UNCHANGED vars
  <2>1. Typed'
    BY <1>4 DEF QueueInv, Typed, vars, saved, turn, calls, server, history
  <2>2. UNCHANGED <<saved, loaded, wire, turns, origin, server, added, withdrawn, held>>
    BY <1>4 DEF vars, turn, history
  <2>3. \A i \in removing' : Hearing(i) # {}
    BY <1>4 DEF QueueInv, RunsOk, vars, calls
  <2> QED BY <2>1, <2>2, <2>3, Aside
<1> QED BY <1>1, <1>2, <1>3, <1>4 DEF Next

LEMMA QueueTypes == QueueInv => TypeOK
<1> SUFFICES ASSUME QueueInv PROVE TypeOK
  OBVIOUS
<1>1. \A k \in DOMAIN queue : queue[k] \in Items /\ (queue[k].turn = 0 <=> queue[k].status = "queued")
  <2>1. queue \in Seq(Items)
    BY DEF QueueInv, Typed
  <2> QED BY <2>1, LenProperties, ElementOfSeq DEF QueueInv, QueueOk, Sent
<1>2. Cardinality(Ids(queue)) = Len(queue)
  <2>1. DOMAIN queue = 1 .. Len(queue) /\ Len(queue) \in Nat
    BY LenProperties DEF QueueInv, Typed
  <2> DEFINE f == [k \in 1 .. Len(queue) |-> queue[k].id]
  <2>2. f \in Bijection(1 .. Len(queue), Ids(queue))
    <3>1. f \in [1 .. Len(queue) -> Ids(queue)]
      BY <2>1 DEF Ids
    <3>2. \A j, k \in 1 .. Len(queue) : f[j] = f[k] => j = k
      BY <2>1 DEF QueueInv, QueueOk, Single
    <3>3. \A i \in Ids(queue) : \E k \in 1 .. Len(queue) : f[k] = i
      BY <2>1 DEF Ids
    <3> HIDE DEF f
    <3>4. DOMAIN f = 1 .. Len(queue)
      BY <3>1
    <3> QED BY <3>1, <3>2, <3>3, <3>4 DEF Bijection, Injection, Surjection, IsInjective
  <2>3. IsFiniteSet(1 .. Len(queue)) /\ Cardinality(1 .. Len(queue)) = Len(queue)
    <3>1. \A n \in Nat : IsFiniteSet(1 .. n) /\ Cardinality(1 .. n) = IF 1 > n THEN 0 ELSE n - 1 + 1
      BY FS_Interval
    <3>2. \A n \in Nat : (IF 1 > n THEN 0 ELSE n - 1 + 1) = n
      OBVIOUS
    <3> QED BY <2>1, <3>1, <3>2
  <2>4. ExistsBijection(1 .. Len(queue), Ids(queue))
    BY <2>2 DEF ExistsBijection
  <2> QED BY <2>3, <2>4, FS_Bijection
<1>3. /\ active \in Turns \cup {0} /\ turns \in Turns \cup {0} /\ added \in Inputs \cup {0}
  BY QueueAssumption DEF QueueInv, Typed, Turns, Inputs
<1>4. held \subseteq Inputs
  BY QueueAssumption DEF QueueInv, Typed, Inputs
<1>5. \A k \in DOMAIN wire :
          /\ wire[k].kind \in {"start", "steer", "check"} /\ wire[k].turn \in Turns
          /\ wire[k].answer \in {"none", "refused", "received", "waiting", "not_received"}
  <2>1. \A k \in DOMAIN wire : wire[k] \in Requests
    BY LenProperties, ElementOfSeq DEF QueueInv, Typed
  <2>2. \A r \in Requests :
            /\ r.kind \in {"start", "steer", "check"} /\ r.turn \in Turns
            /\ r.answer \in {"none", "refused", "received", "waiting", "not_received"}
    BY DEF Requests
  <2> QED BY <2>1, <2>2
<1> QED BY <1>1, <1>2, <1>3, <1>4, <1>5 DEF QueueInv, Typed, TypeOK

\* Whatever is lost, refused or late, and whenever the application is killed: a
\* message is in the queue until a run has received it or the user has it back,
\* and after a restart the queue waits for the user (followup-host.ts:31).
THEOREM QueueSafety == Spec => []QueueSafe
<1>1. QueueInv => QueueSafe
  BY QueueTypes DEF QueueInv, QueueSafe
<1> QED BY <1>1, QueueStarts, QueueNext, PTL DEF Spec

-----------------------------------------------------------------------------
(* At most once: the inductive invariant *)

\* The runs that have received i or may still do.
Reach(i) ==
    {t \in Turns :
        \/ i \in heard[t]
        \/ run[t] = "live" /\ i \in waiting[t]
        \/ \E k \in DOMAIN wire :
               /\ wire[k].turn = t
               /\ \/ wire[k].kind = "steer" /\ wire[k].id = i /\ wire[k].answer = "none"
                  \/ wire[k].kind = "start" /\ origin[t] = i}

\* An item reaches the run it names alone, and a message that is not queued any
\* more, one at most.
Reached ==
    /\ \A k \in DOMAIN queue : Reach(queue[k].id) \subseteq {queue[k].turn}
    /\ \A i \in Inputs : \A t, u \in Reach(i) : t = u
    /\ \A i \in Inputs : i > added \/ i \in withdrawn => Reach(i) = {}
    /\ withdrawn \cap Ids(queue) = {} /\ withdrawn \subseteq 1 .. added

\* A start request is the first request of its turn.
StartsFirst ==
    \A j, k \in DOMAIN wire : j < k /\ wire[k].kind = "start" => wire[j].turn # wire[k].turn

\* While a delivery is checked the queue is paused and nothing is sent behind
\* the check but turns of the user; the items asked for are as they were, reset
\* or gone.
AskedFor(i, t) == \A k \in DOMAIN queue : queue[k].id = i => queue[k].turn \in {0, t}

CheckOk(k) ==
    /\ paused /\ loaded
    /\ \A j \in DOMAIN wire : j > k => wire[j].kind = "start" /\ origin[wire[j].turn] = 0
    /\ AskedFor(wire[k].id, wire[k].turn)
    /\ \A item \in wire[k].rest : AskedFor(item.id, item.turn)
    /\ wire[k].answer = "not_received" => wire[k].turn \notin Reach(wire[k].id)

\* A message is steered once at a time, and its item says where.
PostOk(k) ==
    /\ wire[k].id <= added
    /\ \A j \in DOMAIN wire : wire[j].kind = "steer" /\ wire[j].id = wire[k].id => j = k
    /\ \A n \in DOMAIN queue : queue[n].id = wire[k].id => queue[n].turn = wire[k].turn
    /\ wire[k].answer = "refused" => wire[k].turn \notin Reach(wire[k].id)

InTurn ==
    /\ \A k \in DOMAIN wire : Checking(k) => CheckOk(k)
    /\ \A k \in DOMAIN wire : wire[k].kind = "steer" => PostOk(k)

\* A queue that could be dispatched has a call coming.
Woken ==
    loaded /\ active = 0 /\ Dispatchable => drains > 0 \/ finishing # {} \/ removing # {}

\* Until the queue is loaded nothing of the application moves.
Unloaded ==
    ~loaded => /\ active = 0 /\ drains = 0 /\ finishing = {} /\ removing = {}
               /\ \A k \in DOMAIN wire : wire[k].waited = FALSE /\ wire[k].answer = "none"

OnceInv == Reached /\ StartsFirst /\ InTurn /\ Woken /\ Unloaded

-----------------------------------------------------------------------------
(* Steps that send nothing to a run *)

\* The request r is s, as far as runs and items are concerned.
Same(r, s) ==
    /\ r.kind = s.kind /\ r.turn = s.turn
    /\ r.kind = "steer" => r.id = s.id /\ (r.answer = "none" => s.answer = "none")
    /\ r.kind = "check" => r.id = s.id /\ r.rest = s.rest

\* The requests are those of before in their order, and a new check at the end.
Follow(f) ==
    /\ \A j, k \in DOMAIN wire' : j < k => f[j] < f[k]
    /\ \A k \in DOMAIN wire' :
           \/ f[k] \in DOMAIN wire /\ Same(wire'[k], wire[f[k]])
           \/ f[k] = Len(wire) + 1 /\ wire'[k].kind = "check"

\* The items are those of before, or queued ones no run has or may hear of.
ItemsFollow ==
    \A n \in DOMAIN queue' :
        \/ \E m \in DOMAIN queue : queue'[n] = queue[m]
        \/ /\ queue'[n].turn = 0 /\ Reach(queue'[n].id) = {}
           /\ \A k \in DOMAIN wire' : wire'[k].kind = "steer" => wire'[k].id # queue'[n].id

LEMMA RequestIn ==
    ASSUME NEW w \in Seq(Requests), NEW k \in DOMAIN w
    PROVE  /\ w[k] \in Requests /\ k \in Nat /\ w[k].turn \in Turns
           /\ w[k].kind # "start" => w[k].id \in Inputs
<1>1. w[k] \in Requests /\ k \in Nat
  BY LenProperties, ElementOfSeq
<1>2. \A r \in Requests : r.turn \in Turns /\ (r.kind # "start" => r.id \in Inputs)
  BY DEF Requests
<1> QED BY <1>1, <1>2

LEMMA ItemIn ==
    ASSUME NEW q \in Seq(Items), NEW n \in DOMAIN q
    PROVE  q[n] \in Items /\ q[n].id \in Inputs /\ q[n].turn \in Turns \cup {0}
<1>1. q[n] \in Items
  BY LenProperties, ElementOfSeq
<1> QED BY <1>1 DEF Items

LEMMA RequestTyped ==
    ASSUME QueueInv, NEW k \in DOMAIN wire
    PROVE  /\ wire[k] \in Requests /\ k \in Nat /\ wire[k].turn \in Turns
           /\ wire[k].kind # "start" => wire[k].id \in Inputs
           /\ wire[k].turn <= turns
<1>1. wire \in Seq(Requests) /\ Fine(wire[k])
  BY DEF QueueInv, Typed, WireOk
<1> QED BY <1>1, RequestIn DEF Fine

LEMMA ItemTyped ==
    ASSUME QueueInv, NEW n \in DOMAIN queue
    PROVE  /\ queue[n] \in Items /\ queue[n].id \in Inputs /\ queue[n].id <= added
           /\ queue[n].turn = 0 <=> queue[n].status = "queued"
           /\ queue[n].turn \in Turns \cup {0} /\ queue[n].turn <= turns
<1>1. queue[n] \in Items /\ Sent(queue[n])
  BY LenProperties, ElementOfSeq DEF QueueInv, Typed, QueueOk
<1>2. queue[n].id \in Inputs /\ queue[n].turn \in Turns \cup {0}
  BY <1>1 DEF Items
<1>3. queue[n].id <= added
  BY QueueAssumption DEF QueueInv, Typed, Ids
<1> QED BY <1>1, <1>2, <1>3 DEF Sent

\* Only a request that was there lets a run hear of a message.
LEMMA ReachFollows ==
    ASSUME UNCHANGED <<server, origin>>, NEW f, Follow(f)
    PROVE  \A i : Reach(i)' \subseteq Reach(i)
<1> SUFFICES ASSUME NEW i, NEW t \in Reach(i)' PROVE t \in Reach(i)
  OBVIOUS
<1>1. t \in Turns
  BY DEF Reach
<1>2. CASE i \in heard'[t] \/ (run'[t] = "live" /\ i \in waiting'[t])
  BY <1>1, <1>2 DEF Reach, server
<1>3. CASE \E k \in DOMAIN wire' :
               /\ wire'[k].turn = t
               /\ \/ wire'[k].kind = "steer" /\ wire'[k].id = i /\ wire'[k].answer = "none"
                  \/ wire'[k].kind = "start" /\ origin'[t] = i
  <2>1. PICK k \in DOMAIN wire' :
               /\ wire'[k].turn = t
               /\ \/ wire'[k].kind = "steer" /\ wire'[k].id = i /\ wire'[k].answer = "none"
                  \/ wire'[k].kind = "start" /\ origin'[t] = i
    BY <1>3
  <2>2. f[k] \in DOMAIN wire /\ Same(wire'[k], wire[f[k]])
    BY <2>1 DEF Follow
  <2> QED BY <1>1, <2>1, <2>2 DEF Reach, Same
<1> QED BY <1>1, <1>2, <1>3 DEF Reach

LEMMA FollowKeeps ==
    ASSUME QueueInv, QueueInv', Reached, StartsFirst, InTurn, NEW f, Follow(f), ItemsFollow,
           \A k \in DOMAIN wire' : f[k] \in Nat,
           \A i \in Inputs : Reach(i)' \subseteq Reach(i),
           origin' = origin, added <= added',
           withdrawn' \cap Ids(queue') = {}, withdrawn' \subseteq 1 .. added',
           \A i \in Inputs : i > added' \/ i \in withdrawn' => Reach(i) = {},
           \A j, k \in DOMAIN wire' : wire'[j].kind = "check" /\ wire'[k].kind = "check" => j = k,
           \A k \in DOMAIN wire' : wire'[k].kind = "check" => paused' /\ loaded',
           \A k \in DOMAIN wire' : f[k] = Len(wire) + 1 =>
               /\ AskedFor(wire[k].id, wire[k].turn)'
               /\ \A item \in wire'[k].rest : AskedFor(item.id, item.turn)',
           \A k \in DOMAIN wire' :
               (wire'[k].kind = "steer" /\ wire'[k].answer = "refused")
                   \/ (wire'[k].kind = "check" /\ wire'[k].answer = "not_received")
               => wire'[k].turn \notin Reach(wire[k].id)'
    PROVE  Reached' /\ StartsFirst' /\ InTurn'
<1>0. wire' \in Seq(Requests) /\ queue' \in Seq(Items)
  BY DEF QueueInv, Typed
<1>1. Reached'
  <2>1. ASSUME NEW n \in DOMAIN queue' PROVE Reach(queue[n].id)' \subseteq {queue'[n].turn}
    <3>1. PICK i \in Inputs : i = queue'[n].id
      BY <1>0, ItemIn
    <3>2. Reach(i)' \subseteq Reach(i)
      OBVIOUS
    <3>3. Reach(i) \subseteq {queue'[n].turn}
      BY <3>1 DEF ItemsFollow, Reached
    <3> QED BY <3>1, <3>2, <3>3
  <2>2. \A i \in Inputs : \A t, u \in Reach(i)' : t = u
    BY DEF Reached
  <2>3. \A i \in Inputs : i > added' \/ i \in withdrawn' => Reach(i)' = {}
    OBVIOUS
  <2> QED BY <2>1, <2>2, <2>3 DEF Reached
<1>2. StartsFirst'
  <2> SUFFICES ASSUME NEW j \in DOMAIN wire', NEW k \in DOMAIN wire', j < k, wire'[k].kind = "start"
               PROVE  wire'[j].turn # wire'[k].turn
    BY DEF StartsFirst
  <2>1. f[k] \in DOMAIN wire /\ Same(wire'[k], wire[f[k]]) /\ f[j] < f[k]
    BY DEF Follow
  <2>2. DOMAIN wire = 1 .. Len(wire) /\ Len(wire) \in Nat
    BY LenProperties DEF QueueInv, Typed
  <2>3. f[j] \in DOMAIN wire /\ Same(wire'[j], wire[f[j]])
    BY <2>1, <2>2 DEF Follow
  <2> QED BY <2>1, <2>3 DEF StartsFirst, Same
<1>3. ASSUME NEW k \in DOMAIN wire', wire'[k].kind = "check" PROVE CheckOk(k)'
  <2>1. DOMAIN wire = 1 .. Len(wire) /\ Len(wire) \in Nat
    BY LenProperties DEF QueueInv, Typed
  <2>2. CASE f[k] \in DOMAIN wire /\ Same(wire'[k], wire[f[k]])
    <3>1. CheckOk(f[k])
      BY <1>3, <2>2 DEF InTurn, Checking, Same
    <3>2. ASSUME NEW j \in DOMAIN wire', j > k
          PROVE  wire'[j].kind = "start" /\ origin'[wire'[j].turn] = 0
      <4>1. f[j] > f[k]
        BY <1>0, <1>3, <3>2, RequestIn DEF Follow
      <4>2. wire'[j].kind # "check"
        BY <1>0, <1>3, <3>2, RequestIn
      <4>3. f[j] \in DOMAIN wire /\ Same(wire'[j], wire[f[j]])
        BY <4>2 DEF Follow
      <4> QED BY <3>1, <4>1, <4>3 DEF CheckOk, Same
    <3>3. ASSUME NEW i, NEW t, AskedFor(i, t) PROVE AskedFor(i, t)'
      BY <3>3 DEF AskedFor, ItemsFollow
    <3>4. wire'[k].id = wire[f[k]].id /\ wire'[k].turn = wire[f[k]].turn /\ wire'[k].rest = wire[f[k]].rest
      BY <1>3, <2>2 DEF Same
    <3>5. AskedFor(wire[k].id, wire[k].turn)'
      BY <3>1, <3>3, <3>4 DEF CheckOk
    <3>6. \A item \in wire'[k].rest : AskedFor(item.id, item.turn)'
      BY <3>1, <3>3, <3>4 DEF CheckOk
    <3> QED BY <1>3, <3>2, <3>5, <3>6 DEF CheckOk
  <2>3. CASE f[k] = Len(wire) + 1
    <3>1. ASSUME NEW j \in DOMAIN wire' PROVE ~(j > k)
      <4> SUFFICES ASSUME j > k PROVE FALSE
        OBVIOUS
      <4>1. f[k] < f[j] /\ f[j] \in Nat
        BY <1>0, <1>3, RequestIn DEF Follow
      <4>2. f[j] <= Len(wire) + 1
        BY <2>1 DEF Follow
      <4> QED BY <2>1, <2>3, <4>1, <4>2
    <3> QED BY <1>3, <2>3, <3>1 DEF CheckOk
  <2> QED BY <1>3, <2>2, <2>3 DEF Follow
<1>4. ASSUME NEW k \in DOMAIN wire', wire'[k].kind = "steer" PROVE PostOk(k)'
  <2>1. f[k] \in DOMAIN wire /\ Same(wire'[k], wire[f[k]])
    BY <1>4 DEF Follow
  <2>2. PostOk(f[k]) /\ wire'[k].id = wire[f[k]].id /\ wire'[k].turn = wire[f[k]].turn
    BY <1>4, <2>1 DEF InTurn, Same
  <2>3. ASSUME NEW j \in DOMAIN wire', wire'[j].kind = "steer", wire'[j].id = wire'[k].id
        PROVE  j = k
    <3>1. f[j] \in DOMAIN wire /\ Same(wire'[j], wire[f[j]])
      BY <2>3 DEF Follow
    <3>2. f[j] = f[k]
      BY <2>2, <2>3, <3>1 DEF PostOk, Same
    <3>3. j \in Nat /\ k \in Nat /\ ~(j < k) /\ ~(k < j)
      BY <1>0, <2>1, <3>1, <3>2, RequestIn DEF Follow
    <3> QED BY <3>3
  <2>4. \A n \in DOMAIN queue' : queue'[n].id = wire'[k].id => queue'[n].turn = wire'[k].turn
    BY <1>4, <2>2 DEF PostOk, ItemsFollow
  <2>5. wire'[k].id <= added'
    <3>1. wire'[k].id \in Inputs /\ wire'[k].id <= added
      BY <1>0, <1>4, <2>2, RequestIn DEF PostOk
    <3>2. added \in Nat /\ added' \in Nat
      BY QueueAssumption DEF QueueInv, Typed
    <3> QED BY <3>1, <3>2, QueueAssumption DEF Inputs
  <2> QED BY <1>4, <2>3, <2>4, <2>5 DEF PostOk
<1> QED BY <1>1, <1>2, <1>3, <1>4 DEF InTurn, Checking

\* The requests of w are some of those of before, without checks.
Others(w, f) ==
    /\ \A j, k \in DOMAIN w : j < k => f[j] < f[k]
    /\ \A k \in DOMAIN w : f[k] \in DOMAIN wire /\ w[k] = wire[f[k]] /\ w[k].kind # "check"

\* The items of q are those of before, or queued ones no run may hear of.
ItemsOf(q, w) ==
    /\ Ids(q) \subseteq Ids(queue)
    /\ \A n \in DOMAIN q :
           \/ \E m \in DOMAIN queue : q[n] = queue[m]
           \/ /\ q[n].turn = 0 /\ Reach(q[n].id) = {}
              /\ \A k \in DOMAIN w : w[k].kind = "steer" => w[k].id # q[n].id

\* The items of a list are in q as they are in the list, or reset, or gone.
ListOf(items, q) ==
    \A item \in items : \A n \in DOMAIN q : q[n].id = item.id => q[n].turn \in {0, item.turn}

\* A step of reconcile adds one request.
LEMMA ProceedInTurn ==
    ASSUME QueueInv, QueueInv', Reached, StartsFirst, InTurn,
           NEW q, NEW w \in Seq(Requests), NEW f, Others(w, f), ItemsOf(q, w),
           NEW items \in SUBSET Items, ListOf(items, q), NEW caller, NEW p,
           Proceed(caller, items, q, p, w), UNCHANGED <<turn, server, added, withdrawn>>,
           items # {} => paused' /\ loaded'
    PROVE  Reached' /\ StartsFirst' /\ InTurn'
<1> USE DEF Others, ItemsOf, ListOf
<1>1. DOMAIN w = 1 .. Len(w) /\ Len(w) \in Nat /\ DOMAIN wire = 1 .. Len(wire) /\ Len(wire) \in Nat
  BY LenProperties DEF QueueInv, Typed
<1>2. queue' = q /\ origin' = origin /\ added' = added /\ withdrawn' = withdrawn
  BY DEF Proceed, turn
<1> DEFINE g == [k \in 1 .. Len(w) + 1 |-> IF k <= Len(w) THEN f[k] ELSE Len(wire) + 1]
<1>3. \E last \in 0 .. 1 :
          /\ DOMAIN wire' = 1 .. Len(w) + last
          /\ \A k \in 1 .. Len(w) : wire'[k] = w[k]
          /\ last = 1 =>
                 /\ wire'[Len(w) + 1].kind = "check" /\ wire'[Len(w) + 1].answer = "none"
                 /\ paused' /\ loaded'
                 /\ AskedFor(wire[Len(w) + 1].id, wire[Len(w) + 1].turn)'
                 /\ \A item \in wire'[Len(w) + 1].rest : AskedFor(item.id, item.turn)'
  <2>1. CASE items = {}
    <3>1. wire' = w
      BY <2>1 DEF Proceed
    <3>2. DOMAIN wire' = 1 .. Len(w) + 0
      BY <1>1, <3>1
    <3>3. 0 \in 0 .. 1 /\ 0 # 1
      OBVIOUS
    <3> QED BY <3>1, <3>2, <3>3
  <2>2. CASE items # {}
    <3>1. PICK item \in FirstOf(items) : wire' = Append(w, Check(caller, item, items \ {item}))
      BY <2>2 DEF Proceed
    <3>2. item \in items
      BY DEF FirstOf
    <3>3. PICK r : r = Check(caller, item, items \ {item})
      OBVIOUS
    <3>4. /\ r.kind = "check" /\ r.answer = "none" /\ r.id = item.id /\ r.turn = item.turn
          /\ r.rest = items \ {item}
      BY <3>3 DEF Check
    <3>5. /\ DOMAIN wire' = 1 .. Len(w) + 1 /\ \A k \in 1 .. Len(w) : wire'[k] = w[k]
          /\ wire'[Len(w) + 1] = r
      BY <1>1, <3>1, <3>3
    <3>6. paused' /\ loaded'
      BY <2>2
    <3>7. /\ AskedFor(wire[Len(w) + 1].id, wire[Len(w) + 1].turn)'
          /\ \A x \in wire'[Len(w) + 1].rest : AskedFor(x.id, x.turn)'
      BY <1>2, <3>2, <3>4, <3>5 DEF AskedFor
    <3> QED BY <3>4, <3>5, <3>6, <3>7
  <2> QED BY <2>1, <2>2
<1>4. PICK last \in 0 .. 1 :
          /\ DOMAIN wire' = 1 .. Len(w) + last
          /\ \A k \in 1 .. Len(w) : wire'[k] = w[k]
          /\ last = 1 =>
                 /\ wire'[Len(w) + 1].kind = "check" /\ wire'[Len(w) + 1].answer = "none"
                 /\ paused' /\ loaded'
                 /\ AskedFor(wire[Len(w) + 1].id, wire[Len(w) + 1].turn)'
                 /\ \A item \in wire'[Len(w) + 1].rest : AskedFor(item.id, item.turn)'
  BY <1>3
<1>5. \A k \in DOMAIN wire' : k \in Nat /\ (k \in 1 .. Len(w) \/ (k = Len(w) + 1 /\ last = 1))
  BY <1>1, <1>4
<1>6. \A k \in 1 .. Len(w) : /\ g[k] = f[k] /\ g[k] \in DOMAIN wire /\ g[k] \in Nat
                            /\ wire'[k] = wire[g[k]] /\ wire'[k] = w[k] /\ wire'[k].kind # "check"
  BY SMTT(60), <1>1, <1>4
<1>7. g[Len(w) + 1] = Len(wire) + 1
  BY <1>1
<1>8. \A j, k \in DOMAIN wire' : j < k => g[j] < g[k]
  <2> SUFFICES ASSUME NEW j \in DOMAIN wire', NEW k \in DOMAIN wire', j < k PROVE g[j] < g[k]
    OBVIOUS
  <2>1. j \in 1 .. Len(w)
    BY <1>1, <1>5
  <2>2. CASE k \in 1 .. Len(w)
    BY <1>1, <1>6, <2>1, <2>2
  <2>3. CASE k = Len(w) + 1
    BY <1>1, <1>6, <1>7, <2>1, <2>3
  <2> QED BY <1>5, <2>2, <2>3
<1> HIDE DEF g
<1>9. Follow(g) /\ \A k \in DOMAIN wire' : g[k] \in Nat
  <2>1. \A k \in DOMAIN wire' :
           \/ g[k] \in DOMAIN wire /\ Same(wire'[k], wire[g[k]])
           \/ g[k] = Len(wire) + 1 /\ wire'[k].kind = "check"
    BY <1>4, <1>5, <1>6, <1>7 DEF Same
  <2>2. \A k \in DOMAIN wire' : g[k] \in Nat
    BY <1>1, <1>5, <1>6, <1>7
  <2> QED BY <1>8, <2>1, <2>2 DEF Follow
<1>10. \A i \in Inputs : Reach(i)' \subseteq Reach(i)
  BY <1>2, <1>9, ReachFollows
<1>11. \A j, k \in DOMAIN wire' : wire'[j].kind = "check" /\ wire'[k].kind = "check" => j = k
  BY <1>5, <1>6
<1>12. \A k \in DOMAIN wire' : wire'[k].kind = "check" => paused' /\ loaded'
  BY <1>4, <1>5, <1>6
<1>13. \A k \in DOMAIN wire' : g[k] = Len(wire) + 1 =>
           /\ AskedFor(wire[k].id, wire[k].turn)'
           /\ \A item \in wire'[k].rest : AskedFor(item.id, item.turn)'
  <2> SUFFICES ASSUME NEW k \in DOMAIN wire', g[k] = Len(wire) + 1
               PROVE  /\ AskedFor(wire[k].id, wire[k].turn)'
                      /\ \A item \in wire'[k].rest : AskedFor(item.id, item.turn)'
    OBVIOUS
  <2>1. k \notin 1 .. Len(w)
    BY <1>1, <1>6
  <2>2. k = Len(w) + 1 /\ last = 1
    BY <1>5, <2>1
  <2> QED BY <1>4, <2>2 DEF AskedFor
<1>14. ASSUME NEW k \in DOMAIN wire',
              (wire'[k].kind = "steer" /\ wire'[k].answer = "refused")
                  \/ (wire'[k].kind = "check" /\ wire'[k].answer = "not_received")
       PROVE  wire'[k].turn \notin Reach(wire[k].id)'
  <2>1. k \in 1 .. Len(w) /\ wire'[k].kind = "steer" /\ wire'[k].answer = "refused"
    BY <1>4, <1>5, <1>6, <1>14
  <2>2. g[k] \in DOMAIN wire /\ wire'[k] = wire[g[k]]
    BY <1>6, <2>1
  <2>3. PICK i \in Inputs : i = wire'[k].id
    BY <2>1, <2>2, RequestTyped
  <2>4. wire'[k].turn \notin Reach(i)
    BY <2>1, <2>2, <2>3 DEF InTurn, PostOk
  <2> QED BY <1>10, <2>3, <2>4
<1>15. ItemsFollow
  <2> SUFFICES ASSUME NEW n \in DOMAIN queue', ~\E m \in DOMAIN queue : queue'[n] = queue[m],
                      NEW k \in DOMAIN wire', wire'[k].kind = "steer"
               PROVE  queue'[n].turn = 0 /\ Reach(queue'[n].id) = {} /\ wire'[k].id # queue'[n].id
    <3>1. \A n \in DOMAIN queue' : (~\E m \in DOMAIN queue : queue'[n] = queue[m])
              => queue'[n].turn = 0 /\ Reach(queue'[n].id) = {}
      BY <1>2
    <3> QED BY <3>1 DEF ItemsFollow
  <2>1. k \in 1 .. Len(w) /\ wire'[k] = w[k]
    BY <1>4, <1>5, <1>6
  <2> QED BY <1>1, <1>2, <2>1
<1>16. /\ added <= added' /\ withdrawn' \cap Ids(queue') = {} /\ withdrawn' \subseteq 1 .. added'
       /\ \A i \in Inputs : i > added' \/ i \in withdrawn' => Reach(i) = {}
  <2>1. added \in Nat
    BY QueueAssumption DEF QueueInv, Typed
  <2> QED BY <1>2, <2>1 DEF Reached
<1> QED BY <1>2, <1>9, <1>10, <1>11, <1>12, <1>13, <1>14, <1>15, <1>16, FollowKeeps

\* Nothing new is sent.
LEMMA PlainKeeps ==
    ASSUME QueueInv, QueueInv', Reached, StartsFirst, InTurn, NEW f,
           \A j, k \in DOMAIN wire' : j < k => f[j] < f[k],
           \A k \in DOMAIN wire' :
               /\ f[k] \in DOMAIN wire /\ Same(wire'[k], wire[f[k]])
               /\ \/ wire'[k].answer = wire[f[k]].answer
                  \/ wire'[k].turn \notin Reach(wire[k].id)'
                  \/ wire'[k].answer \notin {"refused", "not_received"},
           \A i \in Inputs : Reach(i)' \subseteq Reach(i), origin' = origin, ItemsFollow,
           (paused /\ loaded => paused' /\ loaded') \/ \A k \in DOMAIN wire' : wire'[k].kind # "check",
           added <= added', withdrawn' \cap Ids(queue') = {}, withdrawn' \subseteq 1 .. added',
           \A i \in Inputs : i > added' \/ i \in withdrawn' => Reach(i) = {}
    PROVE  Reached' /\ StartsFirst' /\ InTurn'
<1>1. wire \in Seq(Requests) /\ DOMAIN wire = 1 .. Len(wire) /\ Len(wire) \in Nat
  BY LenProperties DEF QueueInv, Typed
<1>2. \A k \in DOMAIN wire' : f[k] \in Nat /\ f[k] # Len(wire) + 1 /\ k \in Nat
  <2>1. \A k \in DOMAIN wire' : f[k] \in 1 .. Len(wire)
    BY <1>1
  <2>2. wire' \in Seq(Requests)
    BY DEF QueueInv, Typed
  <2> QED BY <1>1, <2>1, <2>2, RequestIn
<1>3. Follow(f)
  BY DEF Follow
<1>4. \A k \in DOMAIN wire' : wire'[k].kind = "check" => CheckOk(f[k])
  BY DEF InTurn, Checking, Same
<1>5. \A j, k \in DOMAIN wire' : wire'[j].kind = "check" /\ wire'[k].kind = "check" => j = k
  <2> SUFFICES ASSUME NEW j \in DOMAIN wire', NEW k \in DOMAIN wire', j < k,
                      wire'[j].kind = "check", wire'[k].kind = "check"
               PROVE  FALSE
    BY <1>2
  <2>1. f[j] < f[k] /\ f[k] > f[j]
    BY <1>2
  <2>2. wire[f[k]].kind = "start"
    BY <1>4, <2>1 DEF CheckOk
  <2> QED BY <2>2 DEF Same
<1>6. \A k \in DOMAIN wire' : wire'[k].kind = "check" => paused' /\ loaded'
  BY <1>4 DEF CheckOk
<1>7. ASSUME NEW k \in DOMAIN wire',
             (wire'[k].kind = "steer" /\ wire'[k].answer = "refused")
                 \/ (wire'[k].kind = "check" /\ wire'[k].answer = "not_received")
      PROVE  wire'[k].turn \notin Reach(wire[k].id)'
  <2> SUFFICES ASSUME wire'[k].answer = wire[f[k]].answer
               PROVE  wire'[k].turn \notin Reach(wire[k].id)'
    <3>1. wire'[k].answer \in {"refused", "not_received"}
      BY <1>7
    <3> QED BY <3>1
  <2>1. PICK i \in Inputs : i = wire'[k].id /\ i = wire[f[k]].id
    <3>1. wire'[k].id = wire[f[k]].id /\ wire[f[k]].kind # "start"
      BY <1>7 DEF Same
    <3> QED BY <1>1, <3>1, RequestIn
  <2>2. wire'[k].turn \notin Reach(i)
    BY <1>7, <1>4, <2>1 DEF InTurn, PostOk, CheckOk, Same
  <2> QED BY <2>1, <2>2
<1> QED BY <1>2, <1>3, <1>5, <1>6, <1>7, FollowKeeps

\* The requests and the server are as they were.
LEMMA AsideKeeps ==
    ASSUME QueueInv, QueueInv', Reached, StartsFirst, InTurn,
           UNCHANGED <<wire, server, origin>>, ItemsFollow,
           paused /\ loaded => paused' /\ loaded',
           added <= added', withdrawn' \cap Ids(queue') = {}, withdrawn' \subseteq 1 .. added',
           \A i \in Inputs : i > added' \/ i \in withdrawn' => Reach(i) = {}
    PROVE  Reached' /\ StartsFirst' /\ InTurn'
<1>1. PICK f : f = [k \in DOMAIN wire |-> k]
  OBVIOUS
<1>2. \A k \in DOMAIN wire' :
          /\ f[k] \in DOMAIN wire /\ Same(wire'[k], wire[f[k]]) /\ wire'[k].answer = wire[f[k]].answer
  BY <1>1 DEF Same
<1>3. \A j, k \in DOMAIN wire' : j < k => f[j] < f[k]
  BY <1>1
<1>4. \A i \in Inputs : Reach(i)' \subseteq Reach(i)
  BY DEF Reach, server
<1> QED BY <1>2, <1>3, <1>4, PlainKeeps

\* Nor are the items or what was added and taken back.
LEMMA StillKeeps ==
    ASSUME QueueInv, QueueInv', Reached, StartsFirst, InTurn,
           UNCHANGED <<wire, server, origin, paused, loaded, added, withdrawn>>,
           queue' = queue \/ \E i : queue' = Without(queue, i)
    PROVE  Reached' /\ StartsFirst' /\ InTurn'
<1>1. queue \in Seq(Items) /\ Single(queue)
  BY DEF QueueInv, Typed, QueueOk
<1>2. Ids(queue') \subseteq Ids(queue) /\ \A n \in DOMAIN queue' : \E m \in DOMAIN queue : queue'[n] = queue[m]
  BY <1>1, WithoutItem
<1>3. ItemsFollow
  BY <1>2 DEF ItemsFollow
<1>4. /\ added <= added' /\ withdrawn' \cap Ids(queue') = {} /\ withdrawn' \subseteq 1 .. added'
      /\ \A i \in Inputs : i > added' \/ i \in withdrawn' => Reach(i) = {}
  <2>1. added \in Nat
    BY QueueAssumption DEF QueueInv, Typed
  <2> QED BY <1>2, <2>1 DEF Reached
<1> QED BY <1>3, <1>4, AsideKeeps

\* One request is taken from the wire, by its answer or by the network.
LEMMA TakenKeeps ==
    ASSUME QueueInv, QueueInv', Reached, StartsFirst, InTurn,
           NEW n \in DOMAIN wire, wire' = RemoveAt(wire, n),
           \A i \in Inputs : Reach(i)' \subseteq Reach(i),
           UNCHANGED <<origin, loaded, added, withdrawn>>, paused => paused',
           ItemsFollow, Ids(queue') \subseteq Ids(queue)
    PROVE  Reached' /\ StartsFirst' /\ InTurn'
<1>1. wire \in Seq(Requests) /\ wire' \in Seq(Requests)
  BY DEF QueueInv, Typed
<1>2. PICK f : f = [j \in Nat |-> IF j < n THEN j ELSE j + 1]
  OBVIOUS
<1>3. n \in Nat /\ \A k \in DOMAIN wire' : k \in Nat
  BY <1>1, RequestIn
<1>4. \A k \in DOMAIN wire' : f[k] \in DOMAIN wire /\ wire'[k] = wire[f[k]]
  <2>1. \A j \in DOMAIN wire' :
            /\ (IF j < n THEN j ELSE j + 1) \in DOMAIN wire
            /\ wire'[j] = wire[IF j < n THEN j ELSE j + 1]
    BY <1>1, Taken
  <2>2. \A j \in DOMAIN wire' : f[j] = IF j < n THEN j ELSE j + 1
    BY <1>2, <1>3
  <2> QED BY <2>1, <2>2
<1>5. \A j, k \in DOMAIN wire' : j < k => f[j] < f[k]
  BY <1>2, <1>3
<1>6. \A k \in DOMAIN wire' : Same(wire'[k], wire[f[k]]) /\ wire'[k].answer = wire[f[k]].answer
  BY <1>4 DEF Same
<1>7. /\ added <= added' /\ withdrawn' \cap Ids(queue') = {} /\ withdrawn' \subseteq 1 .. added'
      /\ \A i \in Inputs : i > added' \/ i \in withdrawn' => Reach(i) = {}
  <2>1. added \in Nat
    BY QueueAssumption DEF QueueInv, Typed
  <2> QED BY <2>1 DEF Reached
<1> QED BY <1>4, <1>5, <1>6, <1>7, PlainKeeps

-----------------------------------------------------------------------------
(* A step, one action at a time *)

Queue == QueueInv /\ QueueInv' /\ Orderly /\ OnceInv

LEMMA NoChecks ==
    ASSUME OnceInv, paused = FALSE \/ loaded = FALSE
    PROVE  \A k \in DOMAIN wire : wire[k].kind # "check"
BY DEF OnceInv, InTurn, Checking, CheckOk

LEMMA ReachSame ==
    ASSUME UNCHANGED <<wire, server, origin>>
    PROVE  \A i : Reach(i)' = Reach(i)
BY DEF Reach, server

\* A reconcile that begins finds the items as they are in the queue.
LEMMA Begins ==
    ASSUME Queue, \A k \in DOMAIN wire : wire[k].kind # "check", NEW caller, NEW p,
           Proceed(caller, Uncertain(queue), queue, p, wire),
           UNCHANGED <<turn, server, added, withdrawn>>,
           Uncertain(queue) # {} => paused' /\ loaded'
    PROVE  Reached' /\ StartsFirst' /\ InTurn'
<1>1. wire \in Seq(Requests) /\ QueueInv /\ QueueInv' /\ Reached /\ StartsFirst /\ InTurn
  BY DEF Queue, QueueInv, Typed, OnceInv
<1>2. PICK f : f = [k \in DOMAIN wire |-> k]
  OBVIOUS
<1>3. Others(wire, f)
  BY <1>2 DEF Others
<1>4. Uncertain(queue) \in SUBSET Items
  BY <1>1, UncertainOk
<1>5. ListOf(Uncertain(queue), queue)
  BY <1>1 DEF ListOf, Uncertain, QueueInv, QueueOk, Single
<1>6. ItemsOf(queue, wire)
  BY DEF ItemsOf
<1> QED BY <1>1, <1>3, <1>4, <1>5, <1>6, ProceedInTurn

LEMMA OnceLoad == ASSUME Queue, Load PROVE OnceInv'
<1>1. PICK p \in BOOLEAN : p = (paused \/ queue # <<>>)
  OBVIOUS
<1>2. Proceed("load", Uncertain(queue), queue, p, wire)
  BY <1>1 DEF Load
<1>3. \A k \in DOMAIN wire : wire[k].kind # "check"
  BY NoChecks DEF Load, Queue, QueueInv, Typed
<1>4. Uncertain(queue) # {} => paused' /\ loaded'
  <2>1. queue = <<>> => Uncertain(queue) = {}
    BY DEF Uncertain
  <2>2. Uncertain(queue) # {} => paused' = p
    BY <1>2 DEF Proceed
  <2>3. Uncertain(queue) # {} => p
    BY <1>1, <2>1
  <2>4. Uncertain(queue) # {} => paused'
    BY <2>2, <2>3
  <2> QED BY <2>4 DEF Load
<1>5. UNCHANGED <<turn, server, added, withdrawn>>
  BY DEF Load
<1>6. Reached' /\ StartsFirst' /\ InTurn'
  BY <1>2, <1>3, <1>4, <1>5, Begins
<1>7. Woken'
  <2>1. queue' = queue /\ (paused' = p \/ (paused' = FALSE /\ "load" = "resume"))
    BY <1>2 DEF Proceed
  <2>2. queue # <<>> => paused'
    BY <1>1, <2>1
  <2> QED BY <2>1, <2>2 DEF Woken, Dispatchable
<1>8. loaded'
  BY DEF Load
<1> QED BY <1>6, <1>7, <1>8 DEF OnceInv, Unloaded

LEMMA OnceResume == ASSUME Queue, Resume PROVE OnceInv'
<1>1. PICK p \in BOOLEAN : p = paused
  BY DEF Queue, QueueInv, Typed
<1>2. Proceed("resume", Uncertain(queue), queue, p, wire)
  BY <1>1 DEF Resume
<1>3. \A k \in DOMAIN wire : wire[k].kind # "check"
  BY DEF Resume, Undisturbed, Checking, Queue
<1>4. Uncertain(queue) # {} => paused' /\ loaded'
  <2>1. Uncertain(queue) # {} => paused' = p
    BY <1>2 DEF Proceed
  <2>2. p /\ loaded'
    BY <1>1 DEF Resume
  <2> QED BY <2>1, <2>2
<1>5. UNCHANGED <<turn, server, added, withdrawn>>
  BY DEF Resume
<1>6. Reached' /\ StartsFirst' /\ InTurn'
  BY <1>2, <1>3, <1>4, <1>5, Begins
<1>7. Woken'
  <2>1. \/ paused' = p
        \/ drains' = drains + 1
    BY <1>2 DEF Proceed, CallDrain
  <2>2. drains \in Nat
    BY DEF Queue, QueueInv, Typed
  <2>3. paused' \/ drains' > 0
    <3>1. p
      BY <1>1 DEF Resume
    <3>2. CASE paused' = p
      BY <3>1, <3>2
    <3>3. CASE drains' = drains + 1
      BY <2>2, <3>3
    <3> QED BY <2>1, <3>2, <3>3
  <2> QED BY <2>3 DEF Woken, Dispatchable
<1>8. loaded'
  BY DEF Resume
<1> QED BY <1>6, <1>7, <1>8 DEF OnceInv, Unloaded

LEMMA OnceFinish == ASSUME Queue, NEW t \in Turns, NEW b \in BOOLEAN, Finish(t, b) PROVE OnceInv'
<1>0. loaded'
  BY DEF Finish, Queue, QueueInv, Typed, OnceInv, Unloaded
<1>1. CASE ~b
  <2>1. Proceed("finish", Uncertain(queue), queue, TRUE, wire)
    BY <1>1 DEF Finish
  <2>2. \A k \in DOMAIN wire : wire[k].kind # "check"
    BY <1>1 DEF Finish, Undisturbed, Checking, Queue
  <2>3. /\ UNCHANGED <<turn, server, added, withdrawn>>
        /\ Uncertain(queue) # {} => paused' /\ loaded'
    BY <1>0, <1>1, <2>1 DEF Finish, Proceed
  <2>4. Reached' /\ StartsFirst' /\ InTurn'
    BY <2>1, <2>2, <2>3, Begins
  <2>5. Woken'
    BY <2>1 DEF Proceed, Woken, Dispatchable
  <2> QED BY <1>0, <2>4, <2>5 DEF OnceInv, Unloaded
<1>2. CASE b
  <2>1. UNCHANGED <<queue, wire, server, origin, paused, loaded, added, withdrawn>>
    BY <1>2 DEF Finish, saved, turn
  <2>2. Reached' /\ StartsFirst' /\ InTurn'
    BY <2>1, StillKeeps DEF Queue, OnceInv
  <2>3. Woken'
    <3>1. drains' = drains + 1 /\ drains \in Nat
      BY <1>2 DEF Finish, CallDrain, Queue, QueueInv, Typed
    <3> QED BY <3>1 DEF Woken
  <2> QED BY <1>0, <2>2, <2>3 DEF OnceInv, Unloaded
<1> QED BY <1>1, <1>2

\* Without the check the requests are others.
LEMMA OthersLeft ==
    ASSUME Queue, NEW n \in DOMAIN wire, wire[n].kind = "check"
    PROVE  /\ RemoveAt(wire, n) \in Seq(Requests) /\ \E f : Others(RemoveAt(wire, n), f)
           /\ \A j \in DOMAIN wire : j > n => wire[j].kind = "start"
           /\ paused = TRUE /\ loaded = TRUE
           /\ \A j \in DOMAIN RemoveAt(wire, n) : \E m \in DOMAIN wire : m # n /\ RemoveAt(wire, n)[j] = wire[m]
<1>1. wire \in Seq(Requests) /\ n \in Nat /\ \A j \in DOMAIN wire : j \in Nat
  BY RequestIn DEF Queue, QueueInv, Typed
<1> DEFINE w == RemoveAt(wire, n)
<1>2. /\ w \in Seq(Requests)
      /\ \A j \in DOMAIN w : /\ (IF j < n THEN j ELSE j + 1) \in DOMAIN wire \ {n}
                             /\ w[j] = wire[IF j < n THEN j ELSE j + 1]
  BY <1>1, Taken
<1> HIDE DEF w
<1>3. \A j \in DOMAIN w : j \in Nat
  BY <1>2, RequestIn
<1>4. \A k \in DOMAIN wire : wire[k].kind = "check" => CheckOk(k)
  BY DEF Queue, OnceInv, InTurn, Checking
<1>5. \A j \in DOMAIN wire : j > n => wire[j].kind = "start"
  BY <1>4 DEF CheckOk
<1>6. \A j \in DOMAIN wire : j # n => wire[j].kind # "check"
  <2> SUFFICES ASSUME NEW j \in DOMAIN wire, j < n, wire[j].kind = "check" PROVE FALSE
    BY <1>1, <1>5
  <2>1. wire[n].kind = "start"
    BY <1>1, <1>4 DEF CheckOk
  <2> QED BY <2>1
<1>7. PICK f : f = [j \in Nat |-> IF j < n THEN j ELSE j + 1]
  OBVIOUS
<1>8. Others(w, f)
  <2>1. \A j \in DOMAIN w : f[j] = IF j < n THEN j ELSE j + 1
    BY <1>3, <1>7
  <2>2. \A j, k \in DOMAIN w : j < k => f[j] < f[k]
    BY <1>1, <1>3, <2>1
  <2>3. \A j \in DOMAIN w : f[j] \in DOMAIN wire \ {n} /\ w[j] = wire[f[j]]
    BY <1>2, <2>1
  <2> QED BY <1>6, <2>2, <2>3 DEF Others
<1>9. paused = TRUE /\ loaded = TRUE
  BY <1>4 DEF CheckOk, Queue, QueueInv, Typed
<1>10. \A j \in DOMAIN w : \E m \in DOMAIN wire : m # n /\ w[j] = wire[m]
  BY <1>2
<1> QED BY <1>2, <1>5, <1>8, <1>9, <1>10 DEF w

LEMMA OnceCheckFails == ASSUME Queue, NEW k \in DOMAIN wire, CheckFails(k) PROVE OnceInv'
<1>1. /\ wire[k].kind = "check"
      /\ Proceed(wire[k].caller, wire[k].rest, queue, paused, RemoveAt(wire, k))
      /\ UNCHANGED <<turn, server, added, withdrawn>> /\ UNCHANGED loaded
  BY DEF CheckFails, Checking
<1>2. PICK f : Others(RemoveAt(wire, k), f)
  BY <1>1, OthersLeft
<1>3. RemoveAt(wire, k) \in Seq(Requests) /\ paused = TRUE /\ loaded = TRUE
  BY <1>1, OthersLeft
<1>4. wire[k].rest \in SUBSET Items /\ ListOf(wire[k].rest, queue)
  <2>1. CheckOk(k)
    BY <1>1 DEF Queue, OnceInv, InTurn, Checking
  <2>2. wire[k].rest \in SUBSET Items
    BY <1>1, Asked DEF Checking, Queue
  <2> QED BY <2>1, <2>2 DEF CheckOk, AskedFor, ListOf
<1>5. ItemsOf(queue, RemoveAt(wire, k))
  BY DEF ItemsOf
<1>6. wire[k].rest # {} => paused' /\ loaded'
  BY <1>1, <1>3 DEF Proceed
<1>7. QueueInv /\ QueueInv' /\ Reached /\ StartsFirst /\ InTurn
  BY DEF Queue, OnceInv
<1>8. Reached' /\ StartsFirst' /\ InTurn'
  BY <1>1, <1>2, <1>3, <1>4, <1>5, <1>6, <1>7, ProceedInTurn
<1>9. Woken'
  <2>1. paused' = TRUE \/ (drains' = drains + 1 /\ drains \in Nat)
    BY <1>1, <1>3 DEF Proceed, CallDrain, Queue, QueueInv, Typed
  <2> QED BY <2>1 DEF Woken, Dispatchable
<1>10. Unloaded'
  BY <1>1, <1>3 DEF Unloaded
<1> QED BY <1>8, <1>9, <1>10 DEF OnceInv

LEMMA OnceCheckAnswered == ASSUME Queue, NEW k \in DOMAIN wire, CheckAnswered(k) PROVE OnceInv'
<1> DEFINE q == Apply(queue, wire[k])
           w == RemoveAt(wire, k)
<1>1. /\ wire[k].kind = "check" /\ k = 1 /\ wire[k].answer # "none"
      /\ Proceed(wire[k].caller, wire[k].rest, q, paused, w)
      /\ UNCHANGED <<turn, server, added, withdrawn>> /\ UNCHANGED loaded
  BY DEF CheckAnswered, Checking, Ready, Queue
<1>2. PICK f : Others(w, f)
  BY <1>1, OthersLeft
<1>3. /\ w \in Seq(Requests) /\ paused = TRUE /\ loaded = TRUE
      /\ \A j \in DOMAIN w : w[j].kind = "start"
  <2>1. /\ w \in Seq(Requests) /\ paused = TRUE /\ loaded = TRUE
        /\ \A j \in DOMAIN wire : j > k => wire[j].kind = "start"
        /\ \A j \in DOMAIN w : \E m \in DOMAIN wire : m # k /\ w[j] = wire[m]
    BY <1>1, OthersLeft
  <2>2. \A j \in DOMAIN wire : j \in Nat /\ j >= 1
    BY LenProperties DEF Queue, QueueInv, Typed
  <2>3. \A j \in DOMAIN wire : j # k => j > k
    BY <1>1, <2>2
  <2> HIDE DEF w
  <2>4. \A j \in DOMAIN w : w[j].kind = "start"
    BY <2>1, <2>3
  <2> QED BY <2>1, <2>4
<1>4. CheckOk(k) /\ wire[k].rest \in SUBSET Items
  BY <1>1, Asked DEF Queue, OnceInv, InTurn, Checking
<1>5. PICK i \in Inputs, t \in Turns : i = wire[k].id /\ t = wire[k].turn
  BY <1>1, RequestTyped DEF Queue
<1>6. queue \in Seq(Items) /\ Single(queue) /\ QueueInv
  BY DEF Queue, QueueInv, Typed, QueueOk
<1>7. /\ Ids(q) \subseteq Ids(queue)
      /\ \A n \in DOMAIN q :
             \/ \E m \in DOMAIN queue : q[n] = queue[m]
             \/ /\ q[n].turn = 0 /\ Reach(q[n].id) = {}
                /\ \E m \in DOMAIN queue : q[n].id = queue[m].id
  <2>1. CASE wire[k].answer = "received"
    <3>1. q = Without(queue, i)
      BY <1>5, <2>1 DEF Apply
    <3> QED BY <1>6, <3>1, WithoutItem
  <2>2. CASE wire[k].answer = "not_received"
    <3>1. q = With(queue, i, "queued", 0)
      BY <1>5, <2>2 DEF Apply, Reset
    <3>2. /\ DOMAIN q = DOMAIN queue /\ Ids(q) = Ids(queue)
          /\ \A n \in DOMAIN queue :
                 q[n] = IF queue[n].id = i THEN [id |-> i, status |-> "queued", turn |-> 0] ELSE queue[n]
      <4>1. "queued" \in {"queued", "sending", "steering"} /\ 0 \in Turns \cup {0}
        OBVIOUS
      <4>2. \A s \in {"queued", "sending", "steering"}, u \in Turns \cup {0} :
                /\ DOMAIN With(queue, i, s, u) = DOMAIN queue
                /\ Ids(With(queue, i, s, u)) = Ids(queue)
                /\ \A n \in DOMAIN queue :
                       With(queue, i, s, u)[n] =
                           IF queue[n].id = i THEN [id |-> i, status |-> s, turn |-> u] ELSE queue[n]
        BY <1>6, WithItem
      <4> HIDE DEF q
      <4> QED BY <3>1, <4>1, <4>2
    <3>3. ASSUME NEW m \in DOMAIN queue, queue[m].id = i PROVE Reach(i) = {}
      <4>1. queue[m].turn \in {0, t} /\ t \notin Reach(i)
        BY <1>4, <1>5, <2>2, <3>3 DEF CheckOk, AskedFor
      <4>2. Reach(i) \subseteq {queue[m].turn} /\ Reach(i) \subseteq Turns
        BY <3>3 DEF Queue, OnceInv, Reached, Reach
      <4>3. 0 \notin Turns
        BY QueueAssumption DEF Turns
      <4> QED BY <4>1, <4>2, <4>3
    <3> HIDE DEF q
    <3>4. ASSUME NEW n \in DOMAIN q
          PROVE  \/ \E m \in DOMAIN queue : q[n] = queue[m]
                 \/ /\ q[n].turn = 0 /\ Reach(q[n].id) = {}
                    /\ \E m \in DOMAIN queue : q[n].id = queue[m].id
      <4>1. CASE queue[n].id = i
        <5>1. q[n].turn = 0 /\ q[n].id = i
          BY <3>2, <4>1
        <5> QED BY <3>2, <3>3, <4>1, <5>1
      <4>2. CASE queue[n].id # i
        BY <3>2, <4>2
      <4> QED BY <4>1, <4>2
    <3> QED BY <3>2, <3>4
  <2>3. CASE wire[k].answer = "waiting"
    <3>1. q = queue
      BY <2>3 DEF Apply
    <3> QED BY <3>1
  <2> QED BY <1>1, <1>6, <2>1, <2>2, <2>3, Asked DEF Checking
<1>8. ListOf(wire[k].rest, q)
  BY <1>4, <1>7 DEF CheckOk, AskedFor, ListOf
<1>9. ItemsOf(q, w)
  BY <1>3, <1>7 DEF ItemsOf
<1> HIDE DEF q, w
<1>10. wire[k].rest # {} => paused' /\ loaded'
  BY <1>1, <1>3 DEF Proceed
<1>11. QueueInv /\ QueueInv' /\ Reached /\ StartsFirst /\ InTurn
  BY DEF Queue, OnceInv
<1>12. Reached' /\ StartsFirst' /\ InTurn'
  BY <1>1, <1>2, <1>3, <1>4, <1>8, <1>9, <1>10, <1>11, ProceedInTurn
<1>13. Woken'
  <2>1. paused' = TRUE \/ (drains' = drains + 1 /\ drains \in Nat)
    BY <1>1, <1>3 DEF Proceed, CallDrain, Queue, QueueInv, Typed
  <2> QED BY <2>1 DEF Woken, Dispatchable
<1>14. Unloaded'
  BY <1>1, <1>3 DEF Unloaded
<1> QED BY <1>12, <1>13, <1>14 DEF OnceInv

\* A message is queued: no run may have heard of it.
LEMMA OnceEnqueue == ASSUME Queue, Enqueue PROVE OnceInv'
<1>1. /\ UNCHANGED <<wire, server, origin, paused, loaded, withdrawn>>
      /\ added' = added + 1 /\ added \in Nat
      /\ queue' = Append(queue, [id |-> added + 1, status |-> "queued", turn |-> 0])
      /\ drains' = drains + 1 /\ drains \in Nat /\ loaded
  BY QueueAssumption DEF Enqueue, turn, CallDrain, Queue, QueueInv, Typed
<1>2. added + 1 \in Inputs /\ Reach(added + 1) = {}
  <2>1. added + 1 \in Inputs /\ added + 1 > added
    BY <1>1, QueueAssumption DEF Enqueue, Inputs
  <2> QED BY <2>1 DEF Queue, OnceInv, Reached
<1>3. PICK item \in Items : /\ item = [id |-> added + 1, status |-> "queued", turn |-> 0]
                            /\ item.id = added + 1 /\ item.turn = 0
  <2>1. \A i \in Inputs : [id |-> i, status |-> "queued", turn |-> 0] \in Items
    BY DEF Items
  <2> QED BY <1>2, <2>1
<1>4. queue \in Seq(Items) /\ Single(queue) /\ item.id \notin Ids(queue)
  BY <1>1, <1>3 DEF Queue, QueueInv, Typed, QueueOk
<1>5. /\ Ids(queue') = Ids(queue) \cup {added + 1}
      /\ \A n \in DOMAIN queue' : queue'[n] = item \/ \E m \in DOMAIN queue : queue'[n] = queue[m]
  BY <1>1, <1>3, <1>4, AppendItem
<1>6. ItemsFollow
  <2>1. ASSUME NEW k \in DOMAIN wire', wire'[k].kind = "steer" PROVE wire'[k].id # added + 1
    <3>1. wire[k].id \in Inputs /\ wire[k].id <= added
      BY <1>1, <2>1, RequestTyped DEF Queue, OnceInv, InTurn, PostOk
    <3> QED BY <1>1, <3>1
  <2> QED BY <1>2, <1>3, <1>5, <2>1 DEF ItemsFollow
<1>7. /\ added <= added' /\ withdrawn' \cap Ids(queue') = {} /\ withdrawn' \subseteq 1 .. added'
      /\ \A i \in Inputs : i > added' \/ i \in withdrawn' => Reach(i) = {}
  <2>1. withdrawn \cap Ids(queue) = {} /\ withdrawn \subseteq 1 .. added
    BY DEF Queue, OnceInv, Reached
  <2>2. added + 1 \notin withdrawn /\ withdrawn \subseteq 1 .. added + 1
    BY <1>1, <2>1
  <2>3. \A i \in Inputs : i > added + 1 => i > added
    BY <1>1 DEF Inputs
  <2>4. added <= added'
    BY <1>1
  <2> QED BY <1>1, <1>5, <2>1, <2>2, <2>3, <2>4 DEF Queue, OnceInv, Reached
<1>8. Reached' /\ StartsFirst' /\ InTurn'
  BY <1>1, <1>6, <1>7, AsideKeeps DEF Queue, OnceInv
<1>9. Woken' /\ Unloaded'
  BY <1>1 DEF Woken, Unloaded
<1> QED BY <1>8, <1>9 DEF OnceInv

\* The user has a message back that no run may have heard of.
LEMMA OnceWithdraw == ASSUME Queue, NEW i \in Inputs, Withdraw(i) PROVE OnceInv'
<1>1. /\ UNCHANGED <<wire, server, origin, paused, loaded, added, active, drains, finishing, removing>>
      /\ withdrawn' = withdrawn \cup {i} /\ queue' = Without(queue, i) /\ loaded
  BY DEF Withdraw, turn, calls
<1>2. PICK m \in DOMAIN queue : queue[m].id = i /\ queue[m].turn = 0
  BY ItemTyped DEF Withdraw, Queued, Queue
<1>3. Reach(i) = {} /\ i \in 1 .. added
  <2>1. Reach(i) \subseteq {0} /\ Reach(i) \subseteq Turns
    BY <1>2 DEF Queue, OnceInv, Reached, Reach
  <2>2. 0 \notin Turns
    BY QueueAssumption DEF Turns
  <2>3. i <= added /\ added \in Nat
    BY SMTT(60), <1>2, ItemTyped, QueueAssumption DEF Queue, QueueInv, Typed
  <2> QED BY <2>1, <2>2, <2>3, QueueAssumption DEF Inputs
<1>4. queue \in Seq(Items) /\ Single(queue)
  BY DEF Queue, QueueInv, Typed, QueueOk
<1>5. /\ Ids(queue') = Ids(queue) \ {i}
      /\ \A n \in DOMAIN queue' : \E j \in DOMAIN queue : queue'[n] = queue[j]
  BY <1>1, <1>4, WithoutItem
<1>6. ItemsFollow
  BY <1>5 DEF ItemsFollow
<1>7. /\ added <= added' /\ withdrawn' \cap Ids(queue') = {} /\ withdrawn' \subseteq 1 .. added'
      /\ \A j \in Inputs : j > added' \/ j \in withdrawn' => Reach(j) = {}
  <2>1. added <= added
    BY QueueAssumption DEF Queue, QueueInv, Typed
  <2>2. withdrawn \cap Ids(queue) = {} /\ withdrawn \subseteq 1 .. added
    BY DEF Queue, OnceInv, Reached
  <2> QED BY <1>1, <1>3, <1>5, <2>1, <2>2 DEF Queue, OnceInv, Reached
<1>8. Reached' /\ StartsFirst' /\ InTurn'
  BY <1>1, <1>6, <1>7, AsideKeeps DEF Queue, OnceInv
<1>9. Woken'
  <2> SUFFICES ASSUME active = 0, Dispatchable' PROVE drains > 0 \/ finishing # {} \/ removing # {}
    BY <1>1 DEF Woken
  <2>1. AllQueued(queue) /\ queue # <<>>
    <3>1. ASSUME NEW n \in DOMAIN queue PROVE queue[n].status = "queued"
      <4>1. CASE queue[n].id = i
        BY <1>2, <1>4, <4>1, ItemTyped DEF Queue, Single
      <4>2. CASE queue[n].id # i
        <5>1. queue[n].id \in Ids(queue')
          BY <1>5, <4>2 DEF Ids
        <5>2. PICK j \in DOMAIN queue' : queue'[j].id = queue[n].id
          BY <5>1 DEF Ids
        <5>3. PICK l \in DOMAIN queue : queue'[j] = queue[l]
          BY <1>5
        <5>4. queue'[j].status = "queued" /\ l = n
          BY <1>4, <5>2, <5>3 DEF Dispatchable, AllQueued, Single
        <5> QED BY <5>3, <5>4
      <4> QED BY <4>1, <4>2
    <3>2. queue # <<>>
      BY <1>2
    <3> QED BY <3>1, <3>2 DEF AllQueued
  <2>2. ~paused
    BY <1>1 DEF Dispatchable
  <2> QED BY <1>1, <2>1, <2>2 DEF Queue, OnceInv, Woken, Dispatchable
<1>10. Unloaded'
  BY <1>1 DEF Unloaded
<1> QED BY <1>8, <1>9, <1>10 DEF OnceInv

LEMMA OnceReceived == ASSUME Queue, NEW i \in Inputs, Received(i) PROVE OnceInv'
<1>1. /\ UNCHANGED <<wire, server, origin, paused, loaded, added, withdrawn>>
      /\ queue' = Without(queue, i) /\ drains' = drains + 1 /\ drains \in Nat /\ removing # {}
  BY DEF Received, turn, history, CallDrain, Queue, QueueInv, Typed
<1>2. Reached' /\ StartsFirst' /\ InTurn'
  BY <1>1, StillKeeps DEF Queue, OnceInv
<1>3. Woken' /\ Unloaded'
  BY <1>1 DEF Woken, Unloaded, Queue, QueueInv, Typed, OnceInv
<1> QED BY <1>2, <1>3 DEF OnceInv

\* A step of the turn's stream.
LEMMA OnceStream ==
    ASSUME Queue, UNCHANGED <<saved, wire, server, origin, loaded, added, withdrawn, drains>>,
           active' = active \/ finishing' # {}, active = 0 => active' = 0, loaded \/ UNCHANGED <<finishing, removing>>,
           finishing \subseteq finishing', removing \subseteq removing'
    PROVE  OnceInv'
<1>1. Reached' /\ StartsFirst' /\ InTurn'
  BY StillKeeps DEF Queue, OnceInv, saved
<1>2. Woken' /\ Unloaded'
  BY DEF Woken, Unloaded, Dispatchable, Queue, OnceInv, saved
<1> QED BY <1>1, <1>2 DEF OnceInv

LEMMA OnceStreams ==
    ASSUME Queue, NEW t \in Turns,
           \/ Interrupt \/ SeeStarted(t) \/ (\E i \in Inputs : SeeReceived(t, i))
           \/ \E b \in BOOLEAN : EndTurn(t, b)
    PROVE  OnceInv'
<1>1. active # 0
  <2>1. 0 \notin Turns
    BY QueueAssumption DEF Turns
  <2> QED BY <2>1 DEF Interrupt, SeeStarted, SeeReceived, EndTurn
<1>2. loaded
  BY <1>1 DEF Queue, OnceInv, Unloaded, QueueInv, Typed
<1>3. UNCHANGED <<saved, wire, server, origin, loaded, added, withdrawn, drains>>
  BY DEF Interrupt, SeeStarted, SeeReceived, EndTurn, calls, history
<1>4. finishing \subseteq finishing' /\ removing \subseteq removing'
  BY DEF Interrupt, SeeStarted, SeeReceived, EndTurn, calls
<1>5. active' = active \/ finishing' # {}
  BY DEF Interrupt, SeeStarted, SeeReceived, EndTurn
<1> QED BY <1>1, <1>2, <1>3, <1>4, <1>5, OnceStream

\* A turn begins; the message it is for may reach it.
LEMMA BeginKeeps ==
    ASSUME Queue, NEW i \in Inputs \cup {0}, Begin(i), UNCHANGED <<server, added, withdrawn>>,
           NEW t \in Turns, t = turns + 1,
           i # 0 => Reach(i) = {} /\ i \in 1 .. added /\ i \notin withdrawn
    PROVE  /\ StartsFirst'
           /\ \A j \in Inputs : Reach(j)' \subseteq Reach(j) \cup (IF j = i THEN {t} ELSE {})
           /\ \A j \in Inputs : \A u, v \in Reach(j)' : u = v
           /\ \A j \in Inputs : j > added \/ j \in withdrawn => Reach(j)' = {}
           /\ DOMAIN wire' = 1 .. Len(wire) + 1 /\ DOMAIN wire = 1 .. Len(wire) /\ Len(wire) \in Nat
           /\ \A k \in DOMAIN wire : /\ wire'[k] = wire[k] /\ k \in Nat
                                     /\ origin'[wire[k].turn] = origin[wire[k].turn]
           /\ wire'[Len(wire) + 1].kind = "start" /\ wire'[Len(wire) + 1].turn = t /\ origin'[t] = i
<1>1. /\ wire' = Append(wire, Start(t)) /\ origin' = [origin EXCEPT ![t] = i]
      /\ origin \in [Turns -> Inputs \cup {0}] /\ wire \in Seq(Requests) /\ turns \in Nat
  BY QueueAssumption DEF Begin, Queue, QueueInv, Typed
<1>2. PICK r \in Requests : r = Start(t) /\ r.kind = "start" /\ r.turn = t
  <2>1. Start(t) \in Requests /\ Start(t).kind = "start" /\ Start(t).turn = t
    BY DEF Start, Requests
  <2> QED BY <2>1
<1>3. /\ DOMAIN wire' = 1 .. Len(wire) + 1 /\ DOMAIN wire = 1 .. Len(wire) /\ Len(wire) \in Nat
      /\ \A k \in 1 .. Len(wire) : wire'[k] = wire[k]
      /\ wire'[Len(wire) + 1] = r
  BY <1>1, <1>2, AppendProperties, LenProperties
<1>4. \A k \in DOMAIN wire : /\ wire[k].turn # t /\ wire[k].turn \in Turns /\ k \in Nat
                             /\ origin'[wire[k].turn] = origin[wire[k].turn]
  <2> SUFFICES ASSUME NEW k \in DOMAIN wire
               PROVE  /\ wire[k].turn # t /\ wire[k].turn \in Turns /\ k \in Nat
                      /\ origin'[wire[k].turn] = origin[wire[k].turn]
    OBVIOUS
  <2>1. wire[k].turn <= turns /\ wire[k].turn \in Turns /\ k \in Nat
    BY RequestTyped DEF Queue
  <2>2. \A u \in Turns : u <= turns => u # t
    BY <1>1, QueueAssumption DEF Turns
  <2> QED BY <1>1, <2>1, <2>2
<1>5. origin'[t] = i
  BY <1>1
<1>6. StartsFirst'
  <2> SUFFICES ASSUME NEW j \in DOMAIN wire', NEW k \in DOMAIN wire', j < k, wire'[k].kind = "start"
               PROVE  wire'[j].turn # wire'[k].turn
    BY DEF StartsFirst
  <2>1. CASE k \in DOMAIN wire
    <3>1. j \in DOMAIN wire
      BY <1>3, <2>1
    <3> QED BY <1>3, <2>1, <3>1 DEF StartsFirst, Queue, OnceInv
  <2>2. CASE k = Len(wire) + 1
    <3>1. j \in DOMAIN wire
      BY <1>3, <2>2
    <3> QED BY <1>2, <1>3, <1>4, <2>2, <3>1
  <2> QED BY <1>3, <2>1, <2>2
<1>7. ASSUME NEW j \in Inputs, NEW u \in Reach(j)', j # i \/ u # t PROVE u \in Reach(j)
  <2>0. u \in Turns
    BY DEF Reach
  <2>1. CASE j \in heard'[u] \/ (run'[u] = "live" /\ j \in waiting'[u])
    BY <2>0, <2>1 DEF Reach, server
  <2>2. CASE \E k \in DOMAIN wire' :
                 /\ wire'[k].turn = u
                 /\ \/ wire'[k].kind = "steer" /\ wire'[k].id = j /\ wire'[k].answer = "none"
                    \/ wire'[k].kind = "start" /\ origin'[u] = j
    <3>1. PICK k \in DOMAIN wire' :
                 /\ wire'[k].turn = u
                 /\ \/ wire'[k].kind = "steer" /\ wire'[k].id = j /\ wire'[k].answer = "none"
                    \/ wire'[k].kind = "start" /\ origin'[u] = j
      BY <2>2
    <3>2. CASE k \in DOMAIN wire
      <4>1. wire'[k] = wire[k]
        BY <1>3, <3>2
      <4>2. origin'[u] = origin[u]
        BY <1>4, <3>1, <3>2, <4>1
      <4> QED BY <2>0, <3>1, <3>2, <4>1, <4>2 DEF Reach
    <3>3. CASE k = Len(wire) + 1
      <4>1. u = t /\ wire'[k].kind = "start"
        BY <1>2, <1>3, <3>1, <3>3
      <4> QED BY <1>5, <1>7, <3>1, <4>1
    <3> QED BY <1>3, <3>2, <3>3
  <2> QED BY <2>0, <2>1, <2>2 DEF Reach
<1>8. \A j \in Inputs : Reach(j)' \subseteq Reach(j) \cup (IF j = i THEN {t} ELSE {})
  BY <1>7
<1>9. \A j \in Inputs : \A u, v \in Reach(j)' : u = v
  <2> SUFFICES ASSUME NEW j \in Inputs, NEW u \in Reach(j)', NEW v \in Reach(j)' PROVE u = v
    OBVIOUS
  <2>1. CASE j = i
    <3>1. Reach(j) = {}
      BY <2>1, QueueAssumption DEF Inputs
    <3> QED BY <1>8, <2>1, <3>1
  <2>2. CASE j # i
    BY <1>8, <2>2 DEF Queue, OnceInv, Reached
  <2> QED BY <2>1, <2>2
<1>10. \A j \in Inputs : j > added \/ j \in withdrawn => Reach(j)' = {}
  <2> SUFFICES ASSUME NEW j \in Inputs, j > added \/ j \in withdrawn PROVE Reach(j)' = {}
    OBVIOUS
  <2>1. j # i
    <3>1. added \in Nat /\ j # 0 /\ j \in Nat
      BY QueueAssumption DEF Queue, QueueInv, Typed, Inputs
    <3> QED BY <3>1
  <2>2. Reach(j) = {}
    BY DEF Queue, OnceInv, Reached
  <2> QED BY <1>8, <2>1, <2>2
<1> QED BY <1>2, <1>3, <1>4, <1>5, <1>6, <1>8, <1>9, <1>10

LEMMA NextTurn ==
    ASSUME Queue, NEW i \in Inputs \cup {0}, Begin(i), UNCHANGED server
    PROVE  turns + 1 \in Turns /\ active' = turns + 1 /\ active' # 0
<1>1. turns \in Nat /\ turns + 1 \in Turns /\ active' = turns + 1
  BY BeginOk DEF Queue
<1> QED BY <1>1

\* The user's turn is sent behind what is checked.
LEMMA OnceStartUserTurn == ASSUME Queue, StartUserTurn PROVE OnceInv'
<1>1. /\ Begin(0) /\ UNCHANGED <<queue, paused, loaded, server, added, withdrawn>> /\ loaded
  BY DEF StartUserTurn, saved, history
<1>2. PICK t \in Turns : t = turns + 1 /\ active' # 0
  BY <1>1, NextTurn
<1>3. /\ StartsFirst'
      /\ \A j \in Inputs : Reach(j)' \subseteq Reach(j) \cup (IF j = 0 THEN {t} ELSE {})
      /\ \A j \in Inputs : \A u, v \in Reach(j)' : u = v
      /\ \A j \in Inputs : j > added \/ j \in withdrawn => Reach(j)' = {}
      /\ DOMAIN wire' = 1 .. Len(wire) + 1 /\ DOMAIN wire = 1 .. Len(wire) /\ Len(wire) \in Nat
      /\ \A k \in DOMAIN wire : /\ wire'[k] = wire[k] /\ k \in Nat
                                /\ origin'[wire[k].turn] = origin[wire[k].turn]
      /\ wire'[Len(wire) + 1].kind = "start" /\ wire'[Len(wire) + 1].turn = t /\ origin'[t] = 0
  BY <1>1, <1>2, BeginKeeps
<1>4. \A j \in Inputs : Reach(j)' \subseteq Reach(j)
  <2>1. 0 \notin Inputs
    BY QueueAssumption DEF Inputs
  <2> QED BY <1>3, <2>1
<1>5. Reached'
  <2>1. \A n \in DOMAIN queue' : Reach(queue[n].id)' \subseteq {queue'[n].turn}
    <3> SUFFICES ASSUME NEW n \in DOMAIN queue PROVE Reach(queue[n].id)' \subseteq {queue[n].turn}
      BY <1>1
    <3>1. PICK i \in Inputs : i = queue[n].id
      BY ItemTyped DEF Queue
    <3>2. Reach(i) \subseteq {queue[n].turn}
      BY <3>1 DEF Queue, OnceInv, Reached
    <3>3. Reach(i)' \subseteq {queue[n].turn}
      BY <1>4, <3>2
    <3> QED BY <1>1, <3>1, <3>3
  <2> QED BY <1>1, <1>3, <2>1 DEF Queue, OnceInv, Reached
<1>6. ASSUME NEW k \in DOMAIN wire', wire'[k].kind = "check" PROVE CheckOk(k)'
  <2>1. k \in DOMAIN wire /\ wire'[k] = wire[k] /\ k \in Nat
    BY <1>3, <1>6
  <2>2. CheckOk(k)
    BY <1>6, <2>1 DEF Queue, OnceInv, InTurn, Checking
  <2>3. ASSUME NEW j \in DOMAIN wire', j > k PROVE wire'[j].kind = "start" /\ origin'[wire'[j].turn] = 0
    <3>1. CASE j \in DOMAIN wire
      BY <1>3, <2>2, <2>3, <3>1 DEF CheckOk
    <3>2. CASE j = Len(wire) + 1
      BY <1>3, <3>2
    <3> QED BY <1>3, <3>1, <3>2
  <2>4. AskedFor(wire[k].id, wire[k].turn)' /\ \A item \in wire'[k].rest : AskedFor(item.id, item.turn)'
    BY <1>1, <2>1, <2>2 DEF CheckOk, AskedFor
  <2>5. wire'[k].answer = "not_received" => wire'[k].turn \notin Reach(wire[k].id)'
    <3>1. PICK i \in Inputs : i = wire'[k].id
      BY <1>6, <2>1, RequestTyped DEF Queue
    <3>2. wire'[k].answer = "not_received" => wire'[k].turn \notin Reach(i)'
      BY <1>4, <2>1, <2>2, <3>1 DEF CheckOk
    <3> QED BY <3>1, <3>2
  <2> QED BY <1>1, <2>2, <2>3, <2>4, <2>5 DEF CheckOk
<1>7. ASSUME NEW k \in DOMAIN wire', wire'[k].kind = "steer" PROVE PostOk(k)'
  <2>1. k \in DOMAIN wire /\ wire'[k] = wire[k]
    BY <1>3, <1>7
  <2>2. PostOk(k)
    BY <1>7, <2>1 DEF Queue, OnceInv, InTurn
  <2>3. \A j \in DOMAIN wire' : wire'[j].kind = "steer" => j \in DOMAIN wire /\ wire'[j] = wire[j]
    BY <1>3
  <2>4. wire'[k].answer = "refused" => wire'[k].turn \notin Reach(wire[k].id)'
    <3>1. PICK i \in Inputs : i = wire'[k].id
      BY <1>7, <2>1, RequestTyped DEF Queue
    <3>2. wire'[k].answer = "refused" => wire'[k].turn \notin Reach(i)'
      BY <1>4, <2>1, <2>2, <3>1 DEF PostOk
    <3> QED BY <3>1, <3>2
  <2> QED BY <1>1, <2>1, <2>2, <2>3, <2>4 DEF PostOk
<1>8. InTurn'
  BY <1>6, <1>7 DEF InTurn, Checking
<1>9. Woken' /\ Unloaded'
  BY <1>1, <1>2 DEF Woken, Unloaded
<1> QED BY <1>3, <1>5, <1>8, <1>9 DEF OnceInv

\* A queued message is dispatched: no run may have heard of it.
LEMMA OnceDrain == ASSUME Queue, Drain PROVE OnceInv'
<1>1. /\ drains > 0 /\ drains' = drains - 1 /\ drains \in Nat
      /\ UNCHANGED <<paused, loaded, finishing, removing, server, added, withdrawn>> /\ loaded
  <2>1. drains > 0 /\ drains \in Nat
    BY DEF Drain, Queue, QueueInv, Typed
  <2>2. loaded
    BY <2>1 DEF Queue, OnceInv, Unloaded
  <2> QED BY <2>1, <2>2 DEF Drain, history
<1>2. CASE UNCHANGED <<turn, queue, wire>> /\ (active # 0 \/ ~Dispatchable)
  <2>1. Reached' /\ StartsFirst' /\ InTurn'
    BY <1>1, <1>2, StillKeeps DEF Queue, OnceInv, turn
  <2>2. Woken' /\ Unloaded'
    BY <1>1, <1>2 DEF Woken, Unloaded, turn, Dispatchable
  <2> QED BY <2>1, <2>2 DEF OnceInv
<1>3. CASE /\ Dispatchable /\ Begin(queue[1].id)
           /\ queue' = With(queue, queue[1].id, "sending", turns + 1)
  <2>1. queue \in Seq(Items) /\ Single(queue) /\ 1 \in DOMAIN queue
    <3>1. queue \in Seq(Items) /\ queue # <<>> /\ Single(queue)
      BY <1>3 DEF Dispatchable, Queue, QueueInv, Typed, QueueOk
    <3> QED BY <3>1, EmptySeq, LenProperties
  <2>2. PICK i \in Inputs : i = queue[1].id
    BY <2>1, ItemIn
  <2>3. \A n \in DOMAIN queue : queue[n].turn = 0 /\ Reach(queue[n].id) = {}
    <3> SUFFICES ASSUME NEW n \in DOMAIN queue PROVE queue[n].turn = 0 /\ Reach(queue[n].id) = {}
      OBVIOUS
    <3>1. queue[n].turn = 0
      BY <1>3, ItemTyped DEF Dispatchable, AllQueued, Queue
    <3>2. Reach(queue[n].id) \subseteq {0} /\ Reach(queue[n].id) \subseteq Turns
      BY <3>1 DEF Queue, OnceInv, Reached, Reach
    <3>3. 0 \notin Turns
      BY QueueAssumption DEF Turns
    <3> QED BY <3>1, <3>2, <3>3
  <2>4. Reach(i) = {} /\ i \in 1 .. added /\ i \notin withdrawn
    <3>1. i <= added /\ i \in Ids(queue)
      BY <2>1, <2>2, ItemTyped DEF Queue, Ids
    <3>2. i \in 1 .. added
      BY <3>1, QueueAssumption DEF Inputs, Queue, QueueInv, Typed
    <3> QED BY <2>1, <2>2, <2>3, <3>1, <3>2 DEF Queue, OnceInv, Reached
  <2>5. Begin(i)
    BY <1>3, <2>2
  <2>6. PICK t \in Turns : t = turns + 1 /\ active' # 0
    BY <1>1, <2>5, NextTurn
  <2>7. /\ StartsFirst'
        /\ \A j \in Inputs : Reach(j)' \subseteq Reach(j) \cup (IF j = i THEN {t} ELSE {})
        /\ \A j \in Inputs : \A u, v \in Reach(j)' : u = v
        /\ \A j \in Inputs : j > added \/ j \in withdrawn => Reach(j)' = {}
        /\ DOMAIN wire' = 1 .. Len(wire) + 1 /\ DOMAIN wire = 1 .. Len(wire) /\ Len(wire) \in Nat
        /\ \A k \in DOMAIN wire : /\ wire'[k] = wire[k] /\ k \in Nat
                                  /\ origin'[wire[k].turn] = origin[wire[k].turn]
        /\ wire'[Len(wire) + 1].kind = "start" /\ wire'[Len(wire) + 1].turn = t /\ origin'[t] = i
    BY <1>1, <2>4, <2>5, <2>6, BeginKeeps
  <2>8. /\ DOMAIN queue' = DOMAIN queue /\ Ids(queue') = Ids(queue)
        /\ \A n \in DOMAIN queue :
               queue'[n] = IF queue[n].id = i THEN [id |-> i, status |-> "sending", turn |-> t] ELSE queue[n]
    <3>1. queue' = With(queue, i, "sending", t)
      BY <1>3, <2>2, <2>6
    <3>2. "sending" \in {"queued", "sending", "steering"} /\ t \in Turns \cup {0}
      OBVIOUS
    <3>3. \A s \in {"queued", "sending", "steering"}, u \in Turns \cup {0} :
              /\ DOMAIN With(queue, i, s, u) = DOMAIN queue /\ Ids(With(queue, i, s, u)) = Ids(queue)
              /\ \A n \in DOMAIN queue :
                     With(queue, i, s, u)[n] =
                         IF queue[n].id = i THEN [id |-> i, status |-> s, turn |-> u] ELSE queue[n]
      BY <2>1, WithItem
    <3> QED BY <3>1, <3>2, <3>3
  <2>9. \A n \in DOMAIN queue' : Reach(queue[n].id)' \subseteq {queue'[n].turn}
    <3> SUFFICES ASSUME NEW n \in DOMAIN queue, NEW j \in Inputs, j = queue'[n].id
                 PROVE  Reach(j)' \subseteq {queue'[n].turn}
      <4>1. \A n \in DOMAIN queue' : n \in DOMAIN queue /\ queue'[n].id \in Inputs
        BY <2>1, <2>8, ItemIn
      <4> QED BY <4>1
    <3>1. CASE queue[n].id = i
      <4>1. queue'[n].turn = t /\ j = i
        BY <2>8, <3>1
      <4> QED BY <2>4, <2>7, <4>1
    <3>2. CASE queue[n].id # i
      <4>1. queue'[n] = queue[n] /\ j # i
        BY <2>8, <3>2
      <4> QED BY <2>3, <2>7, <4>1
    <3> QED BY <3>1, <3>2
  <2>10. Reached'
    BY <1>1, <2>7, <2>8, <2>9 DEF Queue, OnceInv, Reached
  <2>11. \A k \in DOMAIN wire' : wire'[k].kind # "start" =>
             k \in DOMAIN wire /\ wire'[k] = wire[k] /\ wire[k].kind = "steer"
    <3>1. paused = FALSE
      BY <1>3 DEF Dispatchable, Queue, QueueInv, Typed
    <3>2. \A k \in DOMAIN wire : wire[k].kind # "check"
      BY <3>1, NoChecks DEF Queue
    <3>3. \A k \in DOMAIN wire : wire[k].kind \in {"start", "steer", "check"}
      <4>1. \A r \in Requests : r.kind \in {"start", "steer", "check"}
        BY DEF Requests
      <4> QED BY <4>1, RequestTyped DEF Queue
    <3> QED BY <2>7, <3>2, <3>3
  <2>12. ASSUME NEW k \in DOMAIN wire', wire'[k].kind = "steer" PROVE PostOk(k)'
    <3>1. k \in DOMAIN wire /\ wire'[k] = wire[k] /\ PostOk(k)
      BY <2>11, <2>12 DEF Queue, OnceInv, InTurn
    <3>2. PICK j \in Inputs : j = wire[k].id /\ wire[k].turn \in Turns
      BY <2>12, <3>1, RequestTyped DEF Queue
    <3>3. \A n \in DOMAIN queue : queue[n].id # j
      <4>1. 0 \notin Turns
        BY QueueAssumption DEF Turns
      <4> QED BY <2>3, <3>1, <3>2, <4>1 DEF PostOk
    <3>4. \A n \in DOMAIN queue' : queue'[n].id # j
      BY <2>8, <3>3
    <3>5. wire'[k].answer = "refused" => wire'[k].turn \notin Reach(j)'
      <4>1. j # i
        BY <2>1, <2>2, <3>3
      <4> QED BY <2>7, <3>1, <3>2, <4>1 DEF PostOk
    <3>6. \A m \in DOMAIN wire' : wire'[m].kind = "steer" => m \in DOMAIN wire /\ wire'[m] = wire[m]
      BY <2>11
    <3> QED BY <1>1, <3>1, <3>2, <3>4, <3>5, <3>6 DEF PostOk
  <2>13. InTurn'
    BY <2>11, <2>12 DEF InTurn, Checking
  <2>14. Woken' /\ Unloaded'
    BY <1>1, <2>6 DEF Woken, Unloaded
  <2> QED BY <2>7, <2>10, <2>13, <2>14 DEF OnceInv
<1> QED BY <1>2, <1>3 DEF Drain

\* A queued message is steered: no run may have heard of it, and nothing of it
\* is on the wire.
LEMMA OnceSteer == ASSUME Queue, NEW i \in Inputs, Steer(i) PROVE OnceInv'
<1>1. /\ UNCHANGED <<paused, loaded, turn, calls, server, history>> /\ active # 0 /\ loaded
      /\ queue' = With(queue, i, "steering", active) /\ wire' = Append(wire, Post(i, active))
      /\ \A k \in DOMAIN wire : wire[k].kind # "check"
  BY DEF Steer, Undisturbed, Checking, Queue
<1>2. PICK t \in Turns : t = active
  BY <1>1, QueueAssumption DEF Queue, QueueInv, Typed, Turns
<1>3. /\ wire \in Seq(Requests) /\ queue \in Seq(Items) /\ Single(queue)
      /\ added' = added /\ withdrawn' = withdrawn /\ origin' = origin
      /\ UNCHANGED <<active, drains, finishing, removing>>
  BY <1>1 DEF Queue, QueueInv, Typed, QueueOk, history, turn, calls
<1>4. PICK r \in Requests : /\ r = Post(i, t) /\ r.kind = "steer" /\ r.turn = t /\ r.id = i
                            /\ r.answer = "none"
  <2>1. /\ Post(i, t) \in Requests /\ Post(i, t).kind = "steer" /\ Post(i, t).turn = t
        /\ Post(i, t).id = i /\ Post(i, t).answer = "none"
    BY DEF Post, Requests
  <2> QED BY <2>1
<1>5. /\ DOMAIN wire' = 1 .. Len(wire) + 1 /\ DOMAIN wire = 1 .. Len(wire) /\ Len(wire) \in Nat
      /\ \A k \in 1 .. Len(wire) : wire'[k] = wire[k]
      /\ wire'[Len(wire) + 1] = r
  BY <1>1, <1>2, <1>3, <1>4, AppendProperties, LenProperties
<1>6. /\ DOMAIN queue' = DOMAIN queue /\ Ids(queue') = Ids(queue)
      /\ \A n \in DOMAIN queue :
             queue'[n] = IF queue[n].id = i THEN [id |-> i, status |-> "steering", turn |-> t] ELSE queue[n]
  <2>1. queue' = With(queue, i, "steering", t)
    BY <1>1, <1>2
  <2>2. "steering" \in {"queued", "sending", "steering"} /\ t \in Turns \cup {0}
    OBVIOUS
  <2>3. \A s \in {"queued", "sending", "steering"}, u \in Turns \cup {0} :
            /\ DOMAIN With(queue, i, s, u) = DOMAIN queue /\ Ids(With(queue, i, s, u)) = Ids(queue)
            /\ \A n \in DOMAIN queue :
                   With(queue, i, s, u)[n] =
                       IF queue[n].id = i THEN [id |-> i, status |-> s, turn |-> u] ELSE queue[n]
    BY <1>3, WithItem
  <2> QED BY <2>1, <2>2, <2>3
<1>7. PICK m \in DOMAIN queue : queue[m].id = i /\ queue[m].turn = 0
  BY ItemTyped DEF Steer, Queued, Queue
<1>8. Reach(i) = {} /\ i \in 1 .. added /\ i \notin withdrawn /\ ~(i > added)
  <2>1. Reach(i) \subseteq {0} /\ Reach(i) \subseteq Turns
    BY <1>7 DEF Queue, OnceInv, Reached, Reach
  <2>2. 0 \notin Turns
    BY QueueAssumption DEF Turns
  <2>3. i <= added /\ added \in Nat /\ i \in Ids(queue)
    BY <1>7, ItemTyped, QueueAssumption DEF Queue, QueueInv, Typed, Ids
  <2>4. i \notin withdrawn
    BY <2>3 DEF Queue, OnceInv, Reached
  <2> QED BY <2>1, <2>2, <2>3, <2>4, QueueAssumption DEF Inputs
<1>9. ASSUME NEW j \in Inputs, NEW u \in Reach(j)', j # i \/ u # t PROVE u \in Reach(j)
  <2>0. u \in Turns
    BY DEF Reach
  <2>1. CASE j \in heard'[u] \/ (run'[u] = "live" /\ j \in waiting'[u])
    BY <1>1, <2>0, <2>1 DEF Reach, server
  <2>2. CASE \E k \in DOMAIN wire' :
                 /\ wire'[k].turn = u
                 /\ \/ wire'[k].kind = "steer" /\ wire'[k].id = j /\ wire'[k].answer = "none"
                    \/ wire'[k].kind = "start" /\ origin'[u] = j
    <3>1. PICK k \in DOMAIN wire' :
                 /\ wire'[k].turn = u
                 /\ \/ wire'[k].kind = "steer" /\ wire'[k].id = j /\ wire'[k].answer = "none"
                    \/ wire'[k].kind = "start" /\ origin'[u] = j
      BY <2>2
    <3>2. CASE k \in DOMAIN wire
      <4>1. wire'[k] = wire[k] /\ origin' = origin
        BY <1>3, <1>5, <3>2
      <4> QED BY <2>0, <3>1, <3>2, <4>1 DEF Reach
    <3>3. CASE k = Len(wire) + 1
      <4>1. u = t /\ wire'[k].kind = "steer" /\ wire'[k].id = i
        BY <1>4, <1>5, <3>1, <3>3
      <4> QED BY <1>9, <3>1, <4>1
    <3> QED BY <1>5, <3>2, <3>3
  <2> QED BY <2>0, <2>1, <2>2 DEF Reach
<1>10. \A j \in Inputs : /\ j # i => Reach(j)' \subseteq Reach(j)
                         /\ j = i => Reach(j)' \subseteq {t}
  BY <1>8, <1>9
<1>11. Reached'
  <2>1. \A n \in DOMAIN queue' : Reach(queue[n].id)' \subseteq {queue'[n].turn}
    <3> SUFFICES ASSUME NEW n \in DOMAIN queue, NEW j \in Inputs, j = queue'[n].id
                 PROVE  Reach(j)' \subseteq {queue'[n].turn}
      <4>1. \A n \in DOMAIN queue' : n \in DOMAIN queue /\ queue'[n].id \in Inputs
        BY <1>3, <1>6, ItemIn
      <4> QED BY <4>1
    <3>1. CASE queue[n].id = i
      <4>1. queue'[n].turn = t /\ j = i
        BY <1>6, <3>1
      <4> QED BY <1>10, <4>1
    <3>2. CASE queue[n].id # i
      <4>1. queue'[n] = queue[n] /\ j # i /\ j = queue[n].id
        BY <1>6, <3>2
      <4>2. Reach(j) \subseteq {queue[n].turn}
        BY <4>1 DEF Queue, OnceInv, Reached
      <4> QED BY <1>10, <4>1, <4>2
    <3> QED BY <3>1, <3>2
  <2>2. \A j \in Inputs : \A u, v \in Reach(j)' : u = v
    <3> SUFFICES ASSUME NEW j \in Inputs PROVE \A u, v \in Reach(j)' : u = v
      OBVIOUS
    <3>1. \A u, v \in Reach(j) : u = v
      BY DEF Queue, OnceInv, Reached
    <3> QED BY <1>10, <3>1
  <2>3. \A j \in Inputs : j > added \/ j \in withdrawn => Reach(j)' = {}
    <3> SUFFICES ASSUME NEW j \in Inputs, j > added \/ j \in withdrawn PROVE Reach(j)' = {}
      OBVIOUS
    <3>1. j # i /\ Reach(j) = {}
      BY <1>8 DEF Queue, OnceInv, Reached
    <3> QED BY <1>10, <3>1
  <2>4. withdrawn' \cap Ids(queue') = {} /\ withdrawn' \subseteq 1 .. added'
    BY <1>3, <1>6 DEF Queue, OnceInv, Reached
  <2> QED BY <1>3, <2>1, <2>2, <2>3, <2>4 DEF Reached
<1>12. StartsFirst'
  <2> SUFFICES ASSUME NEW j \in DOMAIN wire', NEW k \in DOMAIN wire', j < k, wire'[k].kind = "start"
               PROVE  wire'[j].turn # wire'[k].turn
    BY DEF StartsFirst
  <2>1. k \in DOMAIN wire /\ wire'[k] = wire[k]
    BY <1>4, <1>5
  <2>2. j \in DOMAIN wire /\ wire'[j] = wire[j]
    BY <1>5, <2>1
  <2> QED BY <2>1, <2>2 DEF StartsFirst, Queue, OnceInv
<1>13. \A k \in DOMAIN wire : wire[k].kind = "steer" => wire[k].id # i
  <2> SUFFICES ASSUME NEW k \in DOMAIN wire, wire[k].kind = "steer", wire[k].id = i PROVE FALSE
    OBVIOUS
  <2>1. queue[m].turn = wire[k].turn /\ wire[k].turn \in Turns
    BY <1>7, RequestTyped DEF Queue, OnceInv, InTurn, PostOk
  <2> QED BY <1>7, <2>1, QueueAssumption DEF Turns
<1>14. ASSUME NEW k \in DOMAIN wire', wire'[k].kind = "steer" PROVE PostOk(k)'
  <2>1. CASE k \in DOMAIN wire
    <3>1. wire'[k] = wire[k] /\ PostOk(k) /\ wire[k].kind = "steer"
      BY <1>5, <1>14, <2>1 DEF Queue, OnceInv, InTurn
    <3>2. PICK j \in Inputs : j = wire[k].id /\ j # i
      BY <1>13, <2>1, <3>1, RequestTyped DEF Queue
    <3>3. \A n \in DOMAIN wire' : wire'[n].kind = "steer" /\ wire'[n].id = j => n = k
      BY <1>4, <1>5, <3>1, <3>2 DEF PostOk
    <3>4. \A n \in DOMAIN queue' : queue'[n].id = j => queue'[n].turn = wire'[k].turn
      <4> SUFFICES ASSUME NEW n \in DOMAIN queue, queue'[n].id = j PROVE queue'[n].turn = wire[k].turn
        BY <1>6, <3>1
      <4>1. queue'[n] = queue[n]
        BY <1>6, <3>2
      <4> QED BY <3>1, <3>2, <4>1 DEF PostOk
    <3>5. wire'[k].answer = "refused" => wire'[k].turn \notin Reach(j)'
      BY <1>10, <3>1, <3>2 DEF PostOk
    <3> QED BY <1>3, <3>1, <3>2, <3>3, <3>4, <3>5 DEF PostOk
  <2>2. CASE k = Len(wire) + 1
    <3>1. wire'[k].id = i /\ wire'[k].turn = t /\ wire'[k].answer = "none"
      BY <1>4, <1>5, <2>2
    <3>2. \A n \in DOMAIN wire' : wire'[n].kind = "steer" /\ wire'[n].id = i => n = k
      BY <1>5, <1>13, <2>2
    <3>3. \A n \in DOMAIN queue' : queue'[n].id = i => queue'[n].turn = t
      <4> SUFFICES ASSUME NEW n \in DOMAIN queue, queue'[n].id = i PROVE queue'[n].turn = t
        BY <1>6
      <4>1. queue[n].id = i
        BY <1>6
      <4> QED BY <1>6, <4>1
    <3>4. i <= added'
      BY <1>3, <1>8 DEF Queue, QueueInv, Typed
    <3> QED BY <3>1, <3>2, <3>3, <3>4 DEF PostOk
  <2> QED BY <1>5, <2>1, <2>2
<1>15. InTurn'
  <2>1. \A k \in DOMAIN wire' : wire'[k].kind # "check"
    BY <1>1, <1>4, <1>5
  <2> QED BY <1>14, <2>1 DEF InTurn, Checking
<1>16. Woken' /\ Unloaded'
  BY <1>1, <1>3 DEF Woken, Unloaded
<1> QED BY <1>11, <1>12, <1>15, <1>16 DEF OnceInv
-----------------------------------------------------------------------------
(* Requests that fail, are refused or are lost *)

LEMMA ReachShrinks ==
    ASSUME UNCHANGED <<server, origin>>,
           \A k \in DOMAIN wire' : \E m \in DOMAIN wire : wire'[k] = wire[m]
    PROVE  \A i : Reach(i)' \subseteq Reach(i)
<1> SUFFICES ASSUME NEW i, NEW t \in Reach(i)' PROVE t \in Reach(i)
  OBVIOUS
<1>1. t \in Turns
  BY DEF Reach
<1>2. CASE i \in heard'[t] \/ (run'[t] = "live" /\ i \in waiting'[t])
  BY <1>1, <1>2 DEF Reach, server
<1>3. CASE \E k \in DOMAIN wire' :
               /\ wire'[k].turn = t
               /\ \/ wire'[k].kind = "steer" /\ wire'[k].id = i /\ wire'[k].answer = "none"
                  \/ wire'[k].kind = "start" /\ origin'[t] = i
  BY <1>1, <1>3 DEF Reach
<1> QED BY <1>1, <1>2, <1>3 DEF Reach

LEMMA TakenFrom ==
    ASSUME QueueInv, NEW n \in DOMAIN wire, wire' = RemoveAt(wire, n)
    PROVE  \A k \in DOMAIN wire' : \E m \in DOMAIN wire : m # n /\ wire'[k] = wire[m]
<1>1. wire \in Seq(Requests)
  BY DEF QueueInv, Typed
<1>2. \A j \in DOMAIN wire' : /\ (IF j < n THEN j ELSE j + 1) \in DOMAIN wire \ {n}
                              /\ wire'[j] = wire[IF j < n THEN j ELSE j + 1]
  BY <1>1, Taken
<1> QED BY <1>2

\* A reset item is one no run may have heard of.
LEMMA OnceSteerRefused == ASSUME Queue, NEW k \in DOMAIN wire, SteerRefused(k) PROVE OnceInv'
<1>1. /\ wire[k].kind = "steer" /\ wire[k].answer = "refused"
      /\ wire' = RemoveAt(wire, k) /\ queue' = Reset(queue, wire[k].id)
      /\ UNCHANGED <<server, origin, paused, loaded, added, withdrawn>>
      /\ drains' = drains + 1 /\ drains \in Nat
  BY DEF SteerRefused, turn, history, CallDrain, Queue, QueueInv, Typed
<1>2. PICK i \in Inputs, t \in Turns : i = wire[k].id /\ t = wire[k].turn
  BY <1>1, RequestTyped DEF Queue
<1>3. PostOk(k) /\ t \notin Reach(i)
  BY <1>1, <1>2 DEF Queue, OnceInv, InTurn, PostOk
<1>4. queue \in Seq(Items) /\ Single(queue)
  BY DEF Queue, QueueInv, Typed, QueueOk
<1>5. /\ DOMAIN queue' = DOMAIN queue /\ Ids(queue') = Ids(queue)
      /\ \A n \in DOMAIN queue :
             queue'[n] = IF queue[n].id = i THEN [id |-> i, status |-> "queued", turn |-> 0] ELSE queue[n]
  <2>1. queue' = With(queue, i, "queued", 0)
    BY <1>1, <1>2 DEF Reset
  <2>2. "queued" \in {"queued", "sending", "steering"} /\ 0 \in Turns \cup {0}
    OBVIOUS
  <2>3. \A s \in {"queued", "sending", "steering"}, u \in Turns \cup {0} :
            /\ DOMAIN With(queue, i, s, u) = DOMAIN queue /\ Ids(With(queue, i, s, u)) = Ids(queue)
            /\ \A n \in DOMAIN queue :
                   With(queue, i, s, u)[n] =
                       IF queue[n].id = i THEN [id |-> i, status |-> s, turn |-> u] ELSE queue[n]
    BY <1>4, WithItem
  <2> QED BY <2>1, <2>2, <2>3
<1>6. \A j \in DOMAIN wire' : \E m \in DOMAIN wire : m # k /\ wire'[j] = wire[m]
  BY <1>1, TakenFrom DEF Queue
<1>7. ItemsFollow
  <2> SUFFICES ASSUME NEW n \in DOMAIN queue, queue[n].id = i
               PROVE  /\ queue'[n].turn = 0 /\ Reach(queue'[n].id) = {}
                      /\ \A j \in DOMAIN wire' : wire'[j].kind = "steer" => wire'[j].id # queue'[n].id
    BY <1>5 DEF ItemsFollow
  <2>1. queue'[n].turn = 0 /\ queue'[n].id = i
    BY <1>5
  <2>2. queue[n].turn = t
    BY <1>2, <1>3 DEF PostOk
  <2>3. Reach(i) \subseteq {t}
    BY <2>2 DEF Queue, OnceInv, Reached
  <2>4. \A j \in DOMAIN wire' : wire'[j].kind = "steer" => wire'[j].id # i
    BY <1>2, <1>3, <1>6 DEF PostOk
  <2> QED BY <1>3, <2>1, <2>3, <2>4
<1>8. \A j \in Inputs : Reach(j)' \subseteq Reach(j)
  BY <1>1, <1>6, ReachShrinks
<1>9. Reached' /\ StartsFirst' /\ InTurn'
  BY <1>1, <1>5, <1>7, <1>8, TakenKeeps DEF Queue, OnceInv
<1>10. loaded
  BY <1>1 DEF Queue, OnceInv, Unloaded, QueueInv, Typed
<1>11. Woken' /\ Unloaded'
  BY <1>1, <1>10 DEF Woken, Unloaded
<1> QED BY <1>9, <1>11 DEF OnceInv

LEMMA OnceSteerFails == ASSUME Queue, NEW k \in DOMAIN wire, SteerFails(k) PROVE OnceInv'
<1>1. /\ wire[k].kind = "steer" /\ wire[k].waited /\ paused' = TRUE
      /\ UNCHANGED <<queue, server, origin, loaded, added, withdrawn>>
  BY DEF SteerFails, turn, history
<1>2. ItemsFollow
  BY <1>1 DEF ItemsFollow
<1>3. /\ added <= added' /\ withdrawn' \cap Ids(queue') = {} /\ withdrawn' \subseteq 1 .. added'
      /\ \A i \in Inputs : i > added' \/ i \in withdrawn' => Reach(i) = {}
  <2>1. added \in Nat
    BY QueueAssumption DEF Queue, QueueInv, Typed
  <2> QED BY <1>1, <2>1 DEF Queue, OnceInv, Reached
<1>4. Reached' /\ StartsFirst' /\ InTurn'
  <2>1. CASE wire[k].answer # "none"
    <3>1. wire' = RemoveAt(wire, k)
      BY <2>1 DEF SteerFails
    <3>2. \A j \in DOMAIN wire' : \E m \in DOMAIN wire : m # k /\ wire'[j] = wire[m]
      BY <3>1, TakenFrom DEF Queue
    <3>3. \A j \in Inputs : Reach(j)' \subseteq Reach(j)
      BY <1>1, <3>2, ReachShrinks
    <3>4. Ids(queue') \subseteq Ids(queue)
      BY <1>1
    <3> QED BY <1>1, <1>2, <3>1, <3>3, <3>4, TakenKeeps DEF Queue, OnceInv
  <2>2. CASE wire[k].answer = "none"
    <3>1. wire' = [wire EXCEPT ![k].waited = FALSE]
      BY <2>2 DEF SteerFails
    <3>2. PICK f : f = [j \in DOMAIN wire |-> j]
      OBVIOUS
    <3>3. PICK r : r = [wire[k] EXCEPT !.waited = FALSE]
      OBVIOUS
    <3>4. /\ r.kind = wire[k].kind /\ r.turn = wire[k].turn /\ r.id = wire[k].id
          /\ r.answer = wire[k].answer
      BY <1>1, <3>3, Posted DEF Queue
    <3>5. /\ DOMAIN wire' = DOMAIN wire
          /\ \A j \in DOMAIN wire : wire'[j] = IF j = k THEN r ELSE wire[j]
      BY <3>1, <3>3
    <3>6. \A j \in DOMAIN wire' :
              /\ f[j] \in DOMAIN wire /\ f[j] = j
              /\ Same(wire'[j], wire[f[j]]) /\ wire'[j].answer = wire[f[j]].answer
      <4> SUFFICES ASSUME NEW j \in DOMAIN wire
                   PROVE  Same(wire'[j], wire[j]) /\ wire'[j].answer = wire[j].answer
        BY <3>2, <3>5
      <4>1. CASE j = k
        BY <1>1, <3>4, <3>5, <4>1 DEF Same
      <4>2. CASE j # k
        BY <3>5, <4>2 DEF Same
      <4> QED BY <4>1, <4>2
    <3>7. \A i, j \in DOMAIN wire' : i < j => f[i] < f[j]
      BY <3>6
    <3>8. \A j \in Inputs : Reach(j)' \subseteq Reach(j)
      <4>1. Follow(f)
        BY <3>6, <3>7 DEF Follow
      <4> QED BY <1>1, <4>1, ReachFollows
    <3>9. paused /\ loaded => paused' /\ loaded'
      BY <1>1
    <3> QED BY <1>1, <1>2, <1>3, <3>6, <3>7, <3>8, <3>9, PlainKeeps DEF Queue, OnceInv
  <2> QED BY <2>1, <2>2
<1>5. loaded
  <2>1. ~(wire[k].waited = FALSE)
    BY <1>1
  <2> QED BY <2>1 DEF Queue, OnceInv, Unloaded, QueueInv, Typed
<1>6. Woken' /\ Unloaded'
  BY <1>1, <1>5 DEF Woken, Unloaded, Dispatchable
<1> QED BY <1>4, <1>6 DEF OnceInv

LEMMA OnceDrop == ASSUME Queue, NEW k \in DOMAIN wire, Drop(k) PROVE OnceInv'
<1>1. /\ wire' = RemoveAt(wire, k)
      /\ UNCHANGED <<queue, server, origin, paused, loaded, added, withdrawn>>
      /\ UNCHANGED <<active, drains, finishing, removing>>
  BY DEF Drop, saved, turn, calls, history
<1>2. ItemsFollow /\ Ids(queue') \subseteq Ids(queue)
  BY <1>1 DEF ItemsFollow
<1>3. \A j \in DOMAIN wire' : \E m \in DOMAIN wire : m # k /\ wire'[j] = wire[m]
  BY <1>1, TakenFrom DEF Queue
<1>4. \A j \in Inputs : Reach(j)' \subseteq Reach(j)
  BY <1>1, <1>3, ReachShrinks
<1>5. Reached' /\ StartsFirst' /\ InTurn'
  BY <1>1, <1>2, <1>4, TakenKeeps DEF Queue, OnceInv
<1>6. Woken' /\ Unloaded'
  <2>1. Woken'
    BY <1>1 DEF Woken, Dispatchable, Queue, OnceInv
  <2>2. Unloaded'
    BY <1>1, <1>3 DEF Unloaded, Queue, OnceInv
  <2> QED BY <2>1, <2>2
<1> QED BY <1>5, <1>6 DEF OnceInv
-----------------------------------------------------------------------------
(* The server and the network *)

\* The server goes on with a run: nothing new may reach it.
LEMMA OnceServer ==
    ASSUME Queue, UNCHANGED <<saved, loaded, turn, calls, wire, history>>,
           \A i \in Inputs : Reach(i)' \subseteq Reach(i)
    PROVE  OnceInv'
<1>1. PICK f : f = [j \in DOMAIN wire |-> j]
  OBVIOUS
<1>2. UNCHANGED <<queue, wire, origin, paused, loaded, added, withdrawn, active, drains, finishing, removing>>
  BY DEF saved, turn, calls, history
<1>3. \A j \in DOMAIN wire' :
          f[j] \in DOMAIN wire /\ Same(wire'[j], wire[f[j]]) /\ wire'[j].answer = wire[f[j]].answer
  BY <1>1, <1>2 DEF Same
<1>4. \A i, j \in DOMAIN wire' : i < j => f[i] < f[j]
  BY <1>1, <1>2
<1>5. ItemsFollow
  BY <1>2 DEF ItemsFollow
<1>6. /\ added <= added' /\ withdrawn' \cap Ids(queue') = {} /\ withdrawn' \subseteq 1 .. added'
      /\ \A i \in Inputs : i > added' \/ i \in withdrawn' => Reach(i) = {}
  <2>1. added \in Nat
    BY QueueAssumption DEF Queue, QueueInv, Typed
  <2> QED BY <1>2, <2>1 DEF Queue, OnceInv, Reached
<1>7. Reached' /\ StartsFirst' /\ InTurn'
  BY <1>2, <1>3, <1>4, <1>5, <1>6, PlainKeeps DEF Queue, OnceInv
<1>8. Woken' /\ Unloaded'
  BY <1>2 DEF Woken, Unloaded, Dispatchable, Queue, OnceInv
<1> QED BY <1>7, <1>8 DEF OnceInv

LEMMA OnceServerHears == ASSUME Queue, NEW t \in Turns, ServerHears(t) PROVE OnceInv'
<1>1. /\ run[t] = "live" /\ UNCHANGED <<saved, loaded, turn, calls, wire, run, history>>
      /\ heard' = [heard EXCEPT ![t] = heard[t] \cup waiting[t]]
      /\ waiting' = [waiting EXCEPT ![t] = {}]
      /\ heard \in [Turns -> SUBSET Inputs] /\ waiting \in [Turns -> SUBSET Inputs]
  BY DEF ServerHears, Queue, QueueInv, Typed
<1>2. ASSUME NEW i \in Inputs, NEW u \in Reach(i)' PROVE u \in Reach(i)
  <2>0. u \in Turns /\ origin' = origin
    BY <1>1 DEF Reach, turn
  <2>1. CASE i \in heard'[u] \/ (run'[u] = "live" /\ i \in waiting'[u])
    <3>1. CASE u = t
      <4>1. i \in heard[t] \/ i \in waiting[t]
        BY <1>1, <2>1, <3>1
      <4> QED BY <1>1, <2>0, <3>1, <4>1 DEF Reach
    <3>2. CASE u # t
      <4>1. heard'[u] = heard[u] /\ waiting'[u] = waiting[u]
        BY <1>1, <2>0, <3>2
      <4> QED BY <1>1, <2>0, <2>1, <4>1 DEF Reach
    <3> QED BY <3>1, <3>2
  <2>2. CASE \E k \in DOMAIN wire' :
                 /\ wire'[k].turn = u
                 /\ \/ wire'[k].kind = "steer" /\ wire'[k].id = i /\ wire'[k].answer = "none"
                    \/ wire'[k].kind = "start" /\ origin'[u] = i
    BY <1>1, <2>0, <2>2 DEF Reach
  <2> QED BY <2>1, <2>2 DEF Reach
<1> QED BY <1>1, <1>2, OnceServer

LEMMA OnceServerEnds == ASSUME Queue, NEW t \in Turns, ServerEnds(t) PROVE OnceInv'
<1>1. /\ UNCHANGED <<saved, loaded, turn, calls, wire, waiting, heard, history>>
      /\ \A u \in Turns : run'[u] = "live" => run[u] = "live"
  BY DEF ServerEnds, Queue, QueueInv, Typed
<1>2. \A i \in Inputs : Reach(i)' \subseteq Reach(i)
  BY <1>1 DEF Reach, turn
<1> QED BY <1>1, <1>2, OnceServer

\* The run of a start request that arrives has the message it could reach.
LEMMA OnceServeStart == ASSUME Queue, NEW k \in DOMAIN wire, ServeStart(k) PROVE OnceInv'
<1>1. PICK t \in Turns : t = wire[k].turn
  BY RequestTyped DEF Queue
<1>2. /\ wire[k].kind = "start" /\ wire' = RemoveAt(wire, k)
      /\ run' = [run EXCEPT ![t] = "live"] /\ heard' = [heard EXCEPT ![t] = {origin[t]} \ {0}]
      /\ UNCHANGED <<queue, paused, loaded, origin, waiting, added, withdrawn>>
      /\ UNCHANGED <<active, drains, finishing, removing>>
      /\ heard \in [Turns -> SUBSET Inputs] /\ run \in [Turns -> {"absent", "live", "completed", "failed"}]
  BY <1>1 DEF ServeStart, saved, turn, calls, history, Queue, QueueInv, Typed
<1>3. waiting[t] = {}
  BY <1>1, <1>2 DEF Queue, QueueInv, WireOk, Fine, RunsOk
<1>4. \A j \in DOMAIN wire' : \E m \in DOMAIN wire : m # k /\ wire'[j] = wire[m]
  BY <1>2, TakenFrom DEF Queue
<1>5. ASSUME NEW i \in Inputs, NEW u \in Reach(i)' PROVE u \in Reach(i)
  <2>0. u \in Turns
    BY DEF Reach
  <2>1. CASE i \in heard'[u] \/ (run'[u] = "live" /\ i \in waiting'[u])
    <3>1. CASE u = t
      <4>1. i = origin[t]
        BY <1>2, <1>3, <2>1, <3>1
      <4> QED BY <1>1, <1>2, <2>0, <3>1, <4>1 DEF Reach
    <3>2. CASE u # t
      <4>1. heard'[u] = heard[u] /\ run'[u] = run[u] /\ waiting' = waiting
        BY <1>2, <2>0, <3>2
      <4> QED BY <2>0, <2>1, <4>1 DEF Reach
    <3> QED BY <3>1, <3>2
  <2>2. CASE \E j \in DOMAIN wire' :
                 /\ wire'[j].turn = u
                 /\ \/ wire'[j].kind = "steer" /\ wire'[j].id = i /\ wire'[j].answer = "none"
                    \/ wire'[j].kind = "start" /\ origin'[u] = i
    <3>1. \E m \in DOMAIN wire :
              /\ wire[m].turn = u
              /\ \/ wire[m].kind = "steer" /\ wire[m].id = i /\ wire[m].answer = "none"
                 \/ wire[m].kind = "start" /\ origin[u] = i
      BY <1>2, <1>4, <2>2
    <3> QED BY <2>0, <3>1 DEF Reach
  <2> QED BY <2>1, <2>2 DEF Reach
<1>6. ItemsFollow /\ Ids(queue') \subseteq Ids(queue)
  BY <1>2 DEF ItemsFollow
<1>7. \A i \in Inputs : Reach(i)' \subseteq Reach(i)
  BY <1>5
<1>8. Reached' /\ StartsFirst' /\ InTurn'
  BY <1>2, <1>6, <1>7, TakenKeeps DEF Queue, OnceInv
<1>9. Woken'
  BY <1>2 DEF Woken, Dispatchable, Queue, OnceInv
<1>10. Unloaded'
  BY <1>2, <1>4 DEF Unloaded, Queue, OnceInv
<1> QED BY <1>8, <1>9, <1>10 DEF OnceInv

\* One request has a new answer.
LEMMA AnswerKeeps ==
    ASSUME Queue, NEW k \in DOMAIN wire, NEW r, wire' = [wire EXCEPT ![k] = r], Same(r, wire[k]),
           r.kind # "start", r.answer # "none",
           UNCHANGED <<saved, loaded, turn, calls, server, history>>, loaded,
           r.answer \in {"refused", "not_received"} => r.turn \notin Reach(wire[k].id)'
    PROVE  OnceInv'
<1>1. PICK f : f = [j \in DOMAIN wire |-> j]
  OBVIOUS
<1>2. UNCHANGED <<queue, origin, paused, loaded, added, withdrawn, active, drains, finishing, removing>>
  BY DEF saved, turn, calls, history
<1>3. /\ DOMAIN wire' = DOMAIN wire /\ wire'[k] = r
      /\ \A j \in DOMAIN wire : wire'[j] = IF j = k THEN r ELSE wire[j]
  OBVIOUS
<1>4. \A j \in DOMAIN wire' : /\ f[j] \in DOMAIN wire /\ f[j] = j
                              /\ Same(wire'[j], wire[f[j]])
                              /\ j # k => wire'[j].answer = wire[f[j]].answer
  <2>1. \A j \in DOMAIN wire : j # k => Same(wire'[j], wire[j]) /\ wire'[j].answer = wire[j].answer
    BY <1>3 DEF Same
  <2> QED BY <1>1, <1>3, <2>1
<1>5. r.answer \in {"refused", "not_received"} => wire'[k].turn \notin Reach(wire[k].id)'
  BY <1>3
<1>6. \A j \in DOMAIN wire' : \/ wire'[j].answer = wire[f[j]].answer
                              \/ wire'[j].turn \notin Reach(wire[j].id)'
                              \/ wire'[j].answer \notin {"refused", "not_received"}
  <2> SUFFICES ASSUME NEW j \in DOMAIN wire', j = k, wire'[j].answer \in {"refused", "not_received"}
               PROVE  wire'[j].turn \notin Reach(wire[j].id)'
    BY <1>4
  <2> QED BY <1>3, <1>5
<1>7. \A i, j \in DOMAIN wire' : i < j => f[i] < f[j]
  BY <1>4
<1>8. \A i \in Inputs : Reach(i)' \subseteq Reach(i)
  <2>1. Follow(f)
    BY <1>4, <1>7 DEF Follow
  <2> QED BY <1>2, <2>1, ReachFollows
<1>9. ItemsFollow
  BY <1>2 DEF ItemsFollow
<1>10. /\ added <= added' /\ withdrawn' \cap Ids(queue') = {} /\ withdrawn' \subseteq 1 .. added'
       /\ \A i \in Inputs : i > added' \/ i \in withdrawn' => Reach(i) = {}
  <2>1. added \in Nat
    BY QueueAssumption DEF Queue, QueueInv, Typed
  <2> QED BY <1>2, <2>1 DEF Queue, OnceInv, Reached
<1>11. Reached' /\ StartsFirst' /\ InTurn'
  BY <1>2, <1>4, <1>6, <1>7, <1>8, <1>9, <1>10, PlainKeeps DEF Queue, OnceInv
<1>12. Woken' /\ Unloaded'
  BY <1>2 DEF Woken, Unloaded, Dispatchable, Queue, OnceInv
<1> QED BY <1>11, <1>12 DEF OnceInv
\* A check is answered before what was sent behind it arrives.
LEMMA OnceServeCheck == ASSUME Queue, NEW k \in DOMAIN wire, ServeCheck(k) PROVE OnceInv'
<1>1. /\ wire[k].kind = "check" /\ k = 1 /\ wire' = [wire EXCEPT ![k].answer = Status(wire[k])]
      /\ UNCHANGED <<saved, loaded, turn, calls, server, history>>
  BY DEF ServeCheck, Checking, Ready, Queue
<1>2. CheckOk(k)
  BY <1>1 DEF Queue, OnceInv, InTurn, Checking
<1>3. PICK i \in Inputs, t \in Turns : i = wire[k].id /\ t = wire[k].turn
  BY <1>1, RequestTyped DEF Queue
<1>4. PICK s \in {"received", "waiting", "not_received"} : s = Status(wire[k])
  BY DEF Status
<1>5. PICK r : r = [wire[k] EXCEPT !.answer = s]
  OBVIOUS
<1>6. /\ r.kind = "check" /\ r.turn = t /\ r.id = i /\ r.rest = wire[k].rest /\ r.answer = s
  <2>1. wire[k] \in [kind : {"check"}, id : Inputs, turn : Turns, initial : BOOLEAN,
                     caller : {"load", "resume", "finish"}, rest : SUBSET Items, waited : {TRUE},
                     answer : {"none", "received", "waiting", "not_received"}]
    <3>1. wire[k] \in Requests
      BY RequestTyped DEF Queue
    <3> QED BY <1>1, <3>1 DEF Requests
  <2> QED BY <1>3, <1>5, <2>1
<1>7. Same(r, wire[k])
  BY <1>1, <1>3, <1>6 DEF Same
<1>8. wire' = [wire EXCEPT ![k] = r]
  BY <1>1, <1>4, <1>5
<1>9. /\ DOMAIN wire' = DOMAIN wire /\ wire'[k] = r
      /\ \A j \in DOMAIN wire : j # k => wire'[j] = wire[j] /\ j > k
  <2>1. \A j \in DOMAIN wire : j \in Nat /\ j >= 1
    BY LenProperties DEF Queue, QueueInv, Typed
  <2>2. \A j \in DOMAIN wire : j # k => wire'[j] = wire[j]
    BY <1>8
  <2>3. DOMAIN wire' = DOMAIN wire /\ wire'[k] = r
    BY <1>8
  <2> QED BY <1>1, <2>1, <2>2, <2>3
<1>10. ASSUME s = "not_received", t \in Reach(i)' PROVE FALSE
  <2>1. CASE i \in heard'[t] \/ (run'[t] = "live" /\ i \in waiting'[t])
    <3>1. i \in heard[t] \/ (run[t] = "live" /\ i \in waiting[t])
      BY <1>1, <2>1 DEF server
    <3>2. run[t] # "absent"
      BY <3>1 DEF Queue, QueueInv, RunsOk
    <3> QED BY <1>3, <1>4, <1>10, <3>1, <3>2 DEF Status
  <2>2. CASE \E j \in DOMAIN wire' :
                 /\ wire'[j].turn = t
                 /\ \/ wire'[j].kind = "steer" /\ wire'[j].id = i /\ wire'[j].answer = "none"
                    \/ wire'[j].kind = "start" /\ origin'[t] = i
    <3>1. PICK j \in DOMAIN wire' :
                 /\ wire'[j].turn = t
                 /\ \/ wire'[j].kind = "steer" /\ wire'[j].id = i /\ wire'[j].answer = "none"
                    \/ wire'[j].kind = "start" /\ origin'[t] = i
      BY <2>2
    <3>2. j # k
      BY <1>6, <1>9, <3>1
    <3>3. wire[j].kind = "start" /\ wire[j].turn = t /\ origin[t] = i
      BY <1>1, <1>2, <1>9, <3>1, <3>2 DEF CheckOk, turn
    <3>4. origin[t] = 0
      BY <1>2, <1>9, <3>2, <3>3 DEF CheckOk
    <3> QED BY <3>3, <3>4, QueueAssumption DEF Inputs
  <2> QED BY <1>10, <2>1, <2>2 DEF Reach
<1>11. r.answer \in {"refused", "not_received"} => r.turn \notin Reach(wire[k].id)'
  <2>1. wire'[k].id = i
    BY <1>6, <1>9
  <2> QED BY <1>4, <1>6, <1>10, <2>1
<1>12. loaded /\ r.kind # "start" /\ r.answer # "none"
  BY <1>2, <1>4, <1>6 DEF CheckOk
<1> QED BY <1>1, <1>7, <1>8, <1>11, <1>12, AnswerKeeps

LEMMA OnceServeSteer == ASSUME Queue, NEW k \in DOMAIN wire, ServeSteer(k) PROVE OnceInv'
<1>1. /\ wire[k].kind = "steer" /\ k = 1 /\ wire[k].answer = "none"
      /\ UNCHANGED <<saved, loaded, turn, calls, run, heard, history>>
  BY DEF ServeSteer, Ready, Queue
<1>2. PICK i \in Inputs, t \in Turns : i = wire[k].id /\ t = wire[k].turn
  BY <1>1, RequestTyped DEF Queue
<1>3. /\ UNCHANGED <<queue, paused, loaded, origin, added, withdrawn>>
      /\ UNCHANGED <<active, drains, finishing, removing>>
      /\ waiting \in [Turns -> SUBSET Inputs]
  BY <1>1 DEF saved, turn, calls, history, Queue, QueueInv, Typed
<1>4. CASE /\ wire' = RemoveAt(wire, k)
           /\ \/ waiting' = waiting
              \/ waiting' = [waiting EXCEPT ![t] = waiting[t] \cup {i}]
  <2>1. \A j \in DOMAIN wire' : \E m \in DOMAIN wire : m # k /\ wire'[j] = wire[m]
    BY <1>4, TakenFrom DEF Queue
  <2>2. ASSUME NEW j \in Inputs, NEW u \in Reach(j)' PROVE u \in Reach(j)
    <3>0. u \in Turns
      BY DEF Reach
    <3>1. CASE j \in heard'[u] \/ (run'[u] = "live" /\ j \in waiting'[u])
      <4>1. CASE j = i /\ u = t
        BY <1>1, <1>2, <4>1 DEF Reach
      <4>2. CASE j # i \/ u # t
        <5>1. j \in waiting'[u] => j \in waiting[u]
          BY <1>3, <1>4, <3>0, <4>2
        <5> QED BY <1>1, <3>0, <3>1, <5>1 DEF Reach
      <4> QED BY <4>1, <4>2
    <3>2. CASE \E n \in DOMAIN wire' :
                   /\ wire'[n].turn = u
                   /\ \/ wire'[n].kind = "steer" /\ wire'[n].id = j /\ wire'[n].answer = "none"
                      \/ wire'[n].kind = "start" /\ origin'[u] = j
      <4>1. \E m \in DOMAIN wire :
                /\ wire[m].turn = u
                /\ \/ wire[m].kind = "steer" /\ wire[m].id = j /\ wire[m].answer = "none"
                   \/ wire[m].kind = "start" /\ origin[u] = j
        BY <1>3, <2>1, <3>2
      <4> QED BY <3>0, <4>1 DEF Reach
    <3> QED BY <3>1, <3>2 DEF Reach
  <2>3. ItemsFollow /\ Ids(queue') \subseteq Ids(queue)
    BY <1>3 DEF ItemsFollow
  <2>4. \A j \in Inputs : Reach(j)' \subseteq Reach(j)
    BY <2>2
  <2>5. Reached' /\ StartsFirst' /\ InTurn'
    BY <1>3, <1>4, <2>3, <2>4, TakenKeeps DEF Queue, OnceInv
  <2>6. Woken'
    BY <1>3 DEF Woken, Dispatchable, Queue, OnceInv
  <2>7. Unloaded'
    BY <1>3, <2>1 DEF Unloaded, Queue, OnceInv
  <2> QED BY <2>5, <2>6, <2>7 DEF OnceInv
<1>5. CASE /\ i \notin waiting[t] \cup heard[t] /\ run[t] # "live" /\ wire[k].waited
           /\ wire' = [wire EXCEPT ![k].answer = "refused"] /\ UNCHANGED waiting
  <2>1. PICK r : r = [wire[k] EXCEPT !.answer = "refused"]
    OBVIOUS
  <2>2. r.kind = "steer" /\ r.turn = t /\ r.id = i /\ r.answer = "refused"
    BY <1>1, <1>2, <2>1, Posted DEF Queue
  <2>3. Same(r, wire[k])
    BY <1>1, <1>2, <2>2 DEF Same
  <2>4. wire' = [wire EXCEPT ![k] = r]
    BY <1>5, <2>1
  <2>5. /\ DOMAIN wire' = DOMAIN wire /\ wire'[k] = r
        /\ \A j \in DOMAIN wire : j # k => wire'[j] = wire[j] /\ j > k
    <3>1. \A j \in DOMAIN wire : j \in Nat /\ j >= 1
      BY SMTT(60), LenProperties DEF Queue, QueueInv, Typed
    <3>2. \A j \in DOMAIN wire : j # k => wire'[j] = wire[j]
      BY <2>4
    <3>3. DOMAIN wire' = DOMAIN wire /\ wire'[k] = r
      BY <2>4
    <3> QED BY <1>1, <3>1, <3>2, <3>3
  <2>6. t \notin Reach(i)'
    <3>1. ~(i \in heard'[t] \/ (run'[t] = "live" /\ i \in waiting'[t]))
      BY <1>1, <1>5
    <3>2. ASSUME NEW j \in DOMAIN wire', wire'[j].turn = t,
                 \/ wire'[j].kind = "steer" /\ wire'[j].id = i /\ wire'[j].answer = "none"
                 \/ wire'[j].kind = "start"
          PROVE  FALSE
      <4>1. j # k
        BY <2>2, <2>5, <3>2
      <4>2. wire[j] = wire'[j] /\ j \in DOMAIN wire /\ k < j
        BY <2>5, <4>1
      <4>3. CASE wire[j].kind = "steer" /\ wire[j].id = i
        BY <1>1, <1>2, <4>1, <4>2, <4>3 DEF Queue, OnceInv, InTurn, PostOk
      <4>4. CASE wire[j].kind = "start"
        BY <1>2, <3>2, <4>2, <4>4 DEF Queue, OnceInv, StartsFirst
      <4> QED BY <3>2, <4>2, <4>3, <4>4
    <3> QED BY <3>1, <3>2 DEF Reach
  <2>7. r.answer \in {"refused", "not_received"} => r.turn \notin Reach(wire[k].id)'
    <3>1. wire'[k].id = i
      BY <2>2, <2>5
    <3> QED BY <2>2, <2>6, <3>1
  <2>8. loaded
    <3>1. ~(wire[k].waited = FALSE)
      BY <1>5
    <3> QED BY <3>1 DEF Queue, OnceInv, Unloaded, QueueInv, Typed
  <2>9. UNCHANGED <<saved, loaded, turn, calls, server, history>>
    BY <1>1, <1>5 DEF server
  <2> QED BY <2>2, <2>3, <2>4, <2>7, <2>8, <2>9, AnswerKeeps
<1>6. \/ /\ wire' = RemoveAt(wire, k)
         /\ waiting' = waiting \/ waiting' = [waiting EXCEPT ![t] = waiting[t] \cup {i}]
      \/ /\ i \notin waiting[t] \cup heard[t] /\ run[t] # "live" /\ wire[k].waited
         /\ wire' = [wire EXCEPT ![k].answer = "refused"] /\ UNCHANGED waiting
  <2>1. \/ /\ wire' = RemoveAt(wire, k)
           /\ waiting' = [waiting EXCEPT ![t] = IF i \in waiting[t] \cup heard[t] THEN waiting[t]
                                                ELSE waiting[t] \cup {i}]
        \/ /\ i \notin waiting[t] \cup heard[t] /\ run[t] # "live"
           /\ wire' = IF wire[k].waited THEN [wire EXCEPT ![k].answer = "refused"] ELSE RemoveAt(wire, k)
           /\ UNCHANGED waiting
    BY <1>2 DEF ServeSteer
  <2>2. [waiting EXCEPT ![t] = waiting[t]] = waiting
    BY <1>3
  <2> QED BY <2>1, <2>2
<1> QED BY <1>4, <1>5, <1>6

\* After a kill nothing is checked, and what was sent may still arrive.
LEMMA OnceCrash == ASSUME Queue, Crash PROVE OnceInv'
<1>1. /\ UNCHANGED <<queue, paused, origin, server, added, withdrawn>>
      /\ loaded' = FALSE /\ active' = 0 /\ drains' = 0 /\ finishing' = {} /\ removing' = {}
  BY DEF Crash, saved
<1> DEFINE sent == {k \in DOMAIN wire : ~Checking(k) /\ wire[k].answer = "none"}
<1>2. PICK f \in [1 .. Cardinality(sent) -> sent] :
          /\ \A j, k \in DOMAIN f : j < k => f[j] < f[k]
          /\ wire' = [k \in DOMAIN f |-> [wire[f[k]] EXCEPT !.waited = FALSE]]
  BY DEF Crash
<1>3. \A k \in DOMAIN wire' : f[k] \in sent /\ wire'[k] = [wire[f[k]] EXCEPT !.waited = FALSE]
  BY <1>2
<1>4. \A j, k \in DOMAIN wire' : j < k => f[j] < f[k]
  BY <1>2
<1>5. \A x \in Requests : x.kind # "check" =>
          LET r == [x EXCEPT !.waited = FALSE] IN
              Same(r, x) /\ r.kind = x.kind /\ r.answer = x.answer /\ r.waited = FALSE
  BY DEF Requests, Same
<1>6. \A k \in DOMAIN wire' :
          /\ f[k] \in DOMAIN wire /\ Same(wire'[k], wire[f[k]]) /\ wire'[k].answer = wire[f[k]].answer
          /\ wire'[k].kind # "check" /\ wire'[k].waited = FALSE /\ wire'[k].answer = "none"
  <2> SUFFICES ASSUME NEW k \in DOMAIN wire', NEW x, x = wire[f[k]]
               PROVE  /\ f[k] \in DOMAIN wire /\ Same(wire'[k], x) /\ wire'[k].answer = x.answer
                      /\ wire'[k].kind # "check" /\ wire'[k].waited = FALSE /\ wire'[k].answer = "none"
    OBVIOUS
  <2>1. f[k] \in DOMAIN wire /\ x.kind # "check" /\ x.answer = "none"
    BY <1>3 DEF Checking
  <2>2. x \in Requests
    BY <2>1, RequestTyped DEF Queue
  <2>3. wire'[k] = [x EXCEPT !.waited = FALSE]
    BY <1>3
  <2> QED BY <1>5, <2>1, <2>2, <2>3
<1> HIDE DEF sent
<1>7. \A i \in Inputs : Reach(i)' \subseteq Reach(i)
  <2>1. Follow(f)
    BY <1>4, <1>6 DEF Follow
  <2> QED BY <1>1, <2>1, ReachFollows
<1>8. ItemsFollow
  BY <1>1 DEF ItemsFollow
<1>9. /\ added <= added' /\ withdrawn' \cap Ids(queue') = {} /\ withdrawn' \subseteq 1 .. added'
      /\ \A i \in Inputs : i > added' \/ i \in withdrawn' => Reach(i) = {}
  <2>1. added \in Nat
    BY QueueAssumption DEF Queue, QueueInv, Typed
  <2> QED BY <1>1, <2>1 DEF Queue, OnceInv, Reached
<1>10. Reached' /\ StartsFirst' /\ InTurn'
  BY <1>1, <1>4, <1>6, <1>7, <1>8, <1>9, PlainKeeps DEF Queue, OnceInv
<1>11. Woken' /\ Unloaded'
  BY <1>1, <1>6 DEF Woken, Unloaded
<1> QED BY <1>10, <1>11 DEF OnceInv
-----------------------------------------------------------------------------
(* The theorems *)

LEMMA OnceStarts == Init => OnceInv
<1> SUFFICES ASSUME Init PROVE OnceInv
  OBVIOUS
<1>1. DOMAIN queue = {} /\ DOMAIN wire = {} /\ Ids(queue) = {}
  BY DEF Init, Ids
<1>2. \A i : Reach(i) = {}
  BY <1>1 DEF Init, Reach
<1>3. Reached
  BY <1>1, <1>2 DEF Reached, Init
<1>4. StartsFirst /\ InTurn
  BY <1>1 DEF StartsFirst, InTurn
<1>5. Woken /\ Unloaded
  BY DEF Init, Woken, Unloaded, Dispatchable
<1> QED BY <1>3, <1>4, <1>5 DEF OnceInv

LEMMA OnceNext == ASSUME QueueInv, Orderly, OnceInv, [Next]_vars PROVE OnceInv'
<1>1. Queue
  BY QueueNext DEF Queue
<1>2. CASE HostStep
  <2>1. CASE Load \/ Enqueue \/ Resume \/ StartUserTurn \/ Drain
    BY <1>1, <2>1, OnceLoad, OnceEnqueue, OnceResume, OnceStartUserTurn, OnceDrain
  <2>2. CASE Interrupt
    <3>1. \E t : t \in Turns
      <4>1. active \in 0 .. turns /\ turns \in 0 .. MaxTurns
        BY DEF QueueInv, Typed
      <4>2. active # 0
        BY <2>2 DEF Interrupt
      <4>3. active \in Turns
        BY <4>1, <4>2, QueueAssumption DEF Turns
      <4> QED BY <4>3
    <3> QED BY <1>1, <2>2, <3>1, OnceStreams
  <2>3. CASE \E i \in Inputs : Withdraw(i) \/ Received(i) \/ Steer(i)
    BY <1>1, <2>3, OnceWithdraw, OnceReceived, OnceSteer
  <2>4. CASE \E t \in Turns : \/ SeeStarted(t)
                              \/ \E i \in Inputs : SeeReceived(t, i)
                              \/ \E b \in BOOLEAN : EndTurn(t, b) \/ Finish(t, b)
    BY <1>1, <2>4, OnceStreams, OnceFinish
  <2>5. CASE \E k \in DOMAIN wire : \/ CheckAnswered(k) \/ CheckFails(k)
                                    \/ SteerRefused(k) \/ SteerFails(k)
    BY <1>1, <2>5, OnceCheckAnswered, OnceCheckFails, OnceSteerRefused, OnceSteerFails
  <2> QED BY <1>2, <2>1, <2>2, <2>3, <2>4, <2>5 DEF HostStep
<1>3. CASE ServerStep
  BY <1>1, <1>3, OnceServeStart, OnceServeSteer, OnceServeCheck, OnceDrop, OnceServerHears,
     OnceServerEnds DEF ServerStep
<1>4. CASE Crash
  BY <1>1, <1>4, OnceCrash
<1>5. CASE UNCHANGED vars
  <2>1. UNCHANGED <<saved, loaded, turn, calls, wire, history>> /\ UNCHANGED <<wire, server, origin>>
    BY <1>5 DEF vars, turn
  <2>2. \A i \in Inputs : Reach(i)' \subseteq Reach(i)
    BY <2>1, ReachSame
  <2> QED BY <1>1, <2>1, <2>2, OnceServer
<1> QED BY <1>2, <1>3, <1>4, <1>5 DEF Next

Delivery == QueueInv /\ (Orderly => OnceInv)

LEMMA DeliveryHolds == Spec => []Delivery
<1>1. Init => Delivery
  BY QueueStarts, OnceStarts DEF Delivery
<1>2. Delivery /\ [Next]_vars => Delivery'
  BY QueueNext, OnceNext DEF Delivery
<1> QED BY <1>1, <1>2, PTL DEF Spec

\* docs/architecture.md:210-211, "Queue dispatch, steering and withdrawal are
\* mutually exclusive for each input": when exchanges with the API do not overtake
\* each other, a message is received by one run at most, and by none once the user
\* has it back, over refusals, lost answers, checks and kills.
THEOREM OneDelivery == Spec => [](Orderly => DeliveredOnce)
<1>1. Delivery => (Orderly => DeliveredOnce)
  <2> SUFFICES ASSUME QueueInv, OnceInv, NEW i \in Inputs
               PROVE  Cardinality(Hearing(i)) <= 1 /\ (i \in withdrawn => Hearing(i) = {})
    BY DEF Delivery, DeliveredOnce
  <2>1. Hearing(i) \subseteq Reach(i)
    BY DEF Hearing, Reach
  <2>2. i \in withdrawn => Hearing(i) = {}
    BY <2>1 DEF OnceInv, Reached
  <2>3. Cardinality(Hearing(i)) <= 1
    <3>1. CASE Hearing(i) = {}
      BY <3>1, FS_EmptySet
    <3>2. CASE Hearing(i) # {}
      <4>1. PICK t : t \in Hearing(i)
        BY <3>2
      <4>2. Hearing(i) = {t}
        BY <2>1, <4>1 DEF OnceInv, Reached
      <4> QED BY <4>2, FS_Singleton
    <3> QED BY <3>1, <3>2
  <2> QED BY <2>2, <2>3
<1> QED BY <1>1, DeliveryHolds, PTL

\* drainFollowups is called wherever a queue may have become dispatchable: under the
\* same condition, no thread rests with a queue that could be dispatched.
THEOREM NoWakeupLost == Spec => [](Orderly => NoLostWakeup)
<1>1. Delivery => (Orderly => NoLostWakeup)
  <2> SUFFICES ASSUME QueueInv, OnceInv, Quiet, Dispatchable PROVE FALSE
    BY DEF Delivery, NoLostWakeup
  <2> QED BY DEF Quiet, OnceInv, Woken
<1> QED BY <1>1, DeliveryHolds, PTL

=============================================================================
