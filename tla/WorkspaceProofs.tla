--------------------------- MODULE WorkspaceProofs ---------------------------
(* The write lock keeps the edits of a team apart, for any number of members *)
(* and of patches and terminals of theirs, wherever calls wait, processes    *)
(* exit and turns are interrupted.                                           *)
EXTENDS Workspace, TLAPS, SequenceTheorems, FiniteSetTheorems

-----------------------------------------------------------------------------
(* The inductive invariant *)

Held == {c \in Writes : HoldsLease(c)}

\* The calls that may have made their edit.
Made == {c \in Writes : write[c] \notin {"idle", "waiting", "granted", "planned"}}

Typed ==
    /\ lock \in [owner : Members \cup {NoOwner}, leases : Nat, waiters : Seq(Writes)]
    /\ write \in [Writes -> Leased \cup {"idle", "waiting", "done"}]
    /\ terminal \in [Terminals -> {"none", "running", "stopped", "exited"}]
    /\ alive \subseteq Terminals
    /\ files \subseteq Writes
    /\ before \in [Writes -> SUBSET Writes]
    /\ plan \in [Writes -> SUBSET Writes]
    /\ recorded \in [Writes -> SUBSET Writes]
    /\ late \subseteq Terminals
    /\ stopped \subseteq Members

\* A call waits in one place, and in it as long as it waits.
Queued ==
    /\ \A c \in Writes : write[c] = "waiting" <=> \E i \in 1 .. Len(lock.waiters) : lock.waiters[i] = c
    /\ \A i, j \in 1 .. Len(lock.waiters) : lock.waiters[i] = lock.waiters[j] => i = j

\* The leases are those of the calls that hold one, all of the owner.
Leases ==
    /\ lock.leases = Cardinality(Held)
    /\ \A c \in Held : Writer[c] = lock.owner
    /\ lock.leases = 0 <=> lock.owner = NoOwner
    /\ lock.leases = 0 => lock.waiters = <<>>

\* A terminal that runs has its process, and one left in the background has it
\* even when it was stopped: its exit gives the lease back.
Processes ==
    /\ \A c \in Writes : write[c] = "planned" => c \in Patches
    /\ \A c \in Writes : write[c] \in {"spawned", "background"} => c \in Terminals
    /\ \A c \in Terminals : terminal[c] = "running" \/ write[c] = "background" => c \in alive

\* What is in the workspace, a snapshot or a plan was made by a call that had
\* the lock, and a call does not see its own edit before it made it.
Contents ==
    /\ files \subseteq Made /\ alive \subseteq Made /\ late \subseteq Made
    /\ \A c \in Writes : before[c] \subseteq Made \ {c} /\ plan[c] \subseteq Made
    /\ \A c \in Writes : write[c] \notin {"recording", "done"} => recorded[c] = {}

\* Between the plan of a patch and its write the workspace changes by edits of
\* the same member only, but for those of processes that outlived their lease.
Planned ==
    \A e \in Patches : write[e] = "planned" =>
        \A d \in Writes \ late : ~(d \in plan[e] <=> d \in files) => Writer[d] = Writer[e]

\* An edit in the workspace will be recorded or is, as one of its member.
Captured ==
    \A d \in files \ late :
        \/ HoldsLease(d) /\ write[d] # "recording"
        \/ \E c \in Writes : Writer[c] = Writer[d] /\ d \in recorded[c]

LockInv == Typed /\ Queued /\ Leases /\ Processes
EditsInv == Contents /\ Planned /\ Captured
WorkspaceInv == LockInv /\ EditsInv
-----------------------------------------------------------------------------
(* Leases and waiters *)

LEMMA HeldFinite == IsFiniteSet(Held)
<1>1. IsFiniteSet(Writes)
  BY WorkspaceConstants
<1> QED
  BY <1>1, FS_Subset DEF Held

LEMMA CallsApart ==
    /\ Patches \subseteq Writes /\ Terminals \subseteq Writes
    /\ \A c \in Writes : c \in Patches <=> c \notin Terminals
    /\ \A c \in Writes : Writer[c] \in Members /\ Writer[c] # NoOwner
BY WorkspaceConstants DEF Writes

\* A call that moves from one stage under the lock to another leaves it as it is.
LEMMA LeaseStays ==
    ASSUME LockInv, NEW c \in Writes, HoldsLease(c), NEW stage \in Leased,
           write' = [write EXCEPT ![c] = stage], lock' = lock
    PROVE  /\ Held' = Held /\ Queued' /\ Leases'
           /\ write' \in [Writes -> Leased \cup {"idle", "waiting", "done"}]
<1>1. write \in [Writes -> Leased \cup {"idle", "waiting", "done"}]
  BY DEF LockInv, Typed
<1>2. write' \in [Writes -> Leased \cup {"idle", "waiting", "done"}]
  BY <1>1
<1>3. \A d \in Writes : /\ write'[d] \in Leased <=> write[d] \in Leased
                        /\ write'[d] = "waiting" <=> write[d] = "waiting"
  BY <1>1 DEF HoldsLease, Leased
<1>4. Held' = Held
  BY <1>3 DEF Held, HoldsLease
<1>5. Queued'
  BY <1>3 DEF LockInv, Queued
<1>6. Leases'
  BY <1>4 DEF LockInv, Leases
<1> QED
  BY <1>2, <1>4, <1>5, <1>6

\* Between one holder and none the owner of the lock changes.
LEMMA LastLease ==
    ASSUME LockInv, NEW c \in Writes, HoldsLease(c)
    PROVE  /\ lock.leases >= 1 /\ lock.leases \in Nat
           /\ lock.owner = Writer[c]
           /\ lock.leases = 1 => Held = {c}
           /\ Cardinality(Held \ {c}) = lock.leases - 1
           /\ IsFiniteSet(Held \ {c})
<1>1. c \in Held /\ IsFiniteSet(Held) /\ Cardinality(Held) = lock.leases /\ lock.leases \in Nat
  BY HeldFinite DEF Held, LockInv, Leases, Typed
<1>2. Cardinality(Held \ {c}) = lock.leases - 1 /\ IsFiniteSet(Held \ {c})
  BY <1>1, FS_RemoveElement
<1>3. Cardinality(Held \ {c}) \in Nat
  BY <1>2, FS_CardinalityType
<1>4. lock.leases = 1 => Held = {c}
  BY <1>1, <1>2, FS_EmptySet
<1>5. lock.owner = Writer[c]
  BY <1>1 DEF LockInv, Leases
<1> QED
  BY <1>1, <1>2, <1>3, <1>4, <1>5

-----------------------------------------------------------------------------
(* Acquire *)

LEMMA AcquireLock ==
    ASSUME LockInv, NEW c \in Writes, Acquire(c)
    PROVE  LockInv'
<1>1. /\ lock \in [owner : Members \cup {NoOwner}, leases : Nat, waiters : Seq(Writes)]
      /\ write \in [Writes -> Leased \cup {"idle", "waiting", "done"}]
      /\ before \in [Writes -> SUBSET Writes] /\ files \subseteq Writes
      /\ write[c] = "idle" /\ Writer[c] \in Members
  BY CallsApart DEF LockInv, Typed, Acquire
<1>2. c \notin Held /\ \A i \in 1 .. Len(lock.waiters) : lock.waiters[i] # c
  BY <1>1 DEF Held, HoldsLease, Leased, LockInv, Queued
<1>3. CASE lock.owner \in {NoOwner, Writer[c]}
  <2>1. /\ lock' = [lock EXCEPT !.owner = Writer[c], !.leases = @ + 1]
        /\ write' = [write EXCEPT ![c] = "granted"]
        /\ before' = [before EXCEPT ![c] = files]
        /\ UNCHANGED <<terminal, alive, files, plan, recorded, late, stopped>>
    BY <1>3 DEF Acquire
  <2>2. Typed'
    <3>1. lock' \in [owner : Members \cup {NoOwner}, leases : Nat, waiters : Seq(Writes)]
      <4>1. lock.leases + 1 \in Nat
        BY <1>1
      <4>2. lock' = [owner |-> Writer[c], leases |-> lock.leases + 1, waiters |-> lock.waiters]
        BY <2>1, <1>1
      <4> QED
        BY <4>1, <4>2, <1>1
    <3>2. write' \in [Writes -> Leased \cup {"idle", "waiting", "done"}]
      BY <2>1, <1>1 DEF Leased
    <3>3. before' \in [Writes -> SUBSET Writes]
      BY <2>1, <1>1
    <3> QED
      BY <2>1, <3>1, <3>2, <3>3 DEF LockInv, Typed
  <2>3. \A d \in Writes : /\ write'[d] = IF d = c THEN "granted" ELSE write[d]
    BY <2>1, <1>1
  <2>4. Held' = Held \cup {c}
    BY <2>3 DEF Held, HoldsLease, Leased
  <2>5. lock'.waiters = lock.waiters /\ lock'.owner = Writer[c] /\ lock'.leases = lock.leases + 1
    BY <2>1, <1>1
  <2>6. Queued'
    BY <2>3, <2>5, <1>1 DEF LockInv, Queued
  <2>7. Leases'
    <3>1. Cardinality(Held') = Cardinality(Held) + 1
      BY <2>4, <1>2, HeldFinite, FS_AddElement
    <3>2. \A d \in Held : Writer[d] = lock.owner
      BY DEF LockInv, Leases
    <3>3. lock.owner = NoOwner => Held = {}
      BY <3>2, CallsApart DEF Held
    <3>4. \A d \in Held' : Writer[d] = lock'.owner
      BY <2>4, <2>5, <3>2, <3>3, <1>3
    <3>5. lock'.leases # 0 /\ lock'.owner # NoOwner
      BY <2>5, <1>1, CallsApart
    <3> QED
      BY <3>1, <3>4, <3>5, <2>5 DEF LockInv, Leases
  <2>8. Processes'
    BY <2>1, <2>3, <1>1 DEF LockInv, Processes
  <2> QED
    BY <2>2, <2>6, <2>7, <2>8 DEF LockInv
<1>4. CASE lock.owner \notin {NoOwner, Writer[c]}
  <2>1. /\ lock' = [lock EXCEPT !.waiters = Append(@, c)]
        /\ write' = [write EXCEPT ![c] = "waiting"]
        /\ UNCHANGED <<terminal, alive, files, before, plan, recorded, late, stopped>>
    BY <1>4 DEF Acquire
  <2>2. /\ lock'.waiters = Append(lock.waiters, c)
        /\ lock'.owner = lock.owner /\ lock'.leases = lock.leases
    BY <2>1, <1>1
  <2>3. /\ Len(lock'.waiters) = Len(lock.waiters) + 1 /\ Len(lock.waiters) \in Nat
        /\ \A i \in 1 .. Len(lock.waiters) : lock'.waiters[i] = lock.waiters[i]
        /\ lock'.waiters[Len(lock.waiters) + 1] = c
    BY <2>2, <1>1
  <2>4. lock'.waiters \in Seq(Writes)
    BY <2>2, <1>1
  <2>5. Typed'
    BY <2>1, <2>4, <1>1 DEF LockInv, Typed, Leased
  <2>6. \A d \in Writes : write'[d] = IF d = c THEN "waiting" ELSE write[d]
    BY <2>1, <1>1
  <2>7. Held' = Held
    BY <2>6, <1>2 DEF Held, HoldsLease, Leased
  <2>8. Queued'
    <3>1. \A d \in Writes : write[d] = "waiting" <=> \E i \in 1 .. Len(lock.waiters) : lock.waiters[i] = d
      BY DEF LockInv, Queued
    <3>2. \A d \in Writes : write'[d] = "waiting" <=> \E i \in 1 .. Len(lock'.waiters) : lock'.waiters[i] = d
      BY SMTT(60), <3>1, <2>3, <2>6
    <3>3. \A i, j \in 1 .. Len(lock'.waiters) : lock'.waiters[i] = lock'.waiters[j] => i = j
      <4>1. \A i, j \in 1 .. Len(lock.waiters) : lock.waiters[i] = lock.waiters[j] => i = j
        BY DEF LockInv, Queued
      <4>2. TAKE i, j \in 1 .. Len(lock'.waiters)
      <4>3. /\ i \in 1 .. Len(lock.waiters) \/ i = Len(lock.waiters) + 1
            /\ j \in 1 .. Len(lock.waiters) \/ j = Len(lock.waiters) + 1
        BY <2>3, <4>2
      <4> QED
        BY <4>1, <4>3, <2>3, <1>2
    <3> QED
      BY <3>2, <3>3 DEF Queued
  <2>9. Leases'
    BY <2>7, <2>2, <1>4 DEF LockInv, Leases
  <2>10. Processes'
    BY <2>1, <2>6, <1>1 DEF LockInv, Processes
  <2> QED
    BY <2>5, <2>8, <2>9, <2>10 DEF LockInv
<1> QED
  BY <1>3, <1>4
-----------------------------------------------------------------------------
(* Unlock *)

LEMMA UnlockLock ==
    ASSUME LockInv, NEW c \in Writes, ChangesAnswered(c)
    PROVE  LockInv'
<1> DEFINE next == lock.waiters[1]
<1>1. /\ lock \in [owner : Members \cup {NoOwner}, leases : Nat, waiters : Seq(Writes)]
      /\ write \in [Writes -> Leased \cup {"idle", "waiting", "done"}]
      /\ before \in [Writes -> SUBSET Writes] /\ files \subseteq Writes
      /\ write[c] = "recording" /\ HoldsLease(c) /\ Writer[c] \in Members
      /\ UNCHANGED <<terminal, alive, files, plan, recorded, late, stopped>>
      /\ Unlock(c)
  BY CallsApart DEF LockInv, Typed, ChangesAnswered, HoldsLease, Leased
<1>2. /\ lock.leases >= 1 /\ lock.leases \in Nat
      /\ lock.leases = 1 => Held = {c}
      /\ Cardinality(Held \ {c}) = lock.leases - 1
  BY <1>1, LastLease
<1>3. /\ Len(lock.waiters) \in Nat
      /\ \A i \in 1 .. Len(lock.waiters) : lock.waiters[i] \in Writes
      /\ lock.waiters = <<>> <=> Len(lock.waiters) = 0
  BY <1>1, EmptySeq
<1>4. /\ \A d \in Writes : write[d] = "waiting" <=> \E i \in 1 .. Len(lock.waiters) : lock.waiters[i] = d
      /\ \A i, j \in 1 .. Len(lock.waiters) : lock.waiters[i] = lock.waiters[j] => i = j
  BY DEF LockInv, Queued
<1>5. CASE lock.leases > 1 \/ lock.waiters = <<>>
  <2>1. /\ lock' = IF lock.leases > 1 THEN [lock EXCEPT !.leases = @ - 1] ELSE Unlocked
        /\ write' = [write EXCEPT ![c] = "done"]
        /\ UNCHANGED before
    BY <1>1, <1>5 DEF Unlock
  <2>2. \A d \in Writes : write'[d] = IF d = c THEN "done" ELSE write[d]
    BY <2>1, <1>1
  <2>3. Held' = Held \ {c}
    BY <2>2 DEF Held, HoldsLease, Leased
  <2>4. /\ lock' \in [owner : Members \cup {NoOwner}, leases : Nat, waiters : Seq(Writes)]
        /\ lock'.leases = lock.leases - 1
        /\ lock'.waiters = lock.waiters
        /\ lock'.owner = IF lock.leases > 1 THEN lock.owner ELSE NoOwner
    <3>1. CASE lock.leases > 1
      BY <2>1, <3>1, <1>1, <1>2
    <3>2. CASE ~(lock.leases > 1)
      <4>1. lock' = Unlocked /\ lock.waiters = <<>>
        BY <2>1, <3>2, <1>5
      <4>2. Unlocked \in [owner : Members \cup {NoOwner}, leases : Nat, waiters : Seq(Writes)]
        BY EmptySeq DEF Unlocked
      <4>3. lock.leases - 1 = 0
        BY <3>2, <1>2
      <4> QED
        BY <4>1, <4>2, <4>3, <3>2 DEF Unlocked
    <3> QED
      BY <3>1, <3>2
  <2>5. Typed'
    <3>1. write' \in [Writes -> Leased \cup {"idle", "waiting", "done"}]
      BY <2>1, <1>1
    <3> QED
      BY <2>1, <2>4, <3>1, <1>1 DEF LockInv, Typed
  <2>6. Queued'
    <3>1. \A d \in Writes : write'[d] = "waiting" <=> write[d] = "waiting"
      BY <2>2, <1>1
    <3> QED
      BY <3>1, <2>4, <1>4 DEF Queued
  <2>7. Leases'
    <3>1. lock'.leases = Cardinality(Held')
      BY <2>3, <2>4, <1>2
    <3>2. \A d \in Held' : Writer[d] = lock'.owner
      BY <2>3, <2>4, <1>2 DEF LockInv, Leases
    <3>3. lock'.leases = 0 <=> lock'.owner = NoOwner
      BY <2>4, <1>2 DEF LockInv, Leases
    <3>4. lock'.leases = 0 => lock'.waiters = <<>>
      BY <2>4, <1>2, <1>5
    <3> QED
      BY <3>1, <3>2, <3>3, <3>4 DEF Leases
  <2>8. Processes'
    BY <2>1, <2>2, <1>1 DEF LockInv, Processes
  <2> QED
    BY <2>5, <2>6, <2>7, <2>8 DEF LockInv
<1>6. CASE ~(lock.leases > 1 \/ lock.waiters = <<>>)
  <2>1. /\ lock' = [owner |-> Writer[next], leases |-> 1, waiters |-> Tail(lock.waiters)]
        /\ write' = [[write EXCEPT ![c] = "done"] EXCEPT ![next] = "granted"]
        /\ before' = [before EXCEPT ![next] = files]
    BY <1>1, <1>6 DEF Unlock
  <2>2. /\ next \in Writes /\ write[next] = "waiting" /\ next # c
        /\ Writer[next] \in Members /\ Writer[next] # NoOwner
        /\ 1 \in 1 .. Len(lock.waiters)
    BY <1>1, <1>3, <1>4, <1>6, CallsApart
  <2>3. \A d \in Writes : write'[d] = IF d = next THEN "granted" ELSE IF d = c THEN "done" ELSE write[d]
    BY <2>1, <2>2, <1>1
  <2>4. Held = {c} /\ Held' = {next}
    <3>1. Held = {c}
      BY <1>2, <1>6
    <3>2. \A d \in Writes : write'[d] \in Leased <=> d = next
      BY <3>1, <2>3 DEF Held, HoldsLease, Leased
    <3> QED
      BY <3>1, <3>2, <2>2 DEF Held, HoldsLease
  <2>5. /\ lock' \in [owner : Members \cup {NoOwner}, leases : Nat, waiters : Seq(Writes)]
        /\ lock'.owner = Writer[next] /\ lock'.leases = 1 /\ lock'.waiters = Tail(lock.waiters)
    <3>1. Tail(lock.waiters) \in Seq(Writes)
      BY <1>1, <1>6, HeadTailProperties
    <3> QED
      BY <2>1, <2>2, <3>1
  <2>6. /\ Len(lock'.waiters) = Len(lock.waiters) - 1
        /\ \A i \in 1 .. Len(lock.waiters) - 1 : lock'.waiters[i] = lock.waiters[i + 1]
    BY <2>5, <1>1, <1>6, HeadTailProperties
  <2>7. Typed'
    <3>1. write' \in [Writes -> Leased \cup {"idle", "waiting", "done"}]
      BY <2>1, <1>1 DEF Leased
    <3>2. before' \in [Writes -> SUBSET Writes]
      BY <2>1, <1>1
    <3> QED
      BY <2>5, <3>1, <3>2, <1>1 DEF LockInv, Typed
  <2>8. Queued'
    <3>1. ASSUME NEW d \in Writes
          PROVE  write'[d] = "waiting" <=> \E i \in 1 .. Len(lock'.waiters) : lock'.waiters[i] = d
      <4>1. write'[d] = "waiting" <=> d # next /\ write[d] = "waiting"
        BY <2>3, <1>1
      <4>2. ASSUME write'[d] = "waiting"
            PROVE  \E i \in 1 .. Len(lock'.waiters) : lock'.waiters[i] = d
        <5>1. PICK i \in 1 .. Len(lock.waiters) : lock.waiters[i] = d
          BY <4>1, <4>2, <1>4
        <5>2. i - 1 \in 1 .. Len(lock'.waiters) /\ lock'.waiters[i - 1] = lock.waiters[(i - 1) + 1]
          BY <5>1, <4>1, <4>2, <2>6, <1>3
        <5>3. (i - 1) + 1 = i
          BY <1>3
        <5> QED
          BY <5>1, <5>2, <5>3
      <4>3. ASSUME NEW i \in 1 .. Len(lock'.waiters), lock'.waiters[i] = d
            PROVE  write'[d] = "waiting"
        <5>1. i + 1 \in 1 .. Len(lock.waiters) /\ lock.waiters[i + 1] = d /\ i + 1 # 1
          BY <4>3, <2>6, <1>3
        <5>2. d # next
          BY <5>1, <1>4, <2>2
        <5> QED
          BY <5>1, <5>2, <4>1, <1>4
      <4> QED
        BY <4>2, <4>3
    <3>2. ASSUME NEW i \in 1 .. Len(lock'.waiters), NEW j \in 1 .. Len(lock'.waiters),
                 lock'.waiters[i] = lock'.waiters[j]
          PROVE  i = j
      <4>1. i + 1 \in 1 .. Len(lock.waiters) /\ j + 1 \in 1 .. Len(lock.waiters)
        BY <2>6, <1>3
      <4>2. lock.waiters[i + 1] = lock.waiters[j + 1]
        BY <3>2, <2>6, <1>3
      <4>3. i + 1 = j + 1
        BY <4>1, <4>2, <1>4
      <4> QED
        BY <4>3
    <3> QED
      BY <3>1, <3>2 DEF Queued
  <2>9. Leases'
    <3>1. Cardinality(Held') = 1
      BY <2>4, FS_Singleton
    <3> QED
      BY <3>1, <2>2, <2>4, <2>5 DEF Leases
  <2>10. Processes'
    <3>1. \A d \in Writes : write'[d] \in {"planned", "spawned", "background"} => write'[d] = write[d]
      BY <2>3
    <3> QED
      BY <3>1, <1>1, CallsApart DEF LockInv, Processes
  <2> QED
    BY <2>7, <2>8, <2>9, <2>10 DEF LockInv
<1> QED
  BY <1>5, <1>6
-----------------------------------------------------------------------------
(* Patches, terminals and interruptions leave the lock as it is *)

\* What a call does with the lease it holds: it keeps it for another stage or
\* has its changes recorded.
LEMMA StageLock ==
    ASSUME LockInv, NEW c \in Writes, NEW stage \in Leased \ {"granted"},
           write[c] \in {"granted", "planned", "spawned", "background"},
           stage = "planned" => c \in Patches,
           stage \in {"spawned", "background"} => c \in Terminals,
           write' = [write EXCEPT ![c] = stage], lock' = lock, before' = before, stopped' = stopped,
           plan' \in [Writes -> SUBSET Writes], recorded' \in [Writes -> SUBSET Writes],
           files' \subseteq Writes, alive' \subseteq Terminals, late' = late,
           terminal' \in [Terminals -> {"none", "running", "stopped", "exited"}],
           \A d \in Terminals : terminal'[d] = "running" \/ write'[d] = "background" => d \in alive'
    PROVE  LockInv' /\ \A d \in Writes : write'[d] = IF d = c THEN stage ELSE write[d]
<1>1. HoldsLease(c) /\ write \in [Writes -> Leased \cup {"idle", "waiting", "done"}]
  BY DEF HoldsLease, Leased, LockInv, Typed
<1>2. Queued' /\ Leases' /\ write' \in [Writes -> Leased \cup {"idle", "waiting", "done"}]
  BY <1>1, LeaseStays
<1>3. \A d \in Writes : write'[d] = IF d = c THEN stage ELSE write[d]
  BY <1>1
<1>4. Typed'
  BY <1>2 DEF LockInv, Typed
<1>5. Processes'
  BY <1>3 DEF LockInv, Processes
<1> QED
  BY <1>2, <1>3, <1>4, <1>5 DEF LockInv

\* Release is one of them.
LEMMA ReleaseLock ==
    ASSUME LockInv, NEW c \in Writes, NEW after \in SUBSET Writes, Release(c, after), files' = after,
           write[c] \in {"granted", "planned", "spawned", "background"},
           lock' = lock, before' = before, stopped' = stopped, plan' = plan, late' = late,
           alive' \subseteq Terminals,
           terminal' \in [Terminals -> {"none", "running", "stopped", "exited"}],
           \A d \in Terminals :
               d # c => (terminal'[d] = terminal[d] \/ terminal'[d] # "running") /\ (d \in alive => d \in alive'),
           c \in Terminals => (terminal'[c] = "running" => c \in alive')
    PROVE  LockInv' /\ \A d \in Writes : write'[d] = IF d = c THEN "recording" ELSE write[d]
<1>1. /\ write \in [Writes -> Leased \cup {"idle", "waiting", "done"}]
      /\ recorded \in [Writes -> SUBSET Writes] /\ plan \in [Writes -> SUBSET Writes]
  BY DEF LockInv, Typed
<1>2. /\ write' = [write EXCEPT ![c] = "recording"]
      /\ recorded' \in [Writes -> SUBSET Writes]
  BY <1>1 DEF Release
<1>3. \A d \in Terminals : terminal'[d] = "running" \/ write'[d] = "background" => d \in alive'
  BY <1>1, <1>2, CallsApart DEF LockInv, Processes
<1>4. "recording" \in Leased \ {"granted"}
  BY DEF Leased
<1> QED
  BY <1>1, <1>2, <1>3, <1>4, StageLock

LEMMA PlanLock ==
    ASSUME LockInv, NEW c \in Writes, PlanPatch(c)
    PROVE  LockInv'
<1>1. /\ c \in Patches /\ write[c] = "granted"
      /\ UNCHANGED <<files, lock, terminal, alive, before, late, stopped>>
  BY DEF PlanPatch, PatchUnchanged
<1>2. /\ plan \in [Writes -> SUBSET Writes] /\ recorded \in [Writes -> SUBSET Writes]
      /\ files \in SUBSET Writes /\ alive \subseteq Terminals
      /\ terminal \in [Terminals -> {"none", "running", "stopped", "exited"}]
      /\ \A d \in Terminals : terminal[d] = "running" \/ write[d] = "background" => d \in alive
      /\ write \in [Writes -> Leased \cup {"idle", "waiting", "done"}]
  BY DEF LockInv, Typed, Processes
<1>3. CASE write' = [write EXCEPT ![c] = "planned"] /\ plan' = [plan EXCEPT ![c] = files] /\ recorded' = recorded
  <2>1. \A d \in Terminals : terminal'[d] = "running" \/ write'[d] = "background" => d \in alive'
    BY <1>1, <1>2, <1>3, CallsApart
  <2>2. plan' \in [Writes -> SUBSET Writes] /\ "planned" \in Leased \ {"granted"}
    BY <1>2, <1>3 DEF Leased
  <2> QED
    BY <1>1, <1>2, <1>3, <2>1, <2>2, StageLock
<1>4. CASE Release(c, files) /\ plan' = plan
  BY <1>1, <1>2, <1>4, ReleaseLock
<1> QED
  BY <1>3, <1>4 DEF PlanPatch

LEMMA WriteLock ==
    ASSUME LockInv, NEW c \in Writes, WritePatch(c)
    PROVE  LockInv'
<1>1. /\ write[c] = "planned" /\ Release(c, files') /\ files' = plan[c] \cup {c}
      /\ UNCHANGED <<plan, lock, terminal, alive, before, late, stopped>>
  BY DEF WritePatch, PatchUnchanged
<1>2. /\ files' \in SUBSET Writes /\ alive \subseteq Terminals
      /\ terminal \in [Terminals -> {"none", "running", "stopped", "exited"}]
      /\ \A d \in Terminals : terminal[d] = "running" => d \in alive
  BY <1>1 DEF LockInv, Typed, Processes
<1> QED
  BY <1>1, <1>2, ReleaseLock

LEMMA TerminalTypes ==
    ASSUME LockInv, NEW c \in Terminals
    PROVE  /\ c \in Writes /\ files \in SUBSET Writes /\ alive \subseteq Terminals
           /\ terminal \in [Terminals -> {"none", "running", "stopped", "exited"}]
           /\ \A d \in Terminals : terminal[d] = "running" \/ write[d] = "background" => d \in alive
           /\ write \in [Writes -> Leased \cup {"idle", "waiting", "done"}]
           /\ recorded \in [Writes -> SUBSET Writes] /\ plan \in [Writes -> SUBSET Writes]
BY CallsApart DEF LockInv, Typed, Processes

LEMMA SpawnLock ==
    ASSUME LockInv, NEW c \in Terminals, SpawnProcess(c)
    PROVE  LockInv'
<1>1. /\ write[c] = "granted"
      /\ UNCHANGED <<lock, files, before, plan, late, stopped>>
  BY DEF SpawnProcess
<1>2. CASE /\ write' = [write EXCEPT ![c] = "spawned"] /\ terminal' = [terminal EXCEPT ![c] = "running"]
           /\ alive' = alive \cup {c} /\ recorded' = recorded
  <2>1. \A d \in Terminals : terminal'[d] = "running" \/ write'[d] = "background" => d \in alive'
    BY <1>1, <1>2, TerminalTypes, CallsApart
  <2>2. /\ "spawned" \in Leased \ {"granted"} /\ alive' \subseteq Terminals
        /\ terminal' \in [Terminals -> {"none", "running", "stopped", "exited"}]
    BY <1>2, TerminalTypes DEF Leased
  <2> QED
    BY <1>1, <1>2, <2>1, <2>2, TerminalTypes, StageLock
<1>3. CASE Release(c, files) /\ UNCHANGED <<terminal, alive>>
  BY <1>1, <1>3, TerminalTypes, ReleaseLock
<1> QED
  BY <1>2, <1>3 DEF SpawnProcess

LEMMA ProcessWritesLock ==
    ASSUME LockInv, NEW c \in Terminals, ProcessWrites(c)
    PROVE  LockInv'
<1>1. /\ files' = files \cup {c} /\ late' \subseteq late \cup {c}
      /\ UNCHANGED <<lock, write, terminal, alive, before, plan, recorded, stopped>>
  BY DEF ProcessWrites
<1>2. Typed'
  BY <1>1, CallsApart DEF LockInv, Typed
<1>3. Held' = Held
  BY <1>1 DEF Held, HoldsLease
<1> QED
  BY <1>1, <1>2, <1>3 DEF LockInv, Queued, Leases, Processes

LEMMA ExitLock ==
    ASSUME LockInv, NEW c \in Terminals, ProcessExits(c)
    PROVE  LockInv'
<1>1. /\ alive' = alive \ {c}
      /\ terminal' = [terminal EXCEPT ![c] = IF @ = "stopped" THEN "stopped" ELSE "exited"]
      /\ IF write[c] = "background" THEN Release(c, files) ELSE UNCHANGED <<write, recorded>>
      /\ UNCHANGED <<lock, files, before, plan, late, stopped>>
  BY DEF ProcessExits
<1>2. /\ alive' \subseteq Terminals
      /\ terminal' \in [Terminals -> {"none", "running", "stopped", "exited"}]
      /\ \A d \in Terminals : d # c => terminal'[d] = terminal[d] /\ (d \in alive => d \in alive')
      /\ terminal'[c] # "running"
  BY <1>1, TerminalTypes
<1>3. CASE write[c] = "background"
  <2>1. Release(c, files)
    BY <1>1, <1>3
  <2> QED
    BY <1>1, <1>2, <1>3, <2>1, TerminalTypes, ReleaseLock
<1>4. CASE write[c] # "background"
  <2>1. UNCHANGED <<write, recorded>> /\ Held' = Held
    BY <1>1, <1>4 DEF Held, HoldsLease
  <2>2. Typed'
    BY <1>1, <1>2, <2>1 DEF LockInv, Typed
  <2>3. Processes'
    BY <1>2, <1>4, <2>1 DEF LockInv, Processes
  <2> QED
    BY <1>1, <2>1, <2>2, <2>3 DEF LockInv, Queued, Leases
<1> QED
  BY <1>3, <1>4

LEMMA ReturnLock ==
    ASSUME LockInv, NEW c \in Terminals, StartReturns(c)
    PROVE  LockInv'
<1> DEFINE status == IF terminal[c] = "running" /\ Writer[c] \in stopped THEN "stopped" ELSE terminal[c]
<1>1. /\ write[c] = "spawned"
      /\ terminal' = [terminal EXCEPT ![c] = status]
      /\ IF status = "running"
         THEN write' = [write EXCEPT ![c] = "background"] /\ UNCHANGED recorded
         ELSE Release(c, files)
      /\ UNCHANGED <<lock, alive, files, before, plan, late, stopped>>
  BY DEF StartReturns
<1>2. /\ terminal' \in [Terminals -> {"none", "running", "stopped", "exited"}]
      /\ \A d \in Terminals : d # c => terminal'[d] = terminal[d]
      /\ terminal'[c] = status
      /\ status = "running" => terminal[c] = "running"
  BY <1>1, TerminalTypes
<1> HIDE DEF status
<1>3. CASE status = "running"
  <2>1. write' = [write EXCEPT ![c] = "background"] /\ recorded' = recorded
    BY <1>1, <1>3
  <2>2. \A d \in Terminals : terminal'[d] = "running" \/ write'[d] = "background" => d \in alive'
    BY <1>1, <1>2, <1>3, <2>1, TerminalTypes, CallsApart
  <2>3. "background" \in Leased \ {"granted"}
    BY DEF Leased
  <2> QED
    BY <1>1, <1>2, <2>1, <2>2, <2>3, TerminalTypes, StageLock
<1>4. CASE status # "running"
  <2>1. Release(c, files)
    BY <1>1, <1>4
  <2> QED
    BY <1>1, <1>2, <1>4, <2>1, TerminalTypes, ReleaseLock
<1> QED
  BY <1>3, <1>4

LEMMA StopLock ==
    ASSUME LockInv, NEW c \in Terminals, StopTerminal(c)
    PROVE  LockInv'
<1>1. /\ terminal' = [terminal EXCEPT ![c] = IF @ = "running" THEN "stopped" ELSE @]
      /\ IF write[c] = "background" THEN Release(c, files) ELSE UNCHANGED <<write, recorded>>
      /\ UNCHANGED <<lock, alive, files, before, plan, late, stopped>>
  BY DEF StopTerminal
<1>2. /\ terminal' \in [Terminals -> {"none", "running", "stopped", "exited"}]
      /\ \A d \in Terminals : d # c => terminal'[d] = terminal[d]
      /\ terminal'[c] # "running"
  BY <1>1, TerminalTypes
<1>3. CASE write[c] = "background"
  <2>1. Release(c, files)
    BY <1>1, <1>3
  <2> QED
    BY <1>1, <1>2, <1>3, <2>1, TerminalTypes, ReleaseLock
<1>4. CASE write[c] # "background"
  <2>1. UNCHANGED <<write, recorded>> /\ Held' = Held
    BY <1>1, <1>4 DEF Held, HoldsLease
  <2>2. Typed'
    BY <1>1, <1>2, <2>1 DEF LockInv, Typed
  <2>3. Processes'
    BY <1>1, <1>2, <1>4, <2>1 DEF LockInv, Processes
  <2> QED
    BY <1>1, <2>1, <2>2, <2>3 DEF LockInv, Queued, Leases
<1> QED
  BY <1>3, <1>4

LEMMA InterruptLock ==
    ASSUME LockInv, NEW m \in Members, InterruptMember(m)
    PROVE  LockInv'
<1>1. /\ stopped' = stopped \cup {m}
      /\ terminal' = [c \in Terminals |->
             IF Writer[c] = m /\ write[c] = "background" /\ terminal[c] = "running"
             THEN "stopped" ELSE terminal[c]]
      /\ UNCHANGED <<lock, write, alive, files, before, plan, recorded, late>>
  BY DEF InterruptMember
<1>2. terminal' \in [Terminals -> {"none", "running", "stopped", "exited"}]
  BY <1>1 DEF LockInv, Typed
<1>3. Typed'
  BY <1>1, <1>2 DEF LockInv, Typed
<1>4. Held' = Held
  BY <1>1 DEF Held, HoldsLease
<1>5. Processes'
  BY <1>1 DEF LockInv, Processes
<1> QED
  BY <1>1, <1>3, <1>4, <1>5 DEF LockInv, Queued, Leases

LEMMA LockNext == LockInv /\ [WorkspaceNext]_workspaceVars => LockInv'
<1> SUFFICES ASSUME LockInv, [WorkspaceNext]_workspaceVars PROVE LockInv'
  OBVIOUS
<1>1. CASE UNCHANGED workspaceVars
  <2>1. Held' = Held
    BY <1>1 DEF workspaceVars, Held, HoldsLease
  <2> QED
    BY SMTT(60), <1>1, <2>1 DEF workspaceVars, LockInv, Typed, Queued, Leases, Processes
<1>2. CASE WorkspaceNext
  BY <1>2, AcquireLock, UnlockLock, PlanLock, WriteLock, SpawnLock, ProcessWritesLock, ExitLock,
     ReturnLock, StopLock, InterruptLock DEF WorkspaceNext
<1> QED
  BY <1>1, <1>2
-----------------------------------------------------------------------------
(* Contents, plans and records *)

\* Nothing of the edits depends on anything else.
LEMMA WriteTypes ==
    ASSUME LockInv
    PROVE  /\ write \in [Writes -> Leased \cup {"idle", "waiting", "done"}]
           /\ files \subseteq Writes /\ late \subseteq Writes /\ alive \subseteq Writes
           /\ before \in [Writes -> SUBSET Writes] /\ plan \in [Writes -> SUBSET Writes]
           /\ recorded \in [Writes -> SUBSET Writes]
BY CallsApart DEF LockInv, Typed

\* All the calls that hold a lease are of one member.
LEMMA OneMember ==
    ASSUME LockInv, NEW c \in Writes, NEW d \in Writes, HoldsLease(c), HoldsLease(d)
    PROVE  Writer[c] = Writer[d]
BY DEF LockInv, Leases, Held

\* A release records what the call changed; it takes back no record, as it is
\* the first of its call.
LEMMA ReleaseRecords ==
    ASSUME LockInv, EditsInv, NEW c \in Writes, NEW after \in SUBSET Writes, Release(c, after),
           write[c] \in {"granted", "planned", "spawned", "background"}
    PROVE  /\ \A d \in Writes : recorded[d] \subseteq recorded'[d]
           /\ \A d \in Writes \ {c} : recorded'[d] = recorded[d]
           /\ c \in after => recorded'[c] = after
<1>1. /\ recorded \in [Writes -> SUBSET Writes]
      /\ recorded' = [recorded EXCEPT ![c] = IF after = before[c] THEN {} ELSE after]
      /\ recorded[c] = {} /\ c \notin before[c]
  BY WriteTypes DEF Release, EditsInv, Contents
<1> QED
  BY <1>1

LEMMA ReleaseEdits ==
    ASSUME LockInv, EditsInv, NEW c \in Writes, Release(c, files),
           write[c] \in {"granted", "spawned", "background"},
           files' = files, alive' \subseteq alive, UNCHANGED <<before, plan, late>>,
           \A d \in Writes : write'[d] = IF d = c THEN "recording" ELSE write[d]
    PROVE  EditsInv'
<1>1. /\ \A d \in Writes : recorded[d] \subseteq recorded'[d]
      /\ \A d \in Writes \ {c} : recorded'[d] = recorded[d]
      /\ c \in files => recorded'[c] = files
  BY ReleaseRecords, WriteTypes
<1>2. Made \subseteq Made'
  BY DEF Made
<1>3. Contents'
  BY <1>1, <1>2 DEF EditsInv, Contents
<1>4. Planned'
  BY CallsApart DEF EditsInv, Planned
<1>5. Captured'
  <2> USE DEF Captured
  <2>1. TAKE d \in files' \ late'
  <2>2. d \in Writes /\ d \in files \ late
    BY <2>1, WriteTypes
  <2>3. CASE d = c
    BY <1>1, <2>2, <2>3
  <2>4. CASE d # c /\ HoldsLease(d) /\ write[d] # "recording"
    BY <2>2, <2>4 DEF HoldsLease
  <2>5. CASE \E e \in Writes : Writer[e] = Writer[d] /\ d \in recorded[e]
    BY <1>1, <2>5
  <2> QED
    BY <2>2, <2>3, <2>4, <2>5 DEF EditsInv, Captured
<1> QED
  BY <1>3, <1>4, <1>5 DEF EditsInv

LEMMA AcquireEdits ==
    ASSUME LockInv, EditsInv, NEW c \in Writes, Acquire(c)
    PROVE  EditsInv'
<1>1. /\ write[c] = "idle"
      /\ \A d \in Writes : write'[d] = IF d = c THEN write'[c] ELSE write[d]
      /\ write'[c] \in {"granted", "waiting"}
      /\ \A d \in Writes : before'[d] = before[d] \/ (d = c /\ before'[d] = files)
      /\ UNCHANGED <<alive, files, plan, recorded, late>>
  <2>1. /\ write[c] = "idle" /\ UNCHANGED <<alive, files, plan, recorded, late>>
        /\ \/ write' = [write EXCEPT ![c] = "granted"] /\ before' = [before EXCEPT ![c] = files]
           \/ write' = [write EXCEPT ![c] = "waiting"] /\ before' = before
    BY DEF Acquire
  <2> QED
    BY <2>1, WriteTypes
<1>2. Made' = Made /\ c \notin Made
  BY <1>1 DEF Made
<1>3. Contents'
  BY <1>1, <1>2 DEF EditsInv, Contents
<1>4. Planned'
  BY <1>1, CallsApart DEF EditsInv, Planned
<1>5. Captured'
  <2> USE DEF Captured
  <2>1. TAKE d \in files' \ late'
  <2>2. d \in Writes /\ d \in files \ late /\ d # c
    BY <2>1, <1>1, <1>2, WriteTypes DEF EditsInv, Contents
  <2> QED
    BY <2>2, <1>1 DEF EditsInv, Captured, HoldsLease
<1> QED
  BY <1>3, <1>4, <1>5 DEF EditsInv

LEMMA UnlockEdits ==
    ASSUME LockInv, EditsInv, NEW c \in Writes, ChangesAnswered(c)
    PROVE  EditsInv'
<1>1. /\ write[c] = "recording"
      /\ UNCHANGED <<alive, files, plan, recorded, late>>
      /\ Unlock(c)
  BY DEF ChangesAnswered
<1>2. \A d \in Writes :
          \/ d = c /\ write'[d] = "done" /\ before'[d] = before[d]
          \/ write'[d] = write[d] /\ before'[d] = before[d]
          \/ write[d] = "waiting" /\ write'[d] = "granted" /\ before'[d] = files
  <2>1. CASE lock.leases > 1 \/ lock.waiters = <<>>
    BY <1>1, <2>1, WriteTypes DEF Unlock
  <2>2. CASE ~(lock.leases > 1 \/ lock.waiters = <<>>)
    <3> DEFINE next == lock.waiters[1]
    <3>1. /\ write' = [[write EXCEPT ![c] = "done"] EXCEPT ![next] = "granted"]
          /\ before' = [before EXCEPT ![next] = files]
      BY <1>1, <2>2 DEF Unlock
    <3>2. lock.waiters \in Seq(Writes) /\ lock.waiters # <<>>
      BY <2>2 DEF LockInv, Typed
    <3>3. 1 \in 1 .. Len(lock.waiters) /\ next \in Writes
      BY <3>2, EmptySeq
    <3>4. write[next] = "waiting" /\ next # c
      BY <3>3, <1>1 DEF LockInv, Queued
    <3> QED
      BY <3>1, <3>3, <3>4, WriteTypes
  <2> QED
    BY <2>1, <2>2
<1>3. Made' = Made /\ \A d \in Writes : write[d] = "waiting" => d \notin Made
  BY <1>1, <1>2 DEF Made
<1>4. Contents'
  <2>1. \A d \in Writes : before'[d] \subseteq Made' \ {d}
    BY <1>2, <1>3 DEF EditsInv, Contents
  <2>2. \A d \in Writes : write'[d] \notin {"recording", "done"} => recorded'[d] = {}
    BY <1>1, <1>2 DEF EditsInv, Contents
  <2> QED
    BY <1>1, <1>3, <2>1, <2>2 DEF EditsInv, Contents
<1>5. Planned'
  BY <1>1, <1>2, CallsApart DEF EditsInv, Planned
<1>6. Captured'
  <2> USE DEF Captured
  <2>1. TAKE d \in files' \ late'
  <2>2. d \in Writes /\ d \in files \ late
    BY <2>1, <1>1, WriteTypes
  <2>3. HoldsLease(d) /\ write[d] # "recording" => HoldsLease(d)' /\ write'[d] # "recording"
    BY <1>1, <1>2, <2>2 DEF HoldsLease, Leased
  <2> QED
    BY <2>2, <2>3, <1>1 DEF EditsInv, Captured
<1> QED
  BY <1>4, <1>5, <1>6 DEF EditsInv

LEMMA PlanEdits ==
    ASSUME LockInv, EditsInv, NEW c \in Writes, PlanPatch(c)
    PROVE  EditsInv'
<1>1. /\ c \in Patches /\ write[c] = "granted"
      /\ UNCHANGED <<files, alive, before, late>>
  BY DEF PlanPatch, PatchUnchanged
<1>2. CASE write' = [write EXCEPT ![c] = "planned"] /\ plan' = [plan EXCEPT ![c] = files] /\ recorded' = recorded
  <2>1. /\ \A d \in Writes : write'[d] = IF d = c THEN "planned" ELSE write[d]
        /\ \A d \in Writes : plan'[d] = IF d = c THEN files ELSE plan[d]
    BY <1>2, WriteTypes
  <2>2. Made' = Made
    BY <2>1, <1>1 DEF Made
  <2>3. Contents'
    BY <2>1, <2>2, <1>1, <1>2 DEF EditsInv, Contents
  <2>4. Planned'
    BY <2>1, <1>1, CallsApart DEF EditsInv, Planned
  <2>5. Captured'
    <3>1. \A d \in Writes : HoldsLease(d) /\ write[d] # "recording" => HoldsLease(d)' /\ write'[d] # "recording"
      BY <2>1 DEF HoldsLease, Leased
    <3> QED
      BY <3>1, <1>1, <1>2, WriteTypes DEF EditsInv, Captured
  <2> QED
    BY <2>3, <2>4, <2>5 DEF EditsInv
<1>3. CASE Release(c, files) /\ plan' = plan
  <2>1. \A d \in Writes : write'[d] = IF d = c THEN "recording" ELSE write[d]
    BY <1>3, WriteTypes DEF Release
  <2> QED
    BY <1>1, <1>3, <2>1, ReleaseEdits
<1> QED
  BY <1>2, <1>3 DEF PlanPatch

LEMMA WriteEdits ==
    ASSUME LockInv, EditsInv, NEW c \in Writes, WritePatch(c)
    PROVE  EditsInv'
<1>1. /\ write[c] = "planned" /\ Release(c, files') /\ files' = plan[c] \cup {c}
      /\ UNCHANGED <<plan, alive, before, late>> /\ c \in Patches /\ HoldsLease(c)
  BY DEF WritePatch, PatchUnchanged, LockInv, Processes, HoldsLease, Leased
<1>2. \A d \in Writes : write'[d] = IF d = c THEN "recording" ELSE write[d]
  BY <1>1, WriteTypes DEF Release
<1>3. /\ \A d \in Writes : recorded[d] \subseteq recorded'[d]
      /\ \A d \in Writes \ {c} : recorded'[d] = recorded[d]
      /\ recorded'[c] = files'
  BY <1>1, ReleaseRecords, WriteTypes
<1>4. Made' = Made \cup {c}
  BY <1>1, <1>2 DEF Made
<1>5. \A d \in Writes \ late : ~(d \in plan[c] <=> d \in files) => Writer[d] = Writer[c]
  BY <1>1 DEF EditsInv, Planned
<1>6. Contents'
  BY <1>1, <1>2, <1>3, <1>4 DEF EditsInv, Contents
<1>7. Planned'
  <2>1. SUFFICES ASSUME NEW e \in Patches, write'[e] = "planned",
                        NEW d \in Writes \ late, ~(d \in plan[e] <=> d \in files')
                 PROVE  Writer[d] = Writer[e]
    BY <1>1 DEF Planned
  <2>2. e \in Writes /\ write[e] = "planned" /\ HoldsLease(e)
    BY <1>2, <2>1, CallsApart DEF HoldsLease, Leased
  <2>3. Writer[e] = Writer[c]
    BY <1>1, <2>2, OneMember
  <2>4. ~(d \in plan[e] <=> d \in files) => Writer[d] = Writer[e]
    BY <2>1, <2>2 DEF EditsInv, Planned
  <2> QED
    BY <1>1, <1>5, <2>1, <2>3, <2>4
<1>8. Captured'
  <2> USE DEF Captured
  <2>1. TAKE d \in files' \ late'
  <2>2. d \in Writes \ late /\ (d = c \/ d \in plan[c])
    BY <2>1, <1>1, WriteTypes
  <2>3. CASE d = c
    BY <1>1, <1>3, <2>3
  <2>4. CASE d # c /\ d \in files
    <3>1. CASE HoldsLease(d) /\ write[d] # "recording"
      BY <1>2, <2>2, <2>4, <3>1 DEF HoldsLease
    <3>2. CASE \E e \in Writes : Writer[e] = Writer[d] /\ d \in recorded[e]
      BY <1>3, <3>2
    <3> QED
      BY <2>2, <2>4, <3>1, <3>2 DEF EditsInv, Captured
  <2>5. CASE d # c /\ d \notin files
    BY <1>3, <1>5, <2>1, <2>2, <2>5
  <2> QED
    BY <2>3, <2>4, <2>5
<1> QED
  BY <1>6, <1>7, <1>8 DEF EditsInv

LEMMA SpawnEdits ==
    ASSUME LockInv, EditsInv, NEW c \in Terminals, SpawnProcess(c)
    PROVE  EditsInv'
<1>1. write[c] = "granted" /\ c \in Writes /\ UNCHANGED <<files, before, plan, late>>
  BY CallsApart DEF SpawnProcess
<1>2. CASE write' = [write EXCEPT ![c] = "spawned"] /\ alive' = alive \cup {c} /\ recorded' = recorded
  <2>1. \A d \in Writes : write'[d] = IF d = c THEN "spawned" ELSE write[d]
    BY <1>1, <1>2, WriteTypes
  <2>2. Made' = Made \cup {c}
    BY <2>1, <1>1 DEF Made
  <2>3. Contents'
    BY <2>1, <2>2, <1>1, <1>2 DEF EditsInv, Contents
  <2>4. Planned'
    BY <2>1, <1>1, CallsApart DEF EditsInv, Planned
  <2>5. Captured'
    <3>1. \A d \in Writes : HoldsLease(d) /\ write[d] # "recording" => HoldsLease(d)' /\ write'[d] # "recording"
      BY <2>1 DEF HoldsLease, Leased
    <3> QED
      BY <3>1, <1>1, <1>2, WriteTypes DEF EditsInv, Captured
  <2> QED
    BY <2>3, <2>4, <2>5 DEF EditsInv
<1>3. CASE Release(c, files) /\ UNCHANGED <<terminal, alive>>
  <2>1. \A d \in Writes : write'[d] = IF d = c THEN "recording" ELSE write[d]
    BY <1>3, WriteTypes DEF Release
  <2> QED
    BY <1>1, <1>3, <2>1, ReleaseEdits
<1> QED
  BY <1>2, <1>3 DEF SpawnProcess

LEMMA ProcessWritesEdits ==
    ASSUME LockInv, EditsInv, NEW c \in Terminals, ProcessWrites(c)
    PROVE  EditsInv'
<1>1. /\ c \in Writes /\ c \in alive /\ files' = files \cup {c}
      /\ late' = IF HoldsLease(c) /\ write[c] # "recording" THEN late ELSE late \cup {c}
      /\ UNCHANGED <<write, alive, before, plan, recorded>>
  BY CallsApart DEF ProcessWrites
<1>2. Made' = Made /\ c \in Made
  BY <1>1 DEF Made, EditsInv, Contents
<1>3. Contents'
  BY <1>1, <1>2 DEF EditsInv, Contents
<1>4. Planned'
  <2>1. SUFFICES ASSUME NEW e \in Patches, write[e] = "planned",
                        NEW d \in Writes \ late', ~(d \in plan[e] <=> d \in files')
                 PROVE  Writer[d] = Writer[e]
    BY <1>1 DEF Planned
  <2>2. CASE d = c
    <3>1. HoldsLease(c) /\ HoldsLease(e) /\ e \in Writes
      BY <1>1, <2>1, <2>2, CallsApart DEF HoldsLease, Leased
    <3> QED
      BY <1>1, <2>2, <3>1, OneMember
  <2>3. CASE d # c
    <3>1. d \in Writes \ late
      BY <1>1, <2>1
    <3>2. ~(d \in plan[e] <=> d \in files)
      BY <1>1, <2>1, <2>3
    <3> QED
      BY <2>1, <3>1, <3>2 DEF EditsInv, Planned
  <2> QED
    BY <2>2, <2>3
<1>5. Captured'
  BY <1>1 DEF EditsInv, Captured, HoldsLease
<1> QED
  BY <1>3, <1>4, <1>5 DEF EditsInv

\* What a terminal does to neither lease nor record leaves the edits alone.
LEMMA AsideEdits ==
    ASSUME LockInv, EditsInv, alive' \subseteq alive,
           UNCHANGED <<write, files, before, plan, recorded, late>>
    PROVE  EditsInv'
<1>1. Made' = Made
  BY DEF Made
<1> QED
  BY <1>1 DEF EditsInv, Contents, Planned, Captured, HoldsLease

LEMMA ExitEdits ==
    ASSUME LockInv, EditsInv, NEW c \in Terminals, ProcessExits(c)
    PROVE  EditsInv'
<1>1. /\ c \in Writes /\ alive' \subseteq alive
      /\ IF write[c] = "background" THEN Release(c, files) ELSE UNCHANGED <<write, recorded>>
      /\ UNCHANGED <<files, before, plan, late>>
  BY CallsApart DEF ProcessExits
<1>2. CASE write[c] = "background"
  <2>1. Release(c, files) /\ \A d \in Writes : write'[d] = IF d = c THEN "recording" ELSE write[d]
    BY <1>1, <1>2, WriteTypes DEF Release
  <2> QED
    BY <1>1, <1>2, <2>1, ReleaseEdits
<1>3. CASE write[c] # "background"
  BY <1>1, <1>3, AsideEdits
<1> QED
  BY <1>2, <1>3

LEMMA ReturnEdits ==
    ASSUME LockInv, EditsInv, NEW c \in Terminals, StartReturns(c)
    PROVE  EditsInv'
<1>1. /\ c \in Writes /\ write[c] = "spawned"
      /\ \/ write' = [write EXCEPT ![c] = "background"] /\ recorded' = recorded
         \/ Release(c, files)
      /\ UNCHANGED <<alive, files, before, plan, late>>
  BY CallsApart DEF StartReturns
<1>2. CASE write' = [write EXCEPT ![c] = "background"] /\ recorded' = recorded
  <2>1. \A d \in Writes : write'[d] = IF d = c THEN "background" ELSE write[d]
    BY <1>2, WriteTypes
  <2>2. Made' = Made
    BY <2>1, <1>1 DEF Made
  <2>3. Contents'
    BY <2>1, <2>2, <1>1, <1>2 DEF EditsInv, Contents
  <2>4. Planned'
    BY <2>1, <1>1, CallsApart DEF EditsInv, Planned
  <2>5. Captured'
    <3>1. \A d \in Writes : HoldsLease(d) /\ write[d] # "recording" => HoldsLease(d)' /\ write'[d] # "recording"
      BY <2>1 DEF HoldsLease, Leased
    <3> QED
      BY <3>1, <1>1, <1>2, WriteTypes DEF EditsInv, Captured
  <2> QED
    BY <2>3, <2>4, <2>5 DEF EditsInv
<1>3. CASE Release(c, files)
  <2>1. \A d \in Writes : write'[d] = IF d = c THEN "recording" ELSE write[d]
    BY <1>3, WriteTypes DEF Release
  <2> QED
    BY <1>1, <1>3, <2>1, ReleaseEdits
<1> QED
  BY <1>1, <1>2, <1>3

LEMMA StopEdits ==
    ASSUME LockInv, EditsInv, NEW c \in Terminals, StopTerminal(c)
    PROVE  EditsInv'
<1>1. /\ c \in Writes
      /\ IF write[c] = "background" THEN Release(c, files) ELSE UNCHANGED <<write, recorded>>
      /\ UNCHANGED <<alive, files, before, plan, late>>
  BY CallsApart DEF StopTerminal
<1>2. CASE write[c] = "background"
  <2>1. Release(c, files) /\ \A d \in Writes : write'[d] = IF d = c THEN "recording" ELSE write[d]
    BY <1>1, <1>2, WriteTypes DEF Release
  <2> QED
    BY <1>1, <1>2, <2>1, ReleaseEdits
<1>3. CASE write[c] # "background"
  BY <1>1, <1>3, AsideEdits
<1> QED
  BY <1>2, <1>3

LEMMA EditsNext == LockInv /\ EditsInv /\ [WorkspaceNext]_workspaceVars => EditsInv'
<1> SUFFICES ASSUME LockInv, EditsInv, [WorkspaceNext]_workspaceVars PROVE EditsInv'
  OBVIOUS
<1>1. CASE UNCHANGED workspaceVars
  BY <1>1, AsideEdits DEF workspaceVars
<1>2. ASSUME NEW m \in Members, InterruptMember(m) PROVE EditsInv'
  BY <1>2, AsideEdits DEF InterruptMember
<1>3. CASE WorkspaceNext
  BY <1>2, <1>3, AcquireEdits, UnlockEdits, PlanEdits, WriteEdits, SpawnEdits, ProcessWritesEdits,
     ExitEdits, ReturnEdits, StopEdits DEF WorkspaceNext
<1> QED
  BY <1>1, <1>3

-----------------------------------------------------------------------------
(* The theorems *)

LEMMA WorkspaceStarts == WorkspaceInit => WorkspaceInv
<1> SUFFICES ASSUME WorkspaceInit PROVE WorkspaceInv
  OBVIOUS
<1>1. \A c \in Writes : write[c] = "idle"
  BY DEF WorkspaceInit
<1>2. Held = {} /\ Made = {}
  BY <1>1 DEF Held, Made, HoldsLease, Leased
<1>3. /\ lock.owner = NoOwner /\ lock.leases = 0 /\ lock.waiters = <<>>
      /\ lock \in [owner : Members \cup {NoOwner}, leases : Nat, waiters : Seq(Writes)]
      /\ Len(lock.waiters) = 0
  BY EmptySeq DEF WorkspaceInit, Unlocked
<1>4. Typed
  BY <1>3 DEF WorkspaceInit, Typed, Leased
<1>5. Queued
  BY <1>1, <1>3 DEF Queued
<1>6. Leases
  BY <1>2, <1>3, FS_EmptySet DEF Leases
<1>7. Processes
  BY <1>1, CallsApart DEF WorkspaceInit, Processes
<1>8. EditsInv
  BY <1>1, <1>2, CallsApart DEF WorkspaceInit, EditsInv, Contents, Planned, Captured
<1> QED
  BY <1>4, <1>5, <1>6, <1>7, <1>8 DEF WorkspaceInv, LockInv

LEMMA WorkspaceInvariant == WorkspaceSpec => []WorkspaceInv
<1>1. WorkspaceInv /\ [WorkspaceNext]_workspaceVars => WorkspaceInv'
  BY LockNext, EditsNext DEF WorkspaceInv
<1> QED
  BY WorkspaceStarts, <1>1, PTL DEF WorkspaceSpec

LEMMA WorkspaceInvSafe == WorkspaceInv => WorkspaceSafe
<1> SUFFICES ASSUME WorkspaceInv PROVE WorkspaceSafe
  OBVIOUS
<1>1. WorkspaceTypeOK
  <2>1. Cardinality(Held) <= Cardinality(Writes) /\ Cardinality(Writes) \in Nat
    <3>1. IsFiniteSet(Writes) /\ Held \subseteq Writes
      BY WorkspaceConstants DEF Held
    <3> QED
      BY <3>1, FS_Subset, FS_CardinalityType
  <2>2. lock.leases \in 0 .. Cardinality(Writes)
    BY <2>1 DEF WorkspaceInv, LockInv, Leases, Typed
  <2> QED
    BY <2>2 DEF WorkspaceInv, LockInv, Typed, WorkspaceTypeOK
<1>2. LeasesAccounted
  <2>1. \A c \in Writes : write[c] = "waiting" <=> Contains(lock.waiters, c)
    BY DEF WorkspaceInv, LockInv, Queued, Contains
  <2> QED
    BY <2>1, CallsApart DEF LeasesAccounted, WorkspaceInv, LockInv, Leases, Processes, Held
<1>3. ChangesCaptured
  <2>1. SUFFICES ASSUME NEW d \in files \ late, write[d] = "done"
                 PROVE  \E c \in Writes : Writer[c] = Writer[d] /\ d \in recorded[c]
    BY DEF ChangesCaptured
  <2> QED
    BY <2>1 DEF WorkspaceInv, EditsInv, Captured, HoldsLease, Leased
<1> QED
  BY <1>1, <1>2, <1>3 DEF WorkspaceSafe

\* The lock is held exactly by the calls that act under it, all of one member,
\* nobody waits for a free lock, and every edit made under it that is still
\* there when its call is done was recorded as its member's
\* (workspace-write-lock.ts, workspace-changes.ts), whatever the members, their
\* calls and the order in which processes exit and turns are interrupted.
THEOREM LockSafety == WorkspaceSpec => []WorkspaceSafe
BY WorkspaceInvariant, WorkspaceInvSafe, PTL

\* No step takes an edit made under the lock out of the workspace but the patch
\* of the same member that was planned before it (file-tools.ts).
THEOREM EditsKept == WorkspaceSpec => EditsOfOthersKept
<1>1. ASSUME WorkspaceInv, [WorkspaceNext]_workspaceVars,
             NEW d \in files \ files', d \notin late
      PROVE  \E c \in Patches : write[c] = "planned" /\ c \in files' \ files /\ Writer[c] = Writer[d]
  <2>1. ~ UNCHANGED files
    BY <1>1
  <2>2. \E c \in Writes : WritePatch(c)
    <3>1. files' # files \cup files'
      BY <1>1
    <3> QED
      BY <1>1, <2>1, <3>1 DEF workspaceVars, WorkspaceNext, Acquire, ChangesAnswered, PlanPatch,
         PatchUnchanged, SpawnProcess, ProcessWrites, ProcessExits, StartReturns, StopTerminal, InterruptMember
  <2>3. PICK c \in Writes : WritePatch(c)
    BY <2>2
  <2>4. /\ write[c] = "planned" /\ files' = plan[c] \cup {c} /\ c \in Patches
        /\ d \in Writes \ late /\ d \in files /\ d \notin plan[c]
    BY <1>1, <2>3, WriteTypes DEF WritePatch, WorkspaceInv, LockInv, Processes
  <2>5. Writer[d] = Writer[c]
    BY <2>4, <1>1 DEF WorkspaceInv, EditsInv, Planned
  <2>6. c \notin files
    BY <2>4, <1>1 DEF WorkspaceInv, EditsInv, Contents, Made
  <2> QED
    BY <2>4, <2>5, <2>6
<1>2. WorkspaceInv /\ [WorkspaceNext]_workspaceVars =>
          [\A d \in files \ files' : d \notin late =>
               \E c \in Patches : write[c] = "planned" /\ c \in files' \ files /\ Writer[c] = Writer[d]]_workspaceVars
  BY <1>1
<1> QED
  BY <1>2, WorkspaceInvariant, PTL DEF WorkspaceSpec, EditsOfOthersKept

=============================================================================
