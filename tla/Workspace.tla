------------------------------- MODULE Workspace -------------------------------
(***************************************************************************)
(* The write lock of a multi-agent workspace and the two tools that take   *)
(* it: apply_patch and a terminal started to write                         *)
(* (desktop/electron/multi-agents/workspace-write-lock.ts,                 *)
(* workspace-changes.ts, runtime/tools/file-plugin.ts, terminal-plugin.ts, *)
(* terminal/terminal-manager.ts, files/file-tools.ts).                     *)
(*                                                                         *)
(* A tool call is one write: it makes one edit, and the workspace is one   *)
(* file, whose content is the set of edits that are in it.  A killed       *)
(* process may still make its edit before it dies.                         *)
(***************************************************************************)
EXTENDS Naturals, FiniteSets, Sequences, SequencesExt

CONSTANTS
    Members,   \* ownerId of the members of the collaboration
    Patches,   \* calls of apply_patch
    Terminals, \* calls of terminal start with intent to write
    Writer,    \* the member that makes a call
    NoOwner    \* ownerId = null

Writes == Patches \cup Terminals

ASSUME WorkspaceConstants ==
    /\ Patches \cap Terminals = {}
    /\ Writer \in [Writes -> Members]
    /\ NoOwner \notin Members
    /\ IsFiniteSet(Writes)

VARIABLES
    lock,      \* LockState: the owner, its leases, the calls that wait
    write,     \* how far each call is
    terminal,  \* status of the terminal of a call
    alive,     \* whether its process runs
    files,     \* the content of the workspace
    before,    \* the snapshot a call took when it got the lock
    plan,      \* the content a patch read and will write its edit into
    recorded,  \* the new content recorded when a lease was released, {} for no change
    late,      \* edits made after the lease was released
    stopped    \* members whose turn was interrupted

workspaceVars == <<lock, write, terminal, alive, files, before, plan, recorded, late, stopped>>

Unlocked == [owner |-> NoOwner, leases |-> 0, waiters |-> <<>>]
Leased   == {"granted", "planned", "spawned", "background", "recording"}
HoldsLease(c) == write[c] \in Leased

WorkspaceInit ==
    /\ lock = Unlocked
    /\ write = [c \in Writes |-> "idle"]
    /\ terminal = [c \in Terminals |-> "none"]
    /\ alive = {}
    /\ files = {}
    /\ before = [c \in Writes |-> {}]
    /\ plan = [c \in Writes |-> {}]
    /\ recorded = [c \in Writes |-> {}]
    /\ late = {}
    /\ stopped = {}

-----------------------------------------------------------------------------
(* The lock.  A call that is granted the lock takes its snapshot at once. *)

\* acquireWorkspaceWriteLock; it knows no abort signal.
Acquire(c) ==
    /\ write[c] = "idle"
    /\ Writer[c] \notin stopped
    /\ IF lock.owner \in {NoOwner, Writer[c]}
       THEN /\ lock' = [lock EXCEPT !.owner = Writer[c], !.leases = @ + 1]
            /\ write' = [write EXCEPT ![c] = "granted"]
            /\ before' = [before EXCEPT ![c] = files]
       ELSE /\ lock' = [lock EXCEPT !.waiters = Append(@, c)]
            /\ write' = [write EXCEPT ![c] = "waiting"]
            /\ UNCHANGED before
    /\ UNCHANGED <<terminal, alive, files, plan, recorded, late, stopped>>

\* Mutant: a release frees the lock whatever other leases its owner has.
UnlockAll(c) ==
    LET next == lock.waiters[1]
        done == [write EXCEPT ![c] = "done"]
    IN  IF lock.waiters = <<>>
        THEN lock' = Unlocked /\ write' = done /\ UNCHANGED before
        ELSE /\ lock' = [owner |-> Writer[next], leases |-> 1, waiters |-> Tail(lock.waiters)]
             /\ write' = [done EXCEPT ![next] = "granted"]
             /\ before' = [before EXCEPT ![next] = files]

\* The last lease of its owner hands the lock to the first that waits.
Unlock(c) ==
    LET next == lock.waiters[1]
        done == [write EXCEPT ![c] = "done"]
    IN  IF lock.leases > 1 \/ lock.waiters = <<>>
        THEN /\ lock' = IF lock.leases > 1 THEN [lock EXCEPT !.leases = @ - 1] ELSE Unlocked
             /\ write' = done
             /\ UNCHANGED before
        ELSE /\ lock' = [owner |-> Writer[next], leases |-> 1, waiters |-> Tail(lock.waiters)]
             /\ write' = [done EXCEPT ![next] = "granted"]
             /\ before' = [before EXCEPT ![next] = files]

\* Mutant: nothing is recorded while another call holds a lease.
ReleaseOnce(c, after) ==
    /\ write' = [write EXCEPT ![c] = "recording"]
    /\ recorded' = [recorded EXCEPT ![c] =
           IF after = before[c] \/ \E d \in Writes \ {c} : HoldsLease(d) THEN {} ELSE after]

\* recordWorkspaceChanges compares with the snapshot at once, records a content
\* that is another, and unlocks when the service has answered.
Release(c, after) ==
    /\ write' = [write EXCEPT ![c] = "recording"]
    /\ recorded' = [recorded EXCEPT ![c] = IF after = before[c] THEN {} ELSE after]

ChangesAnswered(c) ==
    /\ write[c] = "recording"
    /\ Unlock(c)
    /\ UNCHANGED <<terminal, alive, files, plan, recorded, late, stopped>>

-----------------------------------------------------------------------------
(* apply_patch: every operation is planned before the first is written. *)

PatchUnchanged == UNCHANGED <<lock, terminal, alive, before, late, stopped>>

PlanPatch(c) ==
    /\ c \in Patches
    /\ write[c] = "granted"
    /\ \/ /\ write' = [write EXCEPT ![c] = "planned"]
          /\ plan' = [plan EXCEPT ![c] = files]
          /\ UNCHANGED recorded
       \/ /\ Release(c, files)
          /\ UNCHANGED plan
    /\ UNCHANGED files
    /\ PatchUnchanged

\* What was planned replaces what the file holds by now.
WritePatch(c) ==
    /\ write[c] = "planned"
    /\ files' = plan[c] \cup {c}
    /\ Release(c, files')
    /\ UNCHANGED plan
    /\ PatchUnchanged

-----------------------------------------------------------------------------
(* terminal *)

SpawnProcess(c) ==
    /\ c \in Terminals
    /\ write[c] = "granted"
    /\ \/ /\ write' = [write EXCEPT ![c] = "spawned"]
          /\ terminal' = [terminal EXCEPT ![c] = "running"]
          /\ alive' = alive \cup {c}
          /\ UNCHANGED recorded
       \/ /\ Release(c, files)
          /\ UNCHANGED <<terminal, alive>>
    /\ UNCHANGED <<lock, files, before, plan, late, stopped>>

ProcessWrites(c) ==
    /\ c \in alive \ (files \cup late)
    /\ files' = files \cup {c}
    /\ late' = IF HoldsLease(c) /\ write[c] # "recording" THEN late ELSE late \cup {c}
    /\ UNCHANGED <<lock, write, terminal, alive, before, plan, recorded, stopped>>

\* onExit; its handlers release the lease of a terminal left in the background.
ProcessExits(c) ==
    /\ c \in alive
    /\ alive' = alive \ {c}
    /\ terminal' = [terminal EXCEPT ![c] = IF @ = "stopped" THEN "stopped" ELSE "exited"]
    /\ IF write[c] = "background" THEN Release(c, files) ELSE UNCHANGED <<write, recorded>>
    /\ UNCHANGED <<lock, files, before, plan, late, stopped>>

\* waitForExitOrTimeout returns to the plugin.  A terminal that runs on keeps
\* its lease, one whose turn was interrupted is killed.
StartReturns(c) ==
    /\ write[c] = "spawned"
    /\ LET status == IF terminal[c] = "running" /\ Writer[c] \in stopped
                     THEN "stopped" ELSE terminal[c]
       IN  /\ terminal' = [terminal EXCEPT ![c] = status]
           /\ IF status = "running"
              THEN write' = [write EXCEPT ![c] = "background"] /\ UNCHANGED recorded
              ELSE Release(c, files)
    /\ UNCHANGED <<lock, alive, files, before, plan, late, stopped>>

\* The stop, read or list action of a later call, which gives back the lease of
\* every terminal that does not run any more.
StopTerminal(c) ==
    /\ write[c] \in {"spawned", "background"}
    /\ terminal' = [terminal EXCEPT ![c] = IF @ = "running" THEN "stopped" ELSE @]
    /\ IF write[c] = "background" THEN Release(c, files) ELSE UNCHANGED <<write, recorded>>
    /\ UNCHANGED <<lock, alive, files, before, plan, late, stopped>>

\* interruptTurn stops the terminals that were registered with the execution;
\* their leases are given back when the processes exit.
InterruptMember(m) ==
    /\ m \in Members \ stopped
    /\ stopped' = stopped \cup {m}
    /\ terminal' = [c \in Terminals |->
           IF Writer[c] = m /\ write[c] = "background" /\ terminal[c] = "running"
           THEN "stopped" ELSE terminal[c]]
    /\ UNCHANGED <<lock, write, alive, files, before, plan, recorded, late>>

WorkspaceNext ==
    \/ \E c \in Writes : Acquire(c) \/ ChangesAnswered(c) \/ PlanPatch(c) \/ WritePatch(c)
    \/ \E c \in Terminals :
           SpawnProcess(c) \/ ProcessWrites(c) \/ ProcessExits(c) \/ StartReturns(c) \/ StopTerminal(c)
    \/ \E m \in Members : InterruptMember(m)

WorkspaceSpec == WorkspaceInit /\ [][WorkspaceNext]_workspaceVars

-----------------------------------------------------------------------------
\* The calls, the lock and the contents are those of the program.
WorkspaceTypeOK ==
    /\ lock.owner \in Members \cup {NoOwner}
    /\ lock.leases \in 0..Cardinality(Writes)
    /\ lock.waiters \in Seq(Writes)
    /\ write \in [Writes -> Leased \cup {"idle", "waiting", "done"}]
    /\ terminal \in [Terminals -> {"none", "running", "stopped", "exited"}]
    /\ alive \subseteq Terminals
    /\ files \subseteq Writes
    /\ before \in [Writes -> SUBSET Writes]
    /\ plan \in [Writes -> SUBSET Writes]
    /\ recorded \in [Writes -> SUBSET Writes]
    /\ late \subseteq Terminals
    /\ stopped \subseteq Members

\* The lock is held exactly by the calls that patch, by the terminals that
\* still run to write and by those whose changes are being recorded, all of one
\* member; nobody waits for a lock that is free; and the lock is never left
\* without a holder to free it, although a lease moves from the start of a
\* terminal to its exit, its stop or a later list, whichever is first.
LeasesAccounted ==
    /\ lock.leases = Cardinality({c \in Writes : HoldsLease(c)})
    /\ \A c \in Writes : HoldsLease(c) => Writer[c] = lock.owner
    /\ lock.leases = 0 <=> lock.owner = NoOwner
    /\ lock.leases = 0 => lock.waiters = <<>>
    /\ \A c \in Writes : write[c] = "waiting" <=> Contains(lock.waiters, c)
    /\ \A c \in Terminals : write[c] = "background" => c \in alive

\* docs/architecture.md: an edit made under the lock that is still there when
\* the call is done was recorded, as a change of the member that made it.
ChangesCaptured ==
    \A d \in files \ late : write[d] = "done" =>
        \E c \in Writes : Writer[c] = Writer[d] /\ d \in recorded[c]

\* The leases of the write lock are those of the calls that hold it, and an edit
\* made under the lock is recorded as its member's (workspace-write-lock.ts).
WorkspaceSafe == WorkspaceTypeOK /\ LeasesAccounted /\ ChangesCaptured

\* What the lock is for: an edit made under the lock is never lost to a patch
\* another member planned before it.
EditsOfOthersKept ==
    [][\A d \in files \ files' : d \notin late =>
           \E c \in Patches : write[c] = "planned" /\ c \in files' \ files /\ Writer[c] = Writer[d]]_workspaceVars

=============================================================================
