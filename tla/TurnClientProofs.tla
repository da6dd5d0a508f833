--------------------------- MODULE TurnClientProofs ---------------------------
(* A turn follows its run to the end and does nothing twice, for any number   *)
(* of model requests, calls, broken streams and lost, late or repeated        *)
(* requests.                                                                  *)
EXTENDS TurnClient, TLAPS, SequenceTheorems, FiniteSetTheorems

-----------------------------------------------------------------------------
(* Types *)

FrameSet ==
    [type : {"delta", "input.received", "tool.requested", "run.continue", "run.failed"},
     calls : SUBSET Calls]

ExecutionSet ==
    [key : [kind : {"initial", "tools", "steer"}, after : 0 .. MaxExecutions],
     frames : Seq(FrameSet), open : BOOLEAN, offered : SUBSET Loads]

RequestSet ==
    [type : {"resume", "continue", "recover"}, execution : Nat, tools : SUBSET Loads]

EventSet ==
    [type : {"frame", "tool.completed"}, execution : Nat, number : Nat, call : Calls \cup {0}]

ServerTyped ==
    /\ phase \in Lifecycle!Phases
    /\ guidance \in [Inputs -> {"none", "pending", "received"}]
    /\ executions \in Seq(ExecutionSet)
    /\ Latest <= MaxExecutions

ClientTyped ==
    /\ stray \subseteq RequestSet
    /\ loop \in {"starting", "reading", "executing", "resuming", "continuing", "recovering",
                 "ended", "failed"}
    /\ stream \in [execution : Nat, read : Nat]
    /\ requests \subseteq Calls
    /\ continuation \in Nat /\ batch \in Nat
    /\ attempts \in 0 .. (MaxAttempts - 1) /\ faults \in 0 .. MaxFaults
    /\ running \subseteq Calls
    /\ events \in Seq(EventSet)
    /\ reached \in [Calls -> Nat]
    /\ failures \in [{Operation[c] : c \in Calls} -> 0 .. 3]
    /\ catalog \subseteq Loads
    /\ aborted \in BOOLEAN

-----------------------------------------------------------------------------
(* The run and its executions *)

CallsOf(e) == {c \in Calls : \E n \in DOMAIN Frames(e) : c \in Frames(e)[n].calls}

\* Each execution but the first follows from what the one before it asked for.
Follows(e) ==
    /\ executions[e].key.after = e - 1
    /\ e = 1 => executions[e].key.kind = "initial"
    /\ e > 1 => \/ /\ executions[e].key.kind = "tools"
                   /\ CallsOf(e - 1) # {}
                \/ /\ executions[e].key.kind = "steer"
                   /\ Written(e - 1, "run.continue")

\* Only the last execution is open, and where the run stands is where it left it.
RunStands ==
    /\ phase = "absent" => executions = <<>>
    /\ phase \in Lifecycle!Ongoing => Latest > 0
    /\ phase = "thinking" => executions[Latest].open
    /\ phase = "tools" => CallsOf(Latest) # {} /\ ~executions[Latest].open
    /\ phase = "paused" => Written(Latest, "run.continue") /\ ~executions[Latest].open
    /\ phase \in {"tools", "paused"} => Latest < MaxExecutions

Chain ==
    /\ \A e \in DOMAIN executions : Follows(e)
    /\ \A e \in DOMAIN executions : e < Latest => ~executions[e].open
    /\ \A e \in DOMAIN executions : CallsOf(e) # {} => ~executions[e].open /\ ~Written(e, "run.continue")
    /\ \A e \in DOMAIN executions : Written(e, "run.continue") => e < MaxExecutions
    /\ \A d, e \in DOMAIN executions : CallsOf(d) \cap CallsOf(e) # {} => d = e

ServerInv == Chain /\ RunStands

-----------------------------------------------------------------------------
(* The loop *)

Seen == {events[i] : i \in DOMAIN events}
AllTold(e) == \A n \in DOMAIN Frames(e) : Told(e, n) \in Seen

\* The executions whose calls the loop has behind it.
Behind ==
    IF batch # 0 THEN batch
    ELSE IF loop = "reading" THEN stream.execution - 1
    ELSE IF loop = "continuing" THEN continuation - 1
    ELSE IF loop = "recovering" THEN Latest - 1
    ELSE 0

\* A request is sent for an execution that was read to its end, unless the run
\* was cancelled.
Readable(k) ==
    /\ k \in DOMAIN executions
    /\ phase = "cancelled" \/ (~executions[k].open /\ AllTold(k))

Reads ==
    LET e == stream.execution
    IN  /\ e \in DOMAIN executions
        /\ stream.read <= Len(Frames(e))
        /\ \A n \in 1 .. stream.read :
               /\ Told(e, n) \in Seen
               /\ Frames(e)[n].calls \subseteq requests
               /\ Frames(e)[n].type = "run.continue" => continuation # 0
        /\ \A c \in requests : \E n \in 1 .. stream.read : c \in Frames(e)[n].calls
        /\ continuation # 0 => continuation = e /\ Written(e, "run.continue")

StraysReadable ==
    \A r \in stray : /\ r.type # "recover" => r.execution # 0
                     /\ r.execution # 0 => Readable(r.execution)

LoopInv ==
    /\ loop \in {"executing", "resuming", "continuing", "recovering"} => Latest > 0
    /\ loop = "reading" => Reads
    /\ stream.execution <= Latest /\ continuation <= Latest
    /\ loop \in {"starting", "reading", "continuing"} => batch = 0
    /\ loop \in {"executing", "resuming"} => batch # 0
    /\ loop = "continuing" => Readable(continuation)
    /\ batch # 0 => Readable(batch)
    /\ StraysReadable
    /\ running # {} => loop = "executing"
    /\ loop = "ended" /\ ~aborted => phase \in Over

\* Every frame of an execution that another followed was told.
ToldBefore == \A e \in DOMAIN executions : e < Latest => AllTold(e)

\* What was told of is there, and a call is told of after it was asked for.
Requested(c) ==
    \E e \in DOMAIN executions : \E n \in DOMAIN Frames(e) :
        Told(e, n) \in Seen /\ c \in Frames(e)[n].calls

SeenExists ==
    \A v \in Seen :
        \/ /\ v.execution \in DOMAIN executions /\ v.number \in DOMAIN Frames(v.execution)
           /\ v = Told(v.execution, v.number)
        \/ v.call \in Calls /\ v = Completed(v.call)

\* A call that was started or answered is one of those the loop has behind it.
Once ==
    /\ \A c \in Calls : reached[c] <= 1
    /\ loop \notin {"ended", "failed"} =>
           \A c \in Calls : (reached[c] = 1 \/ Completed(c) \in Seen) =>
               \E e \in DOMAIN executions : e <= Behind /\ c \in CallsOf(e)
    /\ \A c \in running : c \in CallsOf(batch) /\ Requested(c) /\ Completed(c) \notin Seen

TurnInv ==
    /\ ServerTyped /\ ClientTyped
    /\ ServerInv /\ LoopInv /\ ToldBefore /\ SeenExists /\ Once /\ EventsInOrder
-----------------------------------------------------------------------------
(* Executions and frames *)

LEMMA Elements ==
    ASSUME ServerTyped
    PROVE  /\ Latest \in Nat /\ DOMAIN executions = 1 .. Latest
           /\ \A e \in DOMAIN executions :
                  /\ executions[e] \in ExecutionSet
                  /\ Frames(e) \in Seq(FrameSet) /\ Len(Frames(e)) \in Nat
                  /\ DOMAIN Frames(e) = 1 .. Len(Frames(e))
                  /\ \A n \in DOMAIN Frames(e) :
                         Frames(e)[n] \in FrameSet /\ Frames(e)[n].calls \subseteq Calls
<1>1. executions \in Seq(ExecutionSet)
  BY DEF ServerTyped
<1>2. Latest \in Nat /\ DOMAIN executions = 1 .. Latest
  BY <1>1 DEF Latest
<1>3. ASSUME NEW e \in DOMAIN executions
      PROVE  /\ executions[e] \in ExecutionSet
             /\ Frames(e) \in Seq(FrameSet) /\ Len(Frames(e)) \in Nat
             /\ DOMAIN Frames(e) = 1 .. Len(Frames(e))
             /\ \A n \in DOMAIN Frames(e) :
                    Frames(e)[n] \in FrameSet /\ Frames(e)[n].calls \subseteq Calls
  <2>1. executions[e] \in ExecutionSet
    BY <1>1
  <2>2. Frames(e) \in Seq(FrameSet)
    BY <2>1 DEF ExecutionSet, Frames
  <2>3. Len(Frames(e)) \in Nat /\ DOMAIN Frames(e) = 1 .. Len(Frames(e))
    BY <2>2
  <2>4. \A n \in DOMAIN Frames(e) : Frames(e)[n] \in FrameSet
    BY <2>2, <2>3
  <2>5. \A f \in FrameSet : f.calls \subseteq Calls
    BY DEF FrameSet
  <2> QED
    BY <2>1, <2>2, <2>3, <2>4, <2>5
<1> QED
  BY <1>2, <1>3

\* What a step may do to the executions: they grow, and closed ones stay.
Grows ==
    /\ executions' \in Seq(ExecutionSet) /\ Len(executions') >= Latest
    /\ \A e \in DOMAIN executions :
           /\ e \in DOMAIN executions'
           /\ executions'[e].key = executions[e].key
           /\ \A n \in DOMAIN Frames(e) :
                  n \in DOMAIN executions'[e].frames /\ executions'[e].frames[n] = Frames(e)[n]
           /\ ~executions[e].open => executions'[e] = executions[e]

\* The worker of the last execution writes frames to it, or closes it.
Extended(fs, o) == executions' = [executions EXCEPT ![Latest] = Longer(executions[Latest], fs, o)]

LEMMA ExtendedGrows ==
    ASSUME ServerTyped, Latest > 0, executions[Latest].open,
           NEW fs \in Seq(FrameSet), NEW o \in BOOLEAN, Extended(fs, o)
    PROVE  /\ Grows /\ Latest' = Latest
           /\ \A e \in DOMAIN executions : e # Latest => executions'[e] = executions[e]
           /\ executions'[Latest].open = o
           /\ executions'[Latest].frames = Frames(Latest) \o fs
<1>1. /\ executions[Latest] \in ExecutionSet /\ Latest \in DOMAIN executions /\ Latest \in Nat
      /\ DOMAIN executions = 1 .. Latest /\ Frames(Latest) \in Seq(FrameSet)
      /\ executions \in Seq(ExecutionSet)
  BY Elements DEF ServerTyped
<1> DEFINE new == Longer(executions[Latest], fs, o)
<1>2. Frames(Latest) \o fs \in Seq(FrameSet)
  BY <1>1
<1>3. new \in ExecutionSet
  BY <1>1, <1>2 DEF ExecutionSet, Longer, Frames
<1>4. executions' = [executions EXCEPT ![Latest] = new]
  BY DEF Extended
<1> HIDE DEF new
<1>5. /\ executions' \in Seq(ExecutionSet) /\ Len(executions') = Latest
      /\ DOMAIN executions' = 1 .. Latest
      /\ executions'[Latest] = new
      /\ \A e \in DOMAIN executions : e # Latest => executions'[e] = executions[e]
  BY <1>1, <1>3, <1>4, ExceptSeq
<1>6. \A n \in DOMAIN Frames(Latest) :
          n \in DOMAIN (Frames(Latest) \o fs) /\ (Frames(Latest) \o fs)[n] = Frames(Latest)[n]
  BY <1>1
<1>7. new.key = executions[Latest].key /\ new.frames = Frames(Latest) \o fs /\ new.open = o
  BY DEF new, Longer, Frames
<1>8. ASSUME NEW e \in DOMAIN executions
      PROVE  /\ e \in DOMAIN executions'
             /\ executions'[e].key = executions[e].key
             /\ \A n \in DOMAIN Frames(e) :
                    n \in DOMAIN executions'[e].frames /\ executions'[e].frames[n] = Frames(e)[n]
             /\ ~executions[e].open => executions'[e] = executions[e]
  <2>1. CASE e = Latest
    BY <2>1, <1>1, <1>5, <1>6, <1>7
  <2>2. CASE e # Latest
    BY <2>2, <1>1, <1>5 DEF Frames
  <2> QED
    BY <2>1, <2>2
<1>9. Grows
  BY <1>5, <1>8 DEF Grows
<1> QED
  BY <1>1, <1>5, <1>7, <1>9 DEF Latest

\* Latest grows by one execution.
Appended(x) == executions' = Append(executions, x)

LEMMA AppendedGrows ==
    ASSUME ServerTyped, NEW x \in ExecutionSet, Appended(x)
    PROVE  /\ Grows /\ Latest' = Latest + 1
           /\ \A e \in DOMAIN executions : executions'[e] = executions[e]
           /\ executions'[Latest + 1] = x
<1>1. executions \in Seq(ExecutionSet) /\ DOMAIN executions = 1 .. Latest /\ Latest \in Nat
  BY Elements DEF ServerTyped
<1>2. /\ executions' \in Seq(ExecutionSet) /\ Len(executions') = Latest + 1
      /\ \A e \in DOMAIN executions : executions'[e] = executions[e]
      /\ executions'[Latest + 1] = x
      /\ DOMAIN executions' = 1 .. (Latest + 1)
  BY <1>1 DEF Appended
<1> QED
  BY <1>1, <1>2 DEF Grows, Frames, Latest
-----------------------------------------------------------------------------
(* The service *)

\* What was written stays written.
LEMMA Kept ==
    ASSUME ServerTyped, Grows
    PROVE  /\ Latest' \in Nat /\ Latest' >= Latest /\ DOMAIN executions' = 1 .. Latest'
           /\ \A e \in DOMAIN executions :
                  /\ e \in DOMAIN executions'
                  /\ Len(executions'[e].frames) >= Len(Frames(e))
                  /\ \A n \in DOMAIN Frames(e) : /\ n \in DOMAIN executions'[e].frames
                                                 /\ executions'[e].frames[n] = Frames(e)[n]
                  /\ CallsOf(e) \subseteq CallsOf(e)'
                  /\ Written(e, "run.continue") => Written(e, "run.continue")'
                  /\ ~executions[e].open => executions'[e] = executions[e]
<1>1. executions' \in Seq(ExecutionSet) /\ Len(executions') >= Latest
  BY DEF Grows
<1>2. Latest' \in Nat /\ Latest' >= Latest /\ DOMAIN executions' = 1 .. Latest'
  BY <1>1 DEF Latest
<1>3. ASSUME NEW e \in DOMAIN executions
      PROVE  /\ e \in DOMAIN executions'
             /\ Len(executions'[e].frames) >= Len(Frames(e))
             /\ \A n \in DOMAIN Frames(e) : /\ n \in DOMAIN executions'[e].frames
                                            /\ executions'[e].frames[n] = Frames(e)[n]
             /\ CallsOf(e) \subseteq CallsOf(e)'
             /\ Written(e, "run.continue") => Written(e, "run.continue")'
             /\ ~executions[e].open => executions'[e] = executions[e]
  <2>1. e \in DOMAIN executions' /\ (~executions[e].open => executions'[e] = executions[e])
    BY DEF Grows
  <2>2. \A n \in DOMAIN Frames(e) : /\ n \in DOMAIN executions'[e].frames
                                    /\ executions'[e].frames[n] = Frames(e)[n]
    BY DEF Grows
  <2>3. Len(Frames(e)) \in Nat /\ DOMAIN Frames(e) = 1 .. Len(Frames(e))
    BY Elements
  <2>4. executions'[e].frames \in Seq(FrameSet)
    <3>1. executions'[e] \in ExecutionSet
      BY <1>1, <2>1
    <3> QED
      BY <3>1 DEF ExecutionSet
  <2>5. /\ Len(executions'[e].frames) \in Nat
        /\ DOMAIN executions'[e].frames = 1 .. Len(executions'[e].frames)
    BY <2>4
  <2>6. Len(executions'[e].frames) >= Len(Frames(e))
    BY <2>2, <2>3, <2>5
  <2>7. CallsOf(e) \subseteq CallsOf(e)'
    BY <2>2 DEF CallsOf, Frames
  <2>8. Written(e, "run.continue") => Written(e, "run.continue")'
    BY <2>2 DEF Written, Frames
  <2> QED
    BY <2>1, <2>2, <2>6, <2>7, <2>8
<1> QED
  BY <1>2, <1>3

\* A step that writes one frame, or none, to the last execution keeps the chain.
LEMMA WriteKeeps ==
    ASSUME ServerTyped, ServerInv, Latest > 0, executions[Latest].open,
           NEW f \in FrameSet, NEW fs, fs = <<>> \/ fs = <<f>>, NEW o \in BOOLEAN,
           Extended(fs, o),
           f.calls \cap Asked = {},
           f.calls # {} => ~o /\ f.type # "run.continue" /\ ~Written(Latest, "run.continue"),
           f.type = "run.continue" => Latest < MaxExecutions
    PROVE  /\ Chain' /\ Grows /\ Latest' = Latest /\ executions'[Latest].open = o
           /\ \A e \in DOMAIN executions : e = Latest =>
                  /\ CallsOf(e)' = IF fs = <<>> THEN {} ELSE f.calls
                  /\ Written(e, "run.continue")' <=>
                         Written(e, "run.continue") \/ (fs # <<>> /\ f.type = "run.continue")
<1>1. /\ Latest \in Nat /\ DOMAIN executions = 1 .. Latest /\ Latest \in DOMAIN executions
      /\ Frames(Latest) \in Seq(FrameSet) /\ Len(Frames(Latest)) \in Nat
      /\ \A n \in DOMAIN Frames(Latest) : Frames(Latest)[n].calls \subseteq Calls
  BY Elements
<1>2. fs \in Seq(FrameSet)
  <2>1. <<f>> \in Seq(FrameSet) /\ <<>> \in Seq(FrameSet)
    OBVIOUS
  <2> QED
    BY <2>1
<1>3. /\ Grows /\ Latest' = Latest
      /\ \A e \in DOMAIN executions : e # Latest => executions'[e] = executions[e]
      /\ executions'[Latest].open = o
      /\ executions'[Latest].frames = Frames(Latest) \o fs
  BY <1>2, ExtendedGrows
<1>4. DOMAIN executions' = 1 .. Latest
  BY <1>3, Kept
<1>5. \A e \in DOMAIN executions : executions'[e].key = executions[e].key
  BY <1>3 DEF Grows
<1>6. ASSUME NEW e \in DOMAIN executions, e # Latest
      PROVE  /\ CallsOf(e)' = CallsOf(e)
             /\ Written(e, "run.continue")' <=> Written(e, "run.continue")
  BY <1>3, <1>6 DEF CallsOf, Frames, Written
<1>7. \A n \in DOMAIN Frames(Latest) : Frames(Latest)[n].calls = {}
  <2>1. CallsOf(Latest) = {}
    BY <1>1 DEF ServerInv, Chain
  <2> QED
    BY <2>1, <1>1 DEF CallsOf
<1>8. f.calls \subseteq Calls
  BY DEF FrameSet
<1>9. ASSUME NEW e \in DOMAIN executions, e = Latest
      PROVE  /\ CallsOf(e)' = IF fs = <<>> THEN {} ELSE f.calls
             /\ Written(e, "run.continue")' <=>
                    Written(e, "run.continue") \/ (fs # <<>> /\ f.type = "run.continue")
  <2>1. /\ CallsOf(e)' = {c \in Calls : \E n \in DOMAIN (Frames(Latest) \o fs) :
                                            c \in (Frames(Latest) \o fs)[n].calls}
        /\ Written(e, "run.continue")' <=> \E n \in DOMAIN (Frames(Latest) \o fs) :
                                               (Frames(Latest) \o fs)[n].type = "run.continue"
    BY <1>3, <1>9 DEF CallsOf, Frames, Written
  <2>2. Written(e, "run.continue") <=> \E n \in DOMAIN Frames(Latest) :
                                           Frames(Latest)[n].type = "run.continue"
    BY <1>9 DEF Frames, Written
  <2>3. CASE fs = <<>>
    <3>1. Frames(Latest) \o fs = Frames(Latest)
      BY <1>1, <2>3
    <3> QED
      BY <3>1, <2>1, <2>2, <2>3, <1>7
  <2>4. CASE fs = <<f>>
    <3>1. /\ DOMAIN (Frames(Latest) \o fs) = 1 .. (Len(Frames(Latest)) + 1)
          /\ DOMAIN Frames(Latest) = 1 .. Len(Frames(Latest))
          /\ \A n \in DOMAIN Frames(Latest) : (Frames(Latest) \o fs)[n] = Frames(Latest)[n]
          /\ (Frames(Latest) \o fs)[Len(Frames(Latest)) + 1] = f
      BY <1>1, <2>4
    <3>2. \A n \in DOMAIN (Frames(Latest) \o fs) :
              n \in DOMAIN Frames(Latest) \/ n = Len(Frames(Latest)) + 1
      BY <3>1, <1>1
    <3>3. DOMAIN Frames(Latest) \subseteq DOMAIN (Frames(Latest) \o fs)
          /\ Len(Frames(Latest)) + 1 \in DOMAIN (Frames(Latest) \o fs)
      BY <3>1, <1>1
    <3>4. fs # <<>>
      BY <2>4
    <3>5. CallsOf(e)' = f.calls
      BY <3>1, <3>2, <3>3, <2>1, <1>7, <1>8
    <3>6. Written(e, "run.continue")' <=> Written(e, "run.continue") \/ f.type = "run.continue"
      BY <3>1, <3>2, <3>3, <2>1, <2>2
    <3> QED
      BY <3>4, <3>5, <3>6
  <2> QED
    BY <2>3, <2>4
<1>10. \A e \in DOMAIN executions : e # Latest => f.calls \cap CallsOf(e) = {}
  BY DEF Asked, CallsOf, Frames
<1>11. Chain'
  <2>1. ASSUME NEW e \in DOMAIN executions
        PROVE  Follows(e)'
    <3>1. Follows(e)
      BY DEF ServerInv, Chain
    <3>2. CASE e = 1
      BY <3>1, <3>2, <1>5 DEF Follows
    <3>3. CASE e > 1
      <4>1. e - 1 \in DOMAIN executions /\ e - 1 # Latest
        BY <3>3, <1>1
      <4> DEFINE d == e - 1
      <4>2. CallsOf(d)' = CallsOf(d) /\ (Written(d, "run.continue")' <=> Written(d, "run.continue"))
        BY <4>1, <1>6
      <4>3. e # 1
        BY <3>3, <1>1
      <4> QED
        BY <3>1, <4>2, <4>3, <1>5 DEF Follows
    <3> QED
      BY <3>2, <3>3, <1>1
  <2>2. \A e \in DOMAIN executions : e < Latest => ~executions'[e].open
    BY <1>1, <1>3 DEF ServerInv, Chain
  <2>3. ASSUME NEW e \in DOMAIN executions
        PROVE  CallsOf(e)' # {} => ~executions'[e].open /\ ~Written(e, "run.continue")'
    <3>1. CASE e = Latest
      BY <3>1, <1>3, <1>9
    <3>2. CASE e # Latest
      BY <3>2, <1>3, <1>6 DEF ServerInv, Chain
    <3> QED
      BY <3>1, <3>2
  <2>4. ASSUME NEW e \in DOMAIN executions
        PROVE  Written(e, "run.continue")' => e < MaxExecutions
    <3>1. CASE e = Latest
      BY <3>1, <1>9 DEF ServerInv, Chain
    <3>2. CASE e # Latest
      BY <3>2, <1>6 DEF ServerInv, Chain
    <3> QED
      BY <3>1, <3>2
  <2>5. ASSUME NEW d \in DOMAIN executions, NEW e \in DOMAIN executions,
               CallsOf(d)' \cap CallsOf(e)' # {}
        PROVE  d = e
    <3>1. CASE d # Latest /\ e # Latest
      BY <2>5, <3>1, <1>6 DEF ServerInv, Chain
    <3>2. CASE d = Latest /\ e # Latest
      BY <2>5, <3>2, <1>6, <1>9, <1>10
    <3>3. CASE d # Latest /\ e = Latest
      BY <2>5, <3>3, <1>6, <1>9, <1>10
    <3> QED
      BY <3>1, <3>2, <3>3
  <2>6. DOMAIN executions' = DOMAIN executions
    BY <1>1, <1>4
  <2> QED
    BY <2>1, <2>2, <2>3, <2>4, <2>5, <2>6, <1>3 DEF Chain
<1> QED
  BY <1>3, <1>9, <1>11
\* What every step does to the run: it goes on from where it stands, is over only
\* once, and an execution follows only one whose frames were all told.
ServerMoves ==
    /\ ServerTyped' /\ ServerInv' /\ Grows
    /\ phase \in Over => phase' = phase
    /\ \/ Latest' = Latest
       \/ Latest' = Latest + 1 /\ (Latest > 0 => AllTold(Latest) /\ ~executions[Latest].open)

LEMMA ServerSame ==
    ASSUME ServerTyped, ServerInv, UNCHANGED executions,
           phase' = phase \/ (phase \in Lifecycle!Ongoing /\ phase' = "cancelled"),
           guidance' \in [Inputs -> {"none", "pending", "received"}]
    PROVE  ServerMoves
<1>1. ServerTyped'
  BY DEF ServerTyped, Latest, Lifecycle!Phases
<1>2. Chain'
  BY DEF ServerInv, Chain, Follows, CallsOf, Written, Frames, Latest
<1>3. RunStands'
  <2>1. CASE phase' = phase
    BY <2>1 DEF ServerInv, RunStands, CallsOf, Written, Frames, Latest
  <2>2. CASE phase' = "cancelled"
    BY <2>2 DEF RunStands, Lifecycle!Ongoing
  <2> QED
    BY <2>1, <2>2
<1>4. Grows /\ Latest' = Latest
  BY Elements DEF Grows, ServerTyped, Latest, Frames
<1>5. phase \in Over => phase' = phase
  BY DEF Over, Lifecycle!Ongoing
<1> QED
  BY <1>1, <1>2, <1>3, <1>4, <1>5 DEF ServerMoves, ServerInv

\* A worker writes while the run is thinking; what it leaves is where the run stands.
LEMMA WorkerMoves ==
    ASSUME ServerTyped, ServerInv, Thinking,
           NEW f \in FrameSet, NEW fs, fs = <<>> \/ fs = <<f>>, NEW o \in BOOLEAN,
           executions' = IF o THEN Extend(Latest, fs) ELSE Close(Latest, fs),
           f.calls \cap Asked = {},
           f.calls # {} => ~o /\ f.type # "run.continue" /\ ~Written(Latest, "run.continue"),
           f.type = "run.continue" => Latest < MaxExecutions,
           guidance' \in [Inputs -> {"none", "pending", "received"}],
           \/ o /\ phase' = phase
           \/ /\ ~o /\ phase' = "tools" /\ fs = <<f>> /\ f.calls # {} /\ Latest < MaxExecutions
           \/ /\ ~o /\ phase' = "paused" /\ Written(Latest, "run.continue")
           \/ /\ ~o /\ phase' \in {"completed", "failed"}
    PROVE  ServerMoves
<1>1. phase = "thinking" /\ executions[Latest].open /\ Latest > 0
  BY DEF Thinking, ServerInv, RunStands, Lifecycle!Ongoing
<1>2. Extended(fs, o)
  BY DEF Extended, Extend, Close
<1>3. /\ Chain' /\ Grows /\ Latest' = Latest /\ executions'[Latest].open = o
      /\ \A e \in DOMAIN executions : e = Latest =>
             /\ CallsOf(e)' = IF fs = <<>> THEN {} ELSE f.calls
             /\ Written(e, "run.continue")' <=>
                    Written(e, "run.continue") \/ (fs # <<>> /\ f.type = "run.continue")
  BY <1>1, <1>2, WriteKeeps
<1>4. Latest \in DOMAIN executions /\ Latest \in Nat /\ <<f>> # <<>>
  BY <1>1, Elements
<1>5. PICK e \in DOMAIN executions : e = Latest
  BY <1>4
<1>6. RunStands'
  <2>1. CASE phase' = "tools"
    <3>1. CallsOf(e)' # {} /\ Latest < MaxExecutions /\ ~o
      BY <2>1, <1>1, <1>3, <1>4, <1>5
    <3>2. CallsOf(Latest)' # {}
      BY <3>1, <1>3, <1>5 DEF CallsOf, Frames
    <3> QED
      BY <2>1, <3>1, <3>2, <1>1, <1>3 DEF RunStands
  <2>2. CASE phase' = "paused"
    <3>1. Written(e, "run.continue")' /\ ~o
      BY <2>2, <1>1, <1>3, <1>5
    <3>2. Written(Latest, "run.continue")'
      BY <3>1, <1>3, <1>5 DEF Written
    <3>3. Latest < MaxExecutions
      BY <2>2, <1>1, <1>5 DEF ServerInv, Chain
    <3> QED
      BY <2>2, <3>1, <3>2, <3>3, <1>1, <1>3 DEF RunStands
  <2>3. CASE phase' = "thinking"
    BY <2>3, <1>1, <1>3 DEF RunStands
  <2>4. CASE phase' \in {"completed", "failed"}
    BY <2>4 DEF RunStands, Lifecycle!Ongoing
  <2> QED
    BY <2>1, <2>2, <2>3, <2>4, <1>1
<1>7. ServerTyped'
  BY <1>1, <1>3 DEF ServerTyped, Grows, Lifecycle!Phases
<1> QED
  BY <1>1, <1>3, <1>6, <1>7 DEF ServerMoves, ServerInv, Over

LEMMA ServerKeeps ==
    ASSUME ServerTyped, ServerInv, Server
    PROVE  ServerMoves
<1>1. guidance \in [Inputs -> {"none", "pending", "received"}]
  BY DEF ServerTyped
<1>2. \A t \in {"delta", "input.received", "run.continue", "run.failed"} :
          Frame(t, {}) \in FrameSet /\ Frame(t, {}).calls = {} /\ Frame(t, {}).type = t
  BY DEF Frame, FrameSet
<1>3. CASE ServerWrites
  <2>1. Thinking /\ executions' = Extend(Latest, <<Frame("delta", {})>>)
        /\ UNCHANGED <<phase, guidance>>
    BY <1>3 DEF ServerWrites
  <2> QED
    BY <2>1, <1>1, <1>2, WorkerMoves
<1>4. CASE ServerAccepts
  <2>1. PICK i \in Inputs : Lifecycle!Guide(i) /\ UNCHANGED executions
    BY <1>4 DEF ServerAccepts
  <2>2. guidance' \in [Inputs -> {"none", "pending", "received"}] /\ phase' = phase
    BY <2>1, <1>1 DEF Lifecycle!Guide
  <2> QED
    BY <2>1, <2>2, ServerSame
<1>5. CASE ServerHears
  <2>1. /\ Thinking /\ executions' = Extend(Latest, <<Frame("input.received", {})>>)
        /\ Lifecycle!Hear
    BY <1>5 DEF ServerHears
  <2>2. guidance' \in [Inputs -> {"none", "pending", "received"}] /\ phase' = phase
    BY <2>1, <1>1 DEF Lifecycle!Hear
  <2> QED
    BY <2>1, <2>2, <1>2, WorkerMoves
<1>6. CASE ServerAsks
  <2>1. PICK calls \in (SUBSET Calls) \ {{}} :
            /\ calls \cap Asked = {}
            /\ executions' = Close(Latest, <<Frame("tool.requested", calls)>>)
    BY <1>6 DEF ServerAsks
  <2>2. /\ Thinking /\ ~Written(Latest, "run.continue") /\ Latest < MaxExecutions
        /\ phase' = "tools" /\ guidance' = guidance
    BY <1>6 DEF ServerAsks, Lifecycle!AskTools, Lifecycle!Become
  <2> DEFINE f == Frame("tool.requested", calls)
  <2>3. f \in FrameSet /\ f.calls = calls /\ f.type = "tool.requested" /\ calls # {}
    BY <2>1 DEF Frame, FrameSet
  <2> HIDE DEF f
  <2>4. executions' = Close(Latest, <<f>>)
    BY <2>1 DEF f
  <2> QED
    BY <2>1, <2>2, <2>3, <2>4, <1>1, WorkerMoves
<1>7. CASE ServerContinues
  <2>1. /\ Thinking /\ executions' = Extend(Latest, <<Frame("run.continue", {})>>)
        /\ UNCHANGED <<phase, guidance>> /\ Latest < MaxExecutions
    BY <1>7 DEF ServerContinues
  <2> QED
    BY <2>1, <1>1, <1>2, WorkerMoves
<1>8. CASE ServerPauses
  <2>1. /\ Thinking /\ executions' = Close(Latest, <<>>) /\ Written(Latest, "run.continue")
        /\ phase' = "paused" /\ guidance' = guidance
    BY <1>8 DEF ServerPauses, Lifecycle!Pause, Lifecycle!Become
  <2> QED
    BY <2>1, <1>1, <1>2, WorkerMoves
<1>9. CASE ServerAnswers
  <2>1. /\ Thinking /\ executions' = Close(Latest, <<>>)
        /\ phase' = "completed" /\ guidance' = guidance
    BY <1>9 DEF ServerAnswers, Lifecycle!Answer, Lifecycle!Become
  <2> QED
    BY <2>1, <1>1, <1>2, WorkerMoves
<1>10. CASE ServerFails
  <2>1. /\ Thinking /\ executions' = Close(Latest, <<Frame("run.failed", {})>>)
        /\ phase' = "failed" /\ guidance' = guidance
    BY <1>10 DEF ServerFails, Lifecycle!Fail, Lifecycle!Become
  <2> QED
    BY <2>1, <1>1, <1>2, WorkerMoves
<1>11. CASE ServerCancelled
  <2>1. /\ phase \in Lifecycle!Ongoing /\ phase' = "cancelled" /\ guidance' = guidance
        /\ executions' = executions
    BY <1>11 DEF ServerCancelled, Lifecycle!Cancel, Lifecycle!Become
  <2> QED
    BY <2>1, <1>1, ServerSame
<1> QED
  BY <1>3, <1>4, <1>5, <1>6, <1>7, <1>8, <1>9, <1>10, <1>11 DEF Server

\* The next execution follows the last one.
LEMMA NextFollows ==
    ASSUME ServerTyped, ServerInv, NEW x \in ExecutionSet, Appended(x),
           x.frames = <<>>, x.open, x.key.after = Latest, Latest < MaxExecutions,
           Latest > 0 => ~executions[Latest].open /\ AllTold(Latest),
           Latest = 0 => x.key.kind = "initial",
           Latest > 0 => \/ x.key.kind = "tools" /\ CallsOf(Latest) # {}
                         \/ x.key.kind = "steer" /\ Written(Latest, "run.continue"),
           phase \notin Over, phase' = "thinking", guidance' = guidance
    PROVE  ServerMoves /\ Latest' = Latest + 1
<1>1. Latest \in Nat /\ DOMAIN executions = 1 .. Latest
  BY Elements
<1>2. /\ Grows /\ Latest' = Latest + 1
      /\ \A e \in DOMAIN executions : executions'[e] = executions[e]
      /\ executions'[Latest + 1] = x
  BY AppendedGrows
<1>3. DOMAIN executions' = 1 .. (Latest + 1)
  BY <1>2, Kept
<1>4. ASSUME NEW e \in DOMAIN executions
      PROVE  /\ CallsOf(e)' = CallsOf(e)
             /\ Written(e, "run.continue")' <=> Written(e, "run.continue")
  BY <1>2 DEF CallsOf, Frames, Written
<1>5. ASSUME NEW e, e = Latest + 1
      PROVE  CallsOf(e)' = {} /\ ~Written(e, "run.continue")'
  BY <1>2, <1>5 DEF CallsOf, Frames, Written
<1>6. \A e \in DOMAIN executions' : e \in DOMAIN executions \/ e = Latest + 1
  BY <1>1, <1>3
<1>7. Chain'
  <2>1. ASSUME NEW e \in DOMAIN executions'
        PROVE  Follows(e)'
    <3> DEFINE d == e - 1
    <3>1. CASE e \in DOMAIN executions
      <4>1. Follows(e) /\ executions'[e] = executions[e]
        BY <3>1, <1>2 DEF ServerInv, Chain
      <4>2. CASE e = 1
        BY <4>1, <4>2 DEF Follows
      <4>3. CASE e > 1
        <5>1. d \in DOMAIN executions /\ e # 1
          BY <3>1, <4>3, <1>1
        <5>2. CallsOf(d)' = CallsOf(d) /\ (Written(d, "run.continue")' <=> Written(d, "run.continue"))
          BY <5>1, <1>4
        <5> QED
          BY <4>1, <5>1, <5>2 DEF Follows
      <4> QED
        BY <3>1, <4>2, <4>3, <1>1
    <3>2. CASE e = Latest + 1
      <4>1. executions'[e] = x /\ d = Latest /\ x.key.after = d
        BY <3>2, <1>1, <1>2
      <4>2. CASE Latest = 0
        BY <4>1, <4>2, <3>2 DEF Follows
      <4>3. CASE Latest > 0
        <5>1. d \in DOMAIN executions /\ e # 1
          BY <3>2, <4>1, <4>3, <1>1
        <5>2. CallsOf(d)' = CallsOf(d) /\ (Written(d, "run.continue")' <=> Written(d, "run.continue"))
          BY <5>1, <1>4
        <5> QED
          BY <4>1, <4>3, <5>1, <5>2 DEF Follows
      <4> QED
        BY <4>2, <4>3, <1>1
    <3> QED
      BY <3>1, <3>2, <1>6
  <2>2. \A e \in DOMAIN executions' : e < Latest + 1 => ~executions'[e].open
    BY <1>1, <1>2, <1>3 DEF ServerInv, Chain
  <2>3. ASSUME NEW e \in DOMAIN executions'
        PROVE  CallsOf(e)' # {} => ~executions'[e].open /\ ~Written(e, "run.continue")'
    BY <1>2, <1>4, <1>5, <1>6 DEF ServerInv, Chain
  <2>4. ASSUME NEW e \in DOMAIN executions'
        PROVE  Written(e, "run.continue")' => e < MaxExecutions
    BY <1>4, <1>5, <1>6 DEF ServerInv, Chain
  <2>5. ASSUME NEW d \in DOMAIN executions', NEW e \in DOMAIN executions',
               CallsOf(d)' \cap CallsOf(e)' # {}
        PROVE  d = e
    BY <2>5, <1>4, <1>5, <1>6 DEF ServerInv, Chain
  <2> QED
    BY <2>1, <2>2, <2>3, <2>4, <2>5, <1>2 DEF Chain
<1>8. RunStands'
  BY <1>1, <1>2 DEF RunStands
<1>9. ServerTyped'
  BY <1>1, <1>2, ClientConstants DEF ServerTyped, Grows, Lifecycle!Phases
<1> QED
  BY <1>1, <1>2, <1>7, <1>8, <1>9 DEF ServerMoves, ServerInv
LEMMA ServeKeeps ==
    ASSUME ServerTyped, ServerInv, NEW r \in RequestSet, Serve(r),
           r.execution # 0 => Readable(r.execution),
           r.type # "recover" => r.execution # 0
    PROVE  /\ ServerMoves
           /\ Submits(r) => Latest' = Latest + 1
           /\ ~Submits(r) => Latest' = Latest
<1>1. CASE ~Submits(r)
  <2>1. UNCHANGED serverVars
    BY <1>1 DEF Serve
  <2>2. guidance' \in [Inputs -> {"none", "pending", "received"}]
    BY <2>1 DEF ServerTyped, serverVars
  <2> QED
    BY <1>1, <2>1, <2>2, ServerSame DEF serverVars, Latest
<1>2. CASE Submits(r)
  <2> DEFINE x == Execution(KeyOf(r), r.tools)
  <2>1. /\ r.execution = Latest /\ Latest > 0 /\ Readable(Latest)
        /\ phase = IF r.type = "continue" THEN "paused" ELSE "tools"
    BY <1>2, Elements DEF Submits, Resubscribes, Readable, RequestSet
  <2>2. ~executions[Latest].open /\ AllTold(Latest)
    BY <2>1 DEF Readable
  <2>3. /\ phase' = "thinking" /\ guidance' = guidance
        /\ Appended(x)
    BY <1>2 DEF Serve, Appended, Lifecycle!Continue, Lifecycle!UseTools, Lifecycle!Become
  <2>4. /\ Latest < MaxExecutions
        /\ r.type = "continue" => Written(Latest, "run.continue")
        /\ r.type # "continue" => CallsOf(Latest) # {}
    BY <2>1 DEF ServerInv, RunStands
  <2>5. /\ x.frames = <<>> /\ x.open /\ x.key = KeyOf(r) /\ x.offered = r.tools
        /\ x = [key |-> KeyOf(r), frames |-> <<>>, open |-> TRUE, offered |-> r.tools]
    BY DEF Execution
  <2>6. /\ KeyOf(r).after = Latest
        /\ KeyOf(r).kind = IF r.type = "continue" THEN "steer" ELSE "tools"
        /\ KeyOf(r) \in [kind : {"initial", "tools", "steer"}, after : 0 .. MaxExecutions]
    BY <2>1, <2>4, Elements, ClientConstants DEF KeyOf, Key
  <2>7. x \in ExecutionSet
    <3>1. r.tools \in SUBSET Loads /\ <<>> \in Seq(FrameSet)
      BY DEF RequestSet
    <3> QED
      BY <3>1, <2>5, <2>6 DEF ExecutionSet
  <2>8. phase \notin Over
    BY <2>1 DEF Over
  <2> HIDE DEF x
  <2> QED
    BY <1>2, <2>1, <2>2, <2>3, <2>4, <2>5, <2>6, <2>7, <2>8, NextFollows
<1> QED
  BY <1>1, <1>2

LEMMA StartKeeps ==
    ASSUME ServerTyped, ServerInv, catalog \subseteq Loads, Lifecycle!Start,
           executions' = <<Execution(Key("initial", 0), catalog)>>
    PROVE  ServerMoves /\ Latest' = 1
<1> DEFINE x == Execution(Key("initial", 0), catalog)
<1>1. phase = "absent" /\ phase' = "thinking" /\ guidance' = guidance
  BY DEF Lifecycle!Start, Lifecycle!Become
<1>2. executions = <<>> /\ Latest = 0
  BY <1>1 DEF ServerInv, RunStands, Latest
<1>3. /\ x.frames = <<>> /\ x.open /\ x.key = Key("initial", 0)
      /\ x = [key |-> Key("initial", 0), frames |-> <<>>, open |-> TRUE, offered |-> catalog]
  BY DEF Execution
<1>4. /\ Key("initial", 0).after = 0 /\ Key("initial", 0).kind = "initial"
      /\ Key("initial", 0) \in [kind : {"initial", "tools", "steer"}, after : 0 .. MaxExecutions]
  BY ClientConstants DEF Key
<1>5. x \in ExecutionSet
  <2>1. <<>> \in Seq(FrameSet) /\ catalog \in SUBSET Loads
    OBVIOUS
  <2> HIDE DEF x
  <2> QED
    BY <2>1, <1>3, <1>4 DEF ExecutionSet
<1>6. executions' = <<x>>
  OBVIOUS
<1> HIDE DEF x
<1>7. Appended(x)
  BY <1>2, <1>6 DEF Appended
<1> QED
  BY <1>1, <1>2, <1>3, <1>4, <1>5, <1>7, ClientConstants, NextFollows DEF Over

-----------------------------------------------------------------------------
(* What was told *)

LEMMA ReadableKept ==
    ASSUME ServerTyped, ServerMoves, Seen \subseteq Seen', NEW k, Readable(k)
    PROVE  Readable(k)'
<1>1. k \in DOMAIN executions /\ k \in DOMAIN executions'
  BY Kept DEF Readable, ServerMoves
<1>2. CASE phase = "cancelled"
  BY <1>1, <1>2 DEF Readable, ServerMoves, Over
<1>3. CASE ~executions[k].open /\ AllTold(k)
  <2>1. executions'[k] = executions[k]
    BY <1>1, <1>3, Kept DEF ServerMoves
  <2> QED
    BY <1>1, <1>3, <2>1 DEF Readable, AllTold, Frames
<1> QED
  BY <1>2, <1>3 DEF Readable

\* The loop gets no further back.
Advances == \A e \in Nat : e <= Behind => e <= Behind'

\* A step that tells nothing and starts no tool keeps what was told in order.
LEMMA ToldKept ==
    ASSUME TurnInv, ServerMoves, UNCHANGED <<events, reached>>,
           running' \subseteq running, running' # {} => batch' = batch,
           loop' \in {"ended", "failed"} \/ (loop \notin {"ended", "failed"} /\ Advances)
    PROVE  ToldBefore' /\ SeenExists' /\ Once' /\ EventsInOrder'
<1>1. /\ ServerTyped /\ ServerInv /\ ToldBefore /\ SeenExists /\ Once /\ EventsInOrder
      /\ events \in Seq(EventSet)
  BY DEF TurnInv, ClientTyped
<1>2. Seen' = Seen /\ DOMAIN events = 1 .. Len(events) /\ Len(events) \in Nat
  BY <1>1 DEF Seen
<1>3. /\ Latest \in Nat /\ DOMAIN executions = 1 .. Latest
      /\ \A e \in DOMAIN executions :
             DOMAIN Frames(e) = 1 .. Len(Frames(e)) /\ Len(Frames(e)) \in Nat
  BY <1>1, Elements
<1>4. /\ Latest' \in Nat /\ Latest' >= Latest /\ DOMAIN executions' = 1 .. Latest'
      /\ \A e \in DOMAIN executions :
             /\ e \in DOMAIN executions'
             /\ Len(executions'[e].frames) >= Len(Frames(e))
             /\ \A n \in DOMAIN Frames(e) : /\ n \in DOMAIN executions'[e].frames
                                            /\ executions'[e].frames[n] = Frames(e)[n]
             /\ CallsOf(e) \subseteq CallsOf(e)'
             /\ ~executions[e].open => executions'[e] = executions[e]
  BY <1>1, Kept DEF ServerMoves
<1>5. ToldBefore'
  <2>1. ASSUME NEW e \in DOMAIN executions', e < Latest'
        PROVE  AllTold(e)'
    <3>1. e \in DOMAIN executions /\ AllTold(e) /\ ~executions[e].open
      <4>1. CASE e < Latest
        BY <4>1, <1>1, <1>3, <1>4 DEF ToldBefore, ServerInv, Chain
      <4>2. CASE e >= Latest
        BY <4>2, <2>1, <1>3, <1>4 DEF ServerMoves
      <4> QED
        BY <4>1, <4>2, <1>3, <1>4
    <3> QED
      BY <3>1, <1>2, <1>4 DEF AllTold, Frames
  <2> QED
    BY <2>1 DEF ToldBefore
<1>6. SeenExists'
  <2>1. ASSUME NEW v \in Seen
        PROVE  \/ /\ v.execution \in DOMAIN executions' /\ v.number \in DOMAIN executions'[v.execution].frames
                  /\ v = Told(v.execution, v.number)
               \/ v.call \in Calls /\ v = Completed(v.call)
    BY <1>1, <1>4 DEF SeenExists
  <2> QED
    BY <2>1, <1>2 DEF SeenExists, Frames, Told, Completed
<1>7. Once'
  <2>1. \A c \in Calls : reached'[c] <= 1
    BY <1>1 DEF Once
  <2>2. ASSUME loop' \notin {"ended", "failed"}, NEW c \in Calls,
               reached'[c] = 1 \/ Completed(c) \in Seen
        PROVE  \E e \in DOMAIN executions' : e <= Behind' /\ c \in CallsOf(e)'
    <3>1. PICK e \in DOMAIN executions : e <= Behind /\ c \in CallsOf(e)
      BY <2>2, <1>1 DEF Once
    <3> QED
      BY <3>1, <2>2, <1>3, <1>4 DEF Advances
  <2>3. ASSUME NEW c \in running'
        PROVE  c \in CallsOf(batch)' /\ Requested(c)' /\ Completed(c) \notin Seen'
    <3>1. c \in running /\ batch' = batch /\ batch \in DOMAIN executions
      BY DEF TurnInv, LoopInv, Readable
    <3>2. c \in CallsOf(batch) /\ Requested(c) /\ Completed(c) \notin Seen
      BY <3>1, <1>1 DEF Once
    <3>3. c \in CallsOf(batch)'
      <4>1. PICK b \in DOMAIN executions : b = batch
        BY <3>1
      <4>2. c \in CallsOf(b)'
        BY <3>2, <4>1, <1>4
      <4> QED
        BY <3>1, <4>1, <4>2 DEF CallsOf, Frames
    <3>4. Requested(c)'
      BY <3>2, <1>2, <1>4 DEF Requested, Frames, Told
    <3> QED
      BY <3>1, <3>2, <3>3, <3>4, <1>2
  <2> QED
    BY <2>1, <2>2, <2>3, <1>2 DEF Once, Completed
<1>8. EventsInOrder'
  <2>1. \A i \in DOMAIN events : events[i] \in Seen /\ i \in Nat
    BY <1>2 DEF Seen
  <2>2. ASSUME NEW i \in DOMAIN events, NEW v, v = events[i]
        PROVE  \/ v.type = "tool.completed" /\ \E j \in 1 .. (i - 1) :
                      /\ events[j].type = "frame"
                      /\ v.call \in executions'[events[j].execution].frames[events[j].number].calls
               \/ v.type = "frame" /\ v.number > 1 /\ Earlier(Told(v.execution, v.number - 1), i)
               \/ /\ v.type = "frame" /\ v.number = 1
                  /\ v.execution > 1 =>
                         Earlier(Told(v.execution - 1, Len(executions'[v.execution - 1].frames)), i)
    <3>1. CASE v.type = "tool.completed" /\ \E j \in 1 .. (i - 1) :
                   /\ events[j].type = "frame"
                   /\ v.call \in Frames(events[j].execution)[events[j].number].calls
      <4>1. PICK j \in 1 .. (i - 1) :
                   /\ events[j].type = "frame"
                   /\ v.call \in Frames(events[j].execution)[events[j].number].calls
        BY <3>1
      <4>2. events[j] \in Seen
        BY <2>1, <1>2
      <4>3. /\ events[j].execution \in DOMAIN executions
            /\ events[j].number \in DOMAIN Frames(events[j].execution)
        BY <4>1, <4>2, <1>1 DEF SeenExists, Completed
      <4> QED
        BY <3>1, <4>1, <4>3, <1>4
    <3>2. CASE v.type = "frame" /\ v.number > 1 /\ Earlier(Told(v.execution, v.number - 1), i)
      BY <3>2
    <3>3. CASE /\ v.type = "frame" /\ v.number = 1
               /\ v.execution > 1 =>
                      Earlier(Told(v.execution - 1, Len(Frames(v.execution - 1))), i)
      <4>1. v.execution \in DOMAIN executions
        BY <3>3, <2>1, <2>2, <1>1 DEF SeenExists, Completed
      <4>2. CASE v.execution > 1
        <5>1. /\ v.execution - 1 \in DOMAIN executions
              /\ v.execution - 1 < Latest
          BY <4>1, <4>2, <1>3
        <5>2. executions'[v.execution - 1] = executions[v.execution - 1]
          BY <5>1, <1>1, <1>4 DEF ServerInv, Chain
        <5> QED
          BY <3>3, <5>2 DEF Frames
      <4> QED
        BY <3>3, <4>2
    <3> QED
      BY <3>1, <3>2, <3>3, <2>2, <1>1 DEF EventsInOrder
  <2>3. \A i, j \in DOMAIN events : events[i] = events[j] => i = j
    BY <1>1 DEF EventsInOrder
  <2> QED
    BY <2>2, <2>3 DEF EventsInOrder, Earlier, Frames, Told
<1> QED
  BY <1>5, <1>6, <1>7, <1>8
-----------------------------------------------------------------------------
(* Steps of the service and of the loop that tell nothing *)

LEMMA Untouched ==
    ASSUME TurnInv, UNCHANGED serverVars
    PROVE  ServerMoves /\ Latest' = Latest
BY ServerSame DEF TurnInv, ServerTyped, serverVars, Latest

LEMMA ReadsKept ==
    ASSUME ServerTyped, ServerMoves, Seen' = Seen, UNCHANGED readVars, Reads, stream.read \in Nat
    PROVE  Reads'
<1>0. PICK e \in DOMAIN executions : e = stream.execution
  BY DEF Reads
<1>1. stream' = stream /\ requests' = requests /\ continuation' = continuation
  BY DEF readVars
<1>2. /\ e \in DOMAIN executions /\ e \in DOMAIN executions'
      /\ Len(executions'[e].frames) >= Len(Frames(e))
      /\ \A n \in DOMAIN Frames(e) : /\ n \in DOMAIN executions'[e].frames
                                     /\ executions'[e].frames[n] = Frames(e)[n]
      /\ Written(e, "run.continue") => Written(e, "run.continue")'
      /\ executions' \in Seq(ExecutionSet)
  <2>1. Grows /\ executions' \in Seq(ExecutionSet)
    BY DEF ServerMoves, Grows
  <2> QED
    BY <2>1, Kept
<1>3. stream.read <= Len(Frames(e)) /\ Len(Frames(e)) \in Nat /\ DOMAIN Frames(e) = 1 .. Len(Frames(e))
  BY <1>0, Elements DEF Reads
<1>4. Len(executions'[e].frames) \in Nat
  <2>1. executions'[e] \in ExecutionSet
    BY <1>2
  <2> QED
    BY <2>1 DEF ExecutionSet
<1>5. stream.read <= Len(executions'[e].frames)
  BY <1>2, <1>3, <1>4
<1>6. \A n \in 1 .. stream.read : n \in DOMAIN Frames(e)
  BY <1>3
<1>7. \A n \in 1 .. stream.read :
          /\ Told(e, n) \in Seen
          /\ executions'[e].frames[n].calls \subseteq requests
          /\ executions'[e].frames[n].type = "run.continue" => continuation # 0
  BY <1>0, <1>2, <1>6 DEF Reads
<1>8. \A c \in requests : \E n \in 1 .. stream.read : c \in executions'[e].frames[n].calls
  BY <1>0, <1>2, <1>6 DEF Reads
<1>9. continuation # 0 => continuation = e /\ Written(e, "run.continue")'
  BY <1>0, <1>2 DEF Reads
<1>10. Written(stream.execution, "run.continue")' <=> Written(e, "run.continue")'
  BY <1>0, <1>1 DEF Written
<1> QED
  BY <1>0, <1>1, <1>2, <1>5, <1>7, <1>8, <1>9, <1>10 DEF Reads, Frames, Told

LEMMA StraysKept ==
    ASSUME ServerTyped, ServerMoves, Seen \subseteq Seen', StraysReadable, stray' \subseteq stray
    PROVE  StraysReadable'
<1>1. ASSUME NEW r \in stray
      PROVE  /\ r.type # "recover" => r.execution # 0
             /\ r.execution # 0 => Readable(r.execution)'
  BY ReadableKept DEF StraysReadable
<1> QED
  BY <1>1 DEF StraysReadable, Readable, AllTold, Frames, Told

\* The client does nothing but lose requests, or is interrupted.
LEMMA ServiceStep ==
    ASSUME TurnInv, ServerMoves, stray' \subseteq stray,
           UNCHANGED <<loop, readVars, batch, attempts, faults, toolVars, events>>,
           aborted' \in BOOLEAN, aborted => aborted'
    PROVE  TurnInv'
<1>1. ServerTyped /\ ClientTyped /\ LoopInv
  BY DEF TurnInv
<1>2. ClientTyped'
  BY <1>1 DEF ClientTyped, readVars, toolVars
<1>3. Seen' = Seen
  BY DEF Seen
<1>4. LoopInv'
  <2>1. Latest' >= Latest /\ Latest \in Nat /\ Latest' \in Nat
    BY <1>1, Kept, Elements DEF ServerMoves
  <2>2. stream' = stream /\ continuation' = continuation /\ running' = running
    BY DEF readVars, toolVars
  <2>3. stream'.execution <= Latest' /\ continuation' <= Latest'
    <3>1. stream.execution \in Nat /\ continuation \in Nat
      BY <1>1 DEF ClientTyped
    <3> QED
      BY <1>1, <2>1, <2>2, <3>1 DEF LoopInv
  <2>4. loop = "reading" => Reads'
    BY <1>1, <1>3, ReadsKept DEF LoopInv, ClientTyped
  <2>5. StraysReadable'
    BY <1>1, <1>3, StraysKept DEF LoopInv
  <2>6. \A k : Readable(k) => Readable(k)'
    BY <1>1, <1>3, ReadableKept
  <2>7. loop = "continuing" => Readable(continuation)'
    <3>1. PICK k : k = continuation
      OBVIOUS
    <3> QED
      BY <1>1, <2>2, <2>6, <3>1 DEF LoopInv, Readable, AllTold, Frames
  <2>8. batch # 0 => Readable(batch)'
    <3>1. PICK k : k = batch
      OBVIOUS
    <3> QED
      BY <1>1, <2>6, <3>1 DEF LoopInv, Readable, AllTold, Frames
  <2>9. loop = "ended" /\ ~aborted => phase' \in Over
    BY <1>1 DEF LoopInv, ServerMoves
  <2>10. loop \in {"executing", "resuming", "continuing", "recovering"} => Latest' > 0
    BY <1>1, <2>1 DEF LoopInv
  <2> QED
    BY <1>1, <2>2, <2>3, <2>4, <2>5, <2>7, <2>8, <2>9, <2>10 DEF LoopInv, Over
<1>5. Advances
  <2>1. Latest' >= Latest /\ Latest \in Nat /\ Latest' \in Nat
    BY <1>1, Kept, Elements DEF ServerMoves
  <2>2. stream.execution \in Nat /\ continuation \in Nat /\ batch \in Nat
    BY <1>1 DEF ClientTyped
  <2>3. stream' = stream /\ continuation' = continuation /\ batch' = batch /\ loop' = loop
    BY DEF readVars
  <2>4. Behind' = IF loop = "recovering" /\ batch = 0 THEN Latest' - 1 ELSE Behind
    BY <2>3 DEF Behind
  <2>5. loop = "recovering" /\ batch = 0 => Behind = Latest - 1
    BY DEF Behind
  <2>6. CASE loop = "recovering" /\ batch = 0
    <3>1. Behind = Latest - 1 /\ Behind' = Latest' - 1
      BY <2>4, <2>5, <2>6
    <3>2. \A l, m \in Nat : m >= l => \A e \in Nat : e <= l - 1 => e <= m - 1
      OBVIOUS
    <3>3. \A e \in Nat : e <= Latest - 1 => e <= Latest' - 1
      BY <2>1, <3>2
    <3> QED
      BY <3>1, <3>3 DEF Advances
  <2>7. CASE ~(loop = "recovering" /\ batch = 0)
    BY <2>4, <2>7 DEF Advances
  <2> QED
    BY <2>6, <2>7
<1>6. UNCHANGED <<events, reached, running>> /\ batch' = batch
  BY DEF toolVars
<1>7. ToldBefore' /\ SeenExists' /\ Once' /\ EventsInOrder'
  <2>1. CASE loop \in {"ended", "failed"}
    BY <2>1, <1>6, ToldKept
  <2>2. CASE loop \notin {"ended", "failed"}
    BY <2>2, <1>5, <1>6, ToldKept
  <2> QED
    BY <2>1, <2>2
<1> QED
  BY <1>2, <1>4, <1>7 DEF TurnInv, ServerMoves

\* The loop stops, or waits for the answer to another request.
LEMMA GoesOn ==
    ASSUME TurnInv, ServerMoves, running = {},
           UNCHANGED <<requests, continuation, toolVars, events, aborted>>,
           stream' \in {stream, Nothing}, batch' \in {batch, 0},
           attempts' \in 0 .. (MaxAttempts - 1), faults' \in 0 .. MaxFaults,
           stray' \subseteq RequestSet, StraysReadable',
           loop' \in {"resuming", "continuing", "recovering", "ended", "failed"},
           loop' \in {"resuming", "continuing", "recovering"} =>
               Latest > 0 /\ loop \notin {"ended", "failed"} /\ Advances,
           loop' = "continuing" => batch' = 0 /\ Readable(continuation),
           loop' = "resuming" => batch' # 0,
           loop' = "ended" /\ ~aborted => phase' \in Over
    PROVE  TurnInv'
<1>1. ServerTyped /\ ClientTyped /\ LoopInv
  BY DEF TurnInv
<1>2. ClientTyped'
  <2>1. stream' \in [execution : Nat, read : Nat] /\ batch' \in Nat
    BY <1>1 DEF ClientTyped, Nothing
  <2> QED
    BY <1>1, <2>1 DEF ClientTyped, toolVars
<1>3. Seen' = Seen
  BY DEF Seen
<1>4. LoopInv'
  <2>1. Latest' >= Latest /\ Latest \in Nat /\ Latest' \in Nat
    BY <1>1, Kept, Elements DEF ServerMoves
  <2>2. running' = {}
    BY DEF toolVars
  <2>3. stream'.execution <= Latest' /\ continuation' <= Latest'
    <3>1. stream.execution \in Nat /\ continuation \in Nat
      BY <1>1 DEF ClientTyped
    <3> QED
      BY <1>1, <2>1, <2>2, <3>1 DEF LoopInv, Nothing
  <2>4. \A k : Readable(k) => Readable(k)'
    BY <1>1, <1>3, ReadableKept
  <2>5. loop' = "continuing" => Readable(continuation)'
    <3>1. PICK k : k = continuation
      OBVIOUS
    <3> QED
      BY <1>1, <2>4, <3>1 DEF Readable, AllTold, Frames
  <2>6. batch' # 0 => Readable(batch)'
    <3>1. PICK k : k = batch
      OBVIOUS
    <3> QED
      BY <1>1, <2>4, <3>1 DEF LoopInv, Readable, AllTold, Frames
  <2>7. loop' \in {"executing", "resuming", "continuing", "recovering"} => Latest' > 0
    BY <2>1
  <2>8. loop' = "ended" /\ ~aborted' => phase' \in Over
    OBVIOUS
  <2> QED
    BY <2>2, <2>3, <2>5, <2>6, <2>7, <2>8 DEF LoopInv, Over
<1>5. UNCHANGED <<events, reached>> /\ running' = {}
  BY DEF toolVars
<1>6. ToldBefore' /\ SeenExists' /\ Once' /\ EventsInOrder'
  BY <1>5, ToldKept
<1> QED
  BY <1>2, <1>4, <1>6 DEF TurnInv, ServerMoves

\* The loop reads the stream of an execution from its start.
LEMMA BeginsReading ==
    ASSUME TurnInv, ServerMoves, running = {}, NEW k \in DOMAIN executions', k \in Nat, Read(k),
           UNCHANGED <<stray, toolVars, events, aborted>>, batch' = 0,
           attempts' \in 0 .. (MaxAttempts - 1), faults' \in 0 .. MaxFaults,
           loop \notin {"ended", "failed"}, Advances
    PROVE  TurnInv'
<1>1. ServerTyped /\ ClientTyped /\ LoopInv
  BY DEF TurnInv
<1>2. /\ loop' = "reading" /\ stream' = [execution |-> k, read |-> 0]
      /\ requests' = {} /\ continuation' = 0
  BY DEF Read
<1>3. ClientTyped'
  BY <1>1, <1>2 DEF ClientTyped, toolVars
<1>4. Seen' = Seen
  BY DEF Seen
<1>5. /\ k <= Latest' /\ Latest' \in Nat
      /\ executions' \in Seq(ExecutionSet)
  BY <1>1, Kept DEF ServerMoves, Grows
<1>6. 0 <= Len(executions'[k].frames)
  <2>1. executions'[k] \in ExecutionSet
    BY <1>5
  <2>2. executions'[k].frames \in Seq(FrameSet)
    BY <2>1 DEF ExecutionSet
  <2> QED
    BY <2>2
<1>7. Reads'
  BY <1>2, <1>6 DEF Reads, Frames
<1>8. StraysReadable'
  BY <1>1, <1>4, StraysKept DEF LoopInv
<1>9. running' = {}
  BY DEF toolVars
<1>10. LoopInv'
  BY <1>2, <1>5, <1>7, <1>8, <1>9 DEF LoopInv
<1>11. ToldBefore' /\ SeenExists' /\ Once' /\ EventsInOrder'
  BY <1>9, ToldKept DEF toolVars
<1> QED
  BY <1>3, <1>10, <1>11 DEF TurnInv, ServerMoves
-----------------------------------------------------------------------------
(* Steps of the loop that tell nothing *)

LEMMA TurnParts ==
    ASSUME TurnInv
    PROVE  /\ ServerTyped /\ ClientTyped /\ ServerInv /\ LoopInv
           /\ Latest \in Nat /\ DOMAIN executions = 1 .. Latest
           /\ stream.execution \in Nat /\ stream.read \in Nat
           /\ continuation \in Nat /\ batch \in Nat
           /\ loop # "executing" => running = {}
BY Elements DEF TurnInv, ClientTyped, LoopInv

LEMMA StepStartAnswered == ASSUME TurnInv, StartAnswered PROVE TurnInv'
<1>1. /\ loop = "starting" /\ Lifecycle!Start /\ Read(1)
      /\ executions' = <<Execution(Key("initial", 0), catalog)>>
      /\ UNCHANGED <<stray, batch, attempts, faults, toolVars, events, aborted>>
  BY DEF StartAnswered
<1>2. ServerMoves /\ Latest' = 1
  BY <1>1, StartKeeps, TurnParts DEF ClientTyped
<1>3. batch = 0 /\ running = {}
  BY <1>1, TurnParts DEF LoopInv
<1>4. 1 \in DOMAIN executions'
  BY <1>2, TurnParts, Kept DEF ServerMoves
<1>5. Advances
  <2>1. Behind = 0
    BY <1>1, <1>3 DEF Behind
  <2>2. Behind' = 0
    BY <1>1, <1>3 DEF Behind, Read
  <2> QED
    BY <2>1, <2>2 DEF Advances
<1> QED
  BY <1>1, <1>2, <1>3, <1>4, <1>5, BeginsReading, TurnParts DEF ClientTyped

LEMMA StepStartFails == ASSUME TurnInv, StartFails PROVE TurnInv'
<1>1. /\ loop' = IF aborted THEN "ended" ELSE "failed"
      /\ loop = "starting"
      /\ UNCHANGED <<stray, readVars, batch, attempts, faults, toolVars, events, aborted>>
  BY DEF StartFails
<1>2. ServerMoves
  <2>1. CASE Lifecycle!Start /\ executions' = <<Execution(Key("initial", 0), catalog)>>
    BY <2>1, StartKeeps, TurnParts DEF ClientTyped
  <2>2. CASE UNCHANGED serverVars
    BY <2>2, Untouched
  <2> QED
    BY <2>1, <2>2 DEF StartFails
<1>3. running = {} /\ StraysReadable'
  BY <1>1, <1>2, StraysKept, TurnParts DEF LoopInv, Seen
<1>4. stream' = stream /\ UNCHANGED <<requests, continuation>>
  BY <1>1 DEF readVars
<1> QED
  BY <1>1, <1>2, <1>3, <1>4, GoesOn, TurnParts DEF ClientTyped

\* An execution whose stream ended was read to its end, unless the run was cancelled.
LEMMA ReadToEnd ==
    ASSUME TurnInv, ReadDone
    PROVE  Readable(stream.execution)
<1>1. Reads /\ Done
  BY DEF ReadDone, TurnInv, LoopInv
<1>2. stream.execution \in DOMAIN executions
  BY <1>1 DEF Reads
<1>3. DOMAIN Frames(stream.execution) = 1 .. Len(Frames(stream.execution))
  BY <1>2, TurnParts, Elements
<1> QED
  BY <1>1, <1>2, <1>3 DEF Reads, Done, Readable, AllTold, Frames

LEMMA StepEndLoop == ASSUME TurnInv, EndLoop PROVE TurnInv'
<1>1. /\ loop = "reading" /\ Done /\ (aborted \/ (continuation = 0 /\ requests = {}))
      /\ loop' = "ended" /\ stream' = Nothing /\ UNCHANGED <<requests, continuation>>
      /\ UNCHANGED serverVars
      /\ UNCHANGED <<stray, batch, attempts, faults, toolVars, events, aborted>>
  BY DEF EndLoop, ReadDone, StopReading
<1>2. ServerMoves
  BY <1>1, Untouched
<1>3. running = {} /\ StraysReadable'
  BY <1>1, <1>2, StraysKept, TurnParts DEF LoopInv, Seen
<1>4. ASSUME ~aborted
      PROVE  phase \in Over
  <2>1. PICK e \in DOMAIN executions : e = stream.execution
    BY <1>1, TurnParts DEF LoopInv, Reads
  <2>2. CASE phase = "cancelled"
    BY <2>2 DEF Over
  <2>3. CASE ~executions[e].open /\ stream.read = Len(Frames(e))
    <3>1. DOMAIN Frames(e) = 1 .. stream.read
      BY <2>1, <2>3, TurnParts, Elements
    <3>2. /\ \A n \in DOMAIN Frames(e) : /\ Frames(e)[n].calls = {}
                                         /\ Frames(e)[n].type # "run.continue"
      BY <1>1, <1>4, <2>1, <3>1, TurnParts DEF LoopInv, Reads
    <3>3. CallsOf(e) = {} /\ ~Written(e, "run.continue")
      BY <3>2 DEF CallsOf, Written, Frames
    <3>4. e = Latest
      <4>1. CASE e < Latest
        <5>1. PICK d \in DOMAIN executions : d = e + 1
          BY <4>1, TurnParts
        <5>2. d > 1 /\ d - 1 = e
          BY <5>1, TurnParts
        <5>3. Follows(d)
          BY TurnParts DEF ServerInv, Chain
        <5> QED
          BY <3>3, <5>2, <5>3 DEF Follows
      <4> QED
        BY <4>1, TurnParts
    <3>5. phase \notin {"absent", "thinking", "tools", "paused"}
      <4>1. phase # "absent"
        BY <2>1, <3>4, TurnParts DEF ServerInv, RunStands
      <4>2. phase # "thinking"
        BY <2>3, <3>4, TurnParts DEF ServerInv, RunStands
      <4>3. phase # "tools"
        BY <3>3, <3>4, TurnParts DEF ServerInv, RunStands
      <4>4. phase # "paused"
        BY <3>3, <3>4, TurnParts DEF ServerInv, RunStands
      <4> QED
        BY <4>1, <4>2, <4>3, <4>4
    <3>6. phase \in Lifecycle!Phases
      BY TurnParts DEF ServerTyped
    <3> QED
      BY <3>5, <3>6 DEF Over, Lifecycle!Phases
  <2> QED
    BY <1>1, <2>1, <2>2, <2>3 DEF Done, Frames
<1>5. aborted \/ phase' \in Over
  BY <1>1, <1>4 DEF serverVars
<1> QED
  BY <1>1, <1>2, <1>3, <1>5, GoesOn, TurnParts DEF ClientTyped

LEMMA StepFollowContinuation == ASSUME TurnInv, FollowContinuation PROVE TurnInv'
<1>1. /\ loop = "reading" /\ continuation # 0
      /\ loop' = "continuing" /\ stream' = Nothing /\ UNCHANGED <<requests, continuation>>
      /\ UNCHANGED serverVars
      /\ UNCHANGED <<stray, batch, attempts, faults, toolVars, events, aborted>>
  BY DEF FollowContinuation, ReadDone, StopReading
<1>2. ServerMoves
  BY <1>1, Untouched
<1>3. running = {} /\ StraysReadable' /\ batch = 0
  BY <1>1, <1>2, StraysKept, TurnParts DEF LoopInv, Seen
<1>4. continuation = stream.execution /\ Readable(continuation) /\ Latest > 0
  <2>1. continuation = stream.execution
    BY <1>1, TurnParts DEF LoopInv, Reads
  <2> QED
    BY <2>1, ReadToEnd, TurnParts DEF FollowContinuation, Readable
<1>5. Advances
  BY <1>1, <1>3, <1>4 DEF Advances, Behind
<1> QED
  BY <1>1, <1>2, <1>3, <1>4, <1>5, GoesOn, TurnParts DEF ClientTyped

LEMMA StepSendResults == ASSUME TurnInv, SendResults PROVE TurnInv'
<1>1. /\ loop = "executing" /\ running = {}
      /\ loop' = IF aborted THEN "ended" ELSE "resuming"
      /\ UNCHANGED serverVars /\ stream' = stream /\ UNCHANGED <<requests, continuation>>
      /\ UNCHANGED <<stray, batch, attempts, faults, toolVars, events, aborted>>
  BY DEF SendResults, readVars
<1>2. ServerMoves
  BY <1>1, Untouched
<1>3. StraysReadable' /\ batch # 0 /\ Latest > 0
  BY <1>1, <1>2, StraysKept, TurnParts DEF LoopInv, Seen
<1>4. Advances
  BY <1>1, <1>3 DEF Advances, Behind
<1> QED
  BY <1>1, <1>2, <1>3, <1>4, GoesOn, TurnParts DEF ClientTyped

LEMMA StepRecoveryDenied == ASSUME TurnInv, RecoveryDenied PROVE TurnInv'
<1>1. /\ loop = "recovering" /\ loop' = "failed" /\ attempts' = 0
      /\ UNCHANGED serverVars /\ stream' = stream /\ UNCHANGED <<requests, continuation>>
      /\ UNCHANGED <<stray, batch, faults, toolVars, events, aborted>>
  BY DEF RecoveryDenied, readVars
<1>2. ServerMoves
  BY <1>1, Untouched
<1>3. StraysReadable' /\ running = {}
  BY <1>1, <1>2, StraysKept, TurnParts DEF LoopInv, Seen
<1>4. attempts' \in 0 .. (MaxAttempts - 1)
  BY <1>1, ClientConstants
<1> QED
  BY <1>1, <1>2, <1>3, <1>4, GoesOn, TurnParts DEF ClientTyped

LEMMA StepLeaveAborted == ASSUME TurnInv, LeaveAborted PROVE TurnInv'
<1>1. /\ aborted /\ loop \in {"reading", "resuming", "continuing", "recovering"}
      /\ loop' = "ended" /\ stream' = Nothing /\ UNCHANGED <<requests, continuation>>
      /\ UNCHANGED serverVars
      /\ UNCHANGED <<stray, batch, attempts, faults, toolVars, events, aborted>>
  BY DEF LeaveAborted, StopReading
<1>2. ServerMoves
  BY <1>1, Untouched
<1>3. StraysReadable' /\ running = {}
  BY <1>1, <1>2, StraysKept, TurnParts DEF LoopInv, Seen
<1> QED
  BY <1>1, <1>2, <1>3, GoesOn, TurnParts DEF ClientTyped

LEMMA StepAbort == ASSUME TurnInv, Abort PROVE TurnInv'
BY Untouched, ServiceStep DEF Abort
-----------------------------------------------------------------------------
(* Requests *)

LEMMA OutstandingIs ==
    ASSUME TurnInv, loop \in {"resuming", "continuing", "recovering"}
    PROVE  /\ Outstanding \in RequestSet
           /\ Outstanding.execution = IF loop = "continuing" THEN continuation ELSE batch
           /\ Outstanding.type # "recover" => loop # "recovering" /\ Outstanding.execution # 0
           /\ Outstanding.execution # 0 => Readable(Outstanding.execution)
<1>1. /\ Outstanding.execution = IF loop = "continuing" THEN continuation ELSE batch
      /\ Outstanding.type = IF loop = "resuming" THEN "resume"
                            ELSE IF loop = "continuing" THEN "continue" ELSE "recover"
      /\ Outstanding \in RequestSet
  <2>1. catalog \in SUBSET Loads
    BY TurnParts DEF ClientTyped
  <2>2. CASE loop = "resuming"
    BY <2>1, <2>2, TurnParts DEF Outstanding, Request, RequestSet
  <2>3. CASE loop = "continuing"
    BY <2>1, <2>3, TurnParts DEF Outstanding, Request, RequestSet
  <2>4. CASE loop = "recovering"
    BY <2>1, <2>4, TurnParts DEF Outstanding, Request, RequestSet
  <2> QED
    BY <2>2, <2>3, <2>4
<1>2. /\ loop = "continuing" => Readable(continuation) /\ continuation # 0
      /\ loop = "resuming" => batch # 0
      /\ batch # 0 => Readable(batch)
  BY TurnParts DEF LoopInv, Readable
<1> QED
  BY <1>1, <1>2

LEMMA StepRecovers ==
    ASSUME TurnInv, loop \in {"reading", "resuming", "continuing", "recovering"},
           NEW left \in SUBSET RequestSet, Recover(left), faults' \in 0 .. MaxFaults,
           \A r \in left : /\ r.type # "recover" => r.execution # 0
                           /\ r.execution # 0 => Readable(r.execution)
    PROVE  TurnInv'
<1>1. /\ batch' = IF loop = "continuing" THEN 0 ELSE batch
      /\ stray' = stray \cup left /\ stream' = Nothing
      /\ UNCHANGED <<serverVars, requests, continuation, toolVars, events, aborted>>
      /\ loop' \in {"recovering", "failed"}
  BY DEF Recover
<1>2. ServerMoves /\ Latest' = Latest
  BY <1>1, Untouched
<1>3. running = {} /\ Latest > 0
  <2>1. CASE loop = "reading"
    BY <2>1, TurnParts DEF LoopInv, Reads
  <2> QED
    BY <2>1, TurnParts DEF LoopInv
<1>4. attempts' \in 0 .. (MaxAttempts - 1)
  <2>1. attempts \in 0 .. (MaxAttempts - 1)
    BY TurnParts DEF ClientTyped
  <2> QED
    BY <2>1, ClientConstants DEF Recover
<1>5. stray' \subseteq RequestSet
  BY <1>1, TurnParts DEF ClientTyped
<1>6. StraysReadable'
  <2>1. \A r \in stray \cup left : /\ r.type # "recover" => r.execution # 0
                                   /\ r.execution # 0 => Readable(r.execution)
    BY TurnParts DEF LoopInv, StraysReadable
  <2>2. Seen \subseteq Seen'
    BY <1>1 DEF Seen
  <2>3. \A k : Readable(k) => Readable(k)'
    BY <1>2, <2>2, ReadableKept, TurnParts
  <2>4. \A r \in stray \cup left : /\ r.type # "recover" => r.execution # 0
                                   /\ r.execution # 0 => Readable(r.execution)'
    BY <2>1, <2>3
  <2> QED
    BY <1>1, <2>4 DEF StraysReadable, Readable, AllTold, Frames, Told
<1>7. ASSUME loop' = "recovering"
      PROVE  Advances
  <2>1. Behind' = IF batch' # 0 THEN batch' ELSE Latest - 1
    BY <1>2, <1>7 DEF Behind
  <2>2. CASE loop = "reading"
    <3>1. Behind = stream.execution - 1 /\ batch' = 0 /\ stream.execution <= Latest
      BY <1>1, <2>2, TurnParts DEF Behind, LoopInv
    <3> QED
      BY <2>1, <3>1, TurnParts DEF Advances
  <2>3. CASE loop = "continuing"
    <3>1. Behind = continuation - 1 /\ batch' = 0 /\ continuation <= Latest
      BY <1>1, <2>3, TurnParts DEF Behind, LoopInv
    <3> QED
      BY <2>1, <3>1, TurnParts DEF Advances
  <2>4. CASE loop = "resuming"
    <3>1. Behind = batch /\ batch' = batch /\ batch # 0
      BY <1>1, <2>4, TurnParts DEF Behind, LoopInv
    <3> QED
      BY <2>1, <3>1 DEF Advances
  <2>5. CASE loop = "recovering"
    <3>1. Behind' = Behind
      BY <1>1, <2>1, <2>5 DEF Behind
    <3> QED
      BY <3>1 DEF Advances
  <2> QED
    BY <2>2, <2>3, <2>4, <2>5
<1> QED
  BY <1>1, <1>2, <1>3, <1>4, <1>5, <1>6, <1>7, GoesOn

LEMMA StepRequestFails ==
    ASSUME TurnInv, RequestUnanswered \/ RequestRefused \/ StreamBreaks
    PROVE  TurnInv'
<1>1. faults \in 0 .. MaxFaults /\ MaxFaults \in Nat
  BY ClientConstants, TurnParts DEF ClientTyped
<1>2. CASE RequestUnanswered
  <2>1. /\ loop \in {"resuming", "continuing", "recovering"}
        /\ Recover({Outstanding}) /\ faults' \in 0 .. MaxFaults
    BY <1>1, <1>2 DEF RequestUnanswered, Waits, Fault
  <2>2. /\ Outstanding \in RequestSet
        /\ Outstanding.type # "recover" => Outstanding.execution # 0
        /\ Outstanding.execution # 0 => Readable(Outstanding.execution)
    BY <2>1, OutstandingIs
  <2> QED
    BY <2>1, <2>2, StepRecovers
<1>3. CASE RequestRefused
  <2>1. /\ loop \in {"resuming", "continuing", "recovering"}
        /\ Recover({}) /\ faults' \in 0 .. MaxFaults
    BY <1>1, <1>3 DEF RequestRefused, Waits
  <2> QED
    BY <2>1, StepRecovers
<1>4. CASE StreamBreaks
  <2>1. loop = "reading" /\ Recover({}) /\ faults' \in 0 .. MaxFaults
    BY <1>1, <1>4 DEF StreamBreaks, Fault
  <2> QED
    BY <2>1, StepRecovers
<1> QED
  BY <1>2, <1>3, <1>4

\* The execution a request is answered with is the one after its own.
LEMMA ReplyIs ==
    ASSUME TurnInv, NEW r \in RequestSet, ~Refused(r), Serve(r), ServerMoves,
           Submits(r) => Latest' = Latest + 1, ~Submits(r) => Latest' = Latest
    PROVE  /\ Resubscribes(r) => Reply(r) = Latest
           /\ ~Resubscribes(r) => /\ Reply(r) = r.execution + 1
                                  /\ Reply(r) \in DOMAIN executions'
<1>1. r.execution \in Nat /\ DOMAIN executions' = 1 .. Latest'
  BY TurnParts, Kept DEF RequestSet, ServerMoves
<1>2. CASE Resubscribes(r)
  BY <1>2 DEF Reply
<1>3. CASE ~Resubscribes(r) /\ Submits(r)
  <2>1. Reply(r) = Latest + 1 /\ r.execution = Latest
    BY <1>3 DEF Reply, Submits
  <2> QED
    BY <1>1, <1>3, <2>1, TurnParts
<1>4. CASE ~Resubscribes(r) /\ ~Submits(r)
  <2>1. Reply(r) \in Existing(r)
    BY <1>4 DEF Reply, Refused
  <2>2. Reply(r) \in DOMAIN executions /\ executions[Reply(r)].key = KeyOf(r)
    BY <2>1, TurnParts DEF Existing
  <2>3. KeyOf(r).after = r.execution
    BY DEF KeyOf, Key
  <2>4. Follows(Reply(r))
    BY <2>2, TurnParts DEF ServerInv, Chain
  <2>5. r.execution = Reply(r) - 1
    BY <2>2, <2>3, <2>4 DEF Follows
  <2> QED
    BY <1>1, <1>4, <2>2, <2>5, TurnParts
<1> QED
  BY <1>2, <1>3, <1>4

LEMMA StepRequestAnswered == ASSUME TurnInv, RequestAnswered PROVE TurnInv'
<1>1. PICK r : r = Outstanding
  OBVIOUS
<1>2. /\ loop \in {"resuming", "continuing", "recovering"}
      /\ ~Refused(r) /\ Serve(r) /\ Read(Reply(r)) /\ batch' = 0 /\ attempts' = 0
      /\ UNCHANGED <<stray, faults, toolVars, events, aborted>>
  BY <1>1 DEF RequestAnswered, Waits
<1>3. /\ r \in RequestSet
      /\ r.execution = IF loop = "continuing" THEN continuation ELSE batch
      /\ r.type # "recover" => loop # "recovering" /\ r.execution # 0
      /\ r.execution # 0 => Readable(r.execution)
  BY <1>1, <1>2, OutstandingIs
<1>4. /\ ServerMoves
      /\ Submits(r) => Latest' = Latest + 1
      /\ ~Submits(r) => Latest' = Latest
  BY <1>2, <1>3, ServeKeeps, TurnParts
<1>5. /\ Resubscribes(r) => Reply(r) = Latest
      /\ ~Resubscribes(r) => Reply(r) = r.execution + 1 /\ Reply(r) \in DOMAIN executions'
  BY <1>2, <1>3, <1>4, ReplyIs
<1>6. PICK k : k = Reply(r)
  OBVIOUS
<1>7. Latest > 0 /\ running = {} /\ DOMAIN executions' = 1 .. Latest' /\ Latest' \in Nat
  BY <1>2, <1>4, TurnParts, Kept DEF LoopInv, ServerMoves
<1>8. Behind' = k - 1
  BY <1>2, <1>6 DEF Read, Behind
<1>9. k \in DOMAIN executions' /\ k \in Nat /\ Advances
  <2>1. CASE Resubscribes(r)
    <3>1. k = Latest /\ Latest' = Latest
      BY <1>4, <1>5, <1>6, <2>1 DEF Submits
    <3>2. Behind = Latest - 1
      <4>1. loop = "recovering" /\ batch = 0
        BY <1>3, <2>1, <1>2, TurnParts DEF Resubscribes, LoopInv, Readable
      <4> QED
        BY <4>1 DEF Behind
    <3> QED
      BY <1>7, <1>8, <3>1, <3>2, TurnParts DEF Advances
  <2>2. CASE ~Resubscribes(r)
    <3>1. k = r.execution + 1 /\ k \in DOMAIN executions' /\ r.execution \in Nat
      BY <1>3, <1>5, <1>6, <2>2 DEF RequestSet
    <3>2. r.execution # 0
      BY <1>3, <2>2 DEF Resubscribes
    <3>3. Behind = IF loop = "continuing" THEN r.execution - 1 ELSE r.execution
      BY <1>2, <1>3, <3>2, TurnParts DEF Behind, LoopInv
    <3>4. Behind' = r.execution
      BY <1>8, <3>1
    <3> QED
      BY <3>1, <3>3, <3>4 DEF Advances
  <2> QED
    BY <2>1, <2>2
<1>10. attempts' \in 0 .. (MaxAttempts - 1) /\ faults' \in 0 .. MaxFaults
  BY <1>2, ClientConstants, TurnParts DEF ClientTyped
<1>11. Read(k)
  BY <1>2, <1>6
<1> QED
  BY <1>2, <1>4, <1>7, <1>9, <1>10, <1>11, BeginsReading

\* A request that was given up arrives late.
LEMMA StepStray == ASSUME TurnInv, StrayArrives \/ StrayVanishes PROVE TurnInv'
<1>1. CASE StrayArrives
  <2>1. PICK r \in stray :
            /\ stray' = stray \ {r} /\ Serve(r)
            /\ UNCHANGED <<loop, readVars, batch, attempts, faults, toolVars, events, aborted>>
    BY <1>1 DEF StrayArrives
  <2>2. /\ r \in RequestSet
        /\ r.type # "recover" => r.execution # 0
        /\ r.execution # 0 => Readable(r.execution)
    BY TurnParts DEF ClientTyped, LoopInv, StraysReadable
  <2>3. ServerMoves
    BY <2>1, <2>2, ServeKeeps, TurnParts
  <2> QED
    BY <2>1, <2>3, ServiceStep, TurnParts DEF ClientTyped
<1>2. CASE StrayVanishes
  BY <1>2, Untouched, ServiceStep, TurnParts DEF StrayVanishes, ClientTyped
<1> QED
  BY <1>1, <1>2
-----------------------------------------------------------------------------
(* Steps that tell *)

\* What may be told next: a frame whose predecessors were told, or the end of a
\* call that was told to be asked for.
Tellable(v) ==
    \/ \E c \in Calls : v = Completed(c) /\ Requested(c)
    \/ \E e \in DOMAIN executions : \E n \in DOMAIN Frames(e) :
           /\ v = Told(e, n)
           /\ n > 1 => Told(e, n - 1) \in Seen
           /\ n = 1 /\ e > 1 => Told(e - 1, Len(Frames(e - 1))) \in Seen

LEMMA TellsMore ==
    ASSUME TurnInv, UNCHANGED serverVars, NEW q \in Seq(EventSet), events' = events \o q,
           \A i \in DOMAIN q : q[i] \notin Seen /\ Tellable(q[i]),
           \A i, j \in DOMAIN q : q[i] = q[j] => i = j
    PROVE  /\ events' \in Seq(EventSet) /\ Seen' = Seen \cup {q[i] : i \in DOMAIN q}
           /\ ToldBefore' /\ SeenExists' /\ EventsInOrder'
<1> DEFINE l == Len(events)
           m == Len(q)
<1>1. /\ events \in Seq(EventSet) /\ l \in Nat /\ m \in Nat
      /\ DOMAIN events = 1 .. l /\ DOMAIN q = 1 .. m
  BY DEF TurnInv, ClientTyped
<1>2. /\ events' \in Seq(EventSet) /\ DOMAIN events' = 1 .. (l + m)
      /\ \A i \in 1 .. l : events'[i] = events[i]
      /\ \A i \in 1 .. m : events'[l + i] = q[i]
  BY <1>1
<1> HIDE DEF l, m
<1>3. \A i \in 1 .. (l + m) : i \in 1 .. l \/ \E k \in 1 .. m : i = l + k
  <2>1. \A i \in 1 .. (l + m) : i \notin 1 .. l => i - l \in 1 .. m /\ i = l + (i - l)
    BY <1>1
  <2> QED
    BY <2>1
<1>4. \A i \in 1 .. m : l + i \in 1 .. (l + m) /\ l + i \notin 1 .. l
  BY <1>1
<1>5. 1 .. l \subseteq 1 .. (l + m)
  BY <1>1
<1>6. Seen' = Seen \cup {q[i] : i \in DOMAIN q}
  <2>1. ASSUME NEW v \in Seen' PROVE v \in Seen \cup {q[i] : i \in DOMAIN q}
    <3>1. PICK i \in 1 .. (l + m) : v = events'[i]
      BY <1>2 DEF Seen
    <3>2. CASE i \in 1 .. l
      BY <3>1, <3>2, <1>1, <1>2 DEF Seen
    <3>3. CASE \E k \in 1 .. m : i = l + k
      <4>1. PICK k \in 1 .. m : i = l + k
        BY <3>3
      <4>2. v = q[k] /\ k \in DOMAIN q
        BY <3>1, <4>1, <1>1, <1>2
      <4> QED
        BY <4>2
    <3> QED
      BY <3>2, <3>3, <1>3
  <2>2. ASSUME NEW i \in 1 .. l PROVE events[i] \in Seen'
    BY <1>2, <1>5 DEF Seen
  <2>3. ASSUME NEW i \in 1 .. m PROVE q[i] \in Seen'
    BY <1>2, <1>4 DEF Seen
  <2>4. Seen \subseteq Seen'
    <3>1. \A v \in Seen : \E i \in 1 .. l : v = events[i]
      BY <1>1 DEF Seen
    <3> QED
      BY <3>1, <2>2
  <2>5. {q[i] : i \in DOMAIN q} \subseteq Seen'
    BY <2>3, <1>1
  <2> QED
    BY <2>1, <2>4, <2>5
<1>7. /\ ToldBefore /\ SeenExists /\ EventsInOrder
      /\ executions' = executions
  BY DEF TurnInv, serverVars
<1>8. ToldBefore'
  BY <1>6, <1>7 DEF ToldBefore, AllTold, Frames, Told, Latest
<1>9. SeenExists'
  <2>1. ASSUME NEW v \in Seen \cup {q[i] : i \in DOMAIN q}
        PROVE  \/ /\ v.execution \in DOMAIN executions /\ v.number \in DOMAIN Frames(v.execution)
                  /\ v = Told(v.execution, v.number)
               \/ v.call \in Calls /\ v = Completed(v.call)
    <3>1. CASE v \in Seen
      BY <3>1, <1>7 DEF SeenExists
    <3>2. CASE \E c \in Calls : v = Completed(c)
      <4>1. PICK c \in Calls : v = Completed(c)
        BY <3>2
      <4>2. Completed(c).call = c
        BY DEF Completed
      <4> QED
        BY <4>1, <4>2
    <3>3. CASE \E e \in DOMAIN executions : \E n \in DOMAIN Frames(e) : v = Told(e, n)
      <4>1. PICK e \in DOMAIN executions : \E n \in DOMAIN Frames(e) : v = Told(e, n)
        BY <3>3
      <4>2. PICK n \in DOMAIN Frames(e) : v = Told(e, n)
        BY <4>1
      <4>3. Told(e, n).execution = e /\ Told(e, n).number = n
        BY DEF Told
      <4> QED
        BY <4>2, <4>3
    <3>4. v \notin Seen => Tellable(v)
      OBVIOUS
    <3> QED
      BY <3>1, <3>2, <3>3, <3>4 DEF Tellable
  <2> QED
    BY <2>1, <1>6, <1>7 DEF SeenExists, Frames, Told, Completed
<1>10. \A i, j \in DOMAIN events' : events'[i] = events'[j] => i = j
  <2>1. ASSUME NEW i \in 1 .. (l + m), NEW j \in 1 .. (l + m), events'[i] = events'[j]
        PROVE  i = j
    <3>1. CASE i \in 1 .. l /\ j \in 1 .. l
      BY <2>1, <3>1, <1>1, <1>2, <1>7 DEF EventsInOrder
    <3>2. CASE i \in 1 .. l /\ \E k \in 1 .. m : j = l + k
      <4>1. PICK k \in 1 .. m : j = l + k
        BY <3>2
      <4>2. events[i] \in Seen /\ events'[j] = q[k]
        BY <3>2, <4>1, <1>1, <1>2 DEF Seen
      <4> QED
        BY <2>1, <3>2, <4>2, <1>1, <1>2
    <3>3. CASE (\E k \in 1 .. m : i = l + k) /\ j \in 1 .. l
      <4>1. PICK k \in 1 .. m : i = l + k
        BY <3>3
      <4>2. events[j] \in Seen /\ events'[i] = q[k]
        BY <3>3, <4>1, <1>1, <1>2 DEF Seen
      <4> QED
        BY <2>1, <3>3, <4>2, <1>1, <1>2
    <3>4. CASE (\E k \in 1 .. m : i = l + k) /\ \E k \in 1 .. m : j = l + k
      <4>1. PICK k \in 1 .. m : i = l + k
        BY <3>4
      <4>2. PICK k2 \in 1 .. m : j = l + k2
        BY <3>4
      <4>3. q[k] = q[k2]
        BY <2>1, <4>1, <4>2, <1>2
      <4>4. k = k2
        BY <4>3, <1>1
      <4> QED
        BY <4>1, <4>2, <4>4
    <3> QED
      BY <3>1, <3>2, <3>3, <3>4, <1>3
  <2> QED
    BY <2>1, <1>2
<1>11. ASSUME NEW v \in Seen, NEW i \in 1 .. m
       PROVE  \E j \in 1 .. ((l + i) - 1) : events'[j] = v
  <2>1. PICK j \in 1 .. l : v = events[j]
    BY <1>1 DEF Seen
  <2>2. j \in 1 .. ((l + i) - 1)
    BY <2>1, <1>1
  <2> QED
    BY <2>1, <2>2, <1>2
<1>12. ASSUME NEW i \in DOMAIN events', NEW v, v = events'[i]
       PROVE  \/ v.type = "tool.completed" /\ \E j \in 1 .. (i - 1) :
                     /\ events'[j].type = "frame"
                     /\ v.call \in Frames(events'[j].execution)[events'[j].number].calls
              \/ /\ v.type = "frame" /\ v.number > 1
                 /\ \E j \in 1 .. (i - 1) : events'[j] = Told(v.execution, v.number - 1)
              \/ /\ v.type = "frame" /\ v.number = 1
                 /\ v.execution > 1 => \E j \in 1 .. (i - 1) :
                        events'[j] = Told(v.execution - 1, Len(Frames(v.execution - 1)))
  <2>1. CASE i \in 1 .. l
    <3>1. v = events[i] /\ \A j \in 1 .. (i - 1) : j \in 1 .. l /\ events'[j] = events[j]
      BY <2>1, <1>1, <1>2, <1>12
    <3>2. \A w : Earlier(w, i) => \E j \in 1 .. (i - 1) : events'[j] = w
      BY <3>1 DEF Earlier
    <3>3. \/ v.type = "tool.completed" /\ \E j \in 1 .. (i - 1) :
                 /\ events[j].type = "frame"
                 /\ v.call \in Frames(events[j].execution)[events[j].number].calls
          \/ v.type = "frame" /\ v.number > 1 /\ Earlier(Told(v.execution, v.number - 1), i)
          \/ /\ v.type = "frame" /\ v.number = 1
             /\ v.execution > 1 =>
                    Earlier(Told(v.execution - 1, Len(Frames(v.execution - 1))), i)
      BY <2>1, <3>1, <1>1, <1>7 DEF EventsInOrder
    <3> QED
      BY <3>1, <3>2, <3>3
  <2>2. CASE \E k \in 1 .. m : i = l + k
    <3>1. PICK k \in 1 .. m : i = l + k /\ v = q[k]
      BY <2>2, <1>2, <1>12
    <3>2. \A w \in Seen : \E j \in 1 .. (i - 1) : events'[j] = w
      BY <3>1, <1>11
    <3>3. CASE \E c \in Calls : v = Completed(c) /\ Requested(c)
      <4>1. PICK c \in Calls : v = Completed(c) /\ Requested(c)
        BY <3>3
      <4>2. PICK e \in DOMAIN executions : \E n \in DOMAIN Frames(e) :
                Told(e, n) \in Seen /\ c \in Frames(e)[n].calls
        BY <4>1 DEF Requested
      <4>3. PICK n \in DOMAIN Frames(e) : Told(e, n) \in Seen /\ c \in Frames(e)[n].calls
        BY <4>2
      <4>4. PICK j \in 1 .. (i - 1) : events'[j] = Told(e, n)
        BY <3>2, <4>3
      <4>5. /\ Told(e, n).type = "frame" /\ Told(e, n).execution = e /\ Told(e, n).number = n
            /\ Completed(c).type = "tool.completed" /\ Completed(c).call = c
        BY DEF Told, Completed
      <4> QED
        BY <4>1, <4>3, <4>4, <4>5
    <3>4. CASE \E e \in DOMAIN executions : \E n \in DOMAIN Frames(e) :
                   /\ v = Told(e, n)
                   /\ n > 1 => Told(e, n - 1) \in Seen
                   /\ n = 1 /\ e > 1 => Told(e - 1, Len(Frames(e - 1))) \in Seen
      <4>0. PICK e \in DOMAIN executions : \E n \in DOMAIN Frames(e) :
                   /\ v = Told(e, n)
                   /\ n > 1 => Told(e, n - 1) \in Seen
                   /\ n = 1 /\ e > 1 => Told(e - 1, Len(Frames(e - 1))) \in Seen
        BY <3>4
      <4>1. PICK n \in DOMAIN Frames(e) :
                   /\ v = Told(e, n)
                   /\ n > 1 => Told(e, n - 1) \in Seen
                   /\ n = 1 /\ e > 1 => Told(e - 1, Len(Frames(e - 1))) \in Seen
        BY <4>0
      <4>2. v.type = "frame" /\ v.execution = e /\ v.number = n
        BY <4>1 DEF Told
      <4>3. n > 1 \/ n = 1
        BY <4>1, TurnParts, Elements
      <4>4. n > 1 => \E j \in 1 .. (i - 1) : events'[j] = Told(v.execution, v.number - 1)
        BY <4>1, <4>2, <3>2
      <4>5. n = 1 /\ e > 1 => \E j \in 1 .. (i - 1) :
                events'[j] = Told(v.execution - 1, Len(Frames(v.execution - 1)))
        BY <4>1, <4>2, <3>2
      <4> QED
        BY <4>2, <4>3, <4>4, <4>5
    <3> QED
      BY <3>1, <3>3, <3>4, <1>1 DEF Tellable
  <2> QED
    BY <2>1, <2>2, <1>2, <1>3
<1>13. EventsInOrder'
  <2>1. ASSUME NEW i \in DOMAIN events'
        PROVE  LET v == events'[i] IN
               \/ v.type = "tool.completed" /\ \E j \in 1 .. (i - 1) :
                      /\ events'[j].type = "frame"
                      /\ v.call \in executions'[events'[j].execution].frames[events'[j].number].calls
               \/ /\ v.type = "frame" /\ v.number > 1
                  /\ \E j \in 1 .. (i - 1) : events'[j] = Told(v.execution, v.number - 1)
               \/ /\ v.type = "frame" /\ v.number = 1
                  /\ v.execution > 1 => \E j \in 1 .. (i - 1) :
                         events'[j] = Told(v.execution - 1, Len(executions'[v.execution - 1].frames))
    <3>1. PICK v : v = events'[i]
      OBVIOUS
    <3>2. \A e : executions'[e].frames = Frames(e)
      BY <1>7 DEF Frames
    <3>3. \/ v.type = "tool.completed" /\ \E j \in 1 .. (i - 1) :
                 /\ events'[j].type = "frame"
                 /\ v.call \in Frames(events'[j].execution)[events'[j].number].calls
          \/ /\ v.type = "frame" /\ v.number > 1
             /\ \E j \in 1 .. (i - 1) : events'[j] = Told(v.execution, v.number - 1)
          \/ /\ v.type = "frame" /\ v.number = 1
             /\ v.execution > 1 => \E j \in 1 .. (i - 1) :
                    events'[j] = Told(v.execution - 1, Len(Frames(v.execution - 1)))
      BY SMTT(60), <3>1, <1>12
    <3> QED
      BY <3>1, <3>2, <3>3
  <2> QED
    BY <2>1, <1>10 DEF EventsInOrder, Earlier, Frames
<1> QED
  BY <1>2, <1>6, <1>8, <1>9, <1>13
LEMMA SetToSeqIs ==
    ASSUME NEW S, IsFiniteSet(S)
    PROVE  /\ Cardinality(S) \in Nat
           /\ SetToSeq(S) \in [1 .. Cardinality(S) -> S]
           /\ \A i, j \in 1 .. Cardinality(S) : SetToSeq(S)[i] = SetToSeq(S)[j] => i = j
<1>1. Cardinality(S) \in Nat /\ ExistsBijection(1 .. Cardinality(S), S)
  BY FS_CardinalityType
<1>2. \E f \in [1 .. Cardinality(S) -> S] : IsInjective(f)
  BY <1>1 DEF ExistsBijection, Bijection, Injection, IsInjective
<1>3. SetToSeq(S) \in [1 .. Cardinality(S) -> S] /\ IsInjective(SetToSeq(S))
  BY <1>2 DEF SetToSeq
<1> QED
  BY <1>1, <1>3 DEF IsInjective

LEMMA CompletedFinite ==
    ASSUME NEW R \in SUBSET Calls
    PROVE  IsFiniteSet({Completed(c) : c \in R})
<1> DEFINE T == {Completed(c) : c \in R}
           f == [c \in R |-> Completed(c)]
<1>1. IsFiniteSet(R)
  BY ClientConstants, FS_Subset
<1>2. f \in Surjection(R, T)
  BY DEF Surjection
<1> HIDE DEF f, T
<1>3. IsFiniteSet(T)
  BY <1>1, <1>2, FS_Surjection
<1> QED
  BY <1>3 DEF T

LEMMA TypesDiffer ==
    /\ \A c, d : Completed(c) = Completed(d) => c = d
    /\ \A c, e, n : Completed(c) # Told(e, n)
<1>1. \A c : Completed(c).call = c /\ Completed(c).type = "tool.completed"
  BY DEF Completed
<1>2. \A e, n : Told(e, n).type = "frame"
  BY DEF Told
<1> QED
  BY <1>1, <1>2

LEMMA StepReadFrame == ASSUME TurnInv, ReadFrame PROVE TurnInv'
<1>1. PICK e \in DOMAIN executions : e = stream.execution
  BY TurnParts DEF ReadFrame, LoopInv, Reads
<1>2. PICK n : n = stream.read + 1
  OBVIOUS
<1> DEFINE v == Told(e, n)
           q == IF v \in Seen THEN <<>> ELSE <<v>>
<1>3. /\ loop = "reading" /\ loop' = loop /\ n <= Len(Frames(e))
      /\ stream' = [stream EXCEPT !.read = n]
      /\ requests' = requests \cup Frames(e)[n].calls
      /\ continuation' = IF Frames(e)[n].type = "run.continue" THEN e ELSE continuation
      /\ events' = IF Contains(events, v) THEN events ELSE Append(events, v)
      /\ UNCHANGED serverVars
      /\ UNCHANGED <<stray, batch, attempts, faults, toolVars, aborted>>
  BY <1>1, <1>2 DEF ReadFrame, Frames
<1>4. /\ ServerTyped /\ ClientTyped /\ LoopInv /\ Reads /\ Once /\ ToldBefore
      /\ events \in Seq(EventSet) /\ batch = 0 /\ running = {}
  BY <1>3, TurnParts DEF LoopInv, ClientTyped, TurnInv
<1>5. /\ n \in Nat /\ n >= 1 /\ stream.read = n - 1 /\ n \in DOMAIN Frames(e) /\ e \in Nat /\ e >= 1
      /\ \A m \in 1 .. n : m \in 1 .. stream.read \/ m = n
      /\ Frames(e)[n].calls \subseteq Calls
      /\ DOMAIN Frames(e) = 1 .. Len(Frames(e))
  BY SMTT(60), <1>1, <1>2, <1>3, TurnParts, Elements
<1>6. Contains(events, v) <=> v \in Seen
  BY <1>4 DEF Contains, Seen
<1>7. q \in Seq(EventSet) /\ events' = events \o q
  <2>1. v \in EventSet
    BY <1>5 DEF Told, EventSet
  <2> HIDE DEF v
  <2>2. <<v>> \in Seq(EventSet) /\ <<>> \in Seq(EventSet)
    BY <2>1
  <2>3. events \o <<>> = events /\ events \o <<v>> = Append(events, v)
    BY <1>4, <2>1
  <2> QED
    BY <1>3, <1>6, <2>2, <2>3
<1>8. Tellable(v)
  <2>1. n > 1 => Told(e, n - 1) \in Seen
    BY <1>1, <1>4, <1>5 DEF Reads
  <2>2. ASSUME e > 1
        PROVE  Told(e - 1, Len(Frames(e - 1))) \in Seen
    <3>1. PICK d \in DOMAIN executions : d = e - 1 /\ d < Latest
      BY <2>2, TurnParts
    <3>2. AllTold(d)
      BY <1>4, <3>1 DEF ToldBefore
    <3>3. \E m \in DOMAIN Frames(d) : TRUE
      <4>1. Follows(e)
        BY TurnParts DEF ServerInv, Chain
      <4>2. CallsOf(d) # {} \/ Written(d, "run.continue")
        BY <2>2, <3>1, <4>1 DEF Follows
      <4> QED
        BY <4>2 DEF CallsOf, Written, Frames
    <3>4. Len(Frames(d)) \in DOMAIN Frames(d)
      BY <3>3, TurnParts, Elements
    <3> QED
      BY <3>1, <3>2, <3>4 DEF AllTold
  <2> QED
    BY <1>5, <2>1, <2>2 DEF Tellable
<1> HIDE DEF v
<1>9. /\ \A i \in DOMAIN q : q[i] = v /\ v \notin Seen
      /\ \A i, j \in DOMAIN q : i = j
  OBVIOUS
<1>10. /\ events' \in Seq(EventSet) /\ Seen' = Seen \cup {q[i] : i \in DOMAIN q}
       /\ ToldBefore' /\ SeenExists' /\ EventsInOrder'
  <2> HIDE DEF q
  <2>1. \A i \in DOMAIN q : q[i] \notin Seen /\ Tellable(q[i])
    BY <1>8, <1>9
  <2> QED
    BY <1>3, <1>7, <1>9, <2>1, TellsMore
<1>11. Seen \subseteq Seen' /\ v \in Seen' /\ \A w \in Seen' : w \in Seen \/ w = v
  <2>1. v \in Seen \/ (1 \in DOMAIN q /\ q[1] = v)
    OBVIOUS
  <2> HIDE DEF q
  <2> QED
    BY <1>9, <1>10, <2>1
<1>12. ServerMoves /\ Latest' = Latest
  BY <1>3, Untouched
<1>13. stream'.execution = e /\ stream'.read = n /\ stream' \in [execution : Nat, read : Nat]
  BY <1>1, <1>3, <1>4, <1>5 DEF ClientTyped
<1>14. ClientTyped'
  BY <1>3, <1>4, <1>5, <1>10, <1>13 DEF ClientTyped, toolVars
<1>15. Reads'
  <2>1. ASSUME NEW m \in 1 .. n
        PROVE  /\ Told(e, m) \in Seen'
               /\ Frames(e)[m].calls \subseteq requests'
               /\ Frames(e)[m].type = "run.continue" => continuation' # 0
    <3>1. CASE m = n
      BY <1>3, <1>5, <1>11, <3>1 DEF v
    <3>2. CASE m \in 1 .. stream.read
      BY <1>1, <1>3, <1>4, <1>5, <1>11, <3>2 DEF Reads
    <3> QED
      BY <1>5, <3>1, <3>2
  <2>2. ASSUME NEW c \in requests'
        PROVE  \E m \in 1 .. n : c \in Frames(e)[m].calls
    <3>1. CASE c \in requests
      <4>1. PICK m \in 1 .. stream.read : c \in Frames(e)[m].calls
        BY <1>1, <1>4, <3>1 DEF Reads
      <4> QED
        BY <1>5, <4>1
    <3>2. CASE c \in Frames(e)[n].calls
      BY <1>5, <3>2
    <3> QED
      BY <1>3, <3>1, <3>2
  <2>3. continuation' # 0 => continuation' = e /\ Written(e, "run.continue")
    BY <1>1, <1>3, <1>4, <1>5 DEF Reads, Written, Frames
  <2> QED
    BY <2>1, <2>2, <2>3, <1>1, <1>3, <1>13 DEF Reads, Frames, Told, Written, serverVars
<1>16. StraysReadable'
  BY <1>3, <1>4, <1>11, <1>12, StraysKept DEF LoopInv
<1>17. LoopInv'
  <2>1. stream'.execution <= Latest' /\ continuation' <= Latest'
    BY <1>1, <1>3, <1>4, <1>12, <1>13, TurnParts DEF LoopInv
  <2> QED
    BY <1>3, <1>4, <1>15, <1>16, <2>1 DEF LoopInv, toolVars
<1>18. Once'
  <2>1. Behind' = Behind
    BY <1>1, <1>3, <1>4, <1>13 DEF Behind
  <2>2. \A c : Completed(c) \in Seen' => Completed(c) \in Seen
    BY <1>11, TypesDiffer DEF v
  <2>3. \A e1 \in DOMAIN executions : CallsOf(e1)' = CallsOf(e1)
    BY <1>3 DEF CallsOf, Frames, serverVars
  <2>4. running' = {} /\ reached' = reached /\ executions' = executions
    BY <1>3, <1>4 DEF toolVars, serverVars
  <2> QED
    BY <1>3, <1>4, <2>1, <2>2, <2>3, <2>4 DEF Once, Completed
<1> QED
  BY <1>10, <1>12, <1>14, <1>17, <1>18 DEF TurnInv, ServerMoves
LEMMA StepExecuteTools == ASSUME TurnInv, ExecuteTools PROVE TurnInv'
<1>1. PICK e \in DOMAIN executions : e = stream.execution
  BY TurnParts DEF ExecuteTools, ReadDone, LoopInv, Reads
<1>2. PICK rejected : rejected = {c \in requests : Rejected(c)}
  OBVIOUS
<1> DEFINE S == {Completed(c) : c \in rejected}
           q == SetToSeq(S)
<1>3. /\ ReadDone /\ loop = "reading" /\ loop' = "executing" /\ stream' = Nothing
      /\ UNCHANGED <<requests, continuation>> /\ batch' = e
      /\ running' = requests \ rejected
      /\ reached' = [c \in Calls |->
             IF c \in requests \ rejected /\ ~Exhausted(c) THEN reached[c] + 1 ELSE reached[c]]
      /\ events' = events \o q
      /\ UNCHANGED <<serverVars, stray, attempts, faults, failures, catalog, aborted>>
  BY <1>1, <1>2 DEF ExecuteTools, ReadDone, StopReading
<1>4. /\ ServerTyped /\ ClientTyped /\ LoopInv /\ Reads /\ Once
      /\ batch = 0 /\ running = {} /\ requests \subseteq Calls /\ reached \in [Calls -> Nat]
      /\ rejected \subseteq requests
  BY <1>2, <1>3, TurnParts DEF LoopInv, ClientTyped, TurnInv
<1>5. ASSUME NEW c \in requests
      PROVE  c \in CallsOf(e) /\ Requested(c)
  <2>1. PICK n \in 1 .. stream.read : c \in Frames(e)[n].calls
    BY <1>1, <1>4 DEF Reads
  <2>2. Told(e, n) \in Seen
    BY <1>1, <1>4 DEF Reads
  <2>3. n \in DOMAIN Frames(e)
    BY <1>1, <1>4, TurnParts, Elements DEF Reads
  <2> QED
    BY <1>4, <2>1, <2>2, <2>3 DEF CallsOf, Requested
<1>6. Behind = e - 1 /\ e \in Nat /\ e >= 1 /\ e <= Latest
  BY <1>1, <1>3, <1>4, TurnParts DEF Behind
<1>7. ASSUME NEW c \in requests
      PROVE  reached[c] = 0 /\ Completed(c) \notin Seen
  <2>1. c \in Calls /\ reached[c] \in Nat /\ reached[c] <= 1
    BY <1>4 DEF Once
  <2>2. ~(reached[c] = 1 \/ Completed(c) \in Seen)
    <3>1. SUFFICES ASSUME reached[c] = 1 \/ Completed(c) \in Seen
                   PROVE  FALSE
      OBVIOUS
    <3>2. PICK d \in DOMAIN executions : d <= Behind /\ c \in CallsOf(d)
      BY <1>3, <1>4, <2>1, <3>1 DEF Once
    <3>3. d = e
      BY <1>5, <3>2, TurnParts DEF ServerInv, Chain
    <3> QED
      BY <1>6, <3>2, <3>3
  <2> QED
    BY <2>1, <2>2
<1>8. /\ IsFiniteSet(S) /\ Cardinality(S) \in Nat /\ q \in [1 .. Cardinality(S) -> S]
      /\ \A i, j \in 1 .. Cardinality(S) : q[i] = q[j] => i = j
  <2>1. IsFiniteSet(S)
    BY <1>4, CompletedFinite
  <2> HIDE DEF S
  <2> QED
    BY <2>1, SetToSeqIs
<1>9. \A w \in S : w \in EventSet /\ w \notin Seen /\ Tellable(w)
  <2>1. ASSUME NEW c \in rejected
        PROVE  Completed(c) \in EventSet /\ Completed(c) \notin Seen /\ Tellable(Completed(c))
    <3>1. c \in Calls /\ c \in requests
      BY <1>4
    <3>2. Completed(c) \in EventSet
      BY <3>1 DEF Completed, EventSet
    <3> QED
      BY <1>5, <1>7, <3>1, <3>2 DEF Tellable
  <2> QED
    BY <2>1
<1>10. q \in Seq(EventSet) /\ DOMAIN q = 1 .. Cardinality(S) /\ \A i \in DOMAIN q : q[i] \in S
  <2> HIDE DEF S, q
  <2>1. q \in [1 .. Cardinality(S) -> EventSet]
    BY <1>8, <1>9
  <2> QED
    BY <1>8, <2>1
<1>11. /\ events' \in Seq(EventSet) /\ Seen' = Seen \cup {q[i] : i \in DOMAIN q}
       /\ ToldBefore' /\ SeenExists' /\ EventsInOrder'
  <2> HIDE DEF S, q
  <2> QED
    BY <1>3, <1>8, <1>9, <1>10, TellsMore
<1>12. Seen \subseteq Seen' /\ Seen' \subseteq Seen \cup S
  <2> HIDE DEF S, q
  <2> QED
    BY <1>10, <1>11
<1>13. ServerMoves /\ Latest' = Latest
  BY <1>3, Untouched
<1>14. ClientTyped'
  <2>1. reached' \in [Calls -> Nat]
    BY <1>3, <1>4
  <2>2. stream' \in [execution : Nat, read : Nat] /\ batch' \in Nat /\ running' \subseteq Calls
    BY <1>3, <1>4, <1>6 DEF Nothing
  <2> QED
    BY <1>3, <1>4, <1>11, <2>1, <2>2 DEF ClientTyped
<1>15. Readable(e)'
  BY <1>1, <1>3, <1>4, <1>12, <1>13, ReadToEnd, ReadableKept
<1>16. Readable(batch)'
  BY <1>3, <1>15 DEF Readable, AllTold, Frames
<1>17. LoopInv'
  <2>1. StraysReadable'
    BY <1>3, <1>4, <1>12, <1>13, StraysKept DEF LoopInv
  <2>2. stream'.execution <= Latest' /\ continuation' <= Latest'
    BY <1>3, <1>4, <1>6, <1>13, TurnParts DEF LoopInv, Nothing
  <2>3. Latest' > 0
    BY <1>6, <1>13, TurnParts
  <2> QED
    BY <1>3, <1>6, <1>16, <2>1, <2>2, <2>3 DEF LoopInv
<1>18. Once'
  <2>1. Behind' = e
    BY <1>3, <1>6 DEF Behind
  <2>2. executions' = executions
    BY <1>3 DEF serverVars
  <2>3. \A d \in DOMAIN executions : CallsOf(d)' = CallsOf(d)
    BY <2>2 DEF CallsOf, Frames
  <2>4. ASSUME NEW c \in Calls
        PROVE  reached'[c] <= 1
    <3>1. reached[c] \in Nat /\ reached[c] <= 1
      BY <1>4 DEF Once
    <3>2. c \in requests => reached[c] = 0
      BY <1>7
    <3> QED
      BY <1>3, <3>1, <3>2
  <2>5. ASSUME NEW c \in Calls, reached'[c] = 1 \/ Completed(c) \in Seen'
        PROVE  \E d \in DOMAIN executions : d <= e /\ c \in CallsOf(d)
    <3>1. CASE c \in requests
      BY <1>5, <1>6, <3>1
    <3>2. CASE c \notin requests
      <4>1. reached'[c] = reached[c]
        BY <1>3, <3>2
      <4>2. Completed(c) \notin S
        BY <1>4, <3>2, TypesDiffer
      <4>3. reached[c] = 1 \/ Completed(c) \in Seen
        BY <1>12, <2>5, <4>1, <4>2
      <4>4. PICK d \in DOMAIN executions : d <= Behind /\ c \in CallsOf(d)
        BY <1>3, <1>4, <4>3 DEF Once
      <4>5. d <= e
        BY <1>6, <4>4, TurnParts
      <4> QED
        BY <4>4, <4>5
    <3> QED
      BY <3>1, <3>2
  <2>6. ASSUME NEW c \in running'
        PROVE  c \in CallsOf(batch)' /\ Requested(c)' /\ Completed(c) \notin Seen'
    <3>1. c \in requests /\ c \notin rejected
      BY <1>3
    <3>2. c \in CallsOf(e) /\ Requested(c) /\ Completed(c) \notin Seen
      BY <1>5, <1>7, <3>1
    <3>3. Completed(c) \notin S
      BY <3>1, TypesDiffer
    <3>4. c \in CallsOf(batch)'
      BY <1>3, <2>2, <3>2 DEF CallsOf, Frames
    <3>5. Requested(c)'
      BY <1>12, <2>2, <3>2 DEF Requested, Frames, Told
    <3> QED
      BY <1>12, <3>2, <3>3, <3>4, <3>5
  <2> QED
    BY <2>1, <2>2, <2>3, <2>4, <2>5, <2>6 DEF Once, Completed
<1> QED
  BY <1>11, <1>13, <1>14, <1>17, <1>18 DEF TurnInv, ServerMoves

LEMMA StepFinishTool == ASSUME TurnInv, NEW c \in Calls, FinishTool(c) PROVE TurnInv'
<1>1. /\ loop = "executing" /\ loop' = loop /\ c \in running /\ running' = running \ {c}
      /\ events' = Append(events, Completed(c))
      /\ UNCHANGED <<serverVars, stray, readVars, batch, attempts, faults, reached, aborted>>
  BY DEF FinishTool
<1>2. /\ ServerTyped /\ ClientTyped /\ LoopInv /\ Once
      /\ events \in Seq(EventSet) /\ batch # 0 /\ batch \in Nat
      /\ c \in CallsOf(batch) /\ Requested(c) /\ Completed(c) \notin Seen
  BY <1>1, TurnParts DEF LoopInv, ClientTyped, TurnInv, Once
<1>3. PICK k \in DOMAIN executions : k = batch /\ Readable(k)
  BY <1>2 DEF LoopInv, Readable
<1>4. Completed(c) \in EventSet
  BY DEF Completed, EventSet
<1> DEFINE v == Completed(c)
           q == <<v>>
<1>5. events' = events \o q /\ q \in Seq(EventSet) /\ DOMAIN q = {1} /\ q[1] = v
  <2> HIDE DEF v
  <2> QED
    BY <1>1, <1>2, <1>4 DEF v
<1>6. Tellable(v)
  BY <1>2 DEF Tellable
<1> HIDE DEF v, q
<1>7. /\ events' \in Seq(EventSet) /\ Seen' = Seen \cup {q[i] : i \in DOMAIN q}
      /\ ToldBefore' /\ SeenExists' /\ EventsInOrder'
  <2>1. \A i \in DOMAIN q : q[i] \notin Seen /\ Tellable(q[i])
    BY <1>2, <1>5, <1>6 DEF v
  <2>2. \A i, j \in DOMAIN q : q[i] = q[j] => i = j
    BY <1>5
  <2> QED
    BY <1>1, <1>5, <2>1, <2>2, TellsMore
<1>8. Seen' = Seen \cup {v}
  BY <1>5, <1>7
<1>9. ServerMoves /\ Latest' = Latest
  BY <1>1, Untouched
<1>10. ClientTyped'
  <2>1. running' \subseteq Calls
    BY <1>1, <1>2 DEF ClientTyped
  <2>2. failures' \in [{Operation[x] : x \in Calls} -> 0 .. 3] /\ catalog' \subseteq Loads
    <3>1. failures \in [{Operation[x] : x \in Calls} -> 0 .. 3] /\ catalog \subseteq Loads
      BY <1>2 DEF ClientTyped
    <3>2. Operation[c] \in {Operation[x] : x \in Calls}
      OBVIOUS
    <3>3. failures[Operation[c]] \in 0 .. 3
      BY <3>1, <3>2
    <3>4. CASE failures' = [failures EXCEPT ![Operation[c]] =
                                IF failures[Operation[c]] < 3 THEN failures[Operation[c]] + 1
                                ELSE failures[Operation[c]]] /\ UNCHANGED catalog
      BY <3>1, <3>3, <3>4
    <3>5. CASE failures' = [failures EXCEPT ![Operation[c]] = 0]
               /\ catalog' = catalog \cup ({c} \cap Loads)
      BY <3>1, <3>5
    <3> QED
      BY <3>4, <3>5 DEF FinishTool
  <2> QED
    BY <1>1, <1>2, <1>7, <2>1, <2>2 DEF ClientTyped, readVars
<1>11. LoopInv'
  <2>1. StraysReadable'
    BY <1>1, <1>2, <1>8, <1>9, StraysKept DEF LoopInv
  <2>2. Readable(k)'
    BY <1>2, <1>3, <1>8, <1>9, ReadableKept
  <2>3. Readable(batch)'
    BY <1>1, <1>3, <2>2 DEF Readable, AllTold, Frames
  <2> QED
    BY <1>1, <1>2, <1>9, <2>1, <2>3 DEF LoopInv, readVars
<1>12. Once'
  <2>1. Behind' = batch /\ Behind = batch
    BY <1>1, <1>2 DEF Behind
  <2>2. executions' = executions /\ reached' = reached /\ batch' = batch
    BY <1>1 DEF serverVars
  <2>3. \A d \in DOMAIN executions : CallsOf(d)' = CallsOf(d)
    BY <2>2 DEF CallsOf, Frames
  <2>4. ASSUME NEW x \in Calls, reached'[x] = 1 \/ Completed(x) \in Seen'
        PROVE  \E d \in DOMAIN executions : d <= batch /\ x \in CallsOf(d)
    <3>1. CASE x = c
      BY <1>2, <1>3, <3>1
    <3>2. CASE x # c
      <4>1. reached[x] = 1 \/ Completed(x) \in Seen
        BY <1>8, <2>2, <2>4, <3>2, TypesDiffer DEF v
      <4> QED
        BY <1>1, <1>2, <2>1, <4>1 DEF Once
    <3> QED
      BY <3>1, <3>2
  <2>5. ASSUME NEW x \in running'
        PROVE  x \in CallsOf(batch)' /\ Requested(x)' /\ Completed(x) \notin Seen'
    <3>1. x \in running /\ x # c
      BY <1>1
    <3>2. x \in CallsOf(batch) /\ Requested(x) /\ Completed(x) \notin Seen
      BY <1>2, <3>1 DEF Once
    <3>3. x \in CallsOf(batch)'
      BY <2>2, <3>2 DEF CallsOf, Frames
    <3>4. Requested(x)'
      BY <1>8, <2>2, <3>2 DEF Requested, Frames, Told
    <3>5. Completed(x) \notin Seen'
      BY <1>8, <3>1, <3>2, TypesDiffer DEF v
    <3> QED
      BY <3>3, <3>4, <3>5
  <2> QED
    BY <1>2, <2>1, <2>2, <2>3, <2>4, <2>5 DEF Once, Completed
<1> QED
  BY <1>7, <1>9, <1>10, <1>11, <1>12 DEF TurnInv, ServerMoves

-----------------------------------------------------------------------------
(* The invariant *)

LEMMA TurnStarts == Init => TurnInv
<1> SUFFICES ASSUME Init PROVE TurnInv
  OBVIOUS
<1>1. /\ executions = <<>> /\ events = <<>> /\ Latest = 0 /\ phase = "absent"
      /\ Seen = {} /\ DOMAIN executions = {} /\ DOMAIN events = {} /\ loop = "starting"
  BY DEF Init, Latest, Seen, Lifecycle!LifecycleInit
<1>2. ServerTyped
  BY <1>1, ClientConstants DEF Init, ServerTyped, Lifecycle!LifecycleInit, Lifecycle!Phases
<1>3. ClientTyped
  <2>1. /\ stream \in [execution : Nat, read : Nat] /\ events \in Seq(EventSet)
        /\ reached \in [Calls -> Nat]
        /\ failures \in [{Operation[c] : c \in Calls} -> 0 .. 3]
    BY <1>1 DEF Init, Nothing
  <2>2. 0 \in 0 .. (MaxAttempts - 1) /\ 0 \in 0 .. MaxFaults
    BY ClientConstants
  <2> QED
    BY <1>1, <2>1, <2>2 DEF Init, ClientTyped
<1>4. ServerInv
  BY <1>1 DEF ServerInv, Chain, RunStands, Lifecycle!Ongoing
<1>5. LoopInv
  BY <1>1 DEF Init, LoopInv, StraysReadable, Nothing
<1>6. ToldBefore /\ SeenExists /\ EventsInOrder
  BY <1>1 DEF ToldBefore, SeenExists, EventsInOrder
<1>7. Once
  BY <1>1 DEF Init, Once
<1> QED
  BY <1>2, <1>3, <1>4, <1>5, <1>6, <1>7 DEF TurnInv

LEMMA TurnKept == ASSUME TurnInv, [Next]_vars PROVE TurnInv'
<1>1. CASE Server
  <2>1. ServerMoves
    BY <1>1, ServerKeeps, TurnParts
  <2>2. ServerUnchanged
    BY <1>1 DEF Server, ServerWrites, ServerAccepts, ServerHears, ServerAsks, ServerContinues,
                ServerPauses, ServerAnswers, ServerFails, ServerCancelled
  <2> QED
    BY <2>1, <2>2, ServiceStep, TurnParts DEF ServerUnchanged, ClientTyped
<1>2. CASE StrayArrives \/ StrayVanishes
  BY <1>2, StepStray
<1>3. CASE Client
  <2>1. CASE StartAnswered \/ StartFails \/ ReadFrame \/ EndLoop \/ FollowContinuation
    BY <2>1, StepStartAnswered, StepStartFails, StepReadFrame, StepEndLoop, StepFollowContinuation
  <2>2. CASE ExecuteTools \/ (\E c \in Calls : FinishTool(c)) \/ SendResults \/ RequestAnswered
    BY <2>2, StepExecuteTools, StepFinishTool, StepSendResults, StepRequestAnswered
  <2>3. CASE RequestUnanswered \/ RequestRefused \/ StreamBreaks
    BY <2>3, StepRequestFails
  <2>4. CASE RecoveryDenied \/ Abort \/ LeaveAborted
    BY <2>4, StepRecoveryDenied, StepAbort, StepLeaveAborted
  <2> QED
    BY <1>3, <2>1, <2>2, <2>3, <2>4 DEF Client
<1>4. CASE UNCHANGED vars
  BY <1>4, Untouched, ServiceStep, TurnParts DEF vars, ClientTyped
<1> QED
  BY <1>1, <1>2, <1>3, <1>4 DEF Next

\* What the invariant says of the types the run checks.
LEMMA TurnTyped == TurnInv => TypeOK
<1> SUFFICES ASSUME TurnInv PROVE TypeOK
  OBVIOUS
<1>1. /\ ServerTyped /\ ClientTyped /\ LoopInv /\ Latest \in Nat
      /\ DOMAIN executions = 1 .. Latest
      /\ MaxExecutions \in Nat
  BY TurnParts, ClientConstants
<1>2. Latest \in 0 .. MaxExecutions
  BY <1>1 DEF ServerTyped
<1>3. \A r \in stray : r.type \in {"resume", "continue", "recover"} /\ r.execution \in 0 .. Latest
  BY <1>1 DEF ClientTyped, RequestSet, LoopInv, StraysReadable, Readable
<1>4. stream.execution \in 0 .. Latest /\ continuation \in 0 .. Latest /\ batch \in 0 .. Latest
  BY <1>1, TurnParts DEF LoopInv, Readable
<1>5. loop = "reading" => stream.execution > 0 /\ stream.read \in 0 .. Len(Frames(stream.execution))
  BY <1>1, TurnParts, Elements DEF LoopInv, Reads
<1>6. running # {} => loop = "executing"
  BY <1>1 DEF LoopInv
<1>7. executions \in Seq([key : [kind : {"initial", "tools", "steer"}, after : 0 .. MaxExecutions],
                          frames : Seq([type : {"delta", "input.received", "tool.requested",
                                                "run.continue", "run.failed"},
                                        calls : SUBSET Calls]),
                          open : BOOLEAN, offered : SUBSET Loads])
  BY <1>1 DEF ServerTyped, ExecutionSet, FrameSet
<1>8. \A o \in DOMAIN failures : failures[o] \in 0 .. 3
  BY <1>1 DEF ClientTyped
<1> QED
  BY <1>1, <1>2, <1>3, <1>4, <1>5, <1>6, <1>7, <1>8 DEF TypeOK, ServerTyped, ClientTyped

-----------------------------------------------------------------------------
(* The theorems *)

\* A turn that was not interrupted ends as answered only when its run is over:
\* no call for tools and no continuation that was read is left behind, whatever
\* the network does (runToolLoop, tool-loop.ts).
THEOREM EndsTogether == Spec => []EndsWithRun
<1>1. TurnInv => EndsWithRun
  BY DEF TurnInv, LoopInv, EndsWithRun
<1> QED
  BY <1>1, TurnStarts, TurnKept, PTL DEF Spec

\* Reading a stream again from its start and repeating a request tell no frame
\* and start no tool twice, and lose and reorder none (server-stream.ts,
\* conversation-transport.ts).
THEOREM ReplaysHarmless == Spec => []ReplayHarmless
<1>1. TurnInv => ReplayHarmless
  BY TurnTyped DEF TurnInv, Once, ReplayHarmless, ToolsRunOnce
<1> QED
  BY <1>1, TurnStarts, TurnKept, PTL DEF Spec

=============================================================================
