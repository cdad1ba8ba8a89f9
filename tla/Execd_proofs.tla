---------------------------- MODULE Execd_proofs ----------------------------
(***************************************************************************)
(* Proofs about Execd, for every set of topics, every class of message and *)
(* every bound.                                                            *)
(***************************************************************************)
EXTENDS Execd, TLAPS

LEMMA NoMsgType == NoMsg \in [t : Topics, o : Nat]
<1>1. Topics # {}
  BY ExecdAssumption DEF ExecdAssumption
<1>2. (CHOOSE t \in Topics : TRUE) \in Topics
  BY <1>1
<1>3. QED
  BY <1>2 DEF NoMsg

LEMMA BatchType == Batch \in Nat /\ 0 \in 0 .. Batch
  BY ExecdAssumption DEF ExecdAssumption

\* The part of the types that speaks of the memory of the process.
MemoryOK == PlaceOK /\ ConfOK /\ InputOK /\ MsgOK /\ FlagsOK /\ HookOK

\* A process that is gone leaves a memory of the right kinds.
LEMMA HaltType == Halt => MemoryOK'
<1> SUFFICES ASSUME Halt PROVE MemoryOK'
  OBVIOUS
<1>1. PlaceOK'
  BY DEF Halt, PlaceOK, Pcs
<1>2. ConfOK'
  BY DEF Halt, ConfOK
<1>3. InputOK'
  BY DEF Halt, InputOK, Offs
<1>4. MsgOK'
  BY NoMsgType, BatchType DEF Halt, MsgOK
<1>5. FlagsOK' /\ HookOK'
  BY DEF Halt, FlagsOK, HookOK
<1>6. QED
  BY <1>1, <1>2, <1>3, <1>4, <1>5 DEF MemoryOK

\* A group of variables that does not change keeps its types.
LEMMA SameType ==
  ASSUME TypeOK
  PROVE  /\ UNCHANGED disk => DiskOK'
         /\ UNCHANGED <<pc, main>> => PlaceOK'
         /\ UNCHANGED <<conf, reached>> => ConfOK'
         /\ UNCHANGED <<input, offsets>> => InputOK'
         /\ UNCHANGED msg => MsgOK'
         /\ UNCHANGED flags => FlagsOK'
         /\ UNCHANGED hook => HookOK'
         /\ UNCHANGED past => PastOK'
<1>1. UNCHANGED disk => DiskOK'
  BY DEF TypeOK, disk, DiskOK
<1>2. UNCHANGED <<pc, main>> => PlaceOK'
  BY DEF TypeOK, PlaceOK
<1>3. UNCHANGED <<conf, reached>> => ConfOK'
  BY DEF TypeOK, conf, ConfOK
<1>4. UNCHANGED <<input, offsets>> => InputOK'
  BY DEF TypeOK, input, InputOK
<1>5. UNCHANGED msg => MsgOK'
  BY DEF TypeOK, msg, MsgOK
<1>6. UNCHANGED flags => FlagsOK'
  BY DEF TypeOK, flags, FlagsOK
<1>7. UNCHANGED hook => HookOK'
  BY DEF TypeOK, hook, HookOK
<1>8. UNCHANGED past => PastOK'
  BY DEF TypeOK, past, PastOK
<1>9. QED
  BY <1>1, <1>2, <1>3, <1>4, <1>5, <1>6, <1>7, <1>8

LEMMA DoHookStartType == HookOK /\ DoHookStart => HookOK'
<1> SUFFICES ASSUME HookOK, DoHookStart PROVE HookOK'
  OBVIOUS
<1>1. CASE hookStart
  BY <1>1 DEF HookOK, DoHookStart
<1>2. CASE ~hookStart
  BY <1>2 DEF HookOK, DoHookStart, hook
<1>3. QED
  BY <1>1, <1>2

\* What the environment and the initialisation do keeps the types.
LEMMA EnvironmentType == TypeOK /\ (Environment \/ Exit \/ \E t \in Topics : Fetch(t)) => TypeOK'
<1> SUFFICES ASSUME TypeOK, Environment \/ Exit \/ \E t \in Topics : Fetch(t)
             PROVE TypeOK'
  OBVIOUS
<1>1. ASSUME NEW t \in Topics, NEW kind \in Kinds[t], Produce(t, kind) PROVE TypeOK'
  <2>1. kind \in AllKinds
    BY <1>1, ExecdAssumption DEF ExecdAssumption
  <2>2. DiskOK'
    BY <1>1, <2>1 DEF TypeOK, DiskOK, Produce
  <2>3. QED
    BY <1>1, <2>2, SameType DEF Produce, TypeOK
<1>2. CASE Crash
  <2>1. PastOK'
    BY <1>2 DEF TypeOK, PastOK, Crash, Fault
  <2>2. QED
    BY <1>2, <2>1, HaltType, SameType DEF Crash, TypeOK, MemoryOK
<1>3. CASE Signal
  <2>1. PastOK' /\ FlagsOK' /\ PlaceOK'
    BY <1>3 DEF TypeOK, PastOK, FlagsOK, PlaceOK, Pcs, Signal, Fault
  <2>2. QED
    BY <1>3, <2>1, SameType DEF Signal, TypeOK
<1>4. CASE WorkerDies
  <2>1. PastOK' /\ FlagsOK'
    BY <1>4 DEF TypeOK, PastOK, FlagsOK, WorkerDies, Fault
  <2>2. QED
    BY <1>4, <2>1, SameType DEF WorkerDies, TypeOK
<1>5. CASE Exit
  BY <1>5, HaltType, SameType DEF Exit, TypeOK, MemoryOK
<1>6. ASSUME NEW t \in Topics, Fetch(t) PROVE TypeOK'
  <2>1. InputOK'
    BY <1>6 DEF TypeOK, InputOK, Fetch
  <2>2. QED
    BY <1>6, <2>1, SameType DEF Fetch, TypeOK
<1>7. QED
  BY <1>1, <1>2, <1>3, <1>4, <1>5, <1>6 DEF Environment

LEMMA BootType == TypeOK /\ (Start \/ StartFails \/ Boot) => TypeOK'
<1> SUFFICES ASSUME TypeOK, Start \/ StartFails \/ Boot PROVE TypeOK'
  OBVIOUS
<1>1. CASE Start
  <2>1. DiskOK'
    BY <1>1 DEF TypeOK, DiskOK, Start, FileValues
  <2>2. InputOK'
    <3>1. FirstOffset \in Offs
      BY ExecdAssumption DEF ExecdAssumption, Offs
    <3>2. \A t \in Topics : ~Fresh(t) => file[t] \in Offs
      BY <1>1 DEF Start, TypeOK, DiskOK, FileValues, Offs, Stored, Newest, Oldest, Empty, Absent
    <3>3. UNCHANGED <<pos, rd, todo>>
      BY <1>1 DEF Start, input
    <3>4. offsets' \in [Topics -> Offs]
      BY <1>1, <3>1, <3>2 DEF Start
    <3>5. QED
      BY <3>3, <3>4 DEF TypeOK, InputOK
  <2>3. ConfOK' /\ PlaceOK'
    BY <1>1, ExecdAssumption DEF ExecdAssumption, Start, TypeOK, ConfOK, PlaceOK, Pcs
  <2>4. HookOK'
    BY <1>1, ExecdAssumption DEF ExecdAssumption, Start, TypeOK, HookOK
  <2>5. QED
    BY <1>1, <2>1, <2>2, <2>3, <2>4, SameType DEF Start, TypeOK
<1>2. CASE StartFails
  <2>1. DiskOK'
    BY <1>2 DEF TypeOK, DiskOK, StartFails, FileValues
  <2>2. QED
    BY <1>2, <2>1, SameType DEF StartFails, TypeOK
<1>3. CASE QueryOffsets
  <2>1. ConfOK' /\ PlaceOK'
    BY <1>3 DEF QueryOffsets, TypeOK, ConfOK, DiskOK, PlaceOK, Pcs
  <2>2. InputOK' /\ HookOK'
    BY <1>3 DEF QueryOffsets, TypeOK, InputOK, HookOK
  <2>3. QED
    BY <1>3, <2>1, <2>2, SameType DEF QueryOffsets, TypeOK
<1>4. ASSUME NEW t \in Topics, ConsumeTopic(t) PROVE TypeOK'
  <2>1. MsgOK' /\ PlaceOK'
    BY <1>4 DEF ConsumeTopic, TypeOK, MsgOK, PlaceOK, Pcs
  <2>2. QED
    BY <1>4, <2>1, SameType DEF ConsumeTopic, TypeOK
<1>5. CASE ConsumePartition
  <2>1. FirstMessage(cur.t) \in Nat
    BY DEF FirstMessage, TypeOK, InputOK, MsgOK, DiskOK, Offs, Newest, Oldest
  <2>2. InputOK' /\ PlaceOK'
    BY <1>5, <2>1 DEF ConsumePartition, TypeOK, InputOK, PlaceOK, Pcs
  <2>3. MsgOK'
    BY <1>5, NoMsgType DEF ConsumePartition, TypeOK, MsgOK
  <2>4. PastOK'
    BY <1>5, <2>1 DEF ConsumePartition, TypeOK, PastOK
  <2>5. QED
    BY <1>5, <2>2, <2>3, <2>4, SameType DEF ConsumePartition, TypeOK
<1>6. CASE Serve
  <2>1. HookOK' /\ PlaceOK'
    BY <1>6, DoHookStartType DEF Serve, TypeOK, PlaceOK, Pcs
  <2>2. QED
    BY <1>6, <2>1, SameType DEF Serve, TypeOK
<1>7. QED
  BY <1>1, <1>2, <1>3, <1>4, <1>5, <1>6 DEF Boot

\* commitOffset keeps the types: its steps, and its return to either caller.
LEMMA CommitType ==
  TypeOK /\ (CommitRefused \/ CommitRename \/ CommitCreate \/ CommitWrite) => TypeOK'
<1> SUFFICES ASSUME TypeOK, CommitRefused \/ CommitRename \/ CommitCreate \/ CommitWrite
             PROVE TypeOK'
  OBVIOUS
<1>1. Target \in Offs
  BY DEF Target, TypeOK, InputOK, MsgOK, Offs
<1>2. ASSUME CommitReturns PROVE MemoryOK'
  <2>1. CASE ~(main = "init") /\ panicking
    BY <1>2, <2>1, HaltType DEF CommitReturns
  <2>2. CASE ~(~(main = "init") /\ panicking)
    <3>1. PlaceOK' /\ UNCHANGED <<offsets, reached, conf, input, msg, flags, hook>>
      BY <1>2, <2>2 DEF CommitReturns, TypeOK, PlaceOK, Pcs
    <3>2. QED
      BY <3>1, SameType DEF MemoryOK, TypeOK
  <2>3. QED
    BY <2>1, <2>2
<1>3. CASE CommitRefused
  BY <1>2, <1>3, SameType DEF CommitRefused, MemoryOK, TypeOK
<1>4. CASE CommitRename
  <2>1. DiskOK'
    BY <1>4 DEF CommitRename, Backup, TypeOK, DiskOK, MsgOK, FileValues
  <2>2. InputOK' /\ PlaceOK'
    BY <1>1, <1>4 DEF CommitRename, TypeOK, InputOK, PlaceOK, Pcs, input
  <2>3. QED
    BY <1>4, <2>1, <2>2, SameType DEF CommitRename, TypeOK
<1>5. CASE CommitCreate
  <2>1. DiskOK' /\ PlaceOK'
    BY <1>5 DEF CommitCreate, TypeOK, DiskOK, PlaceOK, Pcs, FileValues
  <2>2. QED
    BY <1>5, <2>1, SameType DEF CommitCreate, TypeOK
<1>6. CASE CommitWrite
  <2>1. DiskOK'
    BY <1>1, <1>6 DEF CommitWrite, TypeOK, DiskOK, FileValues
  <2>2. QED
    BY <1>2, <1>6, <2>1, SameType DEF CommitWrite, MemoryOK, TypeOK
<1>7. QED
  BY <1>3, <1>4, <1>5, <1>6

\* So do the steps of processMessage.
Process ==
  \/ StopReached \/ Unwanted \/ Wanted \/ Woken \/ Due
  \/ ExecCommand \/ BatchDone \/ TestWorkers \/ SendReport

LEMMA ProcessType == TypeOK /\ Process => TypeOK'
<1> SUFFICES ASSUME TypeOK, Process PROVE TypeOK'
  OBVIOUS
<1>1. Here \in Topics \X Nat
  BY DEF Here, TypeOK, MsgOK
<1>2. CASE StopReached
  <2>1. CASE AllStopped(reached \cup {cur.t})
    BY <1>2, <2>1, HaltType, SameType DEF StopReached, AfterStop, MemoryOK, TypeOK
  <2>2. CASE ~AllStopped(reached \cup {cur.t})
    <3>1. ConfOK' /\ PlaceOK'
      BY <1>2, <2>2 DEF StopReached, AfterStop, TypeOK, ConfOK, MsgOK, PlaceOK, Pcs, conf
    <3>2. QED
      BY <1>2, <2>2, <3>1, SameType DEF StopReached, AfterStop, TypeOK
  <2>3. QED
    BY <2>1, <2>2
<1>3. CASE Unwanted
  <2>1. PastOK'
    BY <1>1, <1>3 DEF Unwanted, TypeOK, PastOK
  <2>2. PlaceOK'
    BY <1>3 DEF Unwanted, TypeOK, PlaceOK, Pcs
  <2>3. QED
    BY <1>3, <2>1, <2>2, SameType DEF Unwanted, TypeOK
<1>4. CASE Wanted
  <2>1. PlaceOK'
    BY <1>4 DEF Wanted, TypeOK, PlaceOK, Pcs
  <2>2. QED
    BY <1>4, <2>1, SameType DEF Wanted, TypeOK
<1>5. CASE Woken
  <2>1. PlaceOK' /\ FlagsOK'
    BY <1>5 DEF Woken, TypeOK, PlaceOK, Pcs, FlagsOK
  <2>2. QED
    BY <1>5, <2>1, SameType DEF Woken, TypeOK
<1>10. CASE Due
  <2>1. PastOK' /\ PlaceOK'
    BY <1>1, <1>10 DEF Due, TypeOK, PastOK, PlaceOK, Pcs
  <2>2. QED
    BY <1>10, <2>1, SameType DEF Due, TypeOK
<1>6. CASE ExecCommand
  <2>1. PastOK'
    BY <1>1, <1>6 DEF ExecCommand, TypeOK, PastOK
  <2>2. k' \in 0 .. Batch
    <3>1. k \in 0 .. Batch /\ k < Batch /\ (k' = k + 1 \/ k' = Batch)
      BY <1>6 DEF ExecCommand, TypeOK, MsgOK
    <3>2. QED
      BY <3>1, BatchType
  <2>3. MsgOK'
    BY <1>6, <2>2 DEF ExecCommand, TypeOK, MsgOK
  <2>4. QED
    BY <1>6, <2>1, <2>3, SameType DEF ExecCommand, TypeOK
<1>7. CASE BatchDone
  <2>1. PastOK'
    BY <1>1, <1>7 DEF BatchDone, TypeOK, PastOK
  <2>2. PlaceOK'
    BY <1>7 DEF BatchDone, AfterBatch, TypeOK, PlaceOK, Pcs
  <2>3. QED
    BY <1>7, <2>1, <2>2, SameType DEF BatchDone, TypeOK
<1>8. CASE TestWorkers
  <2>1. PastOK'
    BY <1>8 DEF TestWorkers, Fault, TypeOK, PastOK
  <2>2. PlaceOK' /\ FlagsOK'
    BY <1>8 DEF TestWorkers, TypeOK, PlaceOK, Pcs, FlagsOK
  <2>3. QED
    BY <1>8, <2>1, <2>2, SameType DEF TestWorkers, TypeOK
<1>9. CASE SendReport
  <2>1. PastOK'
    BY <1>1, <1>9 DEF SendReport, Fault, TypeOK, PastOK
  <2>2. PlaceOK' /\ MsgOK'
    BY <1>9 DEF SendReport, TypeOK, PlaceOK, Pcs, MsgOK
  <2>3. QED
    BY <1>9, <2>1, <2>2, SameType DEF SendReport, TypeOK
<1>11. QED
  BY <1>2, <1>3, <1>4, <1>5, <1>6, <1>7, <1>8, <1>9, <1>10 DEF Process

\* And the loop around it.
LEMMA LoopType == TypeOK /\ Loop => TypeOK'
<1> SUFFICES ASSUME TypeOK, Loop PROVE TypeOK'
  OBVIOUS
<1>1. ASSUME NEW t \in Topics, TakeMessage(t) PROVE TypeOK'
  <2>1. InputOK' /\ PlaceOK'
    BY <1>1 DEF TakeMessage, NextRead, TypeOK, InputOK, PlaceOK, Pcs
  <2>2. MsgOK'
    BY <1>1, BatchType DEF TakeMessage, TypeOK, InputOK, MsgOK
  <2>3. QED
    BY <1>1, <2>1, <2>2, SameType DEF TakeMessage, TypeOK
<1>2. CASE TakeSignal
  <2>1. PlaceOK' /\ FlagsOK'
    BY <1>2 DEF TakeSignal, TypeOK, PlaceOK, Pcs, FlagsOK
  <2>2. QED
    BY <1>2, <2>1, SameType DEF TakeSignal, TypeOK
<1>3. CASE TakeWorkerDead
  <2>1. PlaceOK' /\ FlagsOK'
    BY <1>3 DEF TakeWorkerDead, TypeOK, PlaceOK, Pcs, FlagsOK
  <2>2. QED
    BY <1>3, <2>1, SameType DEF TakeWorkerDead, TypeOK
<1>4. CASE SendDone
  <2>1. PlaceOK' /\ HookOK'
    BY <1>4, DoHookStartType, SameType DEF SendDone, TypeOK, PlaceOK, Pcs
  <2>2. QED
    BY <1>4, <2>1, SameType DEF SendDone, TypeOK
<1>5. CASE Post
  <2>1. PlaceOK' /\ HookOK'
    BY <1>5, DoHookStartType, SameType DEF Post, TypeOK, PlaceOK, Pcs
  <2>2. QED
    BY <1>5, <2>1, SameType DEF Post, TypeOK
<1>6. QED
  BY <1>1, <1>2, <1>3, <1>4, <1>5, CommitType, ProcessType DEF Loop, Process

\* Every variable keeps to its kind, whatever the topics, the messages, the
\* configuration and the bounds.
THEOREM TypeCorrect == Spec => []TypeOK
<1>1. Init => TypeOK
  <2> SUFFICES ASSUME Init PROVE TypeOK
    OBVIOUS
  <2>1. DiskOK /\ PlaceOK /\ ConfOK
    BY DEF Init, DiskOK, PlaceOK, Pcs, ConfOK, FileValues
  <2>2. InputOK /\ MsgOK
    BY NoMsgType, BatchType DEF Init, InputOK, MsgOK, Offs
  <2>3. FlagsOK /\ HookOK /\ PastOK
    BY DEF Init, FlagsOK, HookOK, PastOK
  <2>4. QED
    BY <2>1, <2>2, <2>3 DEF TypeOK
<1>2. TypeOK /\ [Next]_vars => TypeOK'
  <2> SUFFICES ASSUME TypeOK, [Next]_vars PROVE TypeOK'
    OBVIOUS
  <2>1. CASE UNCHANGED vars
    BY <2>1, SameType DEF vars, disk, conf, input, msg, flags, hook, past, TypeOK
  <2>2. CASE Next
    BY <2>2, BootType, LoopType, EnvironmentType DEF Next
  <2>3. QED
    BY <2>1, <2>2
<1>3. QED
  BY <1>1, <1>2, PTL DEF Spec

----------------------------------------------------------------------------
(* NothingSkipped, by the inductive invariant SkipInv. *)

LEMMA SafeGrows ==
  ASSUME NEW D, NEW E, D \subseteq E, NEW t, NEW n, Safe(D, t, n)
  PROVE  Safe(E, t, n)
  BY DEF Safe

LEMMA SafeNext ==
  ASSUME NEW D, NEW t, NEW n \in Nat, Safe(D, t, n), <<t, n>> \in D
  PROVE  Safe(D, t, n + 1)
<1>1. \A o \in 0 .. (n + 1) - 1 : o \in 0 .. n - 1 \/ o = n
  OBVIOUS
<1>2. QED
  BY <1>1 DEF Safe

LEMMA SafeNone ==
  ASSUME NEW D, NEW t, NEW n \in Int, n <= 0
  PROVE  Safe(D, t, n)
  BY DEF Safe

\* While the files and OFFSETS stay, more handled messages do no harm.
LEMMA PositionsStay ==
  ASSUME PositionsSafe, UNCHANGED <<file, old, offsets>>, handled \subseteq handled'
  PROVE  PositionsSafe'
  BY SafeGrows DEF PositionsSafe

\* After the end of the process only the files count.
FilesSafe == \A t \in Topics :
  /\ file[t] # Newest /\ Safe(handled, t, file[t])
  /\ old[t] # Newest /\ Safe(handled, t, old[t])

LEMMA HaltSkip ==
  ASSUME Halt, FilesSafe'
  PROVE  SkipInv'
<1>1. PlacesAgree' /\ MessageSafe' /\ RefusedIsInterrupted'
  BY DEF Halt, PlacesAgree, BootPcs, MessageSafe, RefusedIsInterrupted
<1>2. PositionsSafe'
  BY SafeNone DEF Halt, FilesSafe, PositionsSafe, Newest
<1>3. ReadersSafe'
  BY SafeNone DEF Halt, ReadersSafe, Busy
<1>4. QED
  BY <1>1, <1>2, <1>3 DEF SkipInv

LEMMA FilesStay ==
  ASSUME SkipInv, UNCHANGED <<file, old, handled>>
  PROVE  FilesSafe'
  BY DEF SkipInv, PositionsSafe, FilesSafe

\* What no thread of the loop does.
LEMMA EnvironmentSkip ==
  SkipInv /\ (Environment \/ Exit \/ \E t \in Topics : Fetch(t)) => SkipInv'
<1> SUFFICES ASSUME SkipInv, Environment \/ Exit \/ \E t \in Topics : Fetch(t)
             PROVE SkipInv'
  OBVIOUS
<1>1. ASSUME NEW t \in Topics, NEW kind \in Kinds[t], Produce(t, kind) PROVE SkipInv'
  BY <1>1 DEF Produce, SkipInv, PlacesAgree, PositionsSafe, MessageSafe, ReadersSafe, Passed, Busy,
       Stopping, StopOffset, Here, RefusedIsInterrupted, conf, input, msg, flags, past
<1>2. CASE Crash
  BY <1>2, HaltSkip, FilesStay DEF Crash, disk
<1>3. CASE Signal
  <2>1. PlacesAgree' /\ RefusedIsInterrupted' /\ PositionsSafe'
    BY <1>3 DEF Signal, SkipInv, PlacesAgree, BootPcs, RefusedIsInterrupted, PositionsSafe, disk, msg
  <2>2. MessageSafe' /\ ReadersSafe'
    BY <1>3 DEF Signal, SkipInv, MessageSafe, ReadersSafe, Passed, Busy, Stopping, StopOffset, Here, conf, input, msg
  <2>3. QED
    BY <2>1, <2>2 DEF SkipInv
<1>4. CASE WorkerDies
  BY <1>4 DEF WorkerDies, SkipInv, PlacesAgree, RefusedIsInterrupted, PositionsSafe, MessageSafe,
       ReadersSafe, disk, msg
<1>5. CASE Exit
  BY <1>5, HaltSkip, FilesStay DEF Exit, disk, past
<1>6. ASSUME NEW t \in Topics, Fetch(t) PROVE SkipInv'
  BY <1>6 DEF Fetch, SkipInv, PlacesAgree, PositionsSafe, MessageSafe, ReadersSafe, Passed, Busy,
       Stopping, StopOffset, Here, RefusedIsInterrupted, disk, conf, input, msg, flags, past
<1>7. QED
  BY <1>1, <1>2, <1>3, <1>4, <1>5, <1>6 DEF Environment

\* Initialisation: consumption starts at a safe position.
LEMMA BootSkip ==
  FirstOffset # Newest /\ TypeOK /\ SkipInv /\ (Start \/ StartFails \/ Boot) => SkipInv'
<1> SUFFICES ASSUME FirstOffset # Newest, TypeOK, SkipInv, Start \/ StartFails \/ Boot
             PROVE SkipInv'
  OBVIOUS
<1>1. CASE Start
  <2>1. FirstOffset \in Int /\ FirstOffset <= 0
    BY ExecdAssumption DEF ExecdAssumption, Oldest, Newest
  <2>2. main = "init"
    BY <1>1 DEF Start, SkipInv, PlacesAgree, BootPcs
  <2>3. PositionsSafe'
    <3> SUFFICES ASSUME NEW t \in Topics
                 PROVE /\ file'[t] # Newest /\ Safe(handled', t, file'[t])
                       /\ old'[t] # Newest /\ Safe(handled', t, old'[t])
                       /\ offsets'[t] # Newest /\ Safe(handled', t, offsets'[t])
      BY DEF PositionsSafe
    <3>1. file'[t] \in {Empty, file[t]} /\ offsets'[t] \in {FirstOffset, file[t]}
      BY <1>1 DEF Start, TypeOK, DiskOK
    <3>2. Safe(handled, t, Empty) /\ Safe(handled, t, FirstOffset) /\ Empty # Newest
      BY <2>1, SafeNone DEF Empty, Newest
    <3>3. QED
      BY <1>1, <3>1, <3>2 DEF Start, SkipInv, PositionsSafe, past
  <2>4. PlacesAgree' /\ MessageSafe' /\ RefusedIsInterrupted'
    BY <1>1, <2>2 DEF Start, SkipInv, PlacesAgree, BootPcs, MessageSafe, RefusedIsInterrupted, msg, flags
  <2>5. ReadersSafe'
    <3>1. ~Busy' /\ \A t \in Topics : pos'[t] = 0
      BY <1>1, <2>2 DEF Start, SkipInv, PlacesAgree, Busy, input
    <3>2. QED
      BY <3>1, SafeNone DEF ReadersSafe
  <2>6. QED
    BY <2>3, <2>4, <2>5 DEF SkipInv
<1>2. CASE StartFails
  <2>1. PositionsSafe'
    <3>1. \A t \in Topics : file'[t] \in {Empty, file[t]}
      BY <1>2 DEF StartFails, TypeOK, DiskOK
    <3>2. \A t : Safe(handled, t, Empty) /\ Empty # Newest
      BY SafeNone DEF Empty, Newest
    <3>3. QED
      BY <1>2, <3>1, <3>2 DEF StartFails, SkipInv, PositionsSafe, past
  <2>2. QED
    BY <1>2, <2>1 DEF StartFails, SkipInv, PlacesAgree, MessageSafe, ReadersSafe, Passed, Busy,
         Stopping, StopOffset, Here, RefusedIsInterrupted, conf, input, msg, flags, past
<1>3. CASE QueryOffsets
  BY <1>3 DEF QueryOffsets, SkipInv, PlacesAgree, BootPcs, PositionsSafe, MessageSafe, ReadersSafe,
       Passed, Busy, StopOffset, RefusedIsInterrupted, disk, msg, flags, past
<1>4. ASSUME NEW t \in Topics, ConsumeTopic(t) PROVE SkipInv'
  BY <1>4 DEF ConsumeTopic, SkipInv, PlacesAgree, BootPcs, PositionsSafe, MessageSafe, ReadersSafe,
       Passed, Busy, StopOffset, RefusedIsInterrupted, disk, conf, input, flags, past
<1>5. CASE ConsumePartition
  <2>1. main = "init" /\ main' = "init"
    BY <1>5 DEF ConsumePartition, SkipInv, PlacesAgree, BootPcs
  <2>2. PlacesAgree' /\ MessageSafe' /\ RefusedIsInterrupted' /\ PositionsSafe'
    BY <1>5, <2>1 DEF ConsumePartition, SkipInv, PlacesAgree, BootPcs, MessageSafe,
         RefusedIsInterrupted, PositionsSafe, disk, flags
  <2>3. Safe(handled, cur.t, FirstMessage(cur.t))
    BY SafeNone DEF FirstMessage, SkipInv, PositionsSafe, TypeOK, MsgOK
  <2>4. ReadersSafe'
    BY <1>5, <2>1, <2>3 DEF ConsumePartition, SkipInv, ReadersSafe, Passed, Busy, StopOffset,
         TypeOK, InputOK, conf, flags
  <2>5. QED
    BY <2>2, <2>4 DEF SkipInv
<1>6. CASE Serve
  BY <1>6 DEF Serve, SkipInv, PlacesAgree, BootPcs, PositionsSafe, MessageSafe, ReadersSafe,
       Passed, Busy, StopOffset, RefusedIsInterrupted, disk, conf, input, msg, flags, past
<1>7. QED
  BY <1>1, <1>2, <1>3, <1>4, <1>5, <1>6 DEF Boot

\* commitOffset writes a safe position, and nothing else when it writes none.
LEMMA CommitSkip ==
  TypeOK /\ SkipInv /\ (CommitRefused \/ CommitRename \/ CommitCreate \/ CommitWrite) => SkipInv'
<1> SUFFICES ASSUME TypeOK, SkipInv, CommitRefused \/ CommitRename \/ CommitCreate \/ CommitWrite
             PROVE SkipInv'
  OBVIOUS
<1>1. pc \in {"create", "write"} \/ (pc = "commit" /\ ~interrupt) => Safe(handled, cur.t, Target)
  <2>1. cur.o \in Nat /\ cur.t \in Topics
    BY DEF TypeOK, MsgOK
  <2>2. CASE main = "init"
    BY <2>1, <2>2 DEF Target, SkipInv, PositionsSafe
  <2>3. CASE main # "init"
    BY <2>1, <2>3, SafeNext DEF Target, SkipInv, MessageSafe, Here
  <2>4. QED
    BY <2>2, <2>3
<1>2. Target # Newest
  BY DEF Target, SkipInv, PositionsSafe, TypeOK, MsgOK, Newest
<1>3. CASE CommitRename
  <2>1. UNCHANGED <<main, cur, k, refused, panicking, interrupt, handled, pos, stops>> /\ ~interrupt
    BY <1>3 DEF CommitRename, CommitAllowed, conf, input, msg, flags, past
  <2>2. PositionsSafe'
    <3>1. \A t : Safe(handled, t, Absent) /\ Absent # Newest
      BY SafeNone DEF Absent, Newest
    <3>2. pc = "commit" /\ handled' = handled
      BY <1>3, <2>1 DEF CommitRename
    <3>3. \A t \in Topics : /\ file'[t] = file[t] \/ file'[t] = Absent
                            /\ old'[t] = old[t] \/ old'[t] = file[t]
                            /\ offsets'[t] = offsets[t] \/ (t = cur.t /\ offsets'[t] = Target)
      BY <1>3 DEF CommitRename, Backup, TypeOK, DiskOK, InputOK
    <3>4. QED
      BY <1>1, <1>2, <2>1, <3>1, <3>2, <3>3 DEF SkipInv, PositionsSafe
  <2>3. PlacesAgree' /\ RefusedIsInterrupted'
    BY <1>3, <2>1 DEF CommitRename, SkipInv, PlacesAgree, BootPcs, RefusedIsInterrupted
  <2>4. MessageSafe'
    BY <1>1, <1>3, <2>1 DEF CommitRename, MessageSafe, Target
  <2>5. ReadersSafe'
    BY <1>3, <2>1 DEF CommitRename, SkipInv, ReadersSafe, Passed, Busy, StopOffset
  <2>6. QED
    BY <2>2, <2>3, <2>4, <2>5 DEF SkipInv
<1>4. CASE CommitCreate
  <2>1. UNCHANGED <<main, cur, k, refused, panicking, interrupt, handled, pos, stops, old, offsets>>
    BY <1>4 DEF CommitCreate, conf, input, msg, flags, past
  <2>2. PositionsSafe'
    <3>1. \A t : Safe(handled, t, Empty) /\ Empty # Newest
      BY SafeNone DEF Empty, Newest
    <3>2. \A t \in Topics : file'[t] = file[t] \/ file'[t] = Empty
      BY <1>4 DEF CommitCreate, TypeOK, DiskOK
    <3>3. QED
      BY <2>1, <3>1, <3>2 DEF SkipInv, PositionsSafe
  <2>3. PlacesAgree' /\ RefusedIsInterrupted'
    BY <1>4, <2>1 DEF CommitCreate, SkipInv, PlacesAgree, BootPcs, RefusedIsInterrupted
  <2>4. MessageSafe'
    BY <1>4, <2>1 DEF CommitCreate, SkipInv, MessageSafe
  <2>5. ReadersSafe'
    BY <1>4, <2>1 DEF CommitCreate, SkipInv, ReadersSafe, Passed, Busy, StopOffset
  <2>6. QED
    BY <2>2, <2>3, <2>4, <2>5 DEF SkipInv
<1>5. ASSUME CommitReturns, UNCHANGED past, FilesSafe',
             pc = "write" \/ (pc = "commit" /\ interrupt)
      PROVE  SkipInv'
  <2>1. CASE main # "init" /\ panicking
    BY <1>5, <2>1, HaltSkip DEF CommitReturns
  <2>2. CASE ~(main # "init" /\ panicking)
    <3>1. /\ pc' = IF main = "init" THEN "partition" ELSE "post"
          /\ UNCHANGED <<main, offsets, cur, refused, interrupt, handled, pos, stops>>
      BY <1>5, <2>2 DEF CommitReturns, conf, input, msg, flags, past
    <3>2. PositionsSafe'
      BY <1>5, <3>1 DEF SkipInv, PositionsSafe, FilesSafe
    <3>3. PlacesAgree' /\ MessageSafe' /\ RefusedIsInterrupted'
      BY <3>1 DEF SkipInv, PlacesAgree, BootPcs, MessageSafe, RefusedIsInterrupted
    <3>4. ReadersSafe'
      BY <1>5, <3>1 DEF SkipInv, ReadersSafe, MessageSafe, Passed, Busy, StopOffset
    <3>5. QED
      BY <3>2, <3>3, <3>4 DEF SkipInv
  <2>3. QED
    BY <2>1, <2>2
<1>6. CASE CommitRefused
  BY <1>5, <1>6, FilesStay DEF CommitRefused, CommitAllowed, disk, past
<1>7. CASE CommitWrite
  <2>1. \A t \in Topics : file'[t] = file[t] \/ (t = cur.t /\ file'[t] = Target)
    BY <1>7 DEF CommitWrite, TypeOK, DiskOK
  <2>2. FilesSafe'
    BY <1>1, <1>2, <1>7, <2>1 DEF CommitWrite, SkipInv, PositionsSafe, FilesSafe, past
  <2>3. QED
    BY <1>5, <1>7, <2>2 DEF CommitWrite
<1>8. QED
  BY <1>3, <1>4, <1>6, <1>7

\* processMessage hands a message on to the commit only when it was handled.
LEMMA ProcessSkip == TypeOK /\ SkipInv /\ Process => SkipInv'
<1> SUFFICES ASSUME TypeOK, SkipInv, Process PROVE SkipInv'
  OBVIOUS
<1>1. cur.t \in Topics /\ cur.o \in Nat
  BY DEF TypeOK, MsgOK
<1>2. main # "init" /\ pc # "down"
  BY DEF Process, StopReached, Unwanted, Wanted, Woken, Due, ExecCommand, BatchDone, TestWorkers,
     SendReport, SkipInv, PlacesAgree, BootPcs
<1>3. CASE StopReached
  <2>1. CASE AllStopped(reached \cup {cur.t})
    BY <1>3, <2>1, HaltSkip, FilesStay DEF StopReached, AfterStop, disk, past
  <2>2. CASE ~AllStopped(reached \cup {cur.t})
    <3>1. /\ pc = "process" /\ Stopping /\ pc' = "post"
          /\ UNCHANGED <<file, old, main, offsets, pos, cur, refused, interrupt, stops, handled>>
      BY <1>3, <2>2 DEF StopReached, AfterStop, disk, conf, input, msg, flags, past
    <3>2. PositionsSafe' /\ PlacesAgree' /\ MessageSafe' /\ RefusedIsInterrupted'
      BY <3>1, <1>2 DEF SkipInv, PositionsSafe, PlacesAgree, BootPcs, MessageSafe, RefusedIsInterrupted
    <3>3. ReadersSafe'
      <4>1. StopOffset(cur.t) \in Nat
        BY <1>1, ExecdAssumption DEF ExecdAssumption, StopOffset, TypeOK, ConfOK
      <4>2. Stopping /\ pos[cur.t] = cur.o + 1 => Passed(cur.t)
        BY <1>1, <4>1 DEF Stopping, Passed
      <4>3. QED
        BY <1>2, <3>1, <4>2 DEF SkipInv, ReadersSafe, Busy, Passed, StopOffset
    <3>4. QED
      BY <3>2, <3>3 DEF SkipInv
  <2>3. QED
    BY <2>1, <2>2
<1>4. ASSUME UNCHANGED <<file, old, main, offsets, pos, cur, stops>>, handled \subseteq handled',
             interrupt => interrupt', refused' => interrupt',
             pc \notin {"create", "write"}, pc' \notin BootPcs \cup {"create", "write"},
             ~interrupt' => Busy /\ Busy' /\ pc' # "process" /\ (pc = "process" => ~Stopping),
             ~interrupt' /\ pc' \in {"test", "report", "commit"} => Here \in handled'
      PROVE  SkipInv'
  <2>1. PositionsSafe'
    BY <1>4, PositionsStay DEF SkipInv
  <2>2. PlacesAgree' /\ RefusedIsInterrupted'
    BY <1>2, <1>4 DEF PlacesAgree, RefusedIsInterrupted, BootPcs
  <2>3. ASSUME ~interrupt' PROVE Safe(handled', cur.t, cur.o)
    <3>1. CASE pc = "process"
      BY <1>2, <1>4, <2>3, <3>1, SafeGrows DEF SkipInv, MessageSafe
    <3>2. CASE pc # "process"
      BY <1>2, <1>4, <2>3, <3>2, SafeGrows DEF SkipInv, MessageSafe, Busy
    <3>3. QED
      BY <3>1, <3>2
  <2>4. MessageSafe'
    BY <1>4, <2>3 DEF MessageSafe, Here
  <2>5. ReadersSafe'
    <3> SUFFICES ASSUME ~interrupt', NEW t \in Topics
                 PROVE  IF Busy' /\ cur'.t = t
                          THEN pos'[t] = cur'.o + 1
                          ELSE (stops' # {} /\ pos'[t] >= StopOffset(t)') \/ Safe(handled', t, pos'[t])
      BY DEF ReadersSafe, Passed
    <3>1. Busy /\ Busy' /\ ~interrupt
      BY <1>4
    <3>2. IF cur.t = t THEN pos[t] = cur.o + 1 ELSE Passed(t) \/ Safe(handled, t, pos[t])
      BY <3>1 DEF SkipInv, ReadersSafe
    <3>3. QED
      BY <1>4, <3>1, <3>2, SafeGrows DEF Passed, StopOffset
  <2>6. QED
    BY <2>1, <2>2, <2>4, <2>5 DEF SkipInv
<1>5. CASE Unwanted
  BY <1>2, <1>4, <1>5 DEF Unwanted, SkipInv, RefusedIsInterrupted, Busy, BootPcs, disk, conf, input, msg, flags
<1>6. CASE Wanted
  BY <1>2, <1>4, <1>6 DEF Wanted, SkipInv, RefusedIsInterrupted, Busy, BootPcs, disk, conf, input, msg, flags, past
<1>7. CASE Woken
  BY <1>2, <1>4, <1>7 DEF Woken, SkipInv, RefusedIsInterrupted, Busy, BootPcs, disk, conf, input, msg, past
<1>12. CASE Due
  BY <1>2, <1>4, <1>12 DEF Due, SkipInv, RefusedIsInterrupted, Busy, BootPcs, disk, conf, input, msg, flags
<1>8. CASE ExecCommand
  BY <1>2, <1>4, <1>8 DEF ExecCommand, Refuses, SkipInv, RefusedIsInterrupted, Busy, BootPcs,
     disk, conf, input, flags
<1>9. CASE BatchDone
  BY <1>2, <1>4, <1>9 DEF BatchDone, AfterBatch, SkipInv, RefusedIsInterrupted, Busy, BootPcs,
     disk, conf, input, msg, flags
<1>10. CASE TestWorkers
  BY <1>2, <1>4, <1>10 DEF TestWorkers, SkipInv, MessageSafe, RefusedIsInterrupted, Busy, BootPcs,
     disk, conf, input, msg
<1>11. CASE SendReport
  BY <1>2, <1>4, <1>11 DEF SendReport, SkipInv, MessageSafe, RefusedIsInterrupted, Busy, BootPcs,
     disk, conf, input, flags
<1>13. QED
  BY <1>3, <1>5, <1>6, <1>7, <1>8, <1>9, <1>10, <1>11, <1>12 DEF Process

\* The loop takes the next message of a topic, so its predecessors are handled.
LEMMA LoopSkip == TypeOK /\ SkipInv /\ Loop => SkipInv'
<1> SUFFICES ASSUME TypeOK, SkipInv, Loop PROVE SkipInv'
  OBVIOUS
<1>1. ASSUME NEW t \in Topics, TakeMessage(t) PROVE SkipInv'
  <2>1. /\ pc = "select" /\ main # "init" /\ ~Busy
        /\ cur' = [t |-> t, o |-> pos[t]] /\ refused' = FALSE /\ pc' = "process"
        /\ pos' = [pos EXCEPT ![t] = @ + 1]
        /\ UNCHANGED <<file, old, main, offsets, stops, interrupt, handled>>
    BY <1>1 DEF TakeMessage, SkipInv, PlacesAgree, BootPcs, Busy, disk, conf, flags, past
  <2>2. PositionsSafe'
    BY <2>1, PositionsStay DEF SkipInv
  <2>3. PlacesAgree' /\ RefusedIsInterrupted'
    BY <2>1 DEF PlacesAgree, BootPcs, RefusedIsInterrupted
  <2>4. MessageSafe'
    <3>1. ~interrupt => Passed(t) \/ Safe(handled, t, pos[t])
      BY <2>1 DEF SkipInv, ReadersSafe
    <3>2. Passed(t) => Stopping'
      BY <2>1 DEF Passed, Stopping, StopOffset
    <3>3. QED
      BY <2>1, <3>1, <3>2 DEF MessageSafe
  <2>5. ReadersSafe'
    <3> SUFFICES ASSUME ~interrupt', NEW s \in Topics
                 PROVE  IF Busy' /\ cur'.t = s
                          THEN pos'[s] = cur'.o + 1
                          ELSE (stops' # {} /\ pos'[s] >= StopOffset(s)') \/ Safe(handled', s, pos'[s])
      BY DEF ReadersSafe, Passed
    <3>1. pos'[s] = IF s = t THEN pos[t] + 1 ELSE pos[s]
      BY <2>1 DEF TypeOK, InputOK
    <3>2. Busy' /\ cur'.t = t /\ cur'.o = pos[t]
      BY <2>1 DEF Busy
    <3>3. Passed(s) \/ Safe(handled, s, pos[s])
      BY <2>1 DEF SkipInv, ReadersSafe
    <3>4. QED
      BY <2>1, <3>1, <3>2, <3>3 DEF Passed, StopOffset
  <2>6. QED
    BY <2>2, <2>3, <2>4, <2>5 DEF SkipInv
<1>2. ASSUME UNCHANGED <<file, old, offsets, pos, cur, refused, stops, handled>>,
             interrupt => interrupt', main # "init", main' # "init",
             pc \in {"select", "done", "postdone", "post"},
             pc' \in {"select", "done", "postdone", "post"}
      PROVE  SkipInv'
  <2>1. PositionsSafe' /\ PlacesAgree' /\ MessageSafe' /\ RefusedIsInterrupted'
    BY <1>2 DEF SkipInv, PositionsSafe, PlacesAgree, BootPcs, MessageSafe, RefusedIsInterrupted
  <2>2. ReadersSafe'
    BY <1>2 DEF SkipInv, ReadersSafe, Busy, Passed, StopOffset
  <2>3. QED
    BY <2>1, <2>2 DEF SkipInv
<1>3. CASE TakeSignal
  BY <1>2, <1>3 DEF TakeSignal, SkipInv, PlacesAgree, BootPcs, disk, conf, input, msg, past
<1>4. CASE TakeWorkerDead
  BY <1>2, <1>4 DEF TakeWorkerDead, SkipInv, PlacesAgree, BootPcs, disk, conf, input, msg, past
<1>5. CASE SendDone
  BY <1>2, <1>5 DEF SendDone, disk, conf, input, msg, flags, past
<1>6. CASE Post
  BY <1>2, <1>6 DEF Post, SkipInv, PlacesAgree, BootPcs, disk, conf, input, msg, flags, past
<1>7. QED
  BY <1>1, <1>3, <1>4, <1>5, <1>6, CommitSkip, ProcessSkip DEF Loop, Process

\* SkipInv holds in every state, and ...
THEOREM SkipInvCorrect == FirstOffset # Newest => (Spec => []SkipInv)
<1>1. SUFFICES ASSUME FirstOffset # Newest PROVE Spec => []SkipInv
  OBVIOUS
<1>2. Init => SkipInv
  BY SafeNone DEF Init, SkipInv, PlacesAgree, BootPcs, PositionsSafe, MessageSafe, ReadersSafe,
     Busy, RefusedIsInterrupted, Absent, Newest
<1>3. TypeOK /\ SkipInv /\ [Next]_vars => SkipInv'
  <2> SUFFICES ASSUME TypeOK, SkipInv, [Next]_vars PROVE SkipInv'
    OBVIOUS
  <2>1. CASE UNCHANGED vars
    BY <2>1 DEF vars, disk, conf, input, msg, flags, hook, past, SkipInv, PlacesAgree, PositionsSafe,
         MessageSafe, ReadersSafe, Passed, Busy, Stopping, StopOffset, Here, RefusedIsInterrupted
  <2>2. CASE Next
    BY <1>1, <2>2, EnvironmentSkip, BootSkip, LoopSkip DEF Next
  <2>3. QED
    BY <2>1, <2>2
<1>4. QED
  BY <1>2, <1>3, TypeCorrect, PTL DEF Spec

\* ... with it NothingSkipped, unless consumption started at OffsetNewest: no
\* position of any topic is ever stored past a message that was not processed.
THEOREM NothingSkippedCorrect == FirstOffset # Newest => (Spec => []NothingSkipped)
<1>1. TypeOK /\ SkipInv => NothingSkipped
  <2> SUFFICES ASSUME TypeOK, SkipInv, NEW t \in Topics, base[t] # Unset,
                      NEW o \in base[t] .. Committed(t) - 1
               PROVE  <<t, o>> \in handled
    BY DEF NothingSkipped
  <2>1. base[t] \in Nat
    BY DEF TypeOK, PastOK
  <2>2. Safe(handled, t, Committed(t)) /\ Committed(t) \in Int
    BY DEF Committed, SkipInv, PositionsSafe, TypeOK, DiskOK, FileValues, Offs, Newest, Oldest, Empty, Absent
  <2>3. QED
    BY <2>1, <2>2 DEF Safe
<1>2. QED
  BY <1>1, TypeCorrect, SkipInvCorrect, PTL

----------------------------------------------------------------------------
(* PositionSurvives, by the inductive invariant SurviveInv. *)

\* A step that leaves the files alone, from a place where every topic has its
\* position in the position file, or to the end of the process.
LEMMA SurviveStays ==
  ASSUME SurviveInv, UNCHANGED <<file, old, base>>,
         \/ pc' = "down" \/ UNCHANGED <<pc, cur>>
         \/ pc \notin {"down", "create", "write"} /\ pc' \notin {"create", "write"}
  PROVE  SurviveInv'
  BY DEF SurviveInv, Stored

\* There is always a position to go back to.
THEOREM PositionSurvivesCorrect == Spec => []PositionSurvives
<1>1. Init => SurviveInv
  BY DEF Init, SurviveInv
<1>2. TypeOK /\ SurviveInv /\ [Next]_vars => SurviveInv'
  <2> SUFFICES ASSUME TypeOK, SurviveInv, [Next]_vars PROVE SurviveInv'
    OBVIOUS
  <2>1. CASE UNCHANGED vars
    BY <2>1, SurviveStays DEF vars, disk, msg, past
  <2>2. CASE Start
    <3>1. \A t \in Topics : base[t] # Unset => Stored(file[t])
      BY <2>2 DEF Start, Fresh, SurviveInv
    <3>2. \A t \in Topics : Stored(file[t]) => file'[t] = file[t]
      BY <2>2 DEF Start, Fresh, TypeOK, DiskOK
    <3>3. QED
      BY <2>2, <3>1, <3>2 DEF Start, SurviveInv, past
  <2>3. CASE StartFails
    BY <2>3 DEF StartFails, SurviveInv, TypeOK, DiskOK, Stored, Absent, Oldest, past
  <2>4. CASE Boot
    <3>1. CASE ConsumePartition
      BY <3>1 DEF ConsumePartition, SurviveInv, disk, TypeOK, PastOK
    <3>2. CASE ~ConsumePartition
      BY <2>4, <3>2, SurviveStays DEF Boot, QueryOffsets, ConsumeTopic, Serve, disk, past
    <3>3. QED
      BY <3>1, <3>2
  <2>5. CASE CommitRename
    <3>1. /\ pc = "commit" /\ pc' = "create" /\ cur.t \in Topics
          /\ UNCHANGED <<cur, base>>
      BY <2>5 DEF CommitRename, TypeOK, MsgOK, msg, past
    <3>2. old'[cur.t] = file[cur.t]
      BY <2>5, <3>1 DEF CommitRename, Backup, TypeOK, DiskOK
    <3>3. \A t \in Topics \ {cur.t} : file'[t] = file[t]
      BY <2>5 DEF CommitRename, TypeOK, DiskOK
    <3>4. \A t \in Topics : base[t] # Unset => Stored(file[t])
      BY <3>1 DEF SurviveInv
    <3>5. QED
      BY <3>1, <3>2, <3>3, <3>4 DEF SurviveInv, Stored
  <2>6. CASE CommitCreate
    <3>1. /\ pc = "create" /\ pc' = "write"
          /\ UNCHANGED <<cur, base, old>>
      BY <2>6 DEF CommitCreate, msg, past
    <3>2. \A t \in Topics \ {cur.t} : file'[t] = file[t]
      BY <2>6 DEF CommitCreate, TypeOK, DiskOK
    <3>3. QED
      BY <3>1, <3>2 DEF SurviveInv, Stored
  <2>7. CASE CommitWrite
    <3>1. Stored(Target)
      BY DEF Target, Stored, TypeOK, InputOK, MsgOK, Offs, Newest, Oldest
    <3>2. /\ pc = "write" /\ pc' \notin {"create", "write"}
          /\ UNCHANGED base
      BY <2>7 DEF CommitWrite, CommitReturns, Halt, past
    <3>3. \A t \in Topics : file'[t] = IF t = cur.t THEN Target ELSE file[t]
      BY <2>7 DEF CommitWrite, TypeOK, DiskOK
    <3>4. QED
      BY <3>1, <3>2, <3>3 DEF SurviveInv, Stored
  <2>8. CASE CommitRefused
    BY <2>8, SurviveStays DEF CommitRefused, CommitReturns, Halt, disk, past
  <2>9. CASE Process
    <3>1. /\ pc \notin {"down", "create", "write"} /\ pc' \notin {"create", "write"}
          /\ UNCHANGED <<file, old, base>>
      BY <2>9 DEF Process, StopReached, AfterStop, Halt, AfterBatch, Unwanted, Wanted, Woken, Due, ExecCommand, BatchDone,
         TestWorkers, SendReport, disk, past
    <3>2. QED
      BY <3>1, SurviveStays
  <2>10. CASE TakeSignal \/ TakeWorkerDead \/ SendDone \/ Post \/ \E t \in Topics : TakeMessage(t)
    BY <2>10, SurviveStays DEF TakeSignal, TakeWorkerDead, SendDone, Post, TakeMessage, disk, past
  <2>11. CASE Exit \/ \E t \in Topics : Fetch(t)
    BY <2>11, SurviveStays DEF Exit, Halt, Fetch, disk, msg, past
  <2>12. CASE Environment
    <3>1. UNCHANGED <<file, old, base>>
      BY <2>12 DEF Environment, Produce, Crash, Signal, WorkerDies, disk, past
    <3>2. \/ pc' = "down" \/ UNCHANGED <<pc, cur>>
          \/ pc \notin {"down", "create", "write"} /\ pc' \notin {"create", "write"}
      BY <2>12 DEF Environment, Produce, Crash, Halt, Signal, WorkerDies, msg
    <3>3. QED
      BY <3>1, <3>2, SurviveStays
  <2>13. QED
    BY <2>1, <2>2, <2>3, <2>4, <2>5, <2>6, <2>7, <2>8, <2>9, <2>10, <2>11, <2>12
       DEF Next, Loop, Process
<1>3. SurviveInv => PositionSurvives
  BY DEF SurviveInv, PositionSurvives
<1>4. QED
  BY <1>1, <1>2, <1>3, TypeCorrect, PTL DEF Spec

----------------------------------------------------------------------------
(* ReplayBounded and AtLeastOnce, by the inductive invariant MarkInv. *)

LEMMA FileType ==
  ASSUME TypeOK, NEW t \in Topics
  PROVE  file[t] \in Int /\ old[t] \in Int
  BY DEF TypeOK, DiskOK, FileValues, Offs, Newest, Oldest, Empty, Absent

LEMMA MarkType ==
  ASSUME TypeOK, NEW t \in Topics
  PROVE  Mark(t) \in Nat /\ pos[t] \in Nat /\ Len(journal[t]) \in Nat
<1>1. file[t] \in Int /\ old[t] \in Int
  BY FileType
<1>2. pos[t] \in Nat /\ journal[t] \in Seq(AllKinds)
  BY DEF TypeOK, InputOK, DiskOK
<1>3. Mark(t) \in Nat
  BY <1>1 DEF Mark, Committed
<1>4. QED
  BY <1>2, <1>3

\* While the files stay, so do the marks.
LEMMA MarkStays ==
  ASSUME UNCHANGED <<file, old>>, NEW t
  PROVE  Mark(t)' = Mark(t)
  BY DEF Mark, Committed

\* Only the last write of a commit can move a mark.
LEMMA MarkKept ==
  ASSUME TypeOK, MarkInv, Start \/ StartFails \/ CommitRename \/ CommitCreate, NEW t \in Topics
  PROVE  Mark(t)' = Mark(t)
<1>1. CASE Start
  BY <1>1 DEF Start, Fresh, Mark, Committed, TypeOK, DiskOK, Stored, Empty, Oldest
<1>2. CASE StartFails
  BY <1>2 DEF StartFails, Mark, Committed, TypeOK, DiskOK, Stored, Empty, Absent, Oldest
<1>3. CASE CommitRename
  <2>1. pc = "commit" /\ UNCHANGED journal /\ cur.t \in Topics
    BY <1>3 DEF CommitRename, TypeOK, MsgOK
  <2>2. Stored(file[t]) \/ ~Stored(old[t])
    BY <2>1 DEF MarkInv, FilesInOrder, InCommit
  <2>3. /\ old'[t] = IF t = cur.t THEN file[t] ELSE old[t]
        /\ file'[t] = IF t = cur.t THEN Absent ELSE file[t]
    BY <1>3, <2>1 DEF CommitRename, Backup, TypeOK, DiskOK
  <2>4. file[t] \in Int /\ old[t] \in Int
    BY FileType
  <2>5. QED
    BY <2>2, <2>3, <2>4 DEF Mark, Committed, Stored, Absent, Oldest
<1>4. CASE CommitCreate
  <2>1. pc = "create" /\ cur.t \in Topics
    BY <1>4 DEF CommitCreate, TypeOK, MsgOK
  <2>2. /\ old'[t] = old[t]
        /\ file'[t] = IF t = cur.t THEN Empty ELSE file[t]
    BY <1>4, <2>1 DEF CommitCreate, TypeOK, DiskOK
  <2>3. t = cur.t => ~Stored(file[t])
    BY <2>1 DEF MarkInv, FilesInOrder, InCommit
  <2>4. QED
    BY <2>2, <2>3 DEF Mark, Committed, Stored, Empty, Oldest
<1>5. QED
  BY <1>1, <1>2, <1>3, <1>4

\* The last write of a commit: the mark of its topic passes one message, which was
\* handled, or stays if the daemon is only starting.
LEMMA MarkMoves ==
  ASSUME TypeOK, SkipInv, MarkInv, CommitWrite
  PROVE  /\ cur.t \in Topics /\ cur.o \in Nat /\ cur.o >= 0
         /\ \A t \in Topics : Stored(file'[t]) <=> t = cur.t \/ Stored(file[t])
         /\ main = "init" => \A t \in Topics : Mark(t)' = Mark(t)
         /\ main # "init" =>
              /\ Mark(cur.t) = cur.o /\ pos[cur.t] = cur.o + 1 /\ Here \in handled
              /\ \A t \in Topics : Mark(t)' = IF t = cur.t THEN cur.o + 1 ELSE Mark(t)
<1>1. /\ cur.t \in Topics /\ cur.o \in Nat /\ pc = "write" /\ pc # "down"
  BY DEF CommitWrite, TypeOK, MsgOK
<1>2. \A t \in Topics : /\ old'[t] = old[t]
                        /\ file'[t] = IF t = cur.t THEN Target ELSE file[t]
  BY <1>1 DEF CommitWrite, TypeOK, DiskOK
<1>3. Target \in Int /\ Stored(Target) /\ Target # Newest
  BY <1>1 DEF Target, Stored, TypeOK, InputOK, Offs, Oldest, Newest, SkipInv, PositionsSafe
<1>4. \A t \in Topics : Stored(file'[t]) <=> t = cur.t \/ Stored(file[t])
  BY <1>2, <1>3
<1>5. \A t \in Topics \ {cur.t} : Mark(t)' = Mark(t)
  BY <1>2 DEF Mark, Committed
<1>6. \A t \in Topics : t = cur.t => Mark(t)' = AsMark(Target)
  BY <1>1, <1>2, <1>3 DEF Mark, AsMark, Committed
<1>7. ASSUME main = "init", NEW t \in Topics, t = cur.t PROVE Mark(t)' = Mark(t)
  BY <1>1, <1>6, <1>7 DEF Target, MarkInv, BootMarks
<1>8. ASSUME main # "init"
      PROVE  /\ Mark(cur.t) = cur.o /\ pos[cur.t] = cur.o + 1 /\ Here \in handled
             /\ \A t \in Topics : t = cur.t => Mark(t)' = cur.o + 1
  <2>1. Busy
    BY <1>1, <1>8 DEF Busy
  <2>2. Mark(cur.t) = cur.o /\ pos[cur.t] = cur.o + 1
    BY <1>1, <1>8, <2>1 DEF MarkInv, ServeMarks, InCommit
  <2>3. Safe(handled, cur.t, cur.o + 1)
    BY <1>1, <1>8 DEF SkipInv, MessageSafe
  <2>4. Here \in handled
    BY <1>1, <2>3 DEF Safe, Here
  <2>5. \A t \in Topics : t = cur.t => Mark(t)' = cur.o + 1
    BY <1>1, <1>6, <1>8 DEF Target, AsMark
  <2>6. QED
    BY <2>2, <2>4, <2>5
<1>9. QED
  BY <1>1, <1>4, <1>5, <1>7, <1>8

\* The marks and the journals are all that outlives the process.
LEMMA HaltMark ==
  ASSUME TypeOK', Halt, ReplayBounded',
         \A t \in Topics : Len(journal'[t]) <= MaxLen[t] /\ Mark(t)' <= Len(journal'[t])
  PROVE  MarkInv'
<1>1. FilesInOrder' /\ BootMarks' /\ ServeMarks'
  BY DEF Halt, FilesInOrder, InCommit, BootMarks, ServeMarks
<1>2. WithinJournal'
  <2> SUFFICES ASSUME NEW t \in Topics
               PROVE  pos'[t] <= Len(journal'[t]) /\ rd'[t] # "holding"
    BY DEF WithinJournal
  <2>1. pos'[t] = 0 /\ rd'[t] = "none"
    BY DEF Halt
  <2>2. Len(journal'[t]) \in Nat
    BY DEF TypeOK, DiskOK
  <2>3. QED
    BY <2>1, <2>2
<1>3. QED
  BY <1>1, <1>2 DEF MarkInv

LEMMA ReplayStays ==
  ASSUME TypeOK, ReplayBounded, executed' = executed,
         \A t \in Topics : Mark(t)' = Mark(t)
  PROVE  ReplayBounded'
<1>1. \A m \in executed : m[1] \in Topics
  BY DEF TypeOK, PastOK
<1>2. QED
  BY <1>1 DEF ReplayBounded

\* A step that moves no mark, no reader and no message.
LEMMA QuietMark ==
  ASSUME TypeOK, MarkInv, ReplayBounded',
         UNCHANGED <<journal, file, old, offsets, pos, todo, cur, stops>>,
         main = "init" <=> main' = "init", interrupt => interrupt',
         pc \in {"create", "write"} <=> pc' \in {"create", "write"},
         pc = "down" <=> pc' = "down", pc = "query" <=> pc' = "query",
         \A t \in Topics : rd'[t] = "holding" => pos[t] < Len(journal[t]),
         Busy' => Busy, Busy /\ ~Busy' => interrupt' \/ Passed(cur.t),
         Busy' /\ ~interrupt' /\ pc = "process" /\ Stopping => pc' = "process"
  PROVE  MarkInv'
<1>1. \A t : Mark(t)' = Mark(t) /\ (InCommit(t)' <=> InCommit(t)) /\ (Passed(t)' <=> Passed(t))
  BY MarkStays DEF InCommit, Passed, StopOffset
<1>2. FilesInOrder' /\ WithinJournal'
  BY <1>1 DEF MarkInv, FilesInOrder, WithinJournal
<1>3. BootMarks'
  BY <1>1 DEF MarkInv, BootMarks
<1>4. ServeMarks'
  <2> SUFFICES ASSUME main' # "init", NEW t \in Topics
               PROVE  IF Busy' /\ cur.t = t
                        THEN /\ pos[t] = cur.o + 1 /\ Mark(t) <= cur.o
                             /\ ~interrupt' \/ InCommit(t) =>
                                  Mark(t) = cur.o \/ (pc' = "process" /\ Stopping')
                        ELSE Mark(t) <= pos[t] /\ (interrupt' \/ Passed(t) \/ Mark(t) = pos[t])
    BY <1>1 DEF ServeMarks
  <2>1. Mark(t) \in Nat /\ cur.o \in Nat
    BY MarkType DEF TypeOK, MsgOK
  <2>2. Stopping' <=> Stopping
    BY DEF Stopping, StopOffset
  <2>3. IF Busy /\ cur.t = t
          THEN /\ pos[t] = cur.o + 1 /\ Mark(t) <= cur.o
               /\ ~interrupt \/ InCommit(t) => Mark(t) = cur.o \/ (pc = "process" /\ Stopping)
          ELSE Mark(t) <= pos[t] /\ (interrupt \/ Passed(t) \/ Mark(t) = pos[t])
    BY DEF MarkInv, ServeMarks
  <2>4. CASE Busy /\ cur.t = t
    BY <2>1, <2>2, <2>3, <2>4 DEF InCommit
  <2>5. CASE ~(Busy /\ cur.t = t)
    BY <2>3, <2>5
  <2>6. QED
    BY <2>4, <2>5
<1>5. QED
  BY <1>2, <1>3, <1>4 DEF MarkInv

\* The end of the process outside a commit.
LEMMA HaltMarkStays ==
  ASSUME TypeOK, TypeOK', MarkInv, Halt, UNCHANGED <<journal, file, old, executed>>
  PROVE  MarkInv'
<1>1. \A t \in Topics : Mark(t)' = Mark(t)
  BY MarkStays
<1>2. ReplayBounded'
  BY <1>1, ReplayStays DEF MarkInv
<1>3. \A t \in Topics : Len(journal'[t]) <= MaxLen[t] /\ Mark(t)' <= Len(journal'[t])
  BY <1>1 DEF MarkInv, WithinJournal
<1>4. QED
  BY <1>2, <1>3, HaltMark

LEMMA EnvironmentMark ==
  TypeOK /\ TypeOK' /\ MarkInv /\ (Environment \/ Exit \/ \E t \in Topics : Fetch(t)) => MarkInv'
<1> SUFFICES ASSUME TypeOK, TypeOK', MarkInv, Environment \/ Exit \/ \E t \in Topics : Fetch(t)
             PROVE MarkInv'
  OBVIOUS
<1>1. UNCHANGED <<file, old, executed>> => ReplayBounded'
  BY MarkStays, ReplayStays DEF MarkInv
<1>2. ASSUME NEW t \in Topics, NEW kind \in Kinds[t], Produce(t, kind) PROVE MarkInv'
  <2>1. /\ UNCHANGED <<file, old, pc, main, offsets, pos, rd, todo, cur, stops, interrupt, executed>>
        /\ \A s : (Mark(s)' = Mark(s)) /\ (InCommit(s)' <=> InCommit(s)) /\ (Passed(s)' <=> Passed(s))
    BY <1>2, MarkStays DEF Produce, InCommit, Passed, StopOffset, conf, input, msg, flags, past
  <2>2. FilesInOrder' /\ BootMarks'
    BY <2>1 DEF MarkInv, FilesInOrder, BootMarks
  <2>3. ServeMarks'
    BY <2>1 DEF MarkInv, ServeMarks, Busy, Stopping, StopOffset
  <2>4. WithinJournal'
    <3>1. journal'[t] = Append(journal[t], kind) /\ Len(journal[t]) < MaxLen[t] /\ journal[t] \in Seq(AllKinds)
      BY <1>2 DEF Produce, TypeOK, DiskOK
    <3>2. Len(journal'[t]) = Len(journal[t]) + 1 /\ Len(journal[t]) \in Nat
      BY <3>1
    <3>3. \A s \in Topics \ {t} : journal'[s] = journal[s]
      BY <1>2 DEF Produce, TypeOK, DiskOK
    <3>4. MaxLen[t] \in Nat /\ \A s \in Topics : Mark(s) \in Nat /\ pos[s] \in Nat
      BY MarkType, ExecdAssumption DEF ExecdAssumption
    <3>5. QED
      BY <2>1, <3>1, <3>2, <3>3, <3>4 DEF MarkInv, WithinJournal
  <2>5. QED
    BY <1>1, <2>1, <2>2, <2>3, <2>4 DEF MarkInv
<1>3. CASE Crash \/ Exit
  BY <1>3, HaltMarkStays DEF Crash, Exit, disk, past
<1>4. CASE Signal
  BY <1>1, <1>4, QuietMark DEF Signal, Busy, MarkInv, WithinJournal, disk, conf, input, msg
<1>5. CASE WorkerDies
  BY <1>1, <1>5, QuietMark DEF WorkerDies, Busy, MarkInv, WithinJournal, disk, conf, input, msg
<1>6. ASSUME NEW t \in Topics, Fetch(t) PROVE MarkInv'
  <2>1. \A s \in Topics : rd'[s] = "holding" => pos[s] < Len(journal[s])
    BY <1>6 DEF Fetch, TypeOK, InputOK, MarkInv, WithinJournal
  <2>2. QED
    BY <1>1, <1>6, <2>1, QuietMark DEF Fetch, Busy, disk, conf, msg, flags, past
<1>7. QED
  BY <1>2, <1>3, <1>4, <1>5, <1>6 DEF Environment

LEMMA BootMark ==
  ASSUME FirstOffset # Newest
  PROVE  TypeOK /\ TypeOK' /\ SkipInv /\ MarkInv /\ (Start \/ StartFails \/ Boot) => MarkInv'
<1> SUFFICES ASSUME TypeOK, TypeOK', SkipInv, MarkInv, Start \/ StartFails \/ Boot PROVE MarkInv'
  OBVIOUS
<1>0. pc = "down" \/ pc = "query" \/ pc = "consume" \/ pc = "partition"
  BY DEF Start, StartFails, Boot, QueryOffsets, ConsumeTopic, ConsumePartition, Serve
<1>1. main = "init" /\ ~Busy /\ ~Busy' /\ \A t : ~InCommit(t)
  BY <1>0 DEF SkipInv, PlacesAgree, BootPcs, Busy, InCommit, Start, StartFails, Boot, QueryOffsets, ConsumeTopic,
     ConsumePartition, Serve
<1>2. CASE Start \/ StartFails
  <2>1. \A t \in Topics : Mark(t)' = Mark(t)
    BY <1>2, MarkKept
  <2>2. /\ pc = "down" /\ main' = "init"
        /\ UNCHANGED <<journal, old, pos, rd, executed>>
    BY <1>1, <1>2 DEF Start, StartFails, input, past
  <2>3. ReplayBounded' /\ WithinJournal'
    BY <2>1, <2>2, ReplayStays DEF MarkInv, WithinJournal
  <2>4. CASE Start
    <3>1. /\ \A t \in Topics : /\ file'[t] = IF Fresh(t) THEN Empty ELSE file[t]
                               /\ offsets'[t] = IF Fresh(t) THEN FirstOffset ELSE file[t]
                               /\ Stored(file[t]) \/ Fresh(t)
          /\ pc' = "query"
      BY <2>4 DEF Start
    <3>2. ASSUME NEW t \in Topics PROVE AsMark(offsets'[t]) = Mark(t)'
      <4>1. file[t] \in Int /\ old[t] \in Int
        BY FileType
      <4>2. FirstOffset = Oldest \/ FirstOffset = 0
        BY ExecdAssumption DEF ExecdAssumption
      <4>3. QED
        BY <2>2, <3>1, <4>1, <4>2 DEF AsMark, Mark, Committed, Fresh, Stored, Newest, Oldest, Empty
    <3>3. BootMarks' /\ ServeMarks'
      BY <2>2, <3>1, <3>2 DEF BootMarks, ServeMarks
    <3>4. FilesInOrder'
      BY <2>2, <3>1 DEF FilesInOrder, InCommit, Fresh, Stored
    <3>5. QED
      BY <2>3, <3>3, <3>4 DEF MarkInv
  <2>5. CASE StartFails
    BY <1>1, <2>2, <2>3, <2>5 DEF StartFails, MarkInv, FilesInOrder, InCommit, BootMarks, ServeMarks
  <2>6. QED
    BY <1>2, <2>4, <2>5
<1>3. CASE Boot
  <2>1. UNCHANGED <<journal, file, old, offsets, stops, executed, flags>> /\ pc' # "down" /\ pc' # "query"
        /\ pc # "down" /\ \A t : ~InCommit(t)'
    BY <1>3 DEF Boot, QueryOffsets, ConsumeTopic, ConsumePartition, Serve, InCommit, disk, conf, flags, past
  <2>2. \A t : Mark(t)' = Mark(t)
    BY <2>1, MarkStays
  <2>3. ReplayBounded' /\ FilesInOrder'
    BY <1>1, <2>1, <2>2, ReplayStays DEF MarkInv, FilesInOrder
  <2>4. CASE QueryOffsets \/ \E t \in Topics : ConsumeTopic(t)
    <3>1. UNCHANGED <<main, pos, rd>> /\ (todo' = Topics \/ (pc # "query" /\ todo' = todo))
      BY <2>4 DEF QueryOffsets, ConsumeTopic, input
    <3>2. QED
      BY <1>1, <2>1, <2>2, <2>3, <3>1 DEF MarkInv, BootMarks, ServeMarks, WithinJournal
  <2>5. CASE ConsumePartition
    <3>1. cur.t \in Topics /\ pc = "partition" /\ UNCHANGED main /\ todo' = todo \ {cur.t}
      BY <2>5 DEF ConsumePartition, TypeOK, MsgOK
    <3>2. FirstMessage(cur.t) = Mark(cur.t)
      BY <1>1, <2>1, <3>1 DEF FirstMessage, SkipInv, PositionsSafe, MarkInv, BootMarks, AsMark, TypeOK, InputOK, Offs,
         Newest, Oldest
    <3>3. \A t \in Topics : /\ pos'[t] = IF t = cur.t THEN Mark(t) ELSE pos[t]
                            /\ rd'[t] = IF t = cur.t THEN "select" ELSE rd[t]
      BY <2>5, <3>1, <3>2 DEF ConsumePartition, TypeOK, InputOK
    <3>4. BootMarks' /\ ServeMarks'
      BY <1>1, <2>1, <2>2, <3>1, <3>3 DEF MarkInv, BootMarks, ServeMarks
    <3>5. WithinJournal'
      BY <2>1, <2>2, <3>3 DEF MarkInv, WithinJournal
    <3>6. QED
      BY <2>3, <3>4, <3>5 DEF MarkInv
  <2>6. CASE Serve
    <3>1. main' = "wait" /\ pc = "consume" /\ todo = {} /\ UNCHANGED <<pos, rd>>
      BY <2>6 DEF Serve, input
    <3>2. \A t \in Topics : pos'[t] = Mark(t)' /\ Mark(t)' \in Nat
      BY <1>1, <2>2, <3>1, MarkType DEF MarkInv, BootMarks
    <3>3. BootMarks' /\ ServeMarks'
      BY <1>1, <3>1, <3>2 DEF BootMarks, ServeMarks
    <3>4. WithinJournal'
      BY <2>1, <2>2, <3>1 DEF MarkInv, WithinJournal
    <3>5. QED
      BY <2>3, <3>3, <3>4 DEF MarkInv
  <2>7. QED
    BY <1>3, <2>4, <2>5, <2>6 DEF Boot
<1>4. QED
  BY <1>2, <1>3

\* commitOffset, and its return to either caller.
LEMMA CommitMark ==
  TypeOK /\ TypeOK' /\ SkipInv /\ MarkInv /\ (CommitRefused \/ CommitRename \/ CommitCreate \/ CommitWrite)
    => MarkInv'
<1> SUFFICES ASSUME TypeOK, TypeOK', SkipInv, MarkInv,
                    CommitRefused \/ CommitRename \/ CommitCreate \/ CommitWrite
             PROVE MarkInv'
  OBVIOUS
<1>1. cur.t \in Topics /\ cur.o \in Nat /\ UNCHANGED <<journal, executed>>
  BY DEF TypeOK, MsgOK, CommitRefused, CommitRename, CommitCreate, CommitWrite, disk, past
<1>2. Busy <=> main # "init"
  BY DEF Busy, CommitRefused, CommitRename, CommitCreate, CommitWrite
<1>3. CASE CommitRefused
  <2>1. interrupt /\ UNCHANGED <<file, old>> /\ pc = "commit"
    BY <1>3 DEF CommitRefused, CommitAllowed, disk
  <2>2. CASE main # "init" /\ panicking
    BY <1>1, <1>3, <2>1, <2>2, HaltMarkStays DEF CommitRefused, CommitReturns
  <2>3. CASE ~(main # "init" /\ panicking)
    <3>1. /\ UNCHANGED <<main, offsets, reached, conf, input, msg, flags, hook>>
          /\ pc' = IF main = "init" THEN "partition" ELSE "post"
      BY <1>3, <2>3 DEF CommitRefused, CommitReturns
    <3>2. ReplayBounded'
      BY <1>1, <2>1, MarkStays, ReplayStays DEF MarkInv
    <3>3. ~Busy' /\ (Busy => interrupt')
      BY <2>1, <3>1 DEF Busy, flags
    <3>4. QED
      BY <1>1, <2>1, <3>1, <3>2, <3>3, QuietMark DEF conf, input, msg, flags, MarkInv, WithinJournal
  <2>4. QED
    BY <2>2, <2>3
<1>4. CASE CommitRename \/ CommitCreate
  <2>1. \A t \in Topics : Mark(t)' = Mark(t)
    BY <1>4, MarkKept
  <2>2. /\ pc \in {"commit", "create"} /\ pc' \in {"create", "write"}
        /\ pc = "commit" => ~interrupt
        /\ UNCHANGED <<main, pos, rd, todo, cur, interrupt, stops>>
    BY <1>4 DEF CommitRename, CommitCreate, CommitAllowed, input, msg, flags, conf
  <2>3. FilesInOrder'
    <3>1. ~Stored(file'[cur.t])
      BY <1>1, <1>4 DEF CommitRename, CommitCreate, TypeOK, DiskOK, Stored, Absent, Empty, Oldest
    <3>2. \A t \in Topics \ {cur.t} : file'[t] = file[t] /\ old'[t] = old[t]
      BY <1>1, <1>4 DEF CommitRename, CommitCreate, TypeOK, DiskOK
    <3>3. QED
      BY <2>2, <3>1, <3>2 DEF MarkInv, FilesInOrder, InCommit, Stored
  <2>4. BootMarks'
    <3>1. main = "init" => offsets' = offsets
      BY <1>1, <1>4 DEF CommitRename, CommitCreate, Target, TypeOK, InputOK
    <3>2. QED
      BY <2>1, <2>2, <3>1 DEF MarkInv, BootMarks
  <2>5. ServeMarks'
    <3> SUFFICES ASSUME main # "init", NEW t \in Topics
                 PROVE  IF cur.t = t
                          THEN /\ pos[t] = cur.o + 1 /\ Mark(t) <= cur.o /\ Mark(t) = cur.o
                          ELSE Mark(t) <= pos[t] /\ (interrupt \/ Passed(t) \/ Mark(t) = pos[t])
      BY <2>1, <2>2 DEF ServeMarks, Busy, InCommit, Passed, StopOffset
    <3>1. QED
      BY <1>2, <2>2 DEF MarkInv, ServeMarks, InCommit
  <2>6. WithinJournal' /\ ReplayBounded'
    BY <1>1, <2>1, <2>2, ReplayStays DEF MarkInv, WithinJournal
  <2>7. QED
    BY <2>3, <2>4, <2>5, <2>6 DEF MarkInv
<1>5. CASE CommitWrite
  <2>0. \A t \in Topics : Mark(t) \in Nat /\ pos[t] \in Nat /\ Len(journal[t]) \in Nat
    BY MarkType
  <2>1. \A t \in Topics : Mark(t) \in Nat /\ Mark(t)' \in Nat /\ pos[t] \in Nat /\ Len(journal[t]) \in Nat
    BY <1>1, <1>5, <2>0, MarkMoves
  <2>2. \A t \in Topics : Mark(t) <= Mark(t)' /\ Mark(t)' <= Len(journal[t])
    BY <1>1, <1>5, <2>1, MarkMoves DEF MarkInv, WithinJournal
  <2>3. ReplayBounded'
    <3>1. \A m \in executed : m[1] \in Topics /\ m[2] \in Nat
      BY DEF TypeOK, PastOK
    <3>2. QED
      BY <1>1, <2>1, <2>2, <3>1 DEF MarkInv, ReplayBounded
  <2>4. CASE main # "init" /\ panicking
    <3>1. Halt
      BY <1>5, <2>4 DEF CommitWrite, CommitReturns
    <3>2. \A t \in Topics : Len(journal'[t]) <= MaxLen[t] /\ Mark(t)' <= Len(journal'[t])
      BY <1>1, <2>2 DEF MarkInv, WithinJournal
    <3>3. QED
      BY <2>3, <3>1, <3>2, HaltMark
  <2>5. CASE ~(main # "init" /\ panicking)
    <3>1. /\ UNCHANGED <<main, offsets, pos, rd, todo, cur, stops, interrupt>>
          /\ pc' = IF main = "init" THEN "partition" ELSE "post"
          /\ pc = "write"
      BY <1>5, <2>5 DEF CommitWrite, CommitReturns, conf, input, msg, flags
    <3>2. FilesInOrder'
      <4>1. \A t \in Topics : Stored(file'[t]) <=> t = cur.t \/ Stored(file[t])
        BY <1>5, MarkMoves
      <4>2. old' = old
        BY <1>5 DEF CommitWrite
      <4>3. QED
        BY <3>1, <4>1, <4>2 DEF MarkInv, FilesInOrder, InCommit
    <3>3. BootMarks'
      BY <1>5, <3>1, MarkMoves DEF MarkInv, BootMarks
    <3>4. ServeMarks'
      <4> SUFFICES ASSUME main # "init", NEW t \in Topics
                   PROVE  Mark(t)' <= pos[t] /\ (interrupt \/ Passed(t) \/ Mark(t)' = pos[t])
        BY <3>1 DEF ServeMarks, Busy, Passed, StopOffset
      <4>1. CASE t = cur.t
        BY <1>5, <2>1, <4>1, MarkMoves
      <4>2. CASE t # cur.t
        <5>1. Mark(t)' = Mark(t)
          BY <1>5, <4>2, MarkMoves
        <5>2. QED
          BY <1>2, <4>2, <5>1 DEF MarkInv, ServeMarks
      <4>3. QED
        BY <4>1, <4>2
    <3>5. WithinJournal'
      BY <1>1, <2>2, <3>1 DEF MarkInv, WithinJournal
    <3>6. QED
      BY <2>3, <3>2, <3>3, <3>4, <3>5 DEF MarkInv
  <2>6. QED
    BY <2>4, <2>5
<1>6. QED
  BY <1>3, <1>4, <1>5

\* Commands are executed at the mark only.
LEMMA ExecutedAtMark ==
  ASSUME TypeOK, SkipInv, MarkInv, Process
  PROVE  /\ Busy /\ cur.t \in Topics /\ cur.o \in Nat /\ Mark(cur.t) \in Nat
         /\ Mark(cur.t) <= cur.o /\ cur.o < Len(journal[cur.t])
         /\ executed' # executed => executed' = executed \cup {Here} /\ Mark(cur.t) = cur.o
         /\ UNCHANGED <<journal, file, old>>
<1>1. /\ pc \in {"process", "defer", "woken", "due", "exec", "test", "report"}
      /\ UNCHANGED <<journal, file, old>>
  BY DEF Process, StopReached, Unwanted, Wanted, Woken, Due, ExecCommand, BatchDone, TestWorkers, SendReport, disk
<1>2. Busy /\ cur.t \in Topics /\ cur.o \in Nat
  BY <1>1 DEF SkipInv, PlacesAgree, BootPcs, Busy, TypeOK, MsgOK
<1>3. Mark(cur.t) \in Nat /\ pos[cur.t] \in Nat /\ Len(journal[cur.t]) \in Nat
  BY <1>2, MarkType
<1>4. /\ pos[cur.t] = cur.o + 1 /\ Mark(cur.t) <= cur.o
      /\ ~interrupt => Mark(cur.t) = cur.o \/ pc = "process"
  BY <1>2 DEF MarkInv, ServeMarks, Busy
<1>5. pos[cur.t] <= Len(journal[cur.t])
  BY <1>2 DEF MarkInv, WithinJournal
<1>6. executed' # executed => pc = "exec" /\ ~interrupt /\ executed' = executed \cup {Here}
  BY DEF Process, StopReached, Unwanted, Wanted, Woken, Due, ExecCommand, Refuses, BatchDone, TestWorkers, SendReport, past
<1>7. QED
  BY <1>1, <1>2, <1>3, <1>4, <1>5, <1>6

LEMMA ProcessMark == TypeOK /\ TypeOK' /\ SkipInv /\ MarkInv /\ Process => MarkInv'
<1> SUFFICES ASSUME TypeOK, TypeOK', SkipInv, MarkInv, Process PROVE MarkInv'
  OBVIOUS
<1>1. /\ Busy /\ cur.t \in Topics /\ cur.o \in Nat /\ Mark(cur.t) \in Nat
      /\ UNCHANGED <<journal, file, old>>
  BY ExecutedAtMark
<1>2. \A t : Mark(t)' = Mark(t)
  BY <1>1, MarkStays
<1>3. ReplayBounded'
  <2>1. CASE executed' = executed
    BY <1>2, <2>1, ReplayStays DEF MarkInv
  <2>2. CASE executed' # executed
    BY <1>1, <1>2, <2>2, ExecutedAtMark DEF MarkInv, ReplayBounded, Here
  <2>3. QED
    BY <2>1, <2>2
<1>4. CASE StopReached /\ AllStopped(reached \cup {cur.t})
  BY <1>1, <1>4, HaltMarkStays DEF StopReached, past
<1>5. CASE StopReached /\ ~AllStopped(reached \cup {cur.t})
  <2>1. /\ pc = "process" /\ Stopping /\ pc' = "post"
        /\ UNCHANGED <<main, offsets, pos, rd, todo, cur, interrupt, stops>>
    BY <1>5 DEF StopReached, AfterStop, conf, input, msg, flags
  <2>2. Passed(cur.t)
    <3>1. StopOffset(cur.t) \in Nat
      BY <1>1, ExecdAssumption DEF ExecdAssumption, StopOffset, TypeOK, ConfOK
    <3>2. pos[cur.t] = cur.o + 1
      BY <1>1, <2>1 DEF MarkInv, ServeMarks, Busy
    <3>3. QED
      BY <1>1, <2>1, <3>1, <3>2 DEF Stopping, Passed
  <2>3. QED
    BY <1>1, <1>3, <2>1, <2>2, QuietMark DEF Busy, MarkInv, WithinJournal
<1>6. ASSUME ~StopReached PROVE MarkInv'
  <2>1. /\ pc \in {"process", "defer", "woken", "due", "exec", "test", "report"}
        /\ pc' \in {"defer", "woken", "due", "exec", "test", "report", "commit", "post"}
        /\ pc' = "post" => interrupt'
        /\ pc = "process" => ~Stopping
        /\ interrupt => interrupt'
        /\ UNCHANGED <<main, offsets, pos, rd, todo, cur, stops>>
    BY <1>6 DEF Process, Unwanted, Wanted, Woken, Due, ExecCommand, BatchDone, AfterBatch, TestWorkers, SendReport,
       conf, input, msg, flags
  <2>2. QED
    BY <1>1, <1>3, <2>1, QuietMark DEF Busy, MarkInv, WithinJournal
<1>7. QED
  BY <1>4, <1>5, <1>6

LEMMA LoopMark == TypeOK /\ TypeOK' /\ SkipInv /\ MarkInv /\ Loop => MarkInv'
<1> SUFFICES ASSUME TypeOK, TypeOK', SkipInv, MarkInv, Loop PROVE MarkInv'
  OBVIOUS
<1>1. UNCHANGED <<file, old, executed>> => ReplayBounded'
  BY MarkStays, ReplayStays DEF MarkInv
<1>2. ASSUME NEW t \in Topics, TakeMessage(t) PROVE MarkInv'
  <2>1. /\ pc = "select" /\ pc' = "process" /\ main # "init" /\ rd[t] = "holding"
        /\ cur' = [t |-> t, o |-> pos[t]]
        /\ UNCHANGED <<journal, file, old, main, offsets, todo, stops, interrupt, executed>>
    BY <1>2 DEF TakeMessage, SkipInv, PlacesAgree, BootPcs, disk, conf, flags, past
  <2>2. /\ \A s \in Topics : pos'[s] = IF s = t THEN pos[t] + 1 ELSE pos[s]
        /\ \A s \in Topics : rd'[s] = "holding" => s # t /\ rd[s] = "holding"
    BY <1>2 DEF TakeMessage, NextRead, TypeOK, InputOK
  <2>3. \A s : Mark(s)' = Mark(s)
    BY <2>1, MarkStays
  <2>4. \A s \in Topics : Mark(s) \in Nat /\ pos[s] \in Nat /\ Len(journal[s]) \in Nat
    BY MarkType
  <2>5. FilesInOrder' /\ BootMarks'
    BY <2>1, <2>3 DEF MarkInv, FilesInOrder, InCommit, BootMarks
  <2>6. WithinJournal'
    BY <2>1, <2>2, <2>3, <2>4 DEF MarkInv, WithinJournal
  <2>7. ServeMarks'
    <3> SUFFICES ASSUME NEW s \in Topics
                 PROVE  IF s = t
                          THEN /\ pos'[s] = pos[t] + 1 /\ Mark(s) <= pos[t]
                               /\ interrupt \/ Mark(s) = pos[t] \/ Stopping'
                          ELSE Mark(s) <= pos'[s] /\ (interrupt \/ Passed(s)' \/ Mark(s) = pos'[s])
      BY <2>1, <2>3 DEF ServeMarks, Busy, InCommit
    <3>1. Mark(s) <= pos[s] /\ (interrupt \/ Passed(s) \/ Mark(s) = pos[s])
      BY <2>1 DEF MarkInv, ServeMarks, Busy
    <3>2. CASE s = t
      BY <2>1, <2>2, <3>1, <3>2 DEF Passed, Stopping, StopOffset
    <3>3. CASE s # t
      BY <2>1, <2>2, <3>1, <3>3 DEF Passed, StopOffset
    <3>4. QED
      BY <3>2, <3>3
  <2>8. QED
    BY <1>1, <2>1, <2>5, <2>6, <2>7 DEF MarkInv
<1>3. CASE TakeSignal \/ TakeWorkerDead \/ SendDone \/ Post
  <2>1. /\ pc \in {"select", "done", "postdone", "post"}
        /\ pc' \in {"select", "done", "postdone", "post"}
        /\ UNCHANGED <<journal, file, old, offsets, pos, rd, todo, cur, stops, executed>>
        /\ main = "init" <=> main' = "init"
        /\ interrupt => interrupt'
    BY <1>3 DEF TakeSignal, TakeWorkerDead, SendDone, Post, disk, conf, input, msg, flags, past
  <2>2. QED
    BY <1>1, <2>1, QuietMark DEF Busy, MarkInv, WithinJournal
<1>4. QED
  BY <1>2, <1>3, CommitMark, ProcessMark DEF Loop, Process

\* MarkInv holds in every state, and ...
THEOREM MarkInvCorrect == FirstOffset # Newest => (Spec => []MarkInv)
<1>1. SUFFICES ASSUME FirstOffset # Newest PROVE Spec => []MarkInv
  OBVIOUS
<1>2. Init => MarkInv
  <2> SUFFICES ASSUME Init PROVE MarkInv
    OBVIOUS
  <2>1. \A t \in Topics : Mark(t) = 0 /\ Len(journal[t]) = 0
    BY DEF Init, Mark, Committed, Stored, Absent, Oldest
  <2>2. QED
    BY <2>1, ExecdAssumption DEF ExecdAssumption, Init, MarkInv, FilesInOrder, InCommit, BootMarks, ServeMarks, WithinJournal,
       ReplayBounded
<1>3. TypeOK /\ TypeOK' /\ SkipInv /\ MarkInv /\ [Next]_vars => MarkInv'
  <2> SUFFICES ASSUME TypeOK, TypeOK', SkipInv, MarkInv, [Next]_vars PROVE MarkInv'
    OBVIOUS
  <2>1. CASE UNCHANGED vars
    <3>1. ReplayBounded'
      BY <2>1, MarkStays, ReplayStays DEF MarkInv, vars, disk, past
    <3>2. QED
      BY <2>1, <3>1, QuietMark DEF vars, disk, conf, input, msg, flags, hook, past, Busy, MarkInv, WithinJournal
  <2>2. CASE Next
    BY <1>1, <2>2, EnvironmentMark, BootMark, LoopMark DEF Next
  <2>3. QED
    BY <2>1, <2>2
<1>4. QED
  BY <1>1, <1>2, <1>3, TypeCorrect, SkipInvCorrect, PTL DEF Spec

\* ... with it ReplayBounded: of the messages ever executed in part or whole, a
\* restart repeats at most the one at the stored position of each topic.
THEOREM ReplayBoundedCorrect == Spec => []ReplayBounded
<1>1. CASE FirstOffset # Newest
  <2>1. MarkInv => ReplayBounded
    BY DEF MarkInv
  <2>2. QED
    BY <1>1, <2>1, MarkInvCorrect, PTL
<1>2. CASE FirstOffset = Newest
  <2>1. ReplayBounded
    BY <1>2 DEF ReplayBounded
  <2>2. QED
    BY <2>1, PTL
<1>3. QED
  BY <1>1, <1>2

----------------------------------------------------------------------------
(* The daemon implements AtLeastOnce. *)

\* What a step does that AtLeastOnce speaks of: the commit of a message, a message
\* handled or executed, or nothing.
LEMMA CommitImplements ==
  ASSUME TypeOK, SkipInv, MarkInv, CommitWrite
  PROVE  Promise!Next \/ UNCHANGED Promise!vars
<1> DEFINE mark == [t \in Topics |-> Mark(t)]
<1>1. UNCHANGED <<handled, executed>>
  BY DEF CommitWrite, past
<1>2. CASE main = "init"
  <2>1. UNCHANGED mark
    BY <1>2, MarkMoves
  <2>2. QED
    BY <1>1, <2>1 DEF Promise!vars
<1>3. CASE main # "init"
  <2>1. /\ cur.t \in Topics /\ <<cur.t, mark[cur.t]>> \in handled
        /\ mark' = [mark EXCEPT ![cur.t] = @ + 1]
    BY <1>3, MarkMoves DEF Here
  <2>2. Promise!Advance(cur.t)
    BY <1>1, <2>1 DEF Promise!Advance
  <2>3. QED
    BY <2>1, <2>2 DEF Promise!Next
<1>4. QED
  BY <1>2, <1>3

LEMMA ProcessImplements ==
  ASSUME TypeOK, SkipInv, MarkInv, Process
  PROVE  Promise!Next \/ UNCHANGED Promise!vars
<1> DEFINE mark == [t \in Topics |-> Mark(t)]
<1>1. /\ cur.t \in Topics /\ cur.o \in Nat /\ mark[cur.t] <= cur.o /\ mark[cur.t] \in Nat
      /\ cur.o \in Offsets
      /\ executed' # executed => executed' = executed \cup {Here}
      /\ UNCHANGED mark
  <2>1. UNCHANGED mark
    BY ExecutedAtMark, MarkStays
  <2>2. /\ cur.t \in Topics /\ cur.o \in Nat /\ Mark(cur.t) <= cur.o /\ Mark(cur.t) \in Nat
        /\ cur.o < Len(journal[cur.t]) /\ Len(journal[cur.t]) \in Nat
        /\ executed' # executed => executed' = executed \cup {Here}
    BY ExecutedAtMark, MarkType
  <2>3. Len(journal[cur.t]) <= MaxLen[cur.t] /\ MaxLen[cur.t] \in Nat
    BY <2>2, ExecdAssumption DEF ExecdAssumption, MarkInv, WithinJournal
  <2>4. cur.o \in 0 .. MaxLen[cur.t] - 1
    BY <2>2, <2>3
  <2>5. QED
    BY <2>1, <2>2, <2>4 DEF Offsets
<1>2. CASE executed' # executed
  <2>1. UNCHANGED handled
    BY <1>2 DEF Process, StopReached, Unwanted, Wanted, Woken, Due, ExecCommand, BatchDone, TestWorkers,
       SendReport, past
  <2>2. Promise!Execute(cur.t, cur.o)
    BY <1>1, <1>2, <2>1 DEF Promise!Execute, Here
  <2>3. QED
    BY <1>1, <2>2 DEF Promise!Next
<1>3. CASE executed' = executed /\ handled' # handled
  <2>1. handled' = handled \cup {Here}
    BY <1>3 DEF Process, StopReached, Unwanted, Wanted, Woken, Due, ExecCommand, BatchDone, TestWorkers,
       SendReport, past
  <2>2. Promise!Handle(cur.t, cur.o)
    BY <1>1, <1>3, <2>1 DEF Promise!Handle, Here
  <2>3. QED
    BY <1>1, <2>2 DEF Promise!Next
<1>4. CASE executed' = executed /\ handled' = handled
  BY <1>1, <1>4 DEF Promise!vars
<1>5. QED
  BY <1>2, <1>3, <1>4

\* The position in the files of a topic is the mark of AtLeastOnce, unless consumption
\* started at OffsetNewest: every step of the daemon, of a crash and of a restart
\* moves the marks by one message that was handled, or not at all.
THEOREM ImplementsAtLeastOnce == FirstOffset # Newest => (Spec => AtLeastOnceSpec)
<1>1. SUFFICES ASSUME FirstOffset # Newest PROVE Spec => Promise!Spec
  BY DEF AtLeastOnceSpec
<1>2. Init => Promise!Init
  BY DEF Init, Promise!Init, Mark, Committed, Stored, Absent, Oldest
<1>3. TypeOK /\ SkipInv /\ MarkInv /\ [Next]_vars => [Promise!Next]_(Promise!vars)
  <2> SUFFICES ASSUME TypeOK, SkipInv, MarkInv, [Next]_vars
               PROVE  Promise!Next \/ UNCHANGED Promise!vars
    OBVIOUS
  <2>1. ASSUME UNCHANGED <<handled, executed>>, \A t \in Topics : Mark(t)' = Mark(t)
        PROVE  UNCHANGED Promise!vars
    BY <2>1 DEF Promise!vars
  <2>2. CASE Start \/ StartFails \/ CommitRename \/ CommitCreate
    <3>1. UNCHANGED <<handled, executed>>
      BY <2>2 DEF Start, StartFails, CommitRename, CommitCreate, past
    <3>2. QED
      BY <2>1, <2>2, <3>1, MarkKept
  <2>3. ASSUME \/ UNCHANGED vars \/ Boot \/ Exit \/ Environment \/ CommitRefused
               \/ \E t \in Topics : Fetch(t) \/ TakeMessage(t)
               \/ TakeSignal \/ TakeWorkerDead \/ SendDone \/ Post
        PROVE  UNCHANGED Promise!vars
    <3>1. UNCHANGED <<file, old, handled, executed>>
      BY <2>3 DEF vars, Boot, QueryOffsets, ConsumeTopic, ConsumePartition, Serve, Exit, Environment, Produce, Crash,
         Signal, WorkerDies, CommitRefused, Fetch, TakeMessage, TakeSignal, TakeWorkerDead, SendDone, Post, disk, past
    <3>2. QED
      BY <2>1, <3>1, MarkStays
  <2>4. CASE CommitWrite
    BY <2>4, CommitImplements
  <2>5. CASE Process
    BY <2>5, ProcessImplements
  <2>6. QED
    BY <2>2, <2>3, <2>4, <2>5 DEF Next, Loop, Process
<1>4. QED
  BY <1>1, <1>2, <1>3, TypeCorrect, SkipInvCorrect, MarkInvCorrect, PTL DEF Spec, Promise!Spec
=============================================================================
