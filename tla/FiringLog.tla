----------------------------- MODULE FiringLog ------------------------------
(***************************************************************************)
(* firing.py: FiringLog instances of several processes appending to one    *)
(* file.  Threads of a process share an instance through its               *)
(* threading.Lock; instances share the file through flock.  Every explicit *)
(* OS call may fail or be interrupted, a process may die at any step, and  *)
(* a process may fork while it records.                                    *)
(*                                                                         *)
(* A line is LineChunks chunks; one os.write appends at least one of those *)
(* that remain, which is a short write when some are left.                 *)
(***************************************************************************)
EXTENDS Naturals, Sequences

CONSTANTS
  Threads,        \* threads that call record()
  Instances,      \* FiringLog objects open on the path
  InstanceOf,     \* the instance each thread records through
  LineChunks,     \* chunks to a line
  MaxSeq,         \* bound: records attempted through one instance
  Forkers,        \* instances whose process may fork
  None            \* nobody

ASSUME InstanceOfAssumption == InstanceOf \in [Threads -> Instances]
ASSUME LineAssumption == LineChunks \in Nat \ {0}
ASSUME MaxSeqAssumption == MaxSeq \in Nat
ASSUME ForkersAssumption == Forkers \subseteq Instances
ASSUME NoneAssumption == None \notin Threads \cup Instances

VARIABLES
  file,           \* the chunks on disk, in order
  flock,          \* the instance whose open file description holds LOCK_EX
  mutex,          \* self._lock of each instance
  _closed,        \* self._closed
  dead,           \* the instance's process is gone
  _seq,           \* self._seq
  log_pc,             \* where each thread stands in record()
  seq,            \* record()'s local `seq`
  written,        \* chunks of the line _write_all has written
  primary,        \* record()'s local `primary` is not None
  returned,       \* the RecordIds handed to callers
  child,          \* a forked child's copy of the instance
  child_mutex     \* the child's copy of self._lock was inherited held

logVars == <<file, flock, mutex, _closed, dead, _seq, log_pc, seq, written, primary,
          returned, child, child_mutex>>
childVars == <<child, child_mutex>>

Chunk == [inst : Instances, seq : Nat, part : 1..LineChunks]
LogLabels == {"idle", "enter", "flock", "write", "unlock", "finish"}

LogTypeOK ==
  /\ file \in Seq(Chunk)
  /\ flock \in Instances \cup {None}
  /\ mutex \in [Instances -> Threads \cup {None}]
  /\ _closed \in [Instances -> BOOLEAN]
  /\ dead \in [Instances -> BOOLEAN]
  /\ _seq \in [Instances -> Nat]
  /\ log_pc \in [Threads -> LogLabels]
  /\ seq \in [Threads -> Nat]
  /\ written \in [Threads -> 0..LineChunks]
  /\ primary \in [Threads -> BOOLEAN]
  /\ returned \subseteq Instances \X Nat
  /\ child \in [Instances -> {"none", "alive", "calling"}]
  /\ child_mutex \in [Instances -> BOOLEAN]

LogInit ==
  /\ file = <<>>
  /\ flock = None
  /\ mutex = [i \in Instances |-> None]
  /\ _closed = [i \in Instances |-> FALSE]
  /\ dead = [i \in Instances |-> FALSE]
  /\ _seq = [i \in Instances |-> 0]
  /\ log_pc = [t \in Threads |-> "idle"]
  /\ seq = [t \in Threads |-> 0]
  /\ written = [t \in Threads |-> 0]
  /\ primary = [t \in Threads |-> FALSE]
  /\ returned = {}
  /\ child = [i \in Instances |-> "none"]
  /\ child_mutex = [i \in Instances |-> FALSE]

-----------------------------------------------------------------------------
LogGoto(t, label) == log_pc' = [log_pc EXCEPT ![t] = label]
Lives(t) == ~dead[InstanceOf[t]]

\* flock(2) belongs to the open file description, which lasts as long as any
\* process holds a descriptor of it: a forked child's copy counts.
DropDescription(i) ==
  flock' = IF flock = i /\ child[i] = "none" THEN None ELSE flock

\* record(): the first look at _closed, the pid check, the serialisation.
Call(t) ==
  /\ log_pc[t] = "idle" /\ Lives(t)
  /\ ~_closed[InstanceOf[t]]
  /\ _seq[InstanceOf[t]] < MaxSeq
  /\ LogGoto(t, "enter")
  /\ UNCHANGED <<file, flock, mutex, _closed, dead, _seq, seq, written, primary,
                 returned, childVars>>

\* Mutant of Enter: seq is allocated without self._lock.
EnterUnlocked(t) ==
  LET i == InstanceOf[t] IN
  /\ log_pc[t] = "enter" /\ Lives(t)
  /\ ~_closed[i]
  /\ _seq' = [_seq EXCEPT ![i] = @ + 1]
  /\ seq' = [seq EXCEPT ![t] = _seq[i] + 1]
  /\ written' = [written EXCEPT ![t] = 0]
  /\ primary' = [primary EXCEPT ![t] = FALSE]
  /\ LogGoto(t, "flock")
  /\ UNCHANGED <<file, flock, mutex, _closed, dead, returned, childVars>>

\* `with self._lock`: refuse if the instance was closed meanwhile, else take
\* the next seq.
Enter(t) ==
  LET i == InstanceOf[t] IN
  /\ log_pc[t] = "enter" /\ Lives(t)
  /\ mutex[i] = None
  /\ IF _closed[i]
     THEN /\ LogGoto(t, "idle")
          /\ UNCHANGED <<mutex, _seq, seq, written, primary>>
     ELSE /\ mutex' = [mutex EXCEPT ![i] = t]
          /\ _seq' = [_seq EXCEPT ![i] = @ + 1]
          /\ seq' = [seq EXCEPT ![t] = _seq[i] + 1]
          /\ written' = [written EXCEPT ![t] = 0]
          /\ primary' = [primary EXCEPT ![t] = FALSE]
          /\ LogGoto(t, "flock")
  /\ UNCHANGED <<file, flock, _closed, dead, returned, childVars>>

FlockFree(t) == flock \in {None, InstanceOf[t]}

\* flock(LOCK_EX): taken once no other instance holds it.
Flock(t) ==
  /\ log_pc[t] = "flock" /\ Lives(t)
  /\ FlockFree(t)
  /\ flock' = InstanceOf[t]
  /\ LogGoto(t, "write")
  /\ UNCHANGED <<file, mutex, _closed, dead, _seq, seq, written, primary,
                 returned, childVars>>

\* flock(LOCK_EX) failed, or was interrupted with or without the lock.
FlockFails(t) ==
  /\ log_pc[t] = "flock" /\ Lives(t)
  /\ \/ FlockFree(t) /\ flock' = InstanceOf[t]
     \/ UNCHANGED flock
  /\ primary' = [primary EXCEPT ![t] = TRUE]
  /\ LogGoto(t, "unlock")
  /\ UNCHANGED <<file, mutex, _closed, dead, _seq, seq, written, returned, childVars>>

\* The chunks written[t]+1..upto of t's line.
LineChunksFrom(t, upto) ==
  [k \in 1..(upto - written[t]) |->
     [inst |-> InstanceOf[t], seq |-> seq[t], part |-> written[t] + k]]

\* Mutant of Write: one os.write, whatever it left unwritten.
WriteOnce(t) ==
  /\ log_pc[t] = "write" /\ Lives(t)
  /\ \E upto \in (written[t] + 1)..LineChunks :
       /\ file' = file \o LineChunksFrom(t, upto)
       /\ written' = [written EXCEPT ![t] = upto]
  /\ LogGoto(t, "unlock")
  /\ UNCHANGED <<flock, mutex, _closed, dead, _seq, seq, primary, returned, childVars>>

\* One turn of _write_all: a write that advances; or one that fails, writes 0
\* bytes or is interrupted, before or after the kernel appended.
Write(t) ==
  /\ log_pc[t] = "write" /\ Lives(t)
  /\ \/ \E upto \in (written[t] + 1)..LineChunks :
          /\ file' = file \o LineChunksFrom(t, upto)
          /\ written' = [written EXCEPT ![t] = upto]
          /\ LogGoto(t, IF upto = LineChunks THEN "unlock" ELSE "write")
          /\ UNCHANGED primary
     \/ /\ \E upto \in written[t]..LineChunks :
             /\ file' = file \o LineChunksFrom(t, upto)
             /\ written' = [written EXCEPT ![t] = upto]
        /\ primary' = [primary EXCEPT ![t] = TRUE]
        /\ LogGoto(t, "unlock")
  /\ UNCHANGED <<flock, mutex, _closed, dead, _seq, seq, returned, childVars>>

\* flock(LOCK_UN), always attempted; on failure the lock stays held.
Unlock(t) ==
  /\ log_pc[t] = "unlock" /\ Lives(t)
  /\ \/ /\ flock' = IF flock = InstanceOf[t] THEN None ELSE flock
        /\ UNCHANGED primary
     \/ /\ primary' = [primary EXCEPT ![t] = TRUE]
        /\ UNCHANGED flock
  /\ LogGoto(t, "finish")
  /\ UNCHANGED <<file, mutex, _closed, dead, _seq, seq, written, returned, childVars>>

\* Mutant of Finish: a failed record leaves the instance usable.
FinishUnpoisoned(t) ==
  LET i == InstanceOf[t] IN
  /\ log_pc[t] = "finish" /\ Lives(t)
  /\ mutex' = [mutex EXCEPT ![i] = None]
  /\ LogGoto(t, "idle")
  /\ returned' = IF primary[t] THEN returned ELSE returned \cup {<<i, seq[t]>>}
  /\ UNCHANGED <<file, flock, _closed, dead, _seq, seq, written, primary, childVars>>

\* The exits of record(): the RecordId, or the poisoning that closes the fd.
Finish(t) ==
  LET i == InstanceOf[t] IN
  /\ log_pc[t] = "finish" /\ Lives(t)
  /\ mutex' = [mutex EXCEPT ![i] = None]
  /\ LogGoto(t, "idle")
  /\ IF primary[t]
     THEN /\ _closed' = [_closed EXCEPT ![i] = TRUE]
          /\ DropDescription(i)
          /\ UNCHANGED returned
     ELSE /\ returned' = returned \cup {<<i, seq[t]>>}
          /\ UNCHANGED <<_closed, flock>>
  /\ UNCHANGED <<file, dead, _seq, seq, written, primary, childVars>>

\* close(): waits for the record in progress, then closes the fd once.
Close(i) ==
  /\ ~dead[i] /\ ~_closed[i]
  /\ mutex[i] = None
  /\ _closed' = [_closed EXCEPT ![i] = TRUE]
  /\ DropDescription(i)
  /\ UNCHANGED <<file, mutex, dead, _seq, log_pc, seq, written, primary, returned, childVars>>

\* The process dies: a `kill` action, a signal.  The kernel closes its fds.
Crash(i) ==
  /\ ~dead[i]
  /\ dead' = [dead EXCEPT ![i] = TRUE]
  /\ DropDescription(i)
  /\ UNCHANGED <<file, mutex, _closed, _seq, log_pc, seq, written, primary, returned, childVars>>

\* os.fork: the child gets the fd, and self._lock in the state it is in.
Fork(i) ==
  /\ i \in Forkers
  /\ ~dead[i] /\ ~_closed[i]
  /\ child[i] = "none"
  /\ child' = [child EXCEPT ![i] = "alive"]
  /\ child_mutex' = [child_mutex EXCEPT ![i] = mutex[i] # None]
  /\ UNCHANGED <<file, flock, mutex, _closed, dead, _seq, log_pc, seq, written, primary, returned>>

\* The child calls record() or close() on its copy.
ChildCall(i) ==
  /\ child[i] = "alive"
  /\ child' = [child EXCEPT ![i] = "calling"]
  /\ UNCHANGED <<file, flock, mutex, _closed, dead, _seq, log_pc, seq, written, primary,
                 returned, child_mutex>>

\* _refuse_if_wrong_process, before the lock is touched.
ChildRefused(i) ==
  /\ child[i] = "calling"
  /\ child' = [child EXCEPT ![i] = "alive"]
  /\ UNCHANGED <<file, flock, mutex, _closed, dead, _seq, log_pc, seq, written, primary,
                 returned, child_mutex>>

\* The child exits, or collects its copy: its fd is closed.
ChildExit(i) ==
  /\ child[i] = "alive"
  /\ child' = [child EXCEPT ![i] = "none"]
  /\ flock' = IF flock = i /\ (dead[i] \/ _closed[i]) THEN None ELSE flock
  /\ UNCHANGED <<file, mutex, _closed, dead, _seq, log_pc, seq, written, primary, returned, child_mutex>>

RecordStep(t) == Enter(t) \/ Flock(t) \/ Write(t) \/ Unlock(t) \/ Finish(t)

LogNext ==
  \/ \E t \in Threads : Call(t) \/ RecordStep(t) \/ FlockFails(t)
  \/ \E i \in Instances :
       \/ Close(i) \/ Crash(i)
       \/ Fork(i) \/ ChildCall(i) \/ ChildRefused(i) \/ ChildExit(i)

LogSpec == LogInit /\ [][LogNext]_logVars

\* A thread inside record() is scheduled until it returns or its process dies,
\* and no fault is owed to it: a waiter is not saved by an interruption.
\* flock(2) and threading.Lock are strongly fair here: a lock that is released
\* again and again is granted to a waiter some time.
LogFairness ==
  /\ \A t \in Threads : SF_logVars(RecordStep(t))
  /\ \A i \in Instances : WF_logVars(ChildRefused(i))
LogFairSpec == LogSpec /\ LogFairness

-----------------------------------------------------------------------------
LineOf(id) == [k \in 1..LineChunks |-> [inst |-> id[1], seq |-> id[2], part |-> k]]

\* A caller never holds an id for a line that did not land: a returned RecordId
\* names a line whose chunks are all in the file, side by side.
ReturnedLinesAreWhole ==
  \A id \in returned :
    \E p \in 0..(Len(file) - LineChunks) :
      SubSeq(file, p + 1, p + LineChunks) = LineOf(id)

\* A line is cut short only by its own writer: while it is still writing it at
\* the end of the file, on its way to being poisoned, or because its instance
\* was poisoned or its process died.
IncompleteLinesAreExcused ==
  \A p \in 1..Len(file) :
    LET c == file[p] IN
    c.part < LineChunks =>
      \/ p < Len(file) /\ file[p + 1] = [c EXCEPT !.part = @ + 1]
      \/ dead[c.inst] \/ _closed[c.inst]
      \/ \E t \in Threads :
           /\ InstanceOf[t] = c.inst /\ seq[t] = c.seq
           /\ \/ log_pc[t] = "write" /\ p = Len(file)
              \/ log_pc[t] \in {"unlock", "finish"} /\ primary[t]

\* (instance, pid, seq) is a key, and an instance's lines are in seq order:
\* no chunk is written twice and none after a later line's.
LinesInSeqOrder ==
  \A p, q \in 1..Len(file) :
    p < q /\ file[p].inst = file[q].inst =>
      \/ file[p].seq < file[q].seq
      \/ file[p].seq = file[q].seq /\ file[p].part < file[q].part

\* A call of record() returns, unless its process dies or the flock is held by
\* a forked child of a process that is done with it; a forked child that uses the
\* inherited instance is refused, also when it inherited the mutex held.
HeldByChild ==
  \E i \in Instances : flock = i /\ child[i] # "none" /\ (_closed[i] \/ dead[i])
RecordReturns ==
  /\ \A t \in Threads :
       log_pc[t] # "idle" ~> (log_pc[t] = "idle" \/ ~Lives(t) \/ HeldByChild)
  /\ \A i \in Instances : child[i] = "calling" ~> child[i] = "alive"
=============================================================================
