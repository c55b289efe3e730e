--------------------------- MODULE MonitorInterval ---------------------------
(***************************************************************************)
(* AdjustCheckInterval of NormalThreadPool: how long the monitor sleeps    *)
(* between two rounds, from the number of queued tasks and of counted      *)
(* workers, which clients and workers change at any time.                  *)
(*                                                                         *)
(* The code divides in double and truncates toward zero.  A quotient that  *)
(* is no integer makes a result that would be a whole number of            *)
(* milliseconds come out as that number or as its neighbour nearer to 0;   *)
(* the model leaves open which.                                            *)
(***************************************************************************)
EXTENDS Integers

CONSTANTS MinInterval, MaxInterval,  \* min_check_interval_, max_check_interval_ in ms
          ExpandThreshold,           \* expand_threshold_
          MaxTasks, MaxWorkers       \* bounds of the environment

ASSUME IntervalAssumption ==
  /\ MinInterval \in Nat /\ MaxInterval \in Nat /\ MinInterval < MaxInterval
  /\ ExpandThreshold \in Nat \ {0}
  /\ MaxTasks \in Nat /\ MaxWorkers \in Nat

VARIABLES taskCount, threadCount,    \* tasks_.size() and valid_thread_count_ now
          pc,                        \* the monitor: "sleep" or "load"
          readTasks, readThreads,    \* the two values the monitor has read
          interval,                  \* monitor_interval_
          usedTasks                  \* history: the task count interval comes from

vars == <<taskCount, threadCount, pc, readTasks, readThreads, interval, usedTasks>>

Init == /\ taskCount = 0 /\ threadCount \in 0 .. MaxWorkers
        /\ pc = "sleep"
        /\ readTasks = 0 /\ readThreads = 0
        /\ interval = MaxInterval
        /\ usedTasks = 0

(* static_cast<int> of a / b for b > 0 *)
Truncate(a, b) == IF a >= 0 THEN a \div b ELSE -((-a) \div b)

NearerToZero(n) == IF n > 0 THEN n - 1 ELSE IF n < 0 THEN n + 1 ELSE 0

(* Mutant: load_factor in place of 1 - load_factor. *)
NumeratorInverted(tc, th) == MinInterval * th + (MaxInterval - MinInterval) * tc

(* min + (max - min) * (1 - tasks / threads) over the common denominator   *)
Numerator(tc, th) == MinInterval * th + (MaxInterval - MinInterval) * (th - tc)

Interpolated(tc, th) ==
  LET n == Truncate(Numerator(tc, th), th)
  IN IF tc % th # 0 /\ Numerator(tc, th) % th = 0 THEN {n, NearerToZero(n)} ELSE {n}

Intervals(tc, th) ==
  CASE tc = 0                    -> {MaxInterval}
    [] tc > th * ExpandThreshold -> {MinInterval}
    [] OTHER                     -> Interpolated(tc, th)

(* Clients and workers. *)
TasksChange ==
  /\ taskCount' \in {taskCount - 1, taskCount + 1} \cap (0 .. MaxTasks)
  /\ UNCHANGED <<threadCount, pc, readTasks, readThreads, interval, usedTasks>>

WorkersChange ==
  /\ threadCount' \in {threadCount - 1, threadCount + 1} \cap (0 .. MaxWorkers)
  /\ UNCHANGED <<taskCount, pc, readTasks, readThreads, interval, usedTasks>>

(* The two counts are read one after the other. *)
ReadTaskCount ==
  /\ pc = "sleep"
  /\ readTasks' = taskCount
  /\ pc' = "load"
  /\ UNCHANGED <<taskCount, threadCount, readThreads, interval, usedTasks>>

AdjustCheckInterval ==
  /\ pc = "load"
  /\ readThreads' = threadCount
  /\ interval' \in Intervals(readTasks, threadCount)
  /\ usedTasks' = readTasks
  /\ pc' = "sleep"
  /\ UNCHANGED <<taskCount, threadCount, readTasks>>

Next == TasksChange \/ WorkersChange \/ ReadTaskCount \/ AdjustCheckInterval

Spec == Init /\ [][Next]_vars

-----------------------------------------------------------------------------
(* Whatever the two reads of AdjustCheckInterval saw, the interval never   *)
(* exceeds max_check_interval_, and it is below min_check_interval_ only   *)
(* for a load between 1 and expand_threshold_ tasks per worker.  The       *)
(* factor 1 - load_factor is negative then, and so may the interval be (a  *)
(* wait of no time), but not so far that static_cast<int> overflows.       *)
IntervalBounded ==
  /\ interval <= MaxInterval
  /\ interval < MinInterval => /\ readThreads < usedTasks
                              /\ usedTasks <= ExpandThreshold * readThreads
  /\ interval >= MinInterval - (ExpandThreshold - 1) * (MaxInterval - MinInterval)

(* With the same number of workers, and no more tasks than workers, more   *)
(* tasks never make the monitor sleep longer from one adjustment to the    *)
(* next, whatever truncation and rounding do, and they make it sleep less  *)
(* when the two intervals, as fractions, are more than 1 ms apart.         *)
HeavierLoadSleepsLess ==
  [][readThreads' = readThreads /\ usedTasks < usedTasks' /\ usedTasks' <= readThreads
       => /\ interval' <= interval
          /\ (MaxInterval - MinInterval) * (usedTasks' - usedTasks) > readThreads
               => interval' < interval]_vars
=============================================================================
