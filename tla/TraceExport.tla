---------------------------- MODULE TraceExport ----------------------------
(***************************************************************************)
(* The queue that exports the traces of ended runs: at most Concurrency    *)
(* jobs, each a read of the store and then a call of the exporters under a *)
(* timer, at most MaxQueued waiting, what does not fit dropped.  Hosts     *)
(* flush: they wait for the jobs and are told the failures since the last  *)
(* flush.                                                                  *)
(***************************************************************************)
EXTENDS Naturals, Sequences, FiniteSets, SequenceTheorems, TLAPS

CONSTANTS Runs, Concurrency, MaxQueued, MaxFailures,
          Flushers,     \* calls of flushObservability, some with a deadline
          MaxEnds       \* terminal events observed

ASSUME TraceAssumption ==
  /\ Concurrency \in Nat \ {0} /\ MaxQueued \in Nat \ {0} /\ MaxFailures \in Nat \ {0}
  /\ MaxEnds \in Nat

VARIABLES queue, pending,       \* waiting runs; runs with a job
          job,                  \* [pending run -> what its job does]
          remembered,           \* runs asked for (the window is larger than Runs)
          failures, exported, failed, dropped, unreported,
          late,                 \* exporter calls that outlived their timer
          flush,                \* [flusher -> its call]
          ends,                 \* terminal events observed
          settled, told         \* for the properties: runs done with; failures told

counters == <<exported, failed, dropped, unreported, failures>>
vars == <<queue, pending, job, remembered, counters, late, flush, ends, settled, told>>

NoFlush == [at |-> "idle", awaited |-> {}, before |-> {}, left |-> {}]

Init ==
  /\ queue = <<>> /\ pending = {} /\ job = [r \in Runs |-> "none"]
  /\ remembered = {} /\ failures = <<>>
  /\ exported = 0 /\ failed = 0 /\ dropped = 0 /\ unreported = 0 /\ late = 0
  /\ flush = [f \in Flushers |-> NoFlush]
  /\ ends = 0 /\ settled = {} /\ told = 0

\* Mutant of Remember: a run that is dropped is not remembered, nor any other.
RememberNothing(r) == remembered

\* rememberRun.
Remember(r) == remembered \cup {r}

\* recordFailure: the newest MaxFailures are kept.
KeepFailure(r) ==
  LET all == Append(failures, r) IN IF Len(all) > MaxFailures THEN Tail(all) ELSE all

RecordFailure(r) ==
  /\ failed' = failed + 1 /\ unreported' = unreported + 1
  /\ failures' = KeepFailure(r)

\* Mutant of Start: a slot is taken by whoever comes.
StartAll(waiting, busy, jobs) ==
  /\ queue' = <<>>
  /\ pending' = busy \cup {waiting[i] : i \in 1 .. Len(waiting)}
  /\ job' = [r \in Runs |-> IF \E i \in 1 .. Len(waiting) : waiting[i] = r THEN "reading" ELSE jobs[r]]

\* Mutant of Start: one job is started, whatever the number of free slots.
StartOne(waiting, busy, jobs) ==
  LET n == IF waiting # <<>> /\ busy = {} THEN 1 ELSE 0 IN
  /\ queue' = SubSeq(waiting, n + 1, Len(waiting))
  /\ pending' = busy \cup {waiting[i] : i \in 1 .. n}
  /\ job' = [r \in Runs |-> IF \E i \in 1 .. n : waiting[i] = r THEN "reading" ELSE jobs[r]]

\* startNext: jobs are started while there are slots and runs that wait.
Start(waiting, busy, jobs) ==
  LET slots == Concurrency - Cardinality(busy)
      n == IF Len(waiting) < slots THEN Len(waiting) ELSE slots
  IN /\ queue' = SubSeq(waiting, n + 1, Len(waiting))
     /\ pending' = busy \cup {waiting[i] : i \in 1 .. n}
     /\ job' = [r \in Runs |-> IF \E i \in 1 .. n : waiting[i] = r THEN "reading" ELSE jobs[r]]

----------------------------------------------------------------------------

\* A terminal event of a run is observed (again, after a recovery).
EndAgain(r) ==
  /\ r \in remembered
  /\ UNCHANGED <<queue, pending, job, remembered, counters, settled>>

Drop(r) ==
  /\ r \notin remembered /\ Len(queue) >= MaxQueued
  /\ remembered' = Remember(r)
  /\ dropped' = dropped + 1
  /\ RecordFailure(r)
  /\ settled' = settled \cup {r}
  /\ UNCHANGED <<queue, pending, job, exported>>

Accept(r) ==
  /\ r \notin remembered /\ Len(queue) < MaxQueued
  /\ remembered' = Remember(r)
  /\ Start(Append(queue, r), pending, job)
  /\ UNCHANGED <<counters, settled>>

RunEnds(r) ==
  /\ ends < MaxEnds /\ ends' = ends + 1
  /\ EndAgain(r) \/ Drop(r) \/ Accept(r)
  /\ UNCHANGED <<late, flush, told>>

\* The job of a run ends and makes room.
Settle(r) ==
  /\ Start(queue, pending \ {r}, [job EXCEPT ![r] = "none"])
  /\ settled' = settled \cup {r}
  /\ UNCHANGED <<remembered, flush, ends, told, dropped>>

\* The store answers; a run or a model that is gone, or a rejection, is a
\* failure.
StoreAnswers(r) ==
  /\ job[r] = "reading"
  /\ job' = [job EXCEPT ![r] = "exporting"]
  /\ UNCHANGED <<queue, pending, remembered, counters, late, flush, ends, settled, told>>

StoreFails(r) ==
  /\ job[r] = "reading"
  /\ RecordFailure(r)
  /\ Settle(r)
  /\ UNCHANGED <<exported, late>>

Export(r) ==
  /\ job[r] = "exporting"
  /\ exported' = exported + 1
  /\ Settle(r)
  /\ UNCHANGED <<failed, unreported, failures, late>>

ExportFails(r) ==
  /\ job[r] = "exporting"
  /\ RecordFailure(r)
  /\ Settle(r)
  /\ UNCHANGED <<exported, late>>

\* Mutant of ExportTimesOut: exporters have no deadline.
NoTimer(r) == FALSE /\ UNCHANGED vars

\* The timer of the exporter passes; nothing stops the call.
ExportTimesOut(r) ==
  /\ job[r] = "exporting"
  /\ RecordFailure(r)
  /\ late' = late + 1
  /\ Settle(r)
  /\ UNCHANGED exported

LateAnswer ==
  /\ late > 0 /\ late' = late - 1
  /\ UNCHANGED <<queue, pending, job, remembered, counters, flush, ends, settled, told>>

----------------------------------------------------------------------------

\* Mutant of Flush: what has not started is not waited for.
FlushStarted(f) ==
  /\ flush[f].at = "idle"
  /\ flush' = [flush EXCEPT ![f] = [at |-> "last", awaited |-> pending, left |-> {},
                                   before |-> remembered]]
  /\ UNCHANGED <<queue, pending, job, remembered, counters, late, ends, settled, told>>

Flush(f) ==
  /\ flush[f].at = "idle"
  /\ flush' = [flush EXCEPT ![f] = [at |-> "draining", awaited |-> pending, left |-> {},
                                   before |-> remembered]]
  /\ UNCHANGED <<queue, pending, job, remembered, counters, late, ends, settled, told>>

\* Promise.all of the jobs there were: then those there are by now.  A run
\* that is pending again is a job of its own.
Awaits(f) == flush[f].awaited \cap pending
DrainAgain(f) ==
  /\ flush[f].at = "draining" /\ Awaits(f) = {} /\ pending # {}
  /\ flush' = [flush EXCEPT ![f].awaited = pending]
  /\ UNCHANGED <<queue, pending, job, remembered, counters, late, ends, settled, told>>

\* Mutant of Tell: the failures stay for the next flush.
TellAndKeep == unreported' = unreported /\ failures' = failures /\ told' = told + unreported

\* The error of a flush names the failures kept and counts those omitted.
Tell == unreported' = 0 /\ failures' = <<>> /\ told' = told + unreported

Flushed(f) ==
  /\ \/ flush[f].at = "draining" /\ pending = {}
     \/ flush[f].at = "last" /\ Awaits(f) = {}
  /\ flush' = [flush EXCEPT ![f].at = "done", ![f].left = flush[f].before \ settled]
  /\ Tell
  /\ UNCHANGED <<queue, pending, job, remembered, exported, failed, dropped, late, ends, settled>>

\* A flush with a deadline gives up; the failures stay for the next.
FlushTimesOut(f) ==
  /\ flush[f].at = "draining"
  /\ flush' = [flush EXCEPT ![f].at = "timed out"]
  /\ UNCHANGED <<queue, pending, job, remembered, counters, late, ends, settled, told>>

JobEnds(r) == StoreAnswers(r) \/ StoreFails(r) \/ Export(r) \/ ExportFails(r) \/ ExportTimesOut(r)
Next ==
  \/ \E r \in Runs : RunEnds(r) \/ JobEnds(r)
  \/ LateAnswer
  \/ \E f \in Flushers : Flush(f) \/ DrainAgain(f) \/ Flushed(f) \/ FlushTimesOut(f)

Spec == Init /\ [][Next]_vars

\* The store answers; an exporter may not, but its timer passes.
FairSpec ==
  /\ Spec
  /\ \A r \in Runs : WF_vars(StoreAnswers(r) \/ StoreFails(r)) /\ WF_vars(ExportTimesOut(r))
  /\ \A f \in Flushers : WF_vars(DrainAgain(f) \/ Flushed(f))

----------------------------------------------------------------------------

TypeOK ==
  /\ pending \subseteq Runs /\ Cardinality(pending) <= Concurrency
  /\ Len(queue) <= MaxQueued
  /\ \A r \in Runs : job[r] # "none" <=> r \in pending
  /\ late \in Nat /\ settled \subseteq Runs

\* No run waits beside a free slot: every job that ends starts the next.
SlotsAreUsed == queue # <<>> => Cardinality(pending) = Concurrency

\* Each failure, a dropped trace too, is told by exactly one flush, whatever
\* flushes overlap or give up; the newest MaxFailures are told by name.
FailuresAreToldOnce ==
  /\ failed = told + unreported
  /\ Len(failures) = IF unreported < MaxFailures THEN unreported ELSE MaxFailures

\* Every run asked for is exported, failed, waiting or being exported once:
\* none is lost, none done twice.
EachRunOnce == exported + failed + Len(queue) + Cardinality(pending) = Cardinality(remembered)

\* A flush that comes back has waited for every trace asked for before it,
\* those that were still in the queue included.
FlushWaits == \A f \in Flushers : flush[f].at = "done" => flush[f].left = {}

\* A flush ends although jobs fail, hang until their timer or go on starting.
FlushEnds == \A f \in Flushers : flush[f].at = "draining" ~> flush[f].at # "draining"
TracesSettle == \A r \in Runs : r \in pending ~> r \in settled

\* "a slow store or exporter cannot grow memory without limit": calls of
\* exporters in progress are bounded by the slots.
CallsAreBounded == late + Cardinality({r \in Runs : job[r] = "exporting"}) <= Concurrency
-----------------------------------------------------------------------------
(* However jobs fail, time out and are dropped, and however flushes overlap or *)
(* give up: every failure is told once, by one flush.                          *)
IInv ==
  /\ failed \in Nat /\ told \in Nat /\ unreported \in Nat
  /\ failures \in Seq(Runs)
  /\ FailuresAreToldOnce

(* A failure more, and the list of the newest keeps its length.                *)
LEMMA RecordFailureStep ==
  ASSUME NEW r \in Runs, IInv, RecordFailure(r), told' = told
  PROVE  IInv'
<1> DEFINE all == Append(failures, r)
<1> USE TraceAssumption DEF IInv
<1>1. all \in Seq(Runs) /\ Len(all) = Len(failures) + 1 /\ all # <<>>
  BY AppendProperties
<1>2. Tail(all) \in Seq(Runs) /\ Len(Tail(all)) = Len(all) - 1
  BY <1>1, HeadTailProperties
<1>3. failures' = IF Len(all) > MaxFailures THEN Tail(all) ELSE all
  BY DEF RecordFailure, KeepFailure
<1> HIDE DEF all
<1>4. failures' \in Seq(Runs) /\ failed' = failed + 1 /\ unreported' = unreported + 1
  BY <1>1, <1>2, <1>3 DEF RecordFailure
<1>5. Len(failures') = IF unreported' < MaxFailures THEN unreported' ELSE MaxFailures
  <2>1. Len(failures) \in Nat /\ Len(failures) = IF unreported < MaxFailures THEN unreported
                                                ELSE MaxFailures
    BY DEF FailuresAreToldOnce
  <2>2. CASE unreported < MaxFailures
    <3>1. Len(all) = unreported + 1 /\ ~(Len(all) > MaxFailures)
      BY <1>1, <2>1, <2>2
    <3> QED BY <1>3, <1>4, <2>2, <3>1
  <2>3. CASE ~(unreported < MaxFailures)
    <3>1. Len(all) = MaxFailures + 1 /\ Len(all) > MaxFailures
      BY <1>1, <2>1, <2>3
    <3> QED BY <1>2, <1>3, <1>4, <2>3, <3>1
  <2> QED BY <2>2, <2>3
<1> QED BY <1>4, <1>5 DEF FailuresAreToldOnce

(* What neither records nor tells a failure leaves them as they are.           *)
LEMMA Untouched ==
  IInv /\ UNCHANGED <<failed, told, unreported, failures>> => IInv'
BY DEF IInv, FailuresAreToldOnce

LEMMA InitInv == Init => IInv
BY TraceAssumption DEF Init, IInv, FailuresAreToldOnce

LEMMA RunEndsStep == ASSUME NEW r \in Runs, IInv, RunEnds(r) PROVE IInv'
<1>1. CASE EndAgain(r)
  BY <1>1, Untouched DEF RunEnds, EndAgain, counters
<1>2. CASE Drop(r)
  BY <1>2, RecordFailureStep DEF RunEnds, Drop
<1>3. CASE Accept(r)
  BY <1>3, Untouched DEF RunEnds, Accept, counters
<1> QED BY <1>1, <1>2, <1>3 DEF RunEnds

LEMMA JobEndsStep == ASSUME NEW r \in Runs, IInv, JobEnds(r) PROVE IInv'
<1>1. CASE StoreAnswers(r)
  BY <1>1, Untouched DEF StoreAnswers, counters
<1>2. CASE StoreFails(r)
  BY <1>2, RecordFailureStep DEF StoreFails, Settle
<1>3. CASE Export(r)
  BY <1>3, Untouched DEF Export, Settle
<1>4. CASE ExportFails(r)
  BY <1>4, RecordFailureStep DEF ExportFails, Settle
<1>5. CASE ExportTimesOut(r)
  BY <1>5, RecordFailureStep DEF ExportTimesOut, Settle
<1> QED BY <1>1, <1>2, <1>3, <1>4, <1>5 DEF JobEnds

(* A flush tells all the failures that were not told.                          *)
LEMMA FlushedStep == ASSUME NEW f \in Flushers, IInv, Flushed(f) PROVE IInv'
<1>1. /\ unreported' = 0 /\ failures' = <<>> /\ told' = told + unreported
      /\ failed' = failed
  BY DEF Flushed, Tell
<1> QED BY <1>1, TraceAssumption DEF IInv, FailuresAreToldOnce

LEMMA NextInv == IInv /\ [Next]_vars => IInv'
<1> SUFFICES ASSUME IInv, [Next]_vars PROVE IInv'
  OBVIOUS
<1>1. CASE \E r \in Runs : RunEnds(r) \/ JobEnds(r)
  BY <1>1, RunEndsStep, JobEndsStep
<1>2. CASE LateAnswer
  BY <1>2, Untouched DEF LateAnswer, counters
<1>3. ASSUME NEW f \in Flushers, Flush(f) \/ DrainAgain(f) \/ FlushTimesOut(f)
      PROVE  IInv'
  BY <1>3, Untouched DEF Flush, DrainAgain, FlushTimesOut, counters
<1>4. ASSUME NEW f \in Flushers, Flushed(f) PROVE IInv'
  BY <1>4, FlushedStep
<1>5. CASE UNCHANGED vars
  BY <1>5, Untouched DEF vars, counters
<1> QED BY <1>1, <1>2, <1>3, <1>4, <1>5 DEF Next

(* Each failure is told by exactly one flush, the newest MaxFailures by name   *)
(* (recordFailure and flush of observability.ts), for any number of runs,      *)
(* slots, places in the queue and flushes.                                     *)
THEOREM EveryFailureIsToldOnce == Spec => []FailuresAreToldOnce
<1>1. IInv => FailuresAreToldOnce
  BY DEF IInv
<1> QED BY <1>1, InitInv, NextInv, PTL DEF Spec
=============================================================================
