------------------------ MODULE RuntimeProcessProofs ------------------------
(* Theorems about RuntimeProcess, for every number of executions, runs and *)
(* sessions and every limit: admission holds, the store tells one story of *)
(* a run, and a process that runs one at a time finds who works.           *)
EXTENDS RuntimeProcess, FiniteSetTheorems, TLAPS

(* Moves of one execution, by what they change of what it knows.  The store  *)
(* stays as it is: s is the stored run, completed whether it is in the       *)
(* history.                                                                  *)
StoredRun == [status : {"absent"} \cup Active \cup Terminal, revision : Nat]

Knows(e, s, completed) ==
  HasForm(e) /\ IsBehind(e, s) /\ LeavesHistory(e, s, completed)

KeepsCanceller(f, e) == e.canceller = f.canceller /\ e.cancellation = f.cancellation

Follows(f, e, s, completed) ==
  /\ e.phase # "idle" /\ e.run = f.run /\ e.streamed = f.streamed
  /\ e.phase \in Starting => f.phase \in Starting
  /\ f.phase \in Started => e.phase \in Started
  /\ Knows(e, s, completed)
  /\ IsAlone(f, s) /\ ~ f.streamed => IsAlone(e, s)

(* The names of the phases tell them apart.                                  *)
LEMMA Phases ==
  /\ Started = {"yielded", "working", "committing", "releasing", "done"}
  /\ Starting = {"admitting", "reading", "creating"}
  /\ Resuming = {"locating", "located", "acquiring", "resuming"}
  BY DEF Started, Driving, Starting, Resuming

LEMMA FlightOfNone ==
  /\ NoFlight \in Flight /\ NoFlight.phase = "none"
  /\ IdleExecution \in Execution /\ IdleExecution.phase = "idle"
  /\ IdleExecution.run = None /\ IdleExecution.status = "running"
  /\ IdleExecution.revision = 0 /\ ~ IdleExecution.streamed /\ ~ IdleExecution.abandoned
  /\ ~ IdleExecution.aborted
  /\ IdleExecution.flight = NoFlight /\ IdleExecution.cancellation = NoFlight
  /\ IdleExecution.canceller = "none"
  BY DEF NoFlight, Flight, IdleExecution, Execution, Active, Terminal

LEMMA FlightSent ==
  ASSUME NEW e \in Execution, NEW status \in Active \cup Terminal,
         NEW event \in {"progress", "paused"} \cup Terminal
  PROVE  /\ Sent(e, status, event) \in Flight
         /\ Sent(e, status, event).phase = "sent"
         /\ Sent(e, status, event).expected = e.revision
         /\ Sent(e, status, event).status = status
         /\ Sent(e, status, event).event = event
  BY DEF Sent, Flight, Execution

(* Marked as aborted, as without a lease, or without timers.                 *)
LEMMA Marks ==
  ASSUME NEW f \in Execution, NEW e \in Execution, NEW s \in StoredRun,
         NEW completed \in BOOLEAN, f.phase # "idle", Knows(f, s, completed),
         e.phase = f.phase, e.run = f.run, e.streamed = f.streamed, e.status = f.status,
         e.revision = f.revision, e.abandoned = f.abandoned, e.flight = f.flight,
         KeepsCanceller(f, e)
  PROVE  Follows(f, e, s, completed)
  BY DEF Follows, Knows, HasForm, IsBehind, LeavesHistory, IsOver, IsAlone, KeepsCanceller

(* A start or resumption takes its next step, or is given up.                *)
LEMMA Prepares ==
  ASSUME NEW f \in Execution, NEW e \in Execution, NEW s \in StoredRun,
         NEW completed \in BOOLEAN, f.phase # "idle", Knows(f, s, completed),
         f.phase \in Starting \cup Resuming, f.flight.phase # "sent",
         e.phase \in Starting \cup {"locating", "acquiring", "done"},
         e.phase \in Starting => f.phase \in Starting,
         e.phase = "acquiring" => f.phase = "located",
         e.run = f.run, e.streamed = f.streamed, e.status = f.status,
         e.revision = f.revision, e.abandoned = f.abandoned, e.flight = f.flight,
         KeepsCanceller(f, e)
  PROVE  Follows(f, e, s, completed)
<1> USE Phases DEF Knows, KeepsCanceller
<1>1. e.canceller = "none" /\ e.cancellation.phase = "none" /\ ~ IsOver(f)
  BY DEF HasForm, IsOver
<1>2. HasForm(e) /\ IsBehind(e, s)
  BY <1>1 DEF HasForm, IsBehind
<1>3. LeavesHistory(e, s, completed)
  BY <1>1 DEF LeavesHistory
<1>4. IsAlone(f, s) => IsAlone(e, s)
  BY <1>1 DEF IsAlone
<1> QED BY <1>2, <1>3, <1>4 DEF Follows

(* It reads a run that is active.                                            *)
LEMMA Reads ==
  ASSUME NEW f \in Execution, NEW e \in Execution, NEW s \in StoredRun,
         NEW completed \in BOOLEAN, f.phase # "idle", Knows(f, s, completed),
         f.phase = "locating", e.phase = "located", s.status \in Active,
         completed => s.status = "completed",
         e.status = s.status, e.revision = s.revision,
         e.run = f.run, e.streamed = f.streamed, e.abandoned = f.abandoned,
         e.flight = f.flight, KeepsCanceller(f, e)
  PROVE  Follows(f, e, s, completed)
<1> USE Phases DEF Knows, KeepsCanceller
<1>1. e.canceller = "none" /\ e.cancellation.phase = "none" /\ e.flight.phase # "sent"
  BY DEF HasForm
<1>2. HasForm(e) /\ IsBehind(e, s)
  BY <1>1 DEF HasForm, IsBehind, StoredRun, Active
<1>3. LeavesHistory(e, s, completed) /\ s.status \notin Terminal
  BY <1>1 DEF LeavesHistory, Active, Terminal
<1>4. IsAlone(f, s) => IsAlone(e, s)
  BY <1>1, <1>3 DEF IsAlone
<1> QED BY <1>2, <1>3, <1>4 DEF Follows

(* It has the lease and sends the commit that resumes the run.               *)
LEMMA Resumes ==
  ASSUME NEW f \in Execution, NEW e \in Execution, NEW s \in StoredRun,
         NEW completed \in BOOLEAN, f.phase # "idle", Knows(f, s, completed),
         f.phase = "acquiring", e.phase = "resuming", e.status = "running",
         e.flight = Sent(f, "running", "progress"), e.revision = f.revision,
         e.run = f.run, e.streamed = f.streamed, e.abandoned = f.abandoned,
         KeepsCanceller(f, e)
  PROVE  Follows(f, e, s, completed)
<1> USE Phases DEF Knows, KeepsCanceller
<1>1. /\ e.canceller = "none" /\ e.cancellation.phase = "none" /\ ~ IsOver(f)
      /\ e.revision \in Nat
  BY DEF HasForm, IsOver, Execution
<1>2. /\ e.flight.expected = f.revision /\ e.flight.status = "running"
      /\ e.flight.event = "progress" /\ e.flight.phase = "sent"
  BY FlightSent DEF Active
<1>3. HasForm(e) /\ IsBehind(e, s)
  BY <1>1, <1>2 DEF HasForm, IsBehind
<1>4. LeavesHistory(e, s, completed)
  BY <1>1, <1>2 DEF LeavesHistory
<1>5. IsAlone(f, s) => IsAlone(e, s)
  BY <1>1, <1>2 DEF IsAlone
<1> QED BY <1>3, <1>4, <1>5 DEF Follows

(* The commit went through: the run is worked on.                            *)
LEMMA BeginsWork ==
  ASSUME NEW f \in Execution, NEW e \in Execution, NEW s \in StoredRun,
         NEW completed \in BOOLEAN, f.phase # "idle", Knows(f, s, completed),
         f.phase = "resuming", e.phase = "working", e.status = "running",
         e.flight = NoFlight, e.revision = f.revision,
         e.run = f.run, e.streamed = f.streamed, e.abandoned = f.abandoned,
         KeepsCanceller(f, e)
  PROVE  Follows(f, e, s, completed)
<1> USE Phases, FlightOfNone DEF Knows, KeepsCanceller
<1>1. e.canceller = "none" /\ e.cancellation.phase = "none" /\ ~ IsOver(f)
  BY DEF HasForm, IsOver
<1>2. HasForm(e) /\ IsBehind(e, s)
  BY <1>1 DEF HasForm, IsBehind
<1>3. LeavesHistory(e, s, completed)
  BY <1>1 DEF LeavesHistory
<1>4. IsAlone(f, s) => IsAlone(e, s)
  BY <1>1 DEF IsAlone
<1> QED BY <1>2, <1>3, <1>4 DEF Follows

(* The driver ends, with a release or without.                               *)
LEMMA EndsWork ==
  ASSUME NEW f \in Execution, NEW e \in Execution, NEW s \in StoredRun,
         NEW completed \in BOOLEAN, f.phase # "idle", Knows(f, s, completed),
         f.phase \in {"yielded", "working", "committing", "releasing"},
         f.flight.phase # "sent", e.flight \in {f.flight, NoFlight},
         e.phase \in {"releasing", "done"}, e.status = f.status, e.revision = f.revision,
         e.abandoned => f.abandoned,
         e.run = f.run, e.streamed = f.streamed, KeepsCanceller(f, e)
  PROVE  Follows(f, e, s, completed)
<1> USE Phases, FlightOfNone DEF Knows, KeepsCanceller
<1>1. e.flight.phase # "sent" /\ (IsOver(f) => IsOver(e))
  BY DEF IsOver
<1>2. HasForm(e) /\ IsBehind(e, s)
  BY <1>1 DEF HasForm, IsBehind
<1>3. LeavesHistory(e, s, completed)
  BY <1>1 DEF LeavesHistory
<1>4. IsAlone(f, s) => IsAlone(e, s)
  BY <1>1 DEF IsAlone
<1> QED BY <1>2, <1>3, <1>4 DEF Follows

(* The driver sends a commit.                                                *)
LEMMA Sends ==
  ASSUME NEW f \in Execution, NEW e \in Execution, NEW s \in StoredRun,
         NEW completed \in BOOLEAN, f.phase # "idle", Knows(f, s, completed),
         NEW status \in Active \cup Terminal, NEW event \in {"progress", "paused"} \cup Terminal,
         f.phase \in {"working", "committing"},
         f.phase = "committing" => f.status \notin Terminal,
         event = "completed" => status = "completed",
         IsAlone(f, s) => event = IF status = "running" THEN "progress" ELSE status,
         e.phase = "committing", e.status = status, e.flight = Sent(f, status, event),
         e.revision = f.revision, e.abandoned = f.abandoned,
         e.run = f.run, e.streamed = f.streamed, KeepsCanceller(f, e)
  PROVE  Follows(f, e, s, completed)
<1> USE Phases DEF Knows, KeepsCanceller
<1>1. ~ IsOver(f) /\ e.revision \in Nat
  BY DEF IsOver, Execution
<1>2. /\ e.flight.expected = f.revision /\ e.flight.status = status
      /\ e.flight.event = event /\ e.flight.phase = "sent"
  BY FlightSent
<1>3. HasForm(e) /\ IsBehind(e, s)
  BY <1>1, <1>2 DEF HasForm, IsBehind
<1>4. LeavesHistory(e, s, completed)
  BY <1>1, <1>2 DEF LeavesHistory
<1>5. IsAlone(f, s) => IsAlone(e, s)
  BY <1>1, <1>2 DEF IsAlone
<1> QED BY <1>3, <1>4, <1>5 DEF Follows

(* The driver goes on after progress, or after its consumer held it.         *)
LEMMA GoesOn ==
  ASSUME NEW f \in Execution, NEW e \in Execution, NEW s \in StoredRun,
         NEW completed \in BOOLEAN, f.phase # "idle", Knows(f, s, completed),
         \/ f.phase = "yielded"
         \/ f.phase = "committing" /\ f.flight.event = "progress",
         f.flight.phase # "sent", e.flight \in {f.flight, NoFlight},
         e.phase \in {"working", "yielded"}, e.phase = "yielded" => f.streamed,
         f.phase = "committing" => e.abandoned = f.abandoned,
         e.status = f.status, e.revision = f.revision,
         e.run = f.run, e.streamed = f.streamed, KeepsCanceller(f, e)
  PROVE  Follows(f, e, s, completed)
<1> USE Phases, FlightOfNone DEF Knows, KeepsCanceller
<1>1. e.flight.phase # "sent" /\ ~ IsOver(f)
  BY DEF IsOver, Terminal
<1>2. HasForm(e) /\ IsBehind(e, s)
  BY <1>1 DEF HasForm, IsBehind
<1>3. LeavesHistory(e, s, completed)
  BY <1>1 DEF LeavesHistory
<1>4. IsAlone(f, s) /\ ~ f.streamed => IsAlone(e, s)
  BY <1>1 DEF IsAlone, Execution, Active, Terminal
<1> QED BY <1>2, <1>3, <1>4 DEF Follows

(* Somebody who found it registered cancels it.                              *)
LEMMA Cancels ==
  ASSUME NEW f \in Execution, NEW e \in Execution, NEW s \in StoredRun,
         NEW completed \in BOOLEAN, f.phase # "idle", Knows(f, s, completed),
         f.phase \in Started \ Advancing, f.status \notin Terminal,
         e.status = "cancelled", e.canceller = "committing",
         e.cancellation = Sent(f, "cancelled", "cancelled"),
         e.phase = f.phase, e.run = f.run, e.streamed = f.streamed,
         e.revision = f.revision, e.abandoned = f.abandoned, e.flight = f.flight
  PROVE  Follows(f, e, s, completed)
<1> USE Phases DEF Knows
<1>1. /\ ~ IsOver(f) /\ e.revision \in Nat /\ f.flight.phase # "sent"
      /\ f.phase \in {"yielded", "done"}
  BY DEF IsOver, Execution, HasForm, Advancing
<1>2. /\ e.cancellation.expected = f.revision /\ e.cancellation.status = "cancelled"
      /\ e.cancellation.event = "cancelled" /\ e.cancellation.phase = "sent"
  BY FlightSent DEF Terminal
<1>3. HasForm(e) /\ IsBehind(e, s)
  BY <1>1, <1>2 DEF HasForm, IsBehind
<1>4. LeavesHistory(e, s, completed)
  BY <1>1, <1>2 DEF LeavesHistory
<1>5. IsAlone(f, s) => IsAlone(e, s)
  BY <1>1, <1>2 DEF IsAlone
<1> QED BY <1>3, <1>4, <1>5 DEF Follows

(* Who cancels it goes on to the release, or is done.                        *)
LEMMA CancellerGoesOn ==
  ASSUME NEW f \in Execution, NEW e \in Execution, NEW s \in StoredRun,
         NEW completed \in BOOLEAN, f.phase # "idle", Knows(f, s, completed),
         f.phase \in Started, e.canceller \in {"releasing", "done"},
         e.cancellation = f.cancellation,
         e.phase = f.phase, e.run = f.run, e.streamed = f.streamed, e.status = f.status,
         e.revision = f.revision, e.abandoned = f.abandoned, e.flight = f.flight
  PROVE  Follows(f, e, s, completed)
  BY DEF Follows, Knows, HasForm, IsBehind, LeavesHistory, IsOver, IsAlone

(* The store refused a commit, or threw.                                     *)
LEMMA IsAnswered ==
  ASSUME NEW f \in Execution, NEW e \in Execution, NEW s \in StoredRun,
         NEW completed \in BOOLEAN, f.phase # "idle", Knows(f, s, completed),
         \/ /\ f.flight.phase = "sent" /\ e.flight.phase \in {"refused", "thrown"}
            /\ e.flight.event = f.flight.event /\ e.flight.status = f.flight.status
            /\ e.cancellation = f.cancellation
         \/ /\ f.cancellation.phase = "sent" /\ e.cancellation.phase \in {"refused", "thrown"}
            /\ e.flight = f.flight,
         e.phase = f.phase, e.run = f.run, e.streamed = f.streamed, e.status = f.status,
         e.revision = f.revision, e.abandoned = f.abandoned, e.canceller = f.canceller
  PROVE  Follows(f, e, s, completed)
<1> USE Phases DEF Knows
<1>1. /\ e.flight.phase = "sent" => e.flight = f.flight
      /\ e.cancellation.phase = "sent" => e.cancellation = f.cancellation
      /\ f.flight.phase = "sent" => ~ (f.phase \in {"releasing", "done"})
  BY DEF HasForm
<1>2. IsOver(f) => IsOver(e)
  BY <1>1 DEF IsOver
<1>3. HasForm(e) /\ IsBehind(e, s)
  BY <1>1 DEF HasForm, IsBehind
<1>4. LeavesHistory(e, s, completed)
  BY <1>1, <1>2 DEF LeavesHistory
<1>5. IsAlone(f, s) => IsAlone(e, s)
  BY <1>1, <1>2 DEF IsAlone
<1> QED BY <1>3, <1>4, <1>5 DEF Follows

-----------------------------------------------------------------------------
(* The executions together.                                                  *)

CoreInv == FormInv /\ StoreInv /\ HistoryInv /\ BackgroundInv /\ AdmissionIsBounded

ShutdownState ==
  [phase : {"open", "draining", "cancelling", "cleaning", "returned"},
   timedOut : BOOLEAN, todo : SUBSET Executions, cancelling : Executions \cup {None}]

IsPending(e) == e.phase \in Starting \cup Resuming

(* What the invariants say of one execution.                                 *)
LEMMA WhatIsKnown ==
  ASSUME CoreInv, NEW x \in Executions
  PROVE  /\ local[x] \in Execution /\ HasForm(local[x])
         /\ ~ In(x, "idle") =>
              /\ local[x].run \in Runs /\ stored[local[x].run] \in StoredRun
              /\ Knows(local[x], stored[local[x].run], local[x].run \in history)
              /\ local[x].run \in history => stored[local[x].run].status = "completed"
  BY DEF CoreInv, FormInv, TypeOK, StoreInv, HistoryInv, HistoryIsOfCompletedRuns, Knows,
         HasForm, In, StoredRun

(* Moves that leave the store alone leave alone what is known of it.         *)
Goes(x) ==
  \/ local'[x] = local[x]
  \/ /\ ~ In(x, "idle")
     /\ Follows(local[x], local'[x], stored[local[x].run], local[x].run \in history)

(* Only runs that exist are leased.                                          *)
LeaseIsFormed(holders) ==
  /\ holders \in [Runs -> Executions \cup {None}]
  /\ \A r \in Runs : stored[r].status = "absent" => holders[r] = None

LEMMA KnowledgeIsKept ==
  ASSUME CoreInv, UNCHANGED <<stored, said, history>>, LeaseIsFormed(lease'),
         \A x \in Executions : Goes(x)
  PROVE  /\ StoreInv' /\ HistoryInv' /\ BackgroundInv'
         /\ \A x \in Executions :
              /\ HasForm(local'[x])
              /\ local[x].phase \in Started =>
                   local'[x].phase \in Started /\ local'[x].run = local[x].run
<1>1. \A x \in Executions :
        /\ HasForm(local'[x])
        /\ local[x].phase \in Started =>
             local'[x].phase \in Started /\ local'[x].run = local[x].run
        /\ In(x, "idle") => local'[x] = local[x]
        /\ ~ In(x, "idle") => local'[x].run = local[x].run
        /\ local'[x].streamed = local[x].streamed
        /\ local'[x].phase \in Starting => local[x].phase \in Starting
  BY WhatIsKnown DEF Goes, Follows, Knows
<1>2. StoreInv'
  <2>1. \A x \in Executions :
          local'[x].phase # "idle" => IsBehind(local'[x], stored[local'[x].run])
    BY <1>1, WhatIsKnown DEF Goes, Follows, Knows, In
  <2>2. \A x, y \in Executions :
          local'[x].phase \in Starting /\ local'[y].run = local'[x].run => x = y
    <3> SUFFICES ASSUME NEW x \in Executions, NEW y \in Executions,
                        local'[x].phase \in Starting, local'[y].run = local'[x].run
                 PROVE  x = y
      OBVIOUS
    <3>1. local[x].phase \in Starting /\ local'[x].run = local[x].run
      BY <1>1, Phases DEF In
    <3>2. local'[y].run = local[y].run
      BY <1>1
    <3> QED BY <3>1, <3>2 DEF CoreInv, StoreInv
  <2> QED BY <2>1, <2>2 DEF CoreInv, StoreInv, In, LeaseIsFormed
<1>3. HistoryInv'
  <2>1. \A x \in Executions : local'[x].phase # "idle" =>
          LeavesHistory(local'[x], stored[local'[x].run], local'[x].run \in history)
    BY <1>1, WhatIsKnown DEF Goes, Follows, Knows, In
  <2> QED BY <2>1 DEF CoreInv, HistoryInv, HistoryIsOfCompletedRuns, In
<1>4. BackgroundInv'
  <2> SUFFICES ASSUME Backgrounded'
               PROVE  /\ EventsTellTheStatus'
                      /\ \A x \in Executions : local'[x].phase # "idle" =>
                           IsAlone(local'[x], stored[local'[x].run])
    BY DEF BackgroundInv, In
  <2>1. Backgrounded
    BY <1>1 DEF Backgrounded
  <2>2. EventsTellTheStatus'
    BY <2>1 DEF CoreInv, BackgroundInv, EventsTellTheStatus
  <2>3. \A x \in Executions : ~ In(x, "idle") => IsAlone(local[x], stored[local[x].run])
    BY <2>1 DEF CoreInv, BackgroundInv
  <2>4. \A x \in Executions : ~ local[x].streamed
    BY <2>1 DEF Backgrounded
  <2> QED BY <2>2, <2>3, <2>4, <1>1 DEF Goes, Follows, In
<1> QED BY <1>1, <1>2, <1>3, <1>4

(* The starts on their way are counted.                                      *)
LEMMA PendingIsFinite ==
  ASSUME CoreInv
  PROVE  /\ IsFiniteSet(Pending) /\ Cardinality(Executions) \in Nat
         /\ pendingStarts = Cardinality(Pending) /\ pendingStarts \in Nat
<1>1. IsFiniteSet(Executions) /\ Pending \subseteq Executions
  BY RuntimeAssumption DEF Pending
<1>2. IsFiniteSet(Pending)
  BY <1>1, FS_Subset
<1> QED BY <1>1, <1>2, FS_CardinalityType DEF CoreInv, FormInv

LEMMA PendingIsCounted ==
  ASSUME CoreInv, NEW x \in Executions, NEW e \in Execution,
         local' = [local EXCEPT ![x] = e],
         pendingStarts' = IF IsPending(local[x]) <=> IsPending(e) THEN pendingStarts
                          ELSE IF IsPending(e) THEN pendingStarts + 1 ELSE pendingStarts - 1
  PROVE  pendingStarts' = Cardinality(Pending)' /\ pendingStarts' \in 0 .. Cardinality(Executions)
<1>1. local \in [Executions -> Execution]
  BY DEF CoreInv, FormInv, TypeOK
<1>2. IsFiniteSet(Pending) /\ pendingStarts = Cardinality(Pending) /\ pendingStarts \in Nat
  BY PendingIsFinite
<1>3. IsFiniteSet(Executions) /\ Pending' \subseteq Executions
  BY RuntimeAssumption DEF Pending
<1>4. Pending' = {y \in Executions : local'[y].phase \in Starting \cup Resuming}
  BY DEF Pending
<1>5. pendingStarts' = Cardinality(Pending')
  <2>1. CASE IsPending(local[x]) <=> IsPending(e)
    <3>1. Pending' = Pending
      BY <1>1, <1>4, <2>1 DEF Pending, IsPending
    <3> QED BY <1>2, <2>1, <3>1
  <2>2. CASE ~ IsPending(local[x]) /\ IsPending(e)
    <3>1. Pending' = Pending \cup {x} /\ x \notin Pending
      BY <1>1, <1>4, <2>2 DEF Pending, IsPending
    <3> QED BY <1>2, <2>2, <3>1, FS_AddElement
  <2>3. CASE IsPending(local[x]) /\ ~ IsPending(e)
    <3>1. Pending' = Pending \ {x} /\ x \in Pending
      BY <1>1, <1>4, <2>3 DEF Pending, IsPending
    <3> QED BY <1>2, <2>3, <3>1, FS_RemoveElement
  <2> QED BY <2>1, <2>2, <2>3 DEF IsPending
<1>6. Cardinality(Pending') <= Cardinality(Executions) /\ Cardinality(Pending') \in Nat
      /\ Cardinality(Executions) \in Nat
  BY <1>3, FS_Subset, FS_CardinalityType
<1> QED BY <1>5, <1>6

(* The runs that count against the limit.                                    *)
Working == {x \in Registered : ~ local[x].aborted}

LEMMA WorkingIsFinite ==
  /\ IsFiniteSet(Working) /\ Running = Cardinality(Working) /\ Running \in Nat
<1>1. IsFiniteSet(Executions) /\ Working \subseteq Executions
  BY RuntimeAssumption DEF Working, Registered
<1>2. IsFiniteSet(Working)
  BY <1>1, FS_Subset
<1> QED BY <1>2, FS_CardinalityType DEF Working, Running

LEMMA WorkingIsFiniteAfter ==
  /\ IsFiniteSet(Working') /\ Running' = Cardinality(Working') /\ Running' \in Nat
<1>1. IsFiniteSet(Executions) /\ Working' \subseteq Executions
  BY RuntimeAssumption DEF Working, Registered
<1>2. IsFiniteSet(Working')
  BY <1>1, FS_Subset
<1> QED BY <1>2, FS_CardinalityType DEF Working, Running

LEMMA Arithmetic ==
  ASSUME NEW before \in Nat, NEW after \in Nat, NEW p \in Nat, NEW q \in Nat,
         NEW limit \in Nat, before + p <= limit,
         \/ after <= before /\ q <= p
         \/ after <= before + 1 /\ q = p - 1
         \/ after <= before /\ q = p + 1 /\ before + p < limit
  PROVE  after + q <= limit
  OBVIOUS

LEMMA AdmissionIsKept ==
  ASSUME CoreInv, pendingStarts' \in Nat,
         \/ Working' \subseteq Working /\ pendingStarts' <= pendingStarts
         \/ \E x \in Executions :
              Working' \subseteq Working \cup {x} /\ pendingStarts' = pendingStarts - 1
         \/ /\ Working' \subseteq Working /\ pendingStarts' = pendingStarts + 1
            /\ Running + pendingStarts < MaxActiveRuns
  PROVE  AdmissionIsBounded'
<1>1. /\ Running + pendingStarts <= MaxActiveRuns /\ pendingStarts \in Nat
      /\ Running \in Nat /\ Running' \in Nat /\ MaxActiveRuns \in Nat
  BY PendingIsFinite, WorkingIsFinite, WorkingIsFiniteAfter, RuntimeAssumption
     DEF CoreInv, AdmissionIsBounded
<1>2. ASSUME Working' \subseteq Working PROVE Running' <= Running
  BY <1>2, WorkingIsFinite, WorkingIsFiniteAfter, FS_Subset
<1>3. ASSUME NEW x \in Executions, Working' \subseteq Working \cup {x}
      PROVE  Running' <= Running + 1
  <2> DEFINE most == Working \cup {x}
  <2>1. IsFiniteSet(Working) /\ Cardinality(Working) \in Nat
    BY WorkingIsFinite
  <2>2. IsFiniteSet(most) /\ (most = Working \/ Cardinality(most) = Cardinality(Working) + 1)
    <3>1. CASE x \in Working
      <4>1. most = Working
        BY <3>1
      <4> QED BY <2>1, <4>1
    <3>2. CASE x \notin Working
      BY <2>1, <3>2, FS_AddElement
    <3> QED BY <3>1, <3>2
  <2>3. Working' \subseteq most
    BY <1>3
  <2> HIDE DEF most
  <2>4. Cardinality(Working') <= Cardinality(most) /\ Cardinality(most) \in Nat
    BY <2>2, <2>3, FS_Subset, FS_CardinalityType
  <2>5. Cardinality(most) <= Cardinality(Working) + 1
    BY <2>1, <2>2
  <2>6. Cardinality(Working') \in Nat /\ Running' = Cardinality(Working')
    BY WorkingIsFiniteAfter
  <2> QED BY <2>1, <2>4, <2>5, <2>6, WorkingIsFinite
<1>5. \/ Running' <= Running /\ pendingStarts' <= pendingStarts
      \/ Running' <= Running + 1 /\ pendingStarts' = pendingStarts - 1
      \/ /\ Running' <= Running /\ pendingStarts' = pendingStarts + 1
         /\ Running + pendingStarts < MaxActiveRuns
  <2>1. CASE Working' \subseteq Working /\ pendingStarts' <= pendingStarts
    BY <1>2, <2>1
  <2>2. CASE \E x \in Executions :
               Working' \subseteq Working \cup {x} /\ pendingStarts' = pendingStarts - 1
    <3>1. PICK x \in Executions :
            Working' \subseteq Working \cup {x} /\ pendingStarts' = pendingStarts - 1
      BY <2>2
    <3>2. Running' <= Running + 1
      BY <1>3, <3>1
    <3> QED BY <3>1, <3>2
  <2>3. CASE /\ Working' \subseteq Working /\ pendingStarts' = pendingStarts + 1
             /\ Running + pendingStarts < MaxActiveRuns
    BY <1>2, <2>3
  <2> QED BY <2>1, <2>2, <2>3
<1>6. Running' + pendingStarts' <= MaxActiveRuns
  <2> DEFINE before == Running
             after  == Running'
  <2>1. /\ before + pendingStarts <= MaxActiveRuns /\ pendingStarts \in Nat
        /\ before \in Nat /\ after \in Nat /\ MaxActiveRuns \in Nat
    BY <1>1
  <2>2. \/ after <= before /\ pendingStarts' <= pendingStarts
        \/ after <= before + 1 /\ pendingStarts' = pendingStarts - 1
        \/ /\ after <= before /\ pendingStarts' = pendingStarts + 1
           /\ before + pendingStarts < MaxActiveRuns
    BY <1>5
  <2> HIDE DEF before, after
  <2>3. after + pendingStarts' <= MaxActiveRuns
    BY <2>1, <2>2, Arithmetic
  <2> QED BY <2>3 DEF after
<1> QED BY <1>6 DEF AdmissionIsBounded

(* What a step must keep of the registries and the shutdown.                 *)
IsFormed(s) ==
  /\ s \in ShutdownState
  /\ \A y \in s.todo : local[y].phase \in Started
  /\ s.cancelling # None => local[s.cancelling].phase \in Started
  /\ s.phase = "cancelling" => s.cancelling # None
  /\ s.phase \in {"cancelling", "cleaning"} => s.timedOut
  /\ ~ s.timedOut => ~ shutdown.timedOut

LEMMA ShutdownIsFormed ==
  ASSUME CoreInv
  PROVE  IsFormed(shutdown) /\ IsFormed(Notified)
<1>1. IsFormed(shutdown)
  BY DEF CoreInv, FormInv, TypeOK, IsFormed, ShutdownState
<1>2. Notified = shutdown \/ Notified = [shutdown EXCEPT !.phase = "returned"]
  BY DEF Notified
<1> QED BY <1>1, <1>2 DEF IsFormed, ShutdownState

LEMMA FormIsKept ==
  ASSUME CoreInv, TypeOK', pendingStarts' = Cardinality(Pending)',
         \A y \in Executions :
           /\ HasForm(local'[y])
           /\ local[y].phase \in Started =>
                local'[y].phase \in Started /\ local'[y].run = local[y].run,
         \A r \in Runs :
           \/ activeRuns'[r] \in {activeRuns[r], None}
           \/ /\ local'[activeRuns'[r]].run = r
              /\ local'[activeRuns'[r]].phase \in Started,
         IsFormed(shutdown')
  PROVE  FormInv'
<1>1. \A r \in Runs : activeRuns[r] # None =>
        /\ local[activeRuns[r]].run = r /\ local[activeRuns[r]].phase \in Started
        /\ activeRuns[r] \in Executions
  BY DEF CoreInv, FormInv, TypeOK
<1>2. \A r \in Runs : activeRuns'[r] # None =>
        local'[activeRuns'[r]].run = r /\ local'[activeRuns'[r]].phase \in Started
  BY <1>1
<1>3. /\ \A y \in shutdown'.todo : local'[y].phase \in Started
      /\ shutdown'.cancelling # None => local'[shutdown'.cancelling].phase \in Started
  BY DEF IsFormed, ShutdownState
<1> QED BY <1>2, <1>3 DEF FormInv, IsFormed

(* One execution moves, and is perhaps registered or deregistered.           *)
Moves(x, e) ==
  /\ ~ In(x, "idle") /\ e \in Execution /\ Put(x, e)
  /\ Follows(local[x], e, stored[local[x].run], local[x].run \in history)
  /\ local[x].aborted => e.aborted
  /\ UNCHANGED <<stored, said, history>>

LEMMA OneMoves ==
  ASSUME CoreInv, NEW x \in Executions, NEW e, Moves(x, e),
         LeaseIsFormed(lease'),
         \/ activeRuns' = activeRuns
         \/ activeRuns' = [activeRuns EXCEPT ![local[x].run] = None]
         \/ /\ activeRuns' = [activeRuns EXCEPT ![local[x].run] = x]
            /\ IsPending(local[x]) /\ e.phase \in Started,
         activeSessions' \subseteq Sessions,
         pendingStarts' = IF IsPending(local[x]) /\ ~ IsPending(e)
                          THEN pendingStarts - 1 ELSE pendingStarts,
         IsFormed(shutdown'), failures' \in 0 .. MaxFailures
  PROVE  CoreInv'
<1>1. /\ local \in [Executions -> Execution] /\ local[x].run \in Runs
      /\ activeRuns \in [Runs -> Executions \cup {None}]
      /\ e \in Execution /\ local' = [local EXCEPT ![x] = e]
  BY WhatIsKnown DEF CoreInv, FormInv, TypeOK, Moves, Put
<1>2. local'[x] = e /\ \A y \in Executions \ {x} : local'[y] = local[y]
  BY <1>1
<1>3. /\ e.run = local[x].run /\ e.phase # "idle" /\ ~ In(x, "idle")
      /\ local[x].phase \in Started => e.phase \in Started
      /\ local[x].aborted => e.aborted
  BY DEF Moves, Follows
<1>4. IsPending(e) => IsPending(local[x])
  <2>1. /\ local[x].phase \in Started \cup Starting \cup Resuming
        /\ ~ (e.phase \in Started /\ IsPending(e))
    BY <1>1, <1>3, Phases DEF Execution, Advancing, Driving, In, IsPending
  <2> QED BY <1>3, <2>1 DEF IsPending
<1>5. pendingStarts' = Cardinality(Pending)' /\ pendingStarts' \in 0 .. Cardinality(Executions)
  <2>1. pendingStarts' = IF IsPending(local[x]) <=> IsPending(e) THEN pendingStarts
                         ELSE IF IsPending(e) THEN pendingStarts + 1 ELSE pendingStarts - 1
    BY <1>4
  <2> QED BY <1>1, <2>1, PendingIsCounted
<1>6. /\ StoreInv' /\ HistoryInv' /\ BackgroundInv'
      /\ \A y \in Executions :
           /\ HasForm(local'[y])
           /\ local[y].phase \in Started =>
                local'[y].phase \in Started /\ local'[y].run = local[y].run
  <2>1. \A y \in Executions : Goes(y)
    BY <1>2 DEF Goes, Moves
  <2> QED BY <2>1, KnowledgeIsKept DEF Moves
<1>7. TypeOK'
  <2>1. local' \in [Executions -> Execution]
    BY <1>1
  <2>2. activeRuns' \in [Runs -> Executions \cup {None}]
    BY <1>1
  <2>3. shutdown' \in ShutdownState
    BY DEF IsFormed
  <2> QED BY <1>5, <2>1, <2>2, <2>3 DEF TypeOK, CoreInv, FormInv, Moves, ShutdownState, LeaseIsFormed
<1>8. FormInv'
  <2>1. \A r \in Runs :
          \/ activeRuns'[r] \in {activeRuns[r], None}
          \/ local'[activeRuns'[r]].run = r /\ local'[activeRuns'[r]].phase \in Started
    BY <1>1, <1>2, <1>3
  <2> QED BY <1>5, <1>6, <1>7, <2>1, FormIsKept
<1>9. AdmissionIsBounded'
  <2>1. pendingStarts \in Nat /\ pendingStarts' \in Nat /\ pendingStarts' <= pendingStarts
    <3>1. pendingStarts \in Nat /\ pendingStarts' \in Nat
      BY <1>5, PendingIsFinite, FS_CardinalityType, RuntimeAssumption
    <3> QED BY <3>1
  <2>2. CASE activeRuns' = activeRuns \/ activeRuns' = [activeRuns EXCEPT ![local[x].run] = None]
    <3>1. Registered' \subseteq Registered
      BY <1>1, <2>2, RuntimeAssumption DEF Registered
    <3>2. Working' \subseteq Working
      BY <1>1, <1>2, <1>3, <3>1 DEF Working
    <3> QED BY <2>1, <3>2, AdmissionIsKept
  <2>3. CASE /\ activeRuns' = [activeRuns EXCEPT ![local[x].run] = x]
             /\ IsPending(local[x]) /\ e.phase \in Started
    <3>1. Registered' \subseteq Registered \cup {x}
      BY <1>1, <2>3 DEF Registered
    <3>2. Working' \subseteq Working \cup {x}
      BY <1>1, <1>2, <1>3, <3>1 DEF Working
    <3>3. ~ IsPending(e)
      BY <2>3, Phases DEF IsPending
    <3> QED BY <2>1, <2>3, <3>2, <3>3, AdmissionIsKept
  <2> QED BY <2>2, <2>3
<1> QED BY <1>6, <1>8, <1>9 DEF CoreInv

-----------------------------------------------------------------------------
(* The registries of a process that runs one at a time.                      *)
OneAtATime == Backgrounded /\ MaxActiveRuns = 1 /\ ~ shutdown.timedOut

Reserves ==
  /\ \A x \in Executions : IsReserved(x)
  /\ \A r \in Runs : activeRuns[r] # None => HomeOf[r] \in activeSessions
  /\ \A q, r \in Runs :
       activeRuns[q] # None /\ activeRuns[r] # None /\ HomeOf[q] = HomeOf[r] => q = r

LEMMA OneIsPending ==
  ASSUME CoreInv, MaxActiveRuns = 1, NEW x \in Pending, NEW y \in Pending
  PROVE  x = y
<1> SUFFICES ASSUME x # y PROVE FALSE
  OBVIOUS
<1>1. IsFiniteSet(Pending) /\ pendingStarts = Cardinality(Pending) /\ pendingStarts \in Nat
  BY PendingIsFinite
<1>2. IsFiniteSet({x}) /\ Cardinality({x}) = 1
  BY FS_Singleton
<1>3. Cardinality({x} \cup {y}) = Cardinality({x}) + 1 /\ IsFiniteSet({x} \cup {y})
  BY <1>2, FS_AddElement
<1>4. {x} \cup {y} \subseteq Pending
  OBVIOUS
<1>5. Cardinality({x} \cup {y}) <= Cardinality(Pending)
  BY <1>1, <1>4, FS_Subset
<1>6. Running + pendingStarts <= 1 /\ Running \in Nat
  BY WorkingIsFinite DEF CoreInv, AdmissionIsBounded
<1>7. pendingStarts <= 1
  BY <1>1, <1>6
<1> QED BY <1>1, <1>2, <1>3, <1>5, <1>7

LEMMA OnePendingByPhase ==
  ASSUME CoreInv, MaxActiveRuns = 1, NEW x \in Executions, NEW y \in Executions,
         IsPending(local[x]), IsPending(local[y])
  PROVE  x = y
  BY OneIsPending DEF Pending, IsPending

(* The execution moves and the registries stay.                              *)
LEMMA RegistriesStay ==
  ASSUME RuntimeInv, NEW x \in Executions, NEW e \in Execution, Put(x, e),
         UNCHANGED <<activeRuns, activeSessions>>,
         ~ shutdown'.timedOut => ~ shutdown.timedOut,
         local[x].streamed => e.streamed,
         \/ e.run = local[x].run
         \/ e.phase \in {"admitting", "locating"} /\ e.canceller = "none",
         e.phase \in Driving => local[x].phase \in Driving,
         e.canceller = "committing" =>
           local[x].canceller = "committing" \/ activeRuns[e.run] = x,
         e.phase \in {"acquiring", "resuming"} =>
           \/ local[x].phase \in {"acquiring", "resuming"}
           \/ Home(x) \notin activeSessions,
         e.phase = "creating" => local[x].phase = "creating"
  PROVE  RegistryInv'
<1> SUFFICES ASSUME OneAtATime' PROVE Reserves'
  BY DEF RegistryInv, OneAtATime, Reserves
<1>1. local' = [local EXCEPT ![x] = e] /\ local \in [Executions -> Execution]
  BY DEF RuntimeInv, FormInv, TypeOK, Put
<1>2. local'[x] = e /\ \A y \in Executions \ {x} : local'[y] = local[y]
  BY <1>1
<1>3. Reserves
  BY <1>2 DEF RuntimeInv, RegistryInv, OneAtATime, Reserves, Backgrounded
<1>4. \A y \in Executions \ {x} : IsReserved(y)'
  BY <1>2, <1>3 DEF Reserves, IsReserved, Home
<1>5. IsReserved(x)'
  BY <1>2, <1>3, Phases DEF Reserves, IsReserved, Home, Driving
<1> QED BY <1>3, <1>4, <1>5 DEF Reserves

(* The execution moves and is deregistered.                                  *)
LEMMA RegistriesForget ==
  ASSUME RuntimeInv, NEW x \in Executions, NEW e \in Execution, Put(x, e),
         ~ In(x, "idle"),
         activeRuns' = [activeRuns EXCEPT ![local[x].run] = None],
         activeSessions' = activeSessions \ {Home(x)},
         ~ shutdown'.timedOut => ~ shutdown.timedOut,
         local[x].streamed => e.streamed, e.run = local[x].run,
         \/ /\ local[x].phase \in Driving \/ local[x].abandoned
            /\ e.phase = "releasing" /\ e.canceller = local[x].canceller
         \/ /\ local[x].canceller = "committing"
            /\ e.phase = local[x].phase /\ e.canceller = "releasing"
  PROVE  RegistryInv'
<1> SUFFICES ASSUME OneAtATime' PROVE Reserves'
  BY DEF RegistryInv, OneAtATime, Reserves
<1>1. /\ local' = [local EXCEPT ![x] = e] /\ local \in [Executions -> Execution]
      /\ activeRuns \in [Runs -> Executions \cup {None}] /\ None \notin Executions
  BY RuntimeAssumption DEF RuntimeInv, FormInv, TypeOK, Put
<1>2. local'[x] = e /\ \A y \in Executions \ {x} : local'[y] = local[y]
  BY <1>1
<1>3. OneAtATime /\ Reserves
  BY <1>2 DEF RuntimeInv, RegistryInv, OneAtATime, Reserves, Backgrounded
<1>4. IsAlone(local[x], stored[local[x].run]) /\ local[x].run \in Runs
  BY <1>3 DEF RuntimeInv, BackgroundInv, OneAtATime, FormInv, HasForm, In
<1>5. activeRuns[local[x].run] = x
  BY <1>3, <1>4 DEF Reserves, IsReserved, IsAlone
<1>6. \A y \in Executions \ {x} :
        activeRuns[local[y].run] = y => activeRuns'[local[y].run] = y
  BY <1>1, <1>4, <1>5
<1>7. \A r \in Runs :
        activeRuns'[r] # None => activeRuns[r] # None /\ HomeOf[r] # Home(x) /\ activeRuns'[r] = activeRuns[r]
  BY <1>1, <1>3, <1>4, <1>5 DEF Reserves, Home
<1>8. \A y \in Executions \ {x} : IsReserved(y)'
  <2> SUFFICES ASSUME NEW y \in Executions, y # x PROVE IsReserved(y)'
    OBVIOUS
  <2>1. local'[y] = local[y] /\ IsReserved(y)
    BY <1>2, <1>3 DEF Reserves
  <2>2. local[y].phase = "creating" => Home(y) # Home(x)
    BY <1>1, <1>4, <1>5, <2>1 DEF IsReserved, Home
  <2> QED BY <1>6, <1>7, <2>1, <2>2 DEF IsReserved, Home
<1>9. IsReserved(x)'
  BY <1>2, <1>4, Phases DEF IsReserved, IsAlone, Driving
<1> QED BY <1>3, <1>7, <1>8, <1>9 DEF Reserves

(* A start reserves its session.                                             *)
LEMMA RegistriesReserve ==
  ASSUME RuntimeInv, NEW x \in Executions, NEW e \in Execution, Put(x, e),
         In(x, "reading"), Home(x) \notin activeSessions,
         activeRuns' = activeRuns,
         activeSessions' = activeSessions \cup {Home(x)}, UNCHANGED shutdown,
         local[x].streamed => e.streamed, e.run = local[x].run,
         e.phase = "creating", e.canceller = local[x].canceller
  PROVE  RegistryInv'
<1> SUFFICES ASSUME OneAtATime' PROVE Reserves'
  BY DEF RegistryInv, OneAtATime, Reserves
<1>1. /\ local' = [local EXCEPT ![x] = e] /\ local \in [Executions -> Execution]
  BY DEF RuntimeInv, FormInv, TypeOK, Put
<1>2. local'[x] = e /\ \A y \in Executions \ {x} : local'[y] = local[y]
  BY <1>1
<1>3. OneAtATime /\ Reserves
  BY <1>2 DEF RuntimeInv, RegistryInv, OneAtATime, Reserves, Backgrounded
<1>4. \A y \in Executions \ {x} : ~ IsPending(local[y])
  BY <1>3, OnePendingByPhase, Phases DEF RuntimeInv, CoreInv, OneAtATime, IsPending, In
<1>5. \A y \in Executions \ {x} : IsReserved(y)'
  <2> SUFFICES ASSUME NEW y \in Executions, y # x PROVE IsReserved(y)'
    OBVIOUS
  <2>1. /\ local'[y] = local[y] /\ IsReserved(y)
        /\ local[y].phase \notin {"acquiring", "resuming", "creating"}
    BY <1>2, <1>3, <1>4, Phases DEF Reserves, IsPending
  <2> QED BY <2>1 DEF IsReserved, Home
<1>6. IsReserved(x)'
  <2>1. \A r \in Runs : activeRuns[r] # None => HomeOf[r] # Home(x)
    BY <1>3 DEF Reserves
  <2>2. e.canceller = "none"
    BY DEF RuntimeInv, FormInv, HasForm, In, Started, Driving
  <2> QED BY <1>2, <2>1, <2>2, Phases DEF IsReserved, Home, Driving
<1> QED BY <1>3, <1>5, <1>6 DEF Reserves

(* A start that does not come about gives its session back.                  *)
LEMMA RegistriesGiveBack ==
  ASSUME RuntimeInv, NEW x \in Executions, NEW e \in Execution, Put(x, e),
         In(x, "creating"), activeRuns' = activeRuns,
         activeSessions' = activeSessions \ {Home(x)}, UNCHANGED shutdown,
         local[x].streamed => e.streamed, e.run = local[x].run,
         e.phase = "done", e.canceller = local[x].canceller
  PROVE  RegistryInv'
<1> SUFFICES ASSUME OneAtATime' PROVE Reserves'
  BY DEF RegistryInv, OneAtATime, Reserves
<1>1. /\ local' = [local EXCEPT ![x] = e] /\ local \in [Executions -> Execution]
  BY DEF RuntimeInv, FormInv, TypeOK, Put
<1>2. local'[x] = e /\ \A y \in Executions \ {x} : local'[y] = local[y]
  BY <1>1
<1>3. OneAtATime /\ Reserves
  BY <1>2 DEF RuntimeInv, RegistryInv, OneAtATime, Reserves, Backgrounded
<1>4. \A y \in Executions \ {x} : ~ IsPending(local[y])
  BY <1>3, OnePendingByPhase, Phases DEF RuntimeInv, CoreInv, OneAtATime, IsPending, In
<1>5. \A y \in Executions \ {x} : IsReserved(y)'
  <2> SUFFICES ASSUME NEW y \in Executions, y # x PROVE IsReserved(y)'
    OBVIOUS
  <2>1. /\ local'[y] = local[y] /\ IsReserved(y)
        /\ local[y].phase \notin {"acquiring", "resuming", "creating"}
    BY <1>2, <1>3, <1>4, Phases DEF Reserves, IsPending
  <2> QED BY <2>1 DEF IsReserved, Home
<1>6. \A r \in Runs : activeRuns[r] # None => HomeOf[r] # Home(x)
  BY <1>3 DEF Reserves, IsReserved, In
<1>7. IsReserved(x)'
  <2>1. e.canceller = "none"
    BY DEF RuntimeInv, FormInv, HasForm, In, Started, Driving
  <2> QED BY <1>2, <2>1, Phases DEF IsReserved, Home, Driving
<1> QED BY <1>3, <1>5, <1>6, <1>7 DEF Reserves

(* A start or a resumption is registered.                                    *)
LEMMA RegistriesRegister ==
  ASSUME RuntimeInv, NEW x \in Executions, NEW e \in Execution, Put(x, e),
         local[x].phase \in {"creating", "resuming"},
         activeRuns' = [activeRuns EXCEPT ![local[x].run] = x],
         activeSessions' = activeSessions \cup {Home(x)}, UNCHANGED shutdown,
         local[x].streamed => e.streamed, e.run = local[x].run,
         e.phase \in Driving, e.canceller = local[x].canceller
  PROVE  RegistryInv'
<1> SUFFICES ASSUME OneAtATime' PROVE Reserves'
  BY DEF RegistryInv, OneAtATime, Reserves
<1>1. /\ local' = [local EXCEPT ![x] = e] /\ local \in [Executions -> Execution]
      /\ activeRuns \in [Runs -> Executions \cup {None}] /\ None \notin Executions
      /\ local[x].run \in Runs
  BY RuntimeAssumption DEF RuntimeInv, FormInv, TypeOK, Put, HasForm
<1>2. local'[x] = e /\ \A y \in Executions \ {x} : local'[y] = local[y]
  BY <1>1
<1>3. OneAtATime /\ Reserves
  BY <1>2 DEF RuntimeInv, RegistryInv, OneAtATime, Reserves, Backgrounded
<1>4. \A y \in Executions \ {x} : ~ IsPending(local[y])
  BY <1>3, OnePendingByPhase, Phases DEF RuntimeInv, CoreInv, OneAtATime, IsPending, In
<1>5. \A r \in Runs : activeRuns[r] # None => HomeOf[r] # Home(x)
  BY <1>3 DEF Reserves, IsReserved
<1>6. \A y \in Executions \ {x} : IsReserved(y)'
  <2> SUFFICES ASSUME NEW y \in Executions, y # x PROVE IsReserved(y)'
    OBVIOUS
  <2>1. /\ local'[y] = local[y] /\ IsReserved(y)
        /\ local[y].phase \notin {"acquiring", "resuming", "creating"}
    BY <1>2, <1>3, <1>4, Phases DEF Reserves, IsPending
  <2>2. activeRuns[local[y].run] = y => local[y].run # local[x].run
    BY <1>1, <1>5 DEF Home
  <2> QED BY <1>1, <2>1, <2>2 DEF IsReserved, Home
<1>7. IsReserved(x)'
  BY <1>1, <1>2, Phases DEF IsReserved, Driving
<1>8. \A r \in Runs : activeRuns'[r] # None => r = local[x].run \/ activeRuns[r] # None
  BY <1>1
<1> QED BY <1>3, <1>5, <1>6, <1>7, <1>8 DEF Reserves, Home

-----------------------------------------------------------------------------
(* Moves of the store: whoever is not its author falls behind.               *)
LEMMA KnowsLess ==
  ASSUME NEW e \in Execution, NEW s \in StoredRun, NEW t \in StoredRun,
         NEW completed \in BOOLEAN, NEW after \in BOOLEAN,
         t.revision = s.revision + 1, t.status # "absent", s.status # "absent",
         Knows(e, s, completed)
  PROVE  Knows(e, t, after) /\ (IsAlone(e, s) => IsAlone(e, t))
<1>1. e.revision \in Nat /\ s.revision \in Nat /\ e.revision <= s.revision
  BY DEF Knows, IsBehind, Execution, StoredRun
<1>2. e.revision <= t.revision /\ e.revision # t.revision
  BY <1>1
<1> QED BY <1>2 DEF Knows, IsBehind, LeavesHistory, IsAlone

(* The author of an accepted commit knew the last revision and was not over.  *)
LEMMA AuthorsAreNotOver ==
  ASSUME NEW f \in Execution, NEW s \in StoredRun, NEW completed \in BOOLEAN,
         Knows(f, s, completed),
         \/ f.flight.phase = "sent" /\ f.flight.expected = s.revision
         \/ f.cancellation.phase = "sent" /\ f.cancellation.expected = s.revision
  PROVE  f.revision = s.revision /\ ~ IsOver(f) /\ f.phase \notin Starting
<1>1. f.revision \in Nat /\ s.revision \in Nat /\ f.revision = s.revision
  BY DEF Knows, IsBehind, Execution, StoredRun, Flight
<1>2. f.phase \notin Starting
  BY Phases DEF Knows, HasForm
<1>3. ASSUME IsOver(f) PROVE FALSE
  <2>1. CASE f.flight.phase = "sent" /\ f.flight.expected = s.revision
    <3>1. f.phase = "committing" \/ f.phase = "resuming"
      BY <2>1 DEF Knows, HasForm
    <3> QED BY <1>3, <2>1, <3>1 DEF IsOver
  <2>2. CASE f.cancellation.phase = "sent" /\ f.cancellation.expected = s.revision
    BY <1>1, <1>3, <2>2 DEF IsOver
  <2> QED BY <2>1, <2>2
<1> QED BY <1>1, <1>2, <1>3

LEMMA DriverIsAccepted ==
  ASSUME NEW f \in Execution, NEW e \in Execution, NEW s \in StoredRun, NEW t \in StoredRun,
         NEW completed \in BOOLEAN, NEW after \in BOOLEAN, f.phase # "idle",
         Knows(f, s, completed), f.flight.phase = "sent", f.flight.expected = s.revision,
         t.revision = s.revision + 1, t.status \in {f.status, f.flight.status},
         completed => s.status = "completed", s.status # "absent",
         after => completed \/ f.flight.event = "completed",
         e.phase = f.phase, e.run = f.run, e.streamed = f.streamed, e.status = f.status,
         e.abandoned = f.abandoned, KeepsCanceller(f, e),
         e.flight.event = f.flight.event, e.flight.status = f.flight.status,
         \/ e.flight.phase = "accepted" /\ e.revision = t.revision
         \/ e.flight.phase = "thrown" /\ e.revision = f.revision
  PROVE  Knows(e, t, after) /\ (IsAlone(f, s) => IsAlone(e, t))
<1> USE Phases DEF KeepsCanceller
<1>1. /\ f.revision = s.revision /\ ~ IsOver(f) /\ ~ completed
      /\ s.revision \in Nat /\ f.revision \in Nat /\ t.revision \in Nat
      /\ f.cancellation.expected \in Nat
  BY AuthorsAreNotOver DEF Knows, LeavesHistory, Execution, StoredRun, Flight
<1>2. e.revision <= t.revision /\ s.revision < t.revision /\ f.revision <= e.revision
  BY <1>1
<1>3. /\ f.phase = "committing" \/ (f.phase = "resuming" /\ f.flight.event = "progress")
      /\ f.cancellation.phase = "sent" => f.cancellation.expected <= f.revision
  BY DEF Knows, HasForm, IsBehind
<1>4. HasForm(e)
  BY DEF Knows, HasForm
<1>5. IsBehind(e, t)
  BY <1>1, <1>2, <1>3 DEF IsBehind, Knows
<1>6. e.revision = t.revision =>
        /\ e.flight.phase = "accepted"
        /\ e.cancellation.phase = "sent" => e.cancellation.expected < e.revision
  BY <1>1, <1>2, <1>3
<1>7. LeavesHistory(e, t, after)
  BY <1>1, <1>3, <1>6 DEF Knows, LeavesHistory, IsOver, Terminal
<1>8. ASSUME IsAlone(f, s) PROVE IsAlone(e, t)
  <2>1. /\ f.flight.status = f.status /\ t.status = f.status
        /\ f.flight.event = IF f.status = "running" THEN "progress" ELSE f.status
        /\ f.phase = "resuming" => f.status = "running"
    BY <1>3, <1>8 DEF IsAlone
  <2>2. t.status \in Terminal /\ e.revision = t.revision => IsOver(e)
    BY <1>3, <1>6, <2>1 DEF IsOver, Terminal
  <2> QED BY <1>8, <2>1, <2>2 DEF IsAlone
<1> QED BY <1>4, <1>5, <1>7, <1>8 DEF Knows

LEMMA CancellerIsAccepted ==
  ASSUME NEW f \in Execution, NEW e \in Execution, NEW s \in StoredRun, NEW t \in StoredRun,
         NEW completed \in BOOLEAN, NEW after \in BOOLEAN, f.phase # "idle",
         Knows(f, s, completed), f.cancellation.phase = "sent",
         f.cancellation.expected = s.revision,
         t.revision = s.revision + 1, t.status \in {f.status, f.cancellation.status},
         completed => s.status = "completed", s.status # "absent", after => completed,
         e.phase = f.phase, e.run = f.run, e.streamed = f.streamed, e.status = f.status,
         e.abandoned = f.abandoned, e.canceller = f.canceller, e.flight = f.flight,
         \/ e.cancellation.phase = "accepted" /\ e.revision = t.revision
         \/ e.cancellation.phase = "thrown" /\ e.revision = f.revision
  PROVE  Knows(e, t, after) /\ (IsAlone(f, s) => IsAlone(e, t))
<1> USE Phases
<1>1. /\ f.revision = s.revision /\ ~ completed /\ ~ after
      /\ s.revision \in Nat /\ f.revision \in Nat /\ t.revision \in Nat
      /\ f.flight.expected \in Nat
  BY AuthorsAreNotOver DEF Knows, LeavesHistory, Execution, StoredRun, Flight
<1>2. e.revision <= t.revision /\ s.revision < t.revision /\ f.revision <= e.revision
  BY <1>1
<1>3. /\ f.flight.phase = "sent" => f.flight.expected <= f.revision
      /\ f.phase \in Started
  BY DEF Knows, IsBehind, HasForm
<1>4. HasForm(e)
  BY DEF Knows, HasForm
<1>5. IsBehind(e, t)
  BY <1>1, <1>2, <1>3 DEF IsBehind, Knows
<1>6. LeavesHistory(e, t, after)
  BY <1>1 DEF Knows, LeavesHistory
<1>7. ASSUME IsAlone(f, s) PROVE IsAlone(e, t)
  <2>1. f.phase = "done" /\ f.status = "cancelled"
    BY <1>7 DEF IsAlone
  <2>2. IsOver(e)
    BY <2>1 DEF IsOver, Terminal
  <2> QED BY <1>7, <2>2 DEF IsAlone
<1> QED BY <1>4, <1>5, <1>6, <1>7 DEF Knows

(* What a write needs in order to leave every invariant.                     *)
LEMMA StoreIsWritten ==
  ASSUME RuntimeInv, NEW r \in Runs, NEW status \in Active \cup Terminal, NEW event,
         Write(r, status, event), stored[r].status # "absent", r \notin history,
         event = "completed" => status = "completed",
         Backgrounded => /\ stored[r].status \notin Terminal
                         /\ {event} \cap Terminal = {status} \cap Terminal,
         local' \in [Executions -> Execution],
         \A y \in Executions :
           /\ local'[y].phase = local[y].phase /\ local'[y].run = local[y].run
           /\ local'[y].streamed = local[y].streamed /\ local'[y].aborted = local[y].aborted
           /\ local'[y].canceller = local[y].canceller
           /\ local[y].run # r \/ In(y, "idle") => local'[y] = local[y]
           /\ local[y].run = r /\ ~ In(y, "idle") =>
                /\ Knows(local'[y], stored'[r], r \in history')
                /\ Backgrounded => IsAlone(local'[y], stored'[r]),
         UNCHANGED <<lease, registries, shutdown>>, failures' \in 0 .. MaxFailures
  PROVE  RuntimeInv'
<1>1. CoreInv /\ TypeOK /\ StoreInv /\ HistoryInv /\ BackgroundInv
  BY DEF RuntimeInv, CoreInv, FormInv
<1>2. /\ stored[r] \in StoredRun /\ stored[r].revision \in Nat /\ said[r] \subseteq Terminal
      /\ stored \in [Runs -> StoredRun] /\ said \in [Runs -> SUBSET Terminal]
      /\ history \subseteq Runs
  BY <1>1 DEF TypeOK, StoredRun
<1>3. /\ stored' = [stored EXCEPT ![r] = [status |-> status, revision |-> stored[r].revision + 1]]
      /\ said' = [said EXCEPT ![r] = said[r] \cup ({event} \cap Terminal)]
      /\ history' = IF event = "completed" THEN history \cup {r} ELSE history
  BY DEF Write
<1>4. /\ stored'[r].status = status /\ stored'[r].revision = stored[r].revision + 1
      /\ \A q \in Runs \ {r} : stored'[q] = stored[q] /\ said'[q] = said[q]
      /\ said'[r] = said[r] \cup ({event} \cap Terminal)
      /\ \A q \in Runs \ {r} : q \in history' <=> q \in history
      /\ r \in history' => status = "completed"
  BY <1>2, <1>3
<1>5. TypeOK'
  <2>1. [status |-> status, revision |-> stored[r].revision + 1] \in StoredRun
    BY <1>2 DEF StoredRun
  <2>2. stored' \in [Runs -> StoredRun]
    BY <1>2, <1>3, <2>1
  <2>3. said' \in [Runs -> SUBSET Terminal] /\ history' \subseteq Runs
    BY <1>2, <1>3
  <2> QED BY <1>1, <2>2, <2>3 DEF TypeOK, registries, StoredRun
<1>6. \A y \in Executions :
        /\ HasForm(local'[y])
        /\ local[y].phase \in Started =>
             local'[y].phase \in Started /\ local'[y].run = local[y].run
  BY <1>1, WhatIsKnown DEF Knows, In
<1>7. Pending' = Pending
  BY DEF Pending
<1>8. FormInv'
  <2>1. pendingStarts' = Cardinality(Pending)'
    BY <1>1, <1>7, PendingIsFinite DEF registries
  <2>2. \A q \in Runs : activeRuns'[q] \in {activeRuns[q], None}
    BY DEF registries
  <2>3. IsFormed(shutdown')
    BY <1>1, ShutdownIsFormed
  <2> QED BY <1>1, <1>5, <1>6, <2>1, <2>2, <2>3, FormIsKept
<1>9. \A y \in Executions : ~ In(y, "idle") =>
        /\ Knows(local'[y], stored'[local'[y].run], local'[y].run \in history')
        /\ Backgrounded => IsAlone(local'[y], stored'[local'[y].run])
  <2> SUFFICES ASSUME NEW y \in Executions, ~ In(y, "idle")
               PROVE  /\ Knows(local'[y], stored'[local'[y].run], local'[y].run \in history')
                      /\ Backgrounded => IsAlone(local'[y], stored'[local'[y].run])
    OBVIOUS
  <2>1. CASE local[y].run = r
    BY <2>1
  <2>2. CASE local[y].run # r
    <3>1. local'[y] = local[y] /\ local[y].run \in Runs
      BY <1>1, <2>2, WhatIsKnown
    <3>2. /\ stored'[local[y].run] = stored[local[y].run]
          /\ local[y].run \in history' <=> local[y].run \in history
      BY <1>4, <2>2, <3>1
    <3>3. Backgrounded => IsAlone(local[y], stored[local[y].run])
      BY <1>1 DEF BackgroundInv
    <3>4. Knows(local[y], stored[local[y].run], local[y].run \in history)
      BY <1>1, WhatIsKnown
    <3> QED BY <3>1, <3>2, <3>3, <3>4 DEF Knows, LeavesHistory
  <2> QED BY <2>1, <2>2
<1>10. StoreInv'
  <2>1. \A q \in Runs :
          IF stored'[q].status = "absent"
          THEN stored'[q].revision = 0 /\ said'[q] = {} /\ q \notin history' /\ lease'[q] = None
          ELSE stored'[q].revision > 0
    <3>1. stored'[r].status # "absent" /\ stored'[r].revision > 0
      BY <1>2, <1>4 DEF Active, Terminal
    <3> QED BY <1>1, <1>4, <3>1 DEF StoreInv
  <2>2. \A y \in Executions : local'[y].phase # "idle" =>
          IsBehind(local'[y], stored'[local'[y].run])
    BY <1>9 DEF Knows, In
  <2>3. \A x, y \in Executions :
          local'[x].phase \in Starting /\ local'[y].run = local'[x].run => x = y
    BY <1>1 DEF StoreInv
  <2> QED BY <2>1, <2>2, <2>3 DEF StoreInv, In
<1>11. HistoryInv'
  <2>1. HistoryIsOfCompletedRuns'
    BY <1>1, <1>2, <1>4, <1>5 DEF HistoryInv, HistoryIsOfCompletedRuns, TypeOK
  <2>2. \A y \in Executions : local'[y].phase # "idle" =>
          LeavesHistory(local'[y], stored'[local'[y].run], local'[y].run \in history')
    BY <1>9 DEF Knows, In
  <2> QED BY <2>1, <2>2 DEF HistoryInv, In
<1>12. BackgroundInv'
  <2> SUFFICES ASSUME Backgrounded'
               PROVE  /\ EventsTellTheStatus'
                      /\ \A y \in Executions : local'[y].phase # "idle" =>
                           IsAlone(local'[y], stored'[local'[y].run])
    BY DEF BackgroundInv, In
  <2>1. Backgrounded
    BY DEF Backgrounded
  <2>2. said'[r] = {stored'[r].status} \cap Terminal
    <3>1. said[r] = {}
      BY <1>1, <2>1 DEF BackgroundInv, EventsTellTheStatus
    <3> QED BY <1>4, <2>1, <3>1
  <2>3. EventsTellTheStatus'
    BY <1>1, <1>4, <2>1, <2>2 DEF BackgroundInv, EventsTellTheStatus
  <2> QED BY <1>9, <2>1, <2>3 DEF In
<1>13. AdmissionIsBounded'
  <2>1. Working' = Working
    BY DEF Working, Registered, registries
  <2> QED BY <1>1, <2>1, AdmissionIsKept, PendingIsFinite DEF registries
<1>14. RegistryInv'
  BY DEF RuntimeInv, RegistryInv, IsReserved, Home, Backgrounded, registries
<1> QED BY <1>8, <1>10, <1>11, <1>12, <1>13, <1>14 DEF RuntimeInv

-----------------------------------------------------------------------------
(* The actions of the process, by what they do to the registries.            *)
LEMMA Known ==
  ASSUME RuntimeInv, NEW x \in Executions
  PROVE  /\ CoreInv /\ TypeOK
         /\ local[x] \in Execution /\ HasForm(local[x])
         /\ ~ In(x, "idle") =>
              /\ local[x].run \in Runs /\ stored[local[x].run] \in StoredRun
              /\ (local[x].run \in history) \in BOOLEAN
              /\ Knows(local[x], stored[local[x].run], local[x].run \in history)
              /\ local[x].run \in history => stored[local[x].run].status = "completed"
  BY WhatIsKnown DEF RuntimeInv, CoreInv, FormInv

LEMMA Unchanged ==
  ASSUME RuntimeInv
  PROVE  /\ IsFormed(shutdown) /\ IsFormed(Notified)
         /\ lease \in [Runs -> Executions \cup {None}]
        /\ LeaseIsFormed(lease)
        /\ failures \in 0 .. MaxFailures
         /\ activeSessions \subseteq Sessions
         /\ \A x \in Executions : ~ In(x, "idle") => Home(x) \in Sessions
  BY ShutdownIsFormed, RuntimeAssumption
     DEF RuntimeInv, CoreInv, FormInv, TypeOK, HasForm, Home, In, StoreInv, LeaseIsFormed

(* The registries stay as they are.                                          *)
LEMMA MoveStays ==
  ASSUME RuntimeInv, NEW x \in Executions, NEW e, Moves(x, e),
         UNCHANGED <<activeRuns, activeSessions>>,
         pendingStarts' = IF IsPending(local[x]) /\ ~ IsPending(e)
                          THEN pendingStarts - 1 ELSE pendingStarts,
         LeaseIsFormed(lease'),
         IsFormed(shutdown'), failures' \in 0 .. MaxFailures,
         e.phase \in Driving => local[x].phase \in Driving,
         e.canceller = "committing" =>
           local[x].canceller = "committing" \/ activeRuns[e.run] = x,
         e.phase \in {"acquiring", "resuming"} =>
           \/ local[x].phase \in {"acquiring", "resuming"}
           \/ Home(x) \notin activeSessions,
         e.phase = "creating" => local[x].phase = "creating"
  PROVE  RuntimeInv'
<1>1. CoreInv'
  BY OneMoves, Unchanged DEF RuntimeInv, CoreInv
<1>2. RegistryInv'
  <2>1. /\ e \in Execution /\ Put(x, e) /\ e.run = local[x].run
        /\ e.streamed = local[x].streamed
        /\ ~ shutdown'.timedOut => ~ shutdown.timedOut
    BY DEF Moves, Follows, IsFormed
  <2> QED BY <2>1, RegistriesStay
<1> QED BY <1>1, <1>2 DEF RuntimeInv, CoreInv

(* The start or resumption is given up.                                      *)
LEMMA GivesUp ==
  ASSUME RuntimeInv, NEW x \in Executions, IsPending(local[x]), local[x].flight.phase # "sent",
         GiveUp(x), UNCHANGED <<stored, said, history, activeRuns, shutdown>>,
         LeaseIsFormed(lease'), failures' \in 0 .. MaxFailures,
         \/ activeSessions' = activeSessions
         \/ In(x, "creating") /\ activeSessions' = activeSessions \ {Home(x)}
  PROVE  RuntimeInv'
<1> DEFINE e == Over(local[x])
<1>1. /\ ~ In(x, "idle") /\ e \in Execution /\ Put(x, e) /\ e.phase = "done"
      /\ e.canceller = local[x].canceller /\ e.run = local[x].run
      /\ e.streamed = local[x].streamed /\ local[x].phase \in Starting \cup Resuming
      /\ ~ IsPending(e) /\ pendingStarts' = pendingStarts - 1 /\ e.aborted = local[x].aborted
      /\ e.status = local[x].status /\ e.revision = local[x].revision
      /\ e.abandoned = local[x].abandoned /\ e.flight = local[x].flight
      /\ e.cancellation = local[x].cancellation
  BY Known, Phases DEF GiveUp, Over, Execution, IsPending, In
<1> HIDE DEF e
<1>2. Moves(x, e)
  <2>1. Follows(local[x], e, stored[local[x].run], local[x].run \in history)
    BY <1>1, Known, Prepares, Phases DEF In, KeepsCanceller
  <2> QED BY <1>1, <2>1 DEF Moves
<1>3. CASE activeSessions' = activeSessions
  BY <1>1, <1>2, <1>3, MoveStays, Unchanged, Known, Phases DEF HasForm, Driving
<1>4. CASE In(x, "creating") /\ activeSessions' = activeSessions \ {Home(x)}
  <2>1. CoreInv'
    BY <1>1, <1>2, <1>4, OneMoves, Unchanged DEF RuntimeInv, CoreInv
  <2>2. RegistryInv'
    BY <1>1, <1>4, RegistriesGiveBack
  <2> QED BY <2>1, <2>2 DEF RuntimeInv, CoreInv
<1> QED BY <1>3, <1>4

(* The execution is released by its driver, or by who cancels it.            *)
LEMMA Forgets ==
  ASSUME RuntimeInv, NEW x \in Executions, NEW e, Moves(x, e), Deregister(x),
         LeaseIsFormed(lease'),
         IsFormed(shutdown'), failures' = failures,
         \/ /\ local[x].phase \in Driving \/ local[x].abandoned
            /\ local[x].phase \in Started
            /\ e.phase = "releasing" /\ e.canceller = local[x].canceller
         \/ /\ local[x].canceller = "committing"
            /\ e.phase = local[x].phase /\ e.canceller = "releasing"
  PROVE  RuntimeInv'
<1>1. /\ activeRuns' = [activeRuns EXCEPT ![local[x].run] = None]
      /\ activeSessions' = activeSessions \ {Home(x)} /\ pendingStarts' = pendingStarts
  BY DEF Deregister
<1>2. local[x].phase \in Started
  BY Known DEF HasForm
<1>3. pendingStarts' = IF IsPending(local[x]) /\ ~ IsPending(e)
                       THEN pendingStarts - 1 ELSE pendingStarts
  BY <1>1, <1>2, Phases DEF IsPending
<1>4. CoreInv'
  BY <1>1, <1>3, OneMoves, Unchanged DEF RuntimeInv, CoreInv
<1>5. RegistryInv'
  <2>1. /\ e \in Execution /\ Put(x, e) /\ e.run = local[x].run
        /\ e.streamed = local[x].streamed /\ ~ In(x, "idle")
        /\ ~ shutdown'.timedOut => ~ shutdown.timedOut
    BY DEF Moves, Follows, IsFormed
  <2> QED BY <1>1, <2>1, RegistriesForget
<1> QED BY <1>4, <1>5 DEF RuntimeInv, CoreInv

(* A new execution is admitted.                                              *)
LEMMA Admits ==
  ASSUME RuntimeInv, NEW x \in Executions, NEW r \in Runs, NEW e \in Execution,
         In(x, "idle"), Put(x, e), Admissible, pendingStarts' = pendingStarts + 1,
         UNCHANGED <<store, activeRuns, activeSessions, shutdown, failures>>,
         e.run = r, e.status = "running", e.revision = 0, ~ e.abandoned, ~ e.aborted,
         e.flight = NoFlight, e.cancellation = NoFlight, e.canceller = "none",
         \/ /\ e.phase = "admitting" /\ stored[r].status = "absent"
            /\ \A y \in Executions : local[y].run # r
         \/ e.phase = "locating" /\ stored[r].status \in Active
  PROVE  RuntimeInv'
<1> USE FlightOfNone
<1>1. /\ CoreInv /\ TypeOK /\ local[x] = IdleExecution
      /\ local' = [local EXCEPT ![x] = e] /\ local \in [Executions -> Execution]
      /\ stored' = stored /\ said' = said /\ history' = history /\ lease' = lease
  BY Known DEF In, HasForm, TypeOK, Put, store
<1>2. /\ local'[x] = e /\ \A y \in Executions \ {x} : local'[y] = local[y]
      /\ e.phase \notin {"idle"} \cup Started /\ IsPending(e) /\ ~ IsPending(local[x])
      /\ ~ local[x].streamed /\ local[x].phase = "idle"
  BY <1>1, Phases DEF IsPending
<1>3. /\ Knows(e, stored[r], r \in history) /\ IsAlone(e, stored[r])
      /\ stored[r].revision \in Nat
  <2>1. stored[r].revision \in Nat /\ r \notin history
    BY <1>1 DEF TypeOK, CoreInv, HistoryInv, HistoryIsOfCompletedRuns, Active
  <2>2. HasForm(e)
    BY <1>2 DEF HasForm
  <2>3. IsBehind(e, stored[r])
    BY <2>1, Phases DEF IsBehind
  <2>4. LeavesHistory(e, stored[r], r \in history)
    BY <2>1 DEF LeavesHistory
  <2>5. IsAlone(e, stored[r])
    BY DEF IsAlone, Active, Terminal
  <2> QED BY <2>1, <2>2, <2>3, <2>4, <2>5 DEF Knows
<1>4. pendingStarts' = Cardinality(Pending)' /\ pendingStarts' \in 0 .. Cardinality(Executions)
  BY <1>1, <1>2, PendingIsCounted
<1>5. TypeOK'
  BY <1>1, <1>4 DEF TypeOK
<1>6. FormInv'
  <2>1. \A y \in Executions :
          /\ HasForm(local'[y])
          /\ local[y].phase \in Started =>
               local'[y].phase \in Started /\ local'[y].run = local[y].run
    BY <1>2, <1>3, Known, Phases DEF Knows
  <2>2. IsFormed(shutdown')
    BY <1>1, ShutdownIsFormed
  <2> QED BY <1>1, <1>4, <1>5, <2>1, <2>2, FormIsKept
<1>7. StoreInv'
  <2>1. \A y \in Executions : local'[y].phase # "idle" => IsBehind(local'[y], stored[local'[y].run])
    BY <1>1, <1>2, <1>3 DEF CoreInv, StoreInv, Knows, In
  <2>2. \A y, z \in Executions :
          local'[y].phase \in Starting /\ local'[z].run = local'[y].run => y = z
    <3> SUFFICES ASSUME NEW y \in Executions, NEW z \in Executions,
                        local'[y].phase \in Starting, local'[z].run = local'[y].run, y # z
                 PROVE  FALSE
      OBVIOUS
    <3>1. CASE y = x
      BY <1>2, <3>1, Phases
    <3>2. CASE z = x
      <4>1. local[y].phase \in Starting /\ local[y].run = r /\ ~ In(y, "idle")
        BY <1>2, <3>2, Phases DEF In
      <4>2. stored[r].status = "absent"
        BY <1>1, <4>1 DEF CoreInv, StoreInv, IsBehind
      <4> QED BY <4>1, <4>2 DEF Active
    <3>3. CASE y # x /\ z # x
      BY <1>1, <1>2, <3>3 DEF CoreInv, StoreInv
    <3> QED BY <3>1, <3>2, <3>3
  <2> QED BY <1>1, <2>1, <2>2 DEF CoreInv, StoreInv, In
<1>8. HistoryInv'
  <2>1. \A y \in Executions : local'[y].phase # "idle" =>
          LeavesHistory(local'[y], stored[local'[y].run], local'[y].run \in history)
    BY <1>1, <1>2, <1>3 DEF CoreInv, HistoryInv, Knows, In
  <2> QED BY <1>1, <2>1 DEF CoreInv, HistoryInv, HistoryIsOfCompletedRuns, In
<1>9. BackgroundInv'
  <2> SUFFICES ASSUME Backgrounded'
               PROVE  /\ EventsTellTheStatus'
                      /\ \A y \in Executions : local'[y].phase # "idle" =>
                           IsAlone(local'[y], stored'[local'[y].run])
    BY DEF BackgroundInv, In
  <2>1. Backgrounded
    BY <1>2 DEF Backgrounded
  <2> QED BY <1>1, <1>2, <1>3, <2>1 DEF CoreInv, BackgroundInv, EventsTellTheStatus, In
<1>10. AdmissionIsBounded'
  <2>1. Working' \subseteq Working
    <3>1. x \notin Registered
      BY <1>1, <1>2, Phases, RuntimeAssumption DEF CoreInv, FormInv, Registered
    <3> QED BY <1>2, <3>1 DEF Working, Registered
  <2>2. pendingStarts' \in Nat
    BY <1>1, PendingIsFinite
  <2> QED BY <1>1, <2>1, <2>2, AdmissionIsKept DEF Admissible
<1>11. RegistryInv'
  BY <1>1, <1>2, RegistriesStay, Phases DEF Driving
<1> QED BY <1>6, <1>7, <1>8, <1>9, <1>10, <1>11 DEF RuntimeInv

LEMMA StepAdmitStart ==
  ASSUME RuntimeInv, NEW x \in Executions, NEW r \in Runs, AdmitStart(x, r)
  PROVE  RuntimeInv'
<1>1. PICK streamed \in {FALSE, Streaming} :
        Put(x, [IdleExecution EXCEPT !.phase = "admitting", !.run = r, !.streamed = streamed])
  BY DEF AdmitStart
<1> DEFINE e == [IdleExecution EXCEPT !.phase = "admitting", !.run = r, !.streamed = streamed]
<1>2. /\ e \in Execution /\ e.run = r /\ e.status = "running" /\ e.revision = 0
      /\ ~ e.abandoned /\ ~ e.aborted /\ e.flight = NoFlight /\ e.cancellation = NoFlight
      /\ e.canceller = "none" /\ e.phase = "admitting"
  BY RuntimeAssumption, FlightOfNone DEF Execution, IdleExecution, Starting, Active, Terminal
<1> HIDE DEF e
<1> QED BY <1>1, <1>2, Admits DEF AdmitStart, e

LEMMA StepAdmitResume ==
  ASSUME RuntimeInv, NEW x \in Executions, NEW r \in Runs, AdmitResume(x, r)
  PROVE  RuntimeInv'
<1> DEFINE e == [IdleExecution EXCEPT !.phase = "locating", !.run = r]
<1>2. /\ e \in Execution /\ e.run = r /\ e.status = "running" /\ e.revision = 0
      /\ ~ e.abandoned /\ ~ e.aborted /\ e.flight = NoFlight /\ e.cancellation = NoFlight
      /\ e.canceller = "none" /\ e.phase = "locating" /\ Put(x, e)
  BY FlightOfNone DEF Execution, IdleExecution, Resuming, Active, Terminal, AdmitResume
<1> HIDE DEF e
<1> QED BY <1>2, Admits DEF AdmitResume

(* Starts and resumptions on their way.                                      *)
LEMMA StepAuthorize ==
  ASSUME RuntimeInv, NEW x \in Executions, Authorize(x)
  PROVE  RuntimeInv'
<1>1. /\ IsPending(local[x]) /\ local[x].flight.phase # "sent" /\ ~ In(x, "idle")
      /\ UNCHANGED <<store, activeRuns, activeSessions, shutdown, failures>>
      /\ UNCHANGED <<stored, lease, said, history>>
  BY Known, Phases DEF Authorize, IsPending, In, HasForm, store
<1>2. CASE GiveUp(x)
  BY <1>1, <1>2, GivesUp, Unchanged
<1>3. CASE Put(x, [local[x] EXCEPT !.phase = "reading"]) /\ UNCHANGED pendingStarts
  <2> DEFINE e == [local[x] EXCEPT !.phase = "reading"]
  <2>1. /\ e \in Execution /\ e.phase = "reading" /\ e.run = local[x].run
        /\ e.streamed = local[x].streamed /\ e.status = local[x].status
        /\ e.revision = local[x].revision /\ e.abandoned = local[x].abandoned
        /\ e.flight = local[x].flight /\ e.canceller = local[x].canceller
        /\ e.cancellation = local[x].cancellation /\ e.aborted = local[x].aborted
    BY Known DEF Execution, Starting
  <2> HIDE DEF e
  <2>2. local[x].phase \in Starting /\ local[x].canceller = "none"
    BY Known, Phases DEF Authorize, In, HasForm
  <2>3. Moves(x, e)
    <3>1. Follows(local[x], e, stored[local[x].run], local[x].run \in history)
      BY <1>1, <2>1, <2>2, Known, Prepares, Phases DEF In, KeepsCanceller
    <3> QED BY <1>1, <1>3, <2>1, <3>1 DEF Moves, e
  <2> QED BY <1>1, <1>3, <2>1, <2>2, <2>3, MoveStays, Unchanged, Phases DEF Driving, IsPending
<1> QED BY <1>2, <1>3 DEF Authorize

LEMMA StepReserveSession ==
  ASSUME RuntimeInv, NEW x \in Executions, ReserveSession(x)
  PROVE  RuntimeInv'
<1>1. /\ IsPending(local[x]) /\ local[x].flight.phase # "sent" /\ ~ In(x, "idle")
      /\ UNCHANGED <<store, activeRuns, shutdown, failures>>
      /\ UNCHANGED <<stored, lease, said, history>>
  BY Known, Phases DEF ReserveSession, IsPending, In, HasForm, store
<1>2. CASE Home(x) \in activeSessions
  BY <1>1, <1>2, GivesUp, Unchanged DEF ReserveSession
<1>3. CASE Home(x) \notin activeSessions
  <2> DEFINE e == [local[x] EXCEPT !.phase = "creating"]
  <2>1. /\ e \in Execution /\ e.phase = "creating" /\ e.run = local[x].run
        /\ e.streamed = local[x].streamed /\ e.status = local[x].status
        /\ e.revision = local[x].revision /\ e.abandoned = local[x].abandoned
        /\ e.flight = local[x].flight /\ e.canceller = local[x].canceller
        /\ e.cancellation = local[x].cancellation /\ e.aborted = local[x].aborted
    BY Known DEF Execution, Starting
  <2>2. /\ Put(x, e) /\ UNCHANGED pendingStarts
        /\ activeSessions' = activeSessions \cup {Home(x)}
    BY <1>3 DEF ReserveSession
  <2> HIDE DEF e
  <2>3. local[x].phase \in Starting
    BY Phases DEF ReserveSession, In
  <2>4. Moves(x, e)
    <3>1. Follows(local[x], e, stored[local[x].run], local[x].run \in history)
      BY <1>1, <2>1, <2>3, Known, Prepares, Phases DEF In, KeepsCanceller
    <3> QED BY <1>1, <2>1, <2>2, <3>1 DEF Moves
  <2>5. CoreInv'
    <3>1. activeSessions' \subseteq Sessions
      BY <1>1, <2>2, Unchanged
    <3> QED BY <1>1, <2>1, <2>2, <2>4, <3>1, OneMoves, Unchanged, Known, Phases DEF IsPending
  <2>6. RegistryInv'
    BY <1>1, <1>3, <2>1, <2>2, RegistriesReserve DEF ReserveSession
  <2> QED BY <2>5, <2>6 DEF RuntimeInv, CoreInv
<1> QED BY <1>2, <1>3

LEMMA StepReadRun ==
  ASSUME RuntimeInv, NEW x \in Executions, ReadRun(x)
  PROVE  RuntimeInv'
<1>1. /\ IsPending(local[x]) /\ local[x].flight.phase # "sent" /\ ~ In(x, "idle")
      /\ UNCHANGED <<stored, lease, said, history, activeRuns, activeSessions, shutdown, failures>>
      /\ local[x].phase = "locating" /\ local[x].canceller = "none"
  BY Known, Phases DEF ReadRun, IsPending, In, HasForm, store
<1>2. CASE GiveUp(x)
  BY <1>1, <1>2, GivesUp, Unchanged
<1>3. CASE ~ GiveUp(x)
  <2> DEFINE s == stored[local[x].run]
             e == [local[x] EXCEPT !.phase = "located", !.status = s.status, !.revision = s.revision]
  <2>1. s.status \in Active /\ Put(x, e) /\ UNCHANGED pendingStarts /\ s \in StoredRun
    BY <1>1, <1>3, Known DEF ReadRun
  <2>2. /\ e \in Execution /\ e.phase = "located" /\ e.run = local[x].run
        /\ e.streamed = local[x].streamed /\ e.status = s.status
        /\ e.revision = s.revision /\ e.abandoned = local[x].abandoned
        /\ e.flight = local[x].flight /\ e.canceller = local[x].canceller
        /\ e.cancellation = local[x].cancellation /\ e.aborted = local[x].aborted
    BY <2>1, Known DEF Execution, Resuming, StoredRun
  <2> HIDE DEF e, s
  <2>3. Moves(x, e)
    <3>1. Follows(local[x], e, s, local[x].run \in history)
      BY <1>1, <2>1, <2>2, Known, Reads DEF In, KeepsCanceller, s
    <3> QED BY <1>1, <2>1, <2>2, <3>1 DEF Moves, s
  <2> QED BY <1>1, <2>1, <2>2, <2>3, MoveStays, Unchanged, Phases DEF Driving, IsPending
<1> QED BY <1>2, <1>3

LEMMA StepCheckSession ==
  ASSUME RuntimeInv, NEW x \in Executions, CheckSession(x)
  PROVE  RuntimeInv'
<1>1. /\ IsPending(local[x]) /\ local[x].flight.phase # "sent" /\ ~ In(x, "idle")
      /\ UNCHANGED <<stored, lease, said, history, activeRuns, activeSessions, shutdown, failures>>
      /\ local[x].phase = "located" /\ local[x].canceller = "none"
  BY Known, Phases DEF CheckSession, IsPending, In, HasForm, store
<1>2. CASE Home(x) \in activeSessions
  BY <1>1, <1>2, GivesUp, Unchanged DEF CheckSession
<1>3. CASE Home(x) \notin activeSessions
  <2> DEFINE e == [local[x] EXCEPT !.phase = "acquiring"]
  <2>1. Put(x, e) /\ UNCHANGED pendingStarts
    BY <1>3 DEF CheckSession
  <2>2. /\ e \in Execution /\ e.phase = "acquiring" /\ e.run = local[x].run
        /\ e.streamed = local[x].streamed /\ e.status = local[x].status
        /\ e.revision = local[x].revision /\ e.abandoned = local[x].abandoned
        /\ e.flight = local[x].flight /\ e.canceller = local[x].canceller
        /\ e.cancellation = local[x].cancellation /\ e.aborted = local[x].aborted
    BY Known DEF Execution, Resuming
  <2> HIDE DEF e
  <2>3. Moves(x, e)
    <3>1. Follows(local[x], e, stored[local[x].run], local[x].run \in history)
      BY <1>1, <2>2, Known, Prepares, Phases DEF In, KeepsCanceller
    <3> QED BY <1>1, <2>1, <2>2, <3>1 DEF Moves
  <2> QED BY <1>1, <1>3, <2>1, <2>2, <2>3, MoveStays, Unchanged, Phases DEF Driving, IsPending
<1> QED BY <1>2, <1>3

LEMMA StepAcquireLease ==
  ASSUME RuntimeInv, NEW x \in Executions, AcquireLease(x)
  PROVE  RuntimeInv'
<1>1. /\ IsPending(local[x]) /\ local[x].flight.phase # "sent" /\ ~ In(x, "idle")
      /\ UNCHANGED <<stored, said, history, activeRuns, activeSessions, shutdown, failures>>
      /\ local[x].phase = "acquiring" /\ local[x].canceller = "none"
  BY Known, Phases DEF AcquireLease, IsPending, In, HasForm
<1>2. CASE GiveUp(x) /\ UNCHANGED lease
  BY <1>1, <1>2, GivesUp, Unchanged
<1>3. CASE ~ (GiveUp(x) /\ UNCHANGED lease)
  <2> DEFINE e == [local[x] EXCEPT !.phase = "resuming", !.status = "running",
                                   !.flight = Sent(local[x], "running", "progress")]
  <2>1. /\ Put(x, e) /\ UNCHANGED pendingStarts
        /\ lease' = [lease EXCEPT ![local[x].run] = x]
    BY <1>3 DEF AcquireLease
  <2>2. Sent(local[x], "running", "progress") \in Flight
    BY Known, FlightSent DEF Active
  <2>3. /\ e \in Execution /\ e.phase = "resuming" /\ e.run = local[x].run
        /\ e.streamed = local[x].streamed /\ e.status = "running"
        /\ e.revision = local[x].revision /\ e.abandoned = local[x].abandoned
        /\ e.flight = Sent(local[x], "running", "progress")
        /\ e.canceller = local[x].canceller
        /\ e.cancellation = local[x].cancellation /\ e.aborted = local[x].aborted
    BY <2>2, Known DEF Execution, Resuming, Active
  <2> HIDE DEF e
  <2>4. Moves(x, e)
    <3>1. Follows(local[x], e, stored[local[x].run], local[x].run \in history)
      BY <1>1, <2>3, Known, Resumes DEF In, KeepsCanceller
    <3> QED BY <1>1, <2>1, <2>3, <3>1 DEF Moves
  <2>5. LeaseIsFormed(lease')
    BY <1>1, <2>1, Unchanged, Known DEF LeaseIsFormed, RuntimeInv, StoreInv, Knows, IsBehind, In
  <2> QED BY <1>1, <2>1, <2>3, <2>4, <2>5, MoveStays, Unchanged, Phases DEF Driving, IsPending
<1> QED BY <1>2, <1>3

(* The lease goes, or stays.                                                 *)
LEMMA LeaseIsKept ==
  ASSUME RuntimeInv, NEW r,
         \/ \E x : lease' = [lease EXCEPT ![r] = IF @ = x THEN None ELSE @]
         \/ lease' = lease,
         UNCHANGED stored
  PROVE  LeaseIsFormed(lease')
  BY Unchanged DEF LeaseIsFormed, RuntimeInv, StoreInv

LEMMA StepResumed ==
  ASSUME RuntimeInv, NEW x \in Executions, Resumed(x)
  PROVE  RuntimeInv'
<1>1. /\ IsPending(local[x]) /\ local[x].flight.phase # "sent" /\ ~ In(x, "idle")
      /\ UNCHANGED <<stored, said, history, shutdown, failures>>
      /\ local[x].phase = "resuming" /\ local[x].canceller = "none"
  BY Known, Phases DEF Resumed, IsPending, In, HasForm
<1>2. CASE local[x].flight.phase # "accepted"
  <2>1. GiveUp(x) /\ UNCHANGED <<activeRuns, activeSessions>>
    BY <1>2 DEF Resumed
  <2>2. LeaseIsFormed(lease')
    BY <1>1, <1>2, LeaseIsKept DEF Resumed
  <2> QED BY <1>1, <2>1, <2>2, GivesUp, Unchanged
<1>3. CASE local[x].flight.phase = "accepted"
  <2> DEFINE e == [local[x] EXCEPT !.phase = "working", !.status = "running",
                                   !.timed = TRUE, !.flight = NoFlight]
  <2>1. /\ Put(x, e) /\ pendingStarts' = pendingStarts - 1 /\ lease' = lease
        /\ activeRuns' = [activeRuns EXCEPT ![local[x].run] = x]
        /\ activeSessions' = activeSessions \cup {Home(x)}
    <3>1. Register(x) /\ UNCHANGED lease
      BY <1>3 DEF Resumed
    <3>2. e = [local[x] EXCEPT !.phase = IF @ = "creating" /\ local[x].streamed
                                       THEN "yielded" ELSE "working",
                             !.status = "running", !.timed = TRUE, !.flight = NoFlight,
                             !.revision = IF local[x].phase = "creating" THEN 1 ELSE @]
      BY <1>1, Known DEF Execution
    <3> QED BY <3>1, <3>2 DEF Register
  <2>2. /\ e \in Execution /\ e.phase = "working" /\ e.run = local[x].run
        /\ e.streamed = local[x].streamed /\ e.status = "running"
        /\ e.revision = local[x].revision /\ e.abandoned = local[x].abandoned
        /\ e.flight = NoFlight /\ e.canceller = local[x].canceller
        /\ e.cancellation = local[x].cancellation /\ e.aborted = local[x].aborted
    BY Known, FlightOfNone DEF Execution, Advancing, Active
  <2> HIDE DEF e
  <2>3. Moves(x, e)
    <3>1. Follows(local[x], e, stored[local[x].run], local[x].run \in history)
      BY <1>1, <2>2, Known, BeginsWork DEF In, KeepsCanceller
    <3> QED BY <1>1, <2>1, <2>2, <3>1 DEF Moves
  <2>4. CoreInv'
    <3>1. activeSessions' \subseteq Sessions
      BY <1>1, <2>1, Unchanged
    <3>2. e.phase \in Started /\ ~ IsPending(e)
      BY <2>2, Phases DEF IsPending
    <3> QED BY <1>1, <2>1, <2>3, <3>1, <3>2, OneMoves, Unchanged, Known
  <2>5. RegistryInv'
    BY <1>1, <2>1, <2>2, RegistriesRegister, Phases DEF Driving
  <2> QED BY <2>4, <2>5 DEF RuntimeInv, CoreInv
<1> QED BY <1>2, <1>3

(* The store makes the run of a start.  Nobody else knows of it.             *)
LEMMA Creates ==
  ASSUME RuntimeInv, NEW x \in Executions, NEW e \in Execution, In(x, "creating"), Put(x, e),
         stored' = [stored EXCEPT ![local[x].run] = [status |-> "running", revision |-> 1]],
         lease' = [lease EXCEPT ![local[x].run] = x],
         pendingStarts' = pendingStarts - 1,
         UNCHANGED <<said, history, shutdown>>, failures' \in 0 .. MaxFailures,
         e.run = local[x].run, e.streamed = local[x].streamed,
         e.abandoned = local[x].abandoned, e.canceller = local[x].canceller,
         e.cancellation = local[x].cancellation, e.flight.phase # "sent",
         e.aborted = local[x].aborted,
         \/ /\ e.phase \in {"working", "yielded"}
            /\ e.phase = "yielded" => local[x].streamed
            /\ e.revision = 1 /\ e.status = "running"
            /\ activeRuns' = [activeRuns EXCEPT ![local[x].run] = x]
            /\ activeSessions' = activeSessions \cup {Home(x)}
         \/ /\ e.phase = "done" /\ e.revision = local[x].revision /\ e.status = local[x].status
            /\ activeRuns' = activeRuns /\ activeSessions' = activeSessions \ {Home(x)}
  PROVE  RuntimeInv'
<1> DEFINE r == local[x].run
<1>1. /\ CoreInv /\ TypeOK /\ r \in Runs /\ stored[r].status = "absent" /\ r \notin history
      /\ stored[r].revision = 0 /\ said[r] = {} /\ local[x].revision = 0
      /\ local' = [local EXCEPT ![x] = e] /\ local \in [Executions -> Execution]
      /\ local[x].canceller = "none" /\ local[x].cancellation.phase = "none"
      /\ ~ In(x, "idle")
  <2>1. /\ CoreInv /\ TypeOK /\ r \in Runs /\ IsBehind(local[x], stored[r]) /\ HasForm(local[x])
        /\ local[x] \in Execution /\ ~ In(x, "idle")
    BY Known DEF Knows, In
  <2>2. stored[r].status = "absent"
    BY <2>1, Phases DEF IsBehind, In
  <2>3. stored[r].revision = 0 /\ said[r] = {} /\ r \notin history
    BY <2>1, <2>2 DEF CoreInv, StoreInv
  <2>4. local[x].revision = 0
    BY <2>1, <2>3 DEF IsBehind, Execution
  <2>5. local[x].canceller = "none" /\ local[x].cancellation.phase = "none"
    BY <2>1, Phases DEF HasForm, In
  <2> QED BY <2>1, <2>2, <2>3, <2>4, <2>5 DEF TypeOK, Put
<1>2. /\ local'[x] = e /\ \A y \in Executions \ {x} : local'[y] = local[y]
      /\ stored'[r] = [status |-> "running", revision |-> 1]
      /\ \A q \in Runs \ {r} : stored'[q] = stored[q]
      /\ said' = said /\ history' = history /\ shutdown' = shutdown
      /\ e.phase \in Started /\ local[x].phase \in Starting
  BY <1>1, Phases DEF In, TypeOK
<1>3. \A y \in Executions \ {x} : local[y].run # r
  BY <1>1, <1>2 DEF CoreInv, StoreInv
<1>4. /\ HasForm(e) /\ IsBehind(e, stored'[r]) /\ LeavesHistory(e, stored'[r], r \in history)
      /\ ~ local[x].streamed /\ ~ local[x].abandoned => IsAlone(e, stored'[r])
  <2>1. HasForm(e)
    BY <1>1, <1>2, Phases DEF HasForm
  <2>2. IsBehind(e, stored'[r])
    BY <1>1, <1>2, Phases DEF IsBehind
  <2>3. LeavesHistory(e, stored'[r], r \in history)
    BY <1>1 DEF LeavesHistory
  <2>4. ~ local[x].streamed /\ ~ local[x].abandoned => IsAlone(e, stored'[r])
    BY <1>1, <1>2 DEF IsAlone, Terminal
  <2> QED BY <2>1, <2>2, <2>3, <2>4
<1>5. pendingStarts' = Cardinality(Pending)' /\ pendingStarts' \in 0 .. Cardinality(Executions)
  <2>1. IsPending(local[x]) /\ ~ IsPending(e)
    BY <1>2, Phases DEF IsPending
  <2> QED BY <1>1, <2>1, PendingIsCounted
<1>6. TypeOK'
  <2>1. stored' \in [Runs -> StoredRun]
    <3>1. [status |-> "running", revision |-> 1] \in StoredRun
      BY DEF StoredRun, Active
    <3>2. stored \in [Runs -> StoredRun]
      BY <1>1 DEF TypeOK, StoredRun
    <3> QED BY <3>1, <3>2
  <2>2. lease' \in [Runs -> Executions \cup {None}]
    BY <1>1 DEF TypeOK
  <2>3. activeRuns' \in [Runs -> Executions \cup {None}]
    BY <1>1 DEF TypeOK
  <2>4. activeSessions' \subseteq Sessions
    BY <1>1, Unchanged
  <2>5. local' \in [Executions -> Execution]
    BY <1>1
  <2> QED BY <1>1, <1>2, <1>5, <2>1, <2>2, <2>3, <2>4, <2>5 DEF TypeOK, StoredRun
<1>7. FormInv'
  <2>1. \A y \in Executions :
          /\ HasForm(local'[y])
          /\ local[y].phase \in Started =>
               local'[y].phase \in Started /\ local'[y].run = local[y].run
    BY <1>2, <1>4, Known
  <2>2. \A q \in Runs :
          \/ activeRuns'[q] \in {activeRuns[q], None}
          \/ local'[activeRuns'[q]].run = q /\ local'[activeRuns'[q]].phase \in Started
    BY <1>1, <1>2 DEF TypeOK
  <2>3. IsFormed(shutdown')
    BY <1>1, <1>2, ShutdownIsFormed
  <2> QED BY <1>1, <1>5, <1>6, <2>1, <2>2, <2>3, FormIsKept
<1>8. StoreInv'
  <2>1. \A q \in Runs :
          IF stored'[q].status = "absent"
          THEN stored'[q].revision = 0 /\ said'[q] = {} /\ q \notin history' /\ lease'[q] = None
          ELSE stored'[q].revision > 0
    BY <1>1, <1>2 DEF CoreInv, StoreInv
  <2>2. \A y \in Executions : local'[y].phase # "idle" =>
          IsBehind(local'[y], stored'[local'[y].run])
    <3> SUFFICES ASSUME NEW y \in Executions, local'[y].phase # "idle"
                 PROVE  IsBehind(local'[y], stored'[local'[y].run])
      OBVIOUS
    <3>1. CASE y = x
      BY <1>2, <1>4, <3>1
    <3>2. CASE y # x
      <4>1. /\ local'[y] = local[y] /\ ~ In(y, "idle") /\ local[y].run \in Runs
            /\ local[y].run # r
        BY <1>2, <1>3, <3>2, Known DEF In
      <4> QED BY <1>1, <1>2, <4>1 DEF CoreInv, StoreInv
    <3> QED BY <3>1, <3>2
  <2>3. \A y, z \in Executions :
          local'[y].phase \in Starting /\ local'[z].run = local'[y].run => y = z
    BY <1>1, <1>2, Phases DEF CoreInv, StoreInv
  <2> QED BY <2>1, <2>2, <2>3 DEF StoreInv, In
<1>9. HistoryInv'
  <2>1. HistoryIsOfCompletedRuns'
    BY <1>1, <1>2 DEF CoreInv, HistoryInv, HistoryIsOfCompletedRuns, TypeOK
  <2>2. \A y \in Executions : local'[y].phase # "idle" =>
          LeavesHistory(local'[y], stored'[local'[y].run], local'[y].run \in history')
    <3> SUFFICES ASSUME NEW y \in Executions, local'[y].phase # "idle"
                 PROVE  LeavesHistory(local'[y], stored'[local'[y].run], local'[y].run \in history')
      OBVIOUS
    <3>1. CASE y = x
      BY <1>2, <1>4, <3>1
    <3>2. CASE y # x
      <4>1. /\ local'[y] = local[y] /\ ~ In(y, "idle") /\ local[y].run \in Runs
            /\ local[y].run # r
        BY <1>2, <1>3, <3>2, Known DEF In
      <4> QED BY <1>1, <1>2, <4>1 DEF CoreInv, HistoryInv
    <3> QED BY <3>1, <3>2
  <2> QED BY <2>1, <2>2 DEF HistoryInv, In
<1>10. BackgroundInv'
  <2> SUFFICES ASSUME Backgrounded'
               PROVE  /\ EventsTellTheStatus'
                      /\ \A y \in Executions : local'[y].phase # "idle" =>
                           IsAlone(local'[y], stored'[local'[y].run])
    BY DEF BackgroundInv, In
  <2>1. Backgrounded
    BY <1>2 DEF Backgrounded
  <2>2. EventsTellTheStatus'
    BY <1>1, <1>2, <2>1 DEF CoreInv, BackgroundInv, EventsTellTheStatus, Terminal
  <2>3. ~ local[x].streamed /\ ~ local[x].abandoned
    BY <1>1, <2>1 DEF Backgrounded, CoreInv, BackgroundInv, IsAlone
  <2>4. ASSUME NEW y \in Executions, local'[y].phase # "idle"
        PROVE  IsAlone(local'[y], stored'[local'[y].run])
    <3>1. CASE y = x
      BY <1>2, <1>4, <2>3, <3>1
    <3>2. CASE y # x
      <4>1. /\ local'[y] = local[y] /\ ~ In(y, "idle") /\ local[y].run \in Runs
            /\ local[y].run # r
        BY <1>2, <1>3, <2>4, <3>2, Known DEF In
      <4> QED BY <1>1, <1>2, <2>1, <4>1 DEF CoreInv, BackgroundInv
    <3> QED BY <3>1, <3>2
  <2> QED BY <2>2, <2>4
<1>11. AdmissionIsBounded'
  <2>1. Registered' \subseteq Registered \cup {x}
    BY <1>1 DEF Registered, TypeOK
  <2>2. Working' \subseteq Working \cup {x}
    BY <1>2, <2>1 DEF Working, Registered
  <2>3. pendingStarts' \in Nat
    BY <1>5, PendingIsFinite, FS_CardinalityType, RuntimeAssumption
  <2> QED BY <1>1, <2>2, <2>3, AdmissionIsKept
<1>12. RegistryInv'
  <2>1. CASE e.phase = "done"
    BY <1>2, <2>1, RegistriesGiveBack
  <2>2. CASE e.phase \in {"working", "yielded"}
    BY <1>2, <2>2, RegistriesRegister, Phases DEF In, Driving
  <2> QED BY <2>1, <2>2
<1> QED BY <1>7, <1>8, <1>9, <1>10, <1>11, <1>12 DEF RuntimeInv

LEMMA StepCreate ==
  ASSUME RuntimeInv, NEW x \in Executions, Create(x)
  PROVE  RuntimeInv'
<1>1. /\ IsPending(local[x]) /\ local[x].flight.phase # "sent" /\ ~ In(x, "idle")
      /\ UNCHANGED <<said, history, shutdown>> /\ In(x, "creating")
  BY Known, Phases DEF Create, IsPending, In, HasForm
<1> DEFINE created ==
             /\ stored' = [stored EXCEPT ![local[x].run] = [status |-> "running", revision |-> 1]]
             /\ lease' = [lease EXCEPT ![local[x].run] = x]
           rejected == /\ GiveUp(x) /\ activeSessions' = activeSessions \ {Home(x)}
                       /\ UNCHANGED activeRuns
<1>2. \/ created /\ Register(x) /\ UNCHANGED failures
      \/ created /\ rejected /\ failures' \in 0 .. MaxFailures
      \/ rejected /\ UNCHANGED <<stored, lease, failures>>
  BY Unchanged, RuntimeAssumption DEF Create, Fails
<1>3. CASE created /\ Register(x) /\ UNCHANGED failures
  <2> DEFINE e == [local[x] EXCEPT !.phase = IF @ = "creating" /\ local[x].streamed
                                       THEN "yielded" ELSE "working",
                             !.status = "running", !.timed = TRUE, !.flight = NoFlight,
                             !.revision = IF local[x].phase = "creating" THEN 1 ELSE @]
  <2>1. /\ e \in Execution /\ e.phase \in {"working", "yielded"}
        /\ e.phase = "yielded" => local[x].streamed
        /\ e.revision = 1 /\ e.status = "running"
        /\ e.run = local[x].run /\ e.streamed = local[x].streamed
        /\ e.abandoned = local[x].abandoned /\ e.canceller = local[x].canceller
        /\ e.cancellation = local[x].cancellation /\ e.flight.phase # "sent"
        /\ e.aborted = local[x].aborted
    BY <1>1, Known, FlightOfNone DEF Execution, Active, Advancing, Driving, In
  <2>2. Put(x, e)
    BY <1>3 DEF Register
  <2> HIDE DEF e
  <2>3. failures' \in 0 .. MaxFailures
    BY <1>3, Unchanged
  <2> QED BY <1>1, <1>3, <2>1, <2>2, <2>3, Creates DEF Register
<1>4. CASE created /\ rejected /\ failures' \in 0 .. MaxFailures
  <2> DEFINE e == Over(local[x])
  <2>1. /\ e \in Execution /\ e.phase = "done" /\ e.status = local[x].status
        /\ e.revision = local[x].revision
        /\ e.run = local[x].run /\ e.streamed = local[x].streamed
        /\ e.abandoned = local[x].abandoned /\ e.canceller = local[x].canceller
        /\ e.cancellation = local[x].cancellation /\ e.flight.phase # "sent"
        /\ e.aborted = local[x].aborted
    BY <1>1, Known DEF Execution, Over
  <2>2. Put(x, e) /\ pendingStarts' = pendingStarts - 1
    BY <1>4 DEF GiveUp
  <2> HIDE DEF e
  <2> QED BY <1>1, <1>4, <2>1, <2>2, Creates
<1>5. CASE rejected /\ UNCHANGED <<stored, lease, failures>>
  BY <1>1, <1>5, GivesUp, Unchanged
<1> QED BY <1>2, <1>3, <1>4, <1>5

(* The store answers.                                                        *)
LEMMA OthersKnowLess ==
  ASSUME RuntimeInv, NEW r \in Runs, stored[r].status # "absent", stored'[r] \in StoredRun,
         stored'[r].revision = stored[r].revision + 1, stored'[r].status # "absent",
         NEW y \in Executions, local[y].run = r, ~ In(y, "idle")
  PROVE  /\ Knows(local[y], stored'[r], r \in history')
         /\ Backgrounded => IsAlone(local[y], stored'[r])
<1>1. /\ local[y] \in Execution /\ stored[r] \in StoredRun
      /\ Knows(local[y], stored[r], r \in history)
      /\ Backgrounded => IsAlone(local[y], stored[r])
  BY Known DEF RuntimeInv, BackgroundInv
<1> DEFINE s      == stored[r]
           t      == stored'[r]
           before == r \in history
           after  == r \in history'
<1>2. /\ before \in BOOLEAN /\ after \in BOOLEAN /\ s \in StoredRun /\ t \in StoredRun
      /\ t.revision = s.revision + 1 /\ t.status # "absent" /\ s.status # "absent"
      /\ local[y] \in Execution /\ Knows(local[y], s, before)
      /\ Backgrounded => IsAlone(local[y], s)
  BY <1>1
<1> HIDE DEF s, t, before, after
<1>3. Knows(local[y], t, after) /\ (Backgrounded => IsAlone(local[y], t))
  BY <1>2, KnowsLess
<1> QED BY <1>3 DEF t, after

LEMMA StepChangeElsewhere ==
  ASSUME RuntimeInv, NEW r \in Runs, NEW status \in Active \cup Terminal,
         ChangeElsewhere(r, status)
  PROVE  RuntimeInv'
<1>1. /\ stored[r] \in StoredRun /\ stored[r].status \in Active /\ r \notin history
      /\ CoreInv /\ TypeOK
  BY DEF ChangeElsewhere, RuntimeInv, CoreInv, FormInv, TypeOK, HistoryInv,
         HistoryIsOfCompletedRuns, StoredRun, Active
<1>2. stored[r].status \notin Terminal \cup {"absent"}
  BY <1>1 DEF Active, Terminal
<1>3. /\ stored'[r] \in StoredRun /\ stored'[r].revision = stored[r].revision + 1
      /\ stored'[r].status # "absent"
  BY <1>1 DEF ChangeElsewhere, Write, StoredRun, TypeOK, Active, Terminal
<1>4. \A y \in Executions : local[y].run = r /\ ~ In(y, "idle") =>
        /\ Knows(local[y], stored'[r], r \in history')
        /\ Backgrounded => IsAlone(local[y], stored'[r])
  BY <1>2, <1>3, OthersKnowLess
<1>5. /\ local' = local /\ local \in [Executions -> Execution]
      /\ UNCHANGED <<lease, registries, shutdown, failures>>
      /\ Write(r, status, status)
  BY <1>1 DEF ChangeElsewhere, TypeOK
<1> QED BY <1>1, <1>2, <1>4, <1>5, StoreIsWritten, Unchanged

LEMMA StepExpireLease ==
  ASSUME RuntimeInv, NEW r \in Runs, ExpireLease(r)
  PROVE  RuntimeInv'
<1>1. lease' \in [Runs -> Executions \cup {None}]
      /\ \A q \in Runs : lease[q] = None => lease'[q] = None
  BY Unchanged DEF ExpireLease
<1>2. UNCHANGED <<stored, said, history, local, activeRuns, activeSessions, pendingStarts,
                  shutdown, failures>>
  BY DEF ExpireLease, registries
<1>3. FormInv'
  BY <1>1, <1>2 DEF RuntimeInv, FormInv, TypeOK, Pending
<1>4. StoreInv' /\ HistoryInv' /\ BackgroundInv'
  BY <1>1, <1>2 DEF RuntimeInv, StoreInv, HistoryInv, BackgroundInv, HistoryIsOfCompletedRuns,
             EventsTellTheStatus, Backgrounded, In
<1>5. AdmissionIsBounded'
  BY <1>2 DEF RuntimeInv, AdmissionIsBounded, Running, Registered
<1>6. RegistryInv'
  BY <1>2 DEF RuntimeInv, RegistryInv, IsReserved, Home, Backgrounded
<1> QED BY <1>3, <1>4, <1>5, <1>6 DEF RuntimeInv

(* A refusal, or a throw that changed nothing.                               *)
LEMMA NotExecuted ==
  ASSUME RuntimeInv, NEW x \in Executions, NEW e \in Execution, Put(x, e), ~ In(x, "idle"),
         \/ /\ local[x].flight.phase = "sent" /\ e.flight.phase \in {"refused", "thrown"}
            /\ e.flight.event = local[x].flight.event
            /\ e.flight.status = local[x].flight.status
            /\ e.cancellation = local[x].cancellation
         \/ /\ local[x].cancellation.phase = "sent"
            /\ e.cancellation.phase \in {"refused", "thrown"} /\ e.flight = local[x].flight,
         e.phase = local[x].phase, e.run = local[x].run, e.streamed = local[x].streamed,
         e.status = local[x].status, e.revision = local[x].revision,
         e.abandoned = local[x].abandoned, e.aborted = local[x].aborted,
         e.canceller = local[x].canceller,
         UNCHANGED <<store, registries, shutdown>>, failures' \in 0 .. MaxFailures
  PROVE  RuntimeInv'
<1>1. Follows(local[x], e, stored[local[x].run], local[x].run \in history)
  BY Known, IsAnswered DEF In
<1>2. Moves(x, e)
  BY <1>1 DEF Moves, store
<1> QED BY <1>2, MoveStays, Unchanged DEF IsPending, store, registries

LEMMA StepExecuteFlight ==
  ASSUME RuntimeInv, NEW x \in Executions, Execute(x, "flight")
  PROVE  RuntimeInv'
<1> DEFINE f == local[x]
           s == stored[f.run]
           e(answer) == [f EXCEPT !.flight.phase = answer]
           a == [e("accepted") EXCEPT !.revision = f.flight.expected + 1]
           snapshot == IF LateSnapshot THEN f.status ELSE f.flight.status
<1>1. /\ f \in Execution /\ HasForm(f) /\ f.flight.phase = "sent" /\ CoreInv
      /\ UNCHANGED <<lease, registries, shutdown>>
  BY Known DEF Execute
<1>2. /\ ~ In(x, "idle") /\ f.run \in Runs /\ s \in StoredRun
      /\ Knows(f, s, f.run \in history)
      /\ f.run \in history => s.status = "completed"
  BY <1>1, Known DEF HasForm, In
<1>3. ASSUME NEW answer \in {"accepted", "refused", "thrown"}
      PROVE  /\ e(answer) \in Execution /\ e(answer).flight.phase = answer
             /\ e(answer).flight.event = f.flight.event
             /\ e(answer).flight.status = f.flight.status
             /\ e(answer).cancellation = f.cancellation /\ e(answer).phase = f.phase
             /\ e(answer).run = f.run /\ e(answer).streamed = f.streamed
             /\ e(answer).status = f.status /\ e(answer).revision = f.revision
             /\ e(answer).abandoned = f.abandoned /\ e(answer).aborted = f.aborted
             /\ e(answer).canceller = f.canceller
  BY <1>1 DEF Execution, Flight
<1>4. \/ /\ Accepts(x, f.flight) /\ Write(f.run, snapshot, f.flight.event)
         /\ \/ Put(x, a) /\ UNCHANGED failures
            \/ Put(x, e("thrown")) /\ Fails
      \/ /\ Put(x, e("refused"))
         /\ UNCHANGED <<stored, said, history, failures>>
      \/ /\ Put(x, e("thrown")) /\ Fails
         /\ UNCHANGED <<stored, said, history>>
  BY DEF Execute
<1> HIDE DEF e
<1>5. /\ a \in Execution /\ a.flight.phase = "accepted"
      /\ a.flight.event = f.flight.event /\ a.flight.status = f.flight.status
      /\ a.cancellation = f.cancellation /\ a.phase = f.phase
      /\ a.run = f.run /\ a.streamed = f.streamed
      /\ a.status = f.status /\ a.revision = f.flight.expected + 1
      /\ a.abandoned = f.abandoned /\ a.aborted = f.aborted
      /\ a.canceller = f.canceller
  <2>1. f.flight.expected + 1 \in Nat
    BY <1>1 DEF Execution, Flight
  <2> QED BY <1>3, <2>1 DEF Execution
<1> HIDE DEF a
<1>8. failures' \in 0 .. MaxFailures
  BY <1>4, Unchanged, RuntimeAssumption DEF Fails
<1>6. ASSUME Accepts(x, f.flight), Write(f.run, snapshot, f.flight.event),
             NEW g \in {a, e("thrown")}, Put(x, g)
      PROVE  RuntimeInv'
  <2>1. /\ f.flight.expected = s.revision /\ f.revision = s.revision /\ ~ IsOver(f)
        /\ s.revision \in Nat /\ snapshot \in {f.status, f.flight.status}
        /\ snapshot \in Active \cup Terminal /\ f.run \notin history
    BY <1>1, <1>2, <1>6, AuthorsAreNotOver DEF Accepts, Execution, Flight, StoredRun, Knows,
       LeavesHistory
  <2>2. s.status # "absent"
    <3>1. lease[f.run] # None
      BY <1>6, RuntimeAssumption DEF Accepts
    <3> QED BY <1>1, <1>2, <3>1 DEF CoreInv, StoreInv
  <2>3. /\ stored'[f.run].status = snapshot /\ snapshot # "absent"
        /\ stored'[f.run].revision = s.revision + 1 /\ stored'[f.run] \in StoredRun
        /\ f.run \in history' <=> f.run \in history \/ f.flight.event = "completed"
    BY <1>1, <1>2, <1>6, <2>1 DEF Write, StoredRun, CoreInv, FormInv, TypeOK, Active, Terminal
  <2>4. /\ local' = [local EXCEPT ![x] = g] /\ g \in Execution
        /\ local \in [Executions -> Execution] /\ local'[x] = g
        /\ \A y \in Executions \ {x} : local'[y] = local[y]
    BY <1>1, <1>3, <1>5, <1>6 DEF Put, CoreInv, FormInv, TypeOK
  <2>5. Knows(g, stored'[f.run], f.run \in history')
        /\ (IsAlone(f, s) => IsAlone(g, stored'[f.run]))
    <3>1. /\ g.flight.event = f.flight.event /\ g.flight.status = f.flight.status
          /\ g.phase = f.phase /\ g.run = f.run /\ g.streamed = f.streamed
          /\ g.status = f.status /\ g.abandoned = f.abandoned /\ KeepsCanceller(f, g)
          /\ \/ g.flight.phase = "accepted" /\ g.revision = stored'[f.run].revision
             \/ g.flight.phase = "thrown" /\ g.revision = f.revision
      BY <1>3, <1>5, <2>1, <2>3, <1>6 DEF KeepsCanceller
    <3> DEFINE t      == stored'[f.run]
               before == f.run \in history
               after  == f.run \in history'
    <3>2. /\ g \in Execution /\ t \in StoredRun /\ before \in BOOLEAN /\ after \in BOOLEAN
          /\ f.phase # "idle" /\ Knows(f, s, before)
          /\ before => s.status = "completed"
      BY <1>2, <2>3, <2>4 DEF In
    <3>3. /\ t.revision = s.revision + 1 /\ t.status \in {f.status, f.flight.status}
          /\ after => before \/ f.flight.event = "completed"
          /\ \/ g.flight.phase = "accepted" /\ g.revision = t.revision
             \/ g.flight.phase = "thrown" /\ g.revision = f.revision
      BY <2>1, <2>3, <3>1
    <3> HIDE DEF t, before, after, s
    <3>4. Knows(g, t, after) /\ (IsAlone(f, s) => IsAlone(g, t))
      BY <1>1, <1>2, <2>1, <2>2, <3>1, <3>2, <3>3, DriverIsAccepted
    <3> QED BY <3>4 DEF t, after
  <2>6. \A y \in Executions : local[y].run = f.run /\ ~ In(y, "idle") =>
          /\ Knows(local'[y], stored'[f.run], f.run \in history')
          /\ Backgrounded => IsAlone(local'[y], stored'[f.run])
    <3>1. \A y \in Executions : local[y].run = f.run /\ ~ In(y, "idle") =>
            /\ Knows(local[y], stored'[f.run], f.run \in history')
            /\ Backgrounded => IsAlone(local[y], stored'[f.run])
      BY <1>2, <2>2, <2>3, OthersKnowLess
    <3>2. Backgrounded => IsAlone(f, s)
      BY <1>1, <1>2 DEF CoreInv, BackgroundInv
    <3> QED BY <2>4, <2>5, <3>1, <3>2
  <2>7. f.flight.event = "completed" => snapshot = "completed"
    BY <1>1, <1>2 DEF Knows, LeavesHistory
  <2>8. Backgrounded => /\ s.status \notin Terminal
                        /\ {f.flight.event} \cap Terminal = {snapshot} \cap Terminal
    <3> SUFFICES ASSUME Backgrounded
                 PROVE  /\ s.status \notin Terminal
                        /\ {f.flight.event} \cap Terminal = {snapshot} \cap Terminal
      OBVIOUS
    <3>1. IsAlone(f, s)
      BY <1>1, <1>2 DEF CoreInv, BackgroundInv
    <3>2. s.status \notin Terminal
      BY <2>1, <3>1 DEF IsAlone
    <3>3. /\ snapshot = f.status
          /\ f.flight.event = IF f.status = "running" THEN "progress" ELSE f.status
      BY <1>1, <3>1 DEF IsAlone, HasForm
    <3> QED BY <3>2, <3>3 DEF Terminal
  <2>9. \A y \in Executions :
          /\ local'[y].phase = local[y].phase /\ local'[y].run = local[y].run
          /\ local'[y].streamed = local[y].streamed /\ local'[y].aborted = local[y].aborted
          /\ local'[y].canceller = local[y].canceller
          /\ local[y].run # f.run \/ In(y, "idle") => local'[y] = local[y]
    BY <1>2, <1>3, <1>5, <1>6, <2>4
  <2>10. local' \in [Executions -> Execution]
    BY <2>4
  <2> HIDE DEF s, snapshot
  <2> QED BY <1>1, <1>2, <1>6, <1>8, <2>1, <2>2, <2>6, <2>7, <2>8, <2>9, <2>10, StoreIsWritten DEF s
<1>7. CASE /\ Put(x, e("refused")) \/ Put(x, e("thrown"))
           /\ UNCHANGED <<stored, said, history>>
  BY <1>1, <1>2, <1>3, <1>7, <1>8, NotExecuted DEF store
<1> QED BY <1>4, <1>6, <1>7

LEMMA StepExecuteCancellation ==
  ASSUME RuntimeInv, NEW x \in Executions, Execute(x, "cancellation")
  PROVE  RuntimeInv'
<1> DEFINE f == local[x]
           s == stored[f.run]
           e(answer) == [f EXCEPT !.cancellation.phase = answer]
           a == [e("accepted") EXCEPT !.revision = f.cancellation.expected + 1]
           snapshot == IF LateSnapshot THEN f.status ELSE f.cancellation.status
<1>1. /\ f \in Execution /\ HasForm(f) /\ f.cancellation.phase = "sent" /\ CoreInv
      /\ UNCHANGED <<lease, registries, shutdown>>
  BY Known DEF Execute
<1>2. /\ ~ In(x, "idle") /\ f.run \in Runs /\ s \in StoredRun
      /\ Knows(f, s, f.run \in history)
      /\ f.run \in history => s.status = "completed"
  BY <1>1, Known, Phases DEF HasForm, In
<1>3. ASSUME NEW answer \in {"accepted", "refused", "thrown"}
      PROVE  /\ e(answer) \in Execution /\ e(answer).cancellation.phase = answer
             /\ e(answer).flight = f.flight /\ e(answer).phase = f.phase
             /\ e(answer).run = f.run /\ e(answer).streamed = f.streamed
             /\ e(answer).status = f.status /\ e(answer).revision = f.revision
             /\ e(answer).abandoned = f.abandoned /\ e(answer).aborted = f.aborted
             /\ e(answer).canceller = f.canceller
  BY <1>1 DEF Execution, Flight
<1>4. \/ /\ Accepts(x, f.cancellation) /\ Write(f.run, snapshot, f.cancellation.event)
         /\ \/ Put(x, a) /\ UNCHANGED failures
            \/ Put(x, e("thrown")) /\ Fails
      \/ /\ Put(x, e("refused"))
         /\ UNCHANGED <<stored, said, history, failures>>
      \/ /\ Put(x, e("thrown")) /\ Fails
         /\ UNCHANGED <<stored, said, history>>
  BY DEF Execute
<1> HIDE DEF e
<1>5. /\ a \in Execution /\ a.cancellation.phase = "accepted"
      /\ a.flight = f.flight /\ a.phase = f.phase
      /\ a.run = f.run /\ a.streamed = f.streamed
      /\ a.status = f.status /\ a.revision = f.cancellation.expected + 1
      /\ a.abandoned = f.abandoned /\ a.aborted = f.aborted
      /\ a.canceller = f.canceller
  <2>1. f.cancellation.expected + 1 \in Nat
    BY <1>1 DEF Execution, Flight
  <2> QED BY <1>3, <2>1 DEF Execution
<1> HIDE DEF a
<1>8. failures' \in 0 .. MaxFailures
  BY <1>4, Unchanged, RuntimeAssumption DEF Fails
<1>6. ASSUME Accepts(x, f.cancellation), Write(f.run, snapshot, f.cancellation.event),
             NEW g \in {a, e("thrown")}, Put(x, g)
      PROVE  RuntimeInv'
  <2>1. /\ f.cancellation.expected = s.revision /\ f.revision = s.revision /\ ~ IsOver(f)
        /\ s.revision \in Nat /\ snapshot \in {f.status, f.cancellation.status}
        /\ snapshot \in Active \cup Terminal /\ f.run \notin history
    BY <1>1, <1>2, <1>6, AuthorsAreNotOver DEF Accepts, Execution, Flight, StoredRun, Knows,
       LeavesHistory
  <2>11. f.cancellation.event = "cancelled"
    BY <1>1, <1>2 DEF Knows, LeavesHistory
  <2>2. s.status # "absent"
    <3>1. lease[f.run] # None
      BY <1>6, RuntimeAssumption DEF Accepts
    <3> QED BY <1>1, <1>2, <3>1 DEF CoreInv, StoreInv
  <2>3. /\ stored'[f.run].status = snapshot /\ snapshot # "absent"
        /\ stored'[f.run].revision = s.revision + 1 /\ stored'[f.run] \in StoredRun
        /\ f.run \in history' <=> f.run \in history \/ f.cancellation.event = "completed"
    BY <1>1, <1>2, <1>6, <2>1 DEF Write, StoredRun, CoreInv, FormInv, TypeOK, Active, Terminal
  <2>4. /\ local' = [local EXCEPT ![x] = g] /\ g \in Execution
        /\ local \in [Executions -> Execution] /\ local'[x] = g
        /\ \A y \in Executions \ {x} : local'[y] = local[y]
    BY <1>1, <1>3, <1>5, <1>6 DEF Put, CoreInv, FormInv, TypeOK
  <2>5. Knows(g, stored'[f.run], f.run \in history')
        /\ (IsAlone(f, s) => IsAlone(g, stored'[f.run]))
    <3>1. /\ g.flight = f.flight /\ g.canceller = f.canceller
          /\ g.phase = f.phase /\ g.run = f.run /\ g.streamed = f.streamed
          /\ g.status = f.status /\ g.abandoned = f.abandoned
          /\ \/ g.cancellation.phase = "accepted" /\ g.revision = stored'[f.run].revision
             \/ g.cancellation.phase = "thrown" /\ g.revision = f.revision
      BY <1>3, <1>5, <2>1, <2>3, <1>6
    <3> DEFINE t      == stored'[f.run]
               before == f.run \in history
               after  == f.run \in history'
    <3>2. /\ g \in Execution /\ t \in StoredRun /\ before \in BOOLEAN /\ after \in BOOLEAN
          /\ f.phase # "idle" /\ Knows(f, s, before)
          /\ before => s.status = "completed"
      BY <1>2, <2>3, <2>4 DEF In
    <3>3. /\ t.revision = s.revision + 1 /\ t.status \in {f.status, f.cancellation.status}
          /\ after => before
          /\ \/ g.cancellation.phase = "accepted" /\ g.revision = t.revision
             \/ g.cancellation.phase = "thrown" /\ g.revision = f.revision
      BY <2>1, <2>3, <2>11, <3>1
    <3> HIDE DEF t, before, after, s
    <3>4. Knows(g, t, after) /\ (IsAlone(f, s) => IsAlone(g, t))
      BY <1>1, <1>2, <2>1, <2>2, <3>1, <3>2, <3>3, CancellerIsAccepted
    <3> QED BY <3>4 DEF t, after
  <2>6. \A y \in Executions : local[y].run = f.run /\ ~ In(y, "idle") =>
          /\ Knows(local'[y], stored'[f.run], f.run \in history')
          /\ Backgrounded => IsAlone(local'[y], stored'[f.run])
    <3>1. \A y \in Executions : local[y].run = f.run /\ ~ In(y, "idle") =>
            /\ Knows(local[y], stored'[f.run], f.run \in history')
            /\ Backgrounded => IsAlone(local[y], stored'[f.run])
      BY <1>2, <2>2, <2>3, OthersKnowLess
    <3>2. Backgrounded => IsAlone(f, s)
      BY <1>1, <1>2 DEF CoreInv, BackgroundInv
    <3> QED BY <2>4, <2>5, <3>1, <3>2
  <2>7. f.cancellation.event = "completed" => snapshot = "completed"
    BY <2>11
  <2>8. Backgrounded => /\ s.status \notin Terminal
                        /\ {f.cancellation.event} \cap Terminal = {snapshot} \cap Terminal
    <3> SUFFICES ASSUME Backgrounded
                 PROVE  /\ s.status \notin Terminal
                        /\ {f.cancellation.event} \cap Terminal = {snapshot} \cap Terminal
      OBVIOUS
    <3>1. IsAlone(f, s)
      BY <1>1, <1>2 DEF CoreInv, BackgroundInv
    <3>2. s.status \notin Terminal
      BY <2>1, <3>1 DEF IsAlone
    <3>3. snapshot = "cancelled"
      BY <1>1, <3>1 DEF IsAlone
    <3> QED BY <2>11, <3>2, <3>3 DEF Terminal
  <2>9. \A y \in Executions :
          /\ local'[y].phase = local[y].phase /\ local'[y].run = local[y].run
          /\ local'[y].streamed = local[y].streamed /\ local'[y].aborted = local[y].aborted
          /\ local'[y].canceller = local[y].canceller
          /\ local[y].run # f.run \/ In(y, "idle") => local'[y] = local[y]
    BY <1>2, <1>3, <1>5, <1>6, <2>4
  <2>10. local' \in [Executions -> Execution]
    BY <2>4
  <2> HIDE DEF s, snapshot
  <2> QED BY <1>1, <1>2, <1>6, <1>8, <2>1, <2>2, <2>6, <2>7, <2>8, <2>9, <2>10, StoreIsWritten DEF s
<1>7. CASE /\ Put(x, e("refused")) \/ Put(x, e("thrown"))
           /\ UNCHANGED <<stored, said, history>>
  BY <1>1, <1>2, <1>3, <1>7, <1>8, NotExecuted DEF store
<1> QED BY <1>4, <1>6, <1>7

-----------------------------------------------------------------------------
(* The driver.                                                               *)
LEMMA StepAdvance ==
  ASSUME RuntimeInv, NEW x \in Executions, Advance(x)
  PROVE  RuntimeInv'
<1> DEFINE e == [local[x] EXCEPT !.phase = "working"]
<1>1. /\ ~ In(x, "idle") /\ local[x].phase = "yielded" /\ Put(x, e)
      /\ UNCHANGED <<stored, lease, said, history, activeRuns, activeSessions, pendingStarts,
                     shutdown, failures>>
  BY DEF Advance, In, store, registries
<1>2. /\ e \in Execution /\ e.phase = "working" /\ e.run = local[x].run
      /\ e.streamed = local[x].streamed /\ e.status = local[x].status
      /\ e.revision = local[x].revision /\ e.abandoned = local[x].abandoned
      /\ e.flight = local[x].flight /\ e.canceller = local[x].canceller
      /\ e.cancellation = local[x].cancellation /\ e.aborted = local[x].aborted
  BY Known DEF Execution, Advancing
<1> HIDE DEF e
<1>3. Follows(local[x], e, stored[local[x].run], local[x].run \in history)
  <2>1. local[x].flight.phase # "sent"
    BY <1>1, Known DEF HasForm
  <2> QED BY <1>1, <1>2, <2>1, Known, GoesOn DEF In, KeepsCanceller
<1>4. Moves(x, e)
  BY <1>1, <1>2, <1>3 DEF Moves
<1> QED BY <1>1, <1>2, <1>4, MoveStays, Unchanged, Phases DEF Driving, IsPending

LEMMA StepAbandon ==
  ASSUME RuntimeInv, NEW x \in Executions, Abandon(x)
  PROVE  RuntimeInv'
<1> DEFINE w == [local[x] EXCEPT !.phase = "working", !.abandoned = TRUE, !.aborted = TRUE]
           d == Over(local[x])
<1>1. /\ ~ In(x, "idle") /\ local[x].phase = "yielded"
      /\ Put(x, w) \/ Put(x, d)
      /\ UNCHANGED <<stored, lease, said, history, activeRuns, activeSessions, pendingStarts,
                     shutdown, failures>>
      /\ local[x].flight.phase # "sent"
  BY Known DEF Abandon, In, store, registries, HasForm
<1>2. /\ w \in Execution /\ w.phase = "working" /\ w.run = local[x].run
      /\ w.streamed = local[x].streamed /\ w.status = local[x].status
      /\ w.revision = local[x].revision
      /\ w.flight = local[x].flight /\ w.canceller = local[x].canceller
      /\ w.cancellation = local[x].cancellation /\ w.aborted
  BY Known DEF Execution, Advancing
<1>3. /\ d \in Execution /\ d.phase = "done" /\ d.run = local[x].run
      /\ d.streamed = local[x].streamed /\ d.status = local[x].status
      /\ d.revision = local[x].revision /\ d.abandoned = local[x].abandoned
      /\ d.flight = local[x].flight /\ d.canceller = local[x].canceller
      /\ d.cancellation = local[x].cancellation /\ d.aborted = local[x].aborted
  BY Known DEF Execution, Over
<1> HIDE DEF w, d
<1>4. Follows(local[x], w, stored[local[x].run], local[x].run \in history)
  BY <1>1, <1>2, Known, GoesOn DEF In, KeepsCanceller
<1>5. Follows(local[x], d, stored[local[x].run], local[x].run \in history)
  BY <1>1, <1>3, Known, EndsWork DEF In, KeepsCanceller
<1>6. CASE Put(x, w)
  <2>1. Moves(x, w)
    BY <1>1, <1>2, <1>4, <1>6 DEF Moves
  <2> QED BY <1>1, <1>2, <2>1, MoveStays, Unchanged, Phases DEF Driving, IsPending
<1>7. CASE Put(x, d)
  <2>1. Moves(x, d)
    BY <1>1, <1>3, <1>5, <1>7 DEF Moves
  <2> QED BY <1>1, <1>3, <2>1, MoveStays, Unchanged, Phases DEF Driving, IsPending
<1> QED BY <1>1, <1>6, <1>7

(* The driver sends a commit.                                                *)
LEMMA Commits ==
  ASSUME RuntimeInv, NEW x \in Executions, NEW g \in Execution, NEW status \in Active \cup Terminal,
         NEW event \in {"progress", "paused"} \cup Terminal,
         local[x].phase \in {"working", "committing"}, local[x].flight.phase # "sent",
         local[x].phase = "committing" => local[x].status \notin Terminal,
         event = "completed" => status = "completed",
         IsAlone(local[x], stored[local[x].run]) =>
           event = IF status = "running" THEN "progress" ELSE status,
         g.phase = local[x].phase, g.run = local[x].run, g.streamed = local[x].streamed,
         g.revision = local[x].revision, g.abandoned = local[x].abandoned,
         KeepsCanceller(local[x], g), local[x].aborted => g.aborted,
         Put(x, Commit(g, status, event)),
         UNCHANGED <<store, registries, shutdown, failures>>
  PROVE  RuntimeInv'
<1> DEFINE e == Commit(g, status, event)
<1>1. Sent(g, status, event) \in Flight /\ Sent(g, status, event) = Sent(local[x], status, event)
  BY FlightSent DEF Sent
<1>2. /\ e \in Execution /\ e.phase = "committing" /\ e.run = local[x].run
      /\ e.streamed = local[x].streamed /\ e.status = status
      /\ e.revision = local[x].revision /\ e.abandoned = local[x].abandoned
      /\ e.flight = Sent(local[x], status, event) /\ e.canceller = local[x].canceller
      /\ e.cancellation = local[x].cancellation /\ e.aborted = g.aborted
  BY <1>1 DEF Execution, Commit, Advancing, KeepsCanceller
<1> HIDE DEF e
<1>3. Follows(local[x], e, stored[local[x].run], local[x].run \in history)
  <2> DEFINE s == stored[local[x].run]
             completed == local[x].run \in history
  <2>1. /\ local[x] \in Execution /\ s \in StoredRun /\ completed \in BOOLEAN
        /\ local[x].phase # "idle" /\ Knows(local[x], s, completed)
    BY Known DEF In
  <2>2. IsAlone(local[x], s) => event = IF status = "running" THEN "progress" ELSE status
    OBVIOUS
  <2> HIDE DEF s, completed
  <2>3. Follows(local[x], e, s, completed)
    BY <1>2, <2>1, <2>2, Sends DEF KeepsCanceller
  <2> QED BY <2>3 DEF s, completed
<1>4. Moves(x, e)
  BY <1>2, <1>3 DEF Moves, store, In, e
<1> QED BY <1>2, <1>4, MoveStays, Unchanged, Phases DEF Driving, IsPending, store, registries

LEMMA StepSendCommit ==
  ASSUME RuntimeInv, NEW x \in Executions, SendCommit(x)
  PROVE  RuntimeInv'
<1> DEFINE f == local[x]
<1>1. /\ f \in Execution /\ HasForm(f) /\ f.phase = "working" /\ ~ In(x, "idle")
      /\ UNCHANGED <<store, registries, shutdown, failures>>
      /\ f.status \in Active \cup Terminal
  BY Known DEF SendCommit, In, Execution
<1>2. f.flight.phase # "sent" /\ KeepsCanceller(f, f)
  BY <1>1 DEF HasForm, KeepsCanceller
<1>3. CASE Put(x, Commit(f, f.status, "progress"))
  <2>1. IsAlone(f, stored[f.run]) => f.status = "running"
    BY <1>1 DEF IsAlone
  <2> QED BY <1>1, <1>2, <1>3, <2>1, Commits
<1>4. CASE Put(x, Commit(f, "paused", "paused"))
  BY <1>1, <1>2, <1>4, Commits DEF Active
<1>5. CASE Put(x, Commit(f, "completed", "completed"))
  BY <1>1, <1>2, <1>5, Commits DEF Terminal
<1> QED BY <1>3, <1>4, <1>5 DEF SendCommit

(* The driver ends without a release, or with one.                           *)
LEMMA Ends ==
  ASSUME RuntimeInv, NEW x \in Executions, NEW g \in Execution,
         local[x].phase \in {"yielded", "working", "committing", "releasing"},
         local[x].flight.phase # "sent", g.flight \in {local[x].flight, NoFlight},
         g.run = local[x].run, g.streamed = local[x].streamed, g.status = local[x].status,
         g.revision = local[x].revision, g.abandoned => local[x].abandoned,
         KeepsCanceller(local[x], g), local[x].aborted => g.aborted,
         Only(x, Over(g)), UNCHANGED <<stored, said, history>>, LeaseIsFormed(lease'),
         IsFormed(shutdown'), failures' = failures
  PROVE  RuntimeInv'
<1> DEFINE e == Over(g)
<1>1. /\ e \in Execution /\ e.phase = "done" /\ e.run = local[x].run
      /\ e.streamed = local[x].streamed /\ e.status = local[x].status
      /\ e.revision = local[x].revision /\ e.flight \in {local[x].flight, NoFlight}
      /\ e.abandoned => local[x].abandoned
      /\ KeepsCanceller(local[x], e)
      /\ local[x].aborted => e.aborted
  BY DEF Over, Execution, KeepsCanceller
<1>2. /\ Put(x, e) /\ UNCHANGED registries /\ local[x].phase # "idle"
  BY DEF Only
<1> HIDE DEF e
<1>3. Moves(x, e)
  <2>1. Follows(local[x], e, stored[local[x].run], local[x].run \in history)
    BY <1>1, <1>2, Known, EndsWork DEF In
  <2> QED BY <1>1, <1>2, <2>1 DEF Moves, In
<1> QED BY <1>1, <1>2, <1>3, MoveStays, Unchanged, Phases
        DEF Driving, IsPending, registries, KeepsCanceller

LEMMA Releases ==
  ASSUME RuntimeInv, NEW x \in Executions, NEW g \in Execution,
         local[x].phase \in Driving \/ (local[x].phase = "releasing" /\ local[x].abandoned),
         local[x].flight.phase # "sent", g.flight \in {local[x].flight, NoFlight},
         g.run = local[x].run, g.streamed = local[x].streamed, g.status = local[x].status,
         g.revision = local[x].revision, g.abandoned => local[x].abandoned,
         KeepsCanceller(local[x], g), local[x].aborted => g.aborted,
         ReleaseExecution(x, g), UNCHANGED <<stored, said, history>>, LeaseIsFormed(lease'),
         IsFormed(shutdown'), failures' = failures
  PROVE  RuntimeInv'
<1> DEFINE e == [g EXCEPT !.phase = "releasing", !.timed = FALSE]
<1>1. /\ e \in Execution /\ e.phase = "releasing" /\ e.run = local[x].run
      /\ e.streamed = local[x].streamed /\ e.status = local[x].status
      /\ e.revision = local[x].revision /\ e.flight \in {local[x].flight, NoFlight}
      /\ e.abandoned => local[x].abandoned
      /\ KeepsCanceller(local[x], e)
      /\ local[x].aborted => e.aborted
  BY DEF Advancing, Execution, KeepsCanceller
<1>2. /\ Put(x, e) /\ Deregister(x) /\ local[x].phase # "idle"
      /\ local[x].phase \in {"yielded", "working", "committing", "releasing"}
  BY Phases DEF ReleaseExecution, Driving
<1> HIDE DEF e
<1>3. Moves(x, e)
  <2>1. Follows(local[x], e, stored[local[x].run], local[x].run \in history)
    BY <1>1, <1>2, Known, EndsWork DEF In
  <2> QED BY <1>1, <1>2, <2>1 DEF Moves, In
<1> QED BY <1>1, <1>2, <1>3, Forgets, Phases DEF KeepsCanceller

(* The catch of executeAgent.                                                *)
LEMMA Throws ==
  ASSUME RuntimeInv, NEW x \in Executions, NEW g \in Execution,
         local[x].phase \in {"working", "committing"},
         local[x].flight.phase # "sent", g.flight \in {local[x].flight, NoFlight},
         g.phase = local[x].phase,
         g.run = local[x].run, g.streamed = local[x].streamed, g.status = local[x].status,
         g.revision = local[x].revision, g.abandoned = local[x].abandoned,
         KeepsCanceller(local[x], g), local[x].aborted => g.aborted,
         Throw(x, g), UNCHANGED <<store, shutdown, failures>>
  PROVE  RuntimeInv'
<1>1. /\ UNCHANGED <<stored, said, history>> /\ LeaseIsFormed(lease') /\ IsFormed(shutdown')
      /\ failures' = failures
  BY Unchanged DEF store
<1>2. local[x].phase \in Driving
  BY DEF Driving
<1>3. CASE ReleaseExecution(x, g)
  BY <1>1, <1>2, <1>3, Releases
<1>4. CASE Only(x, Over(g))
  BY <1>1, <1>4, Ends
<1>5. CASE Only(x, Commit(g, "cancelled", "cancelled")) /\ g.status \notin Terminal
  BY <1>5, Commits DEF Only, Terminal
<1>6. CASE Only(x, Commit(g, "failed", "failed")) /\ g.status = "running"
  BY <1>6, Commits DEF Only, Terminal
<1>7. g.leaseLost \in BOOLEAN
  BY DEF Execution
<1> QED BY <1>3, <1>4, <1>5, <1>6, <1>7 DEF Throw

LEMMA StepFail ==
  ASSUME RuntimeInv, NEW x \in Executions, Fail(x)
  PROVE  RuntimeInv'
<1>1. local[x].flight.phase # "sent"
  BY Known DEF HasForm, Fail, In
<1> QED BY <1>1, Known, Throws DEF Fail, In, KeepsCanceller

LEMMA StepAccepted ==
  ASSUME RuntimeInv, NEW x \in Executions, Accepted(x)
  PROVE  RuntimeInv'
<1> DEFINE f == local[x]
           g == [f EXCEPT !.flight = NoFlight]
<1>1. /\ f.phase = "committing" /\ f.flight.phase = "accepted" /\ ~ In(x, "idle")
      /\ f \in Execution /\ UNCHANGED <<stored, said, history, lease, shutdown, failures>>
  BY Known DEF Accepted, In, store
<1>2. CASE f.flight.event = "progress"
  <2>1. PICK phase \in {"working"} \cup (IF f.streamed /\ ~ f.abandoned THEN {"yielded"} ELSE {}) :
          Only(x, [f EXCEPT !.phase = phase, !.flight = NoFlight])
    BY <1>2 DEF Accepted
  <2> DEFINE e == [f EXCEPT !.phase = phase, !.flight = NoFlight]
  <2>2. /\ e \in Execution /\ e.phase \in {"working", "yielded"} /\ e.run = f.run
        /\ e.phase = "yielded" => f.streamed
        /\ e.streamed = f.streamed /\ e.status = f.status
        /\ e.revision = f.revision /\ e.abandoned = f.abandoned
        /\ e.flight = NoFlight /\ e.canceller = f.canceller
        /\ e.cancellation = f.cancellation /\ e.aborted = f.aborted
    BY <1>1, FlightOfNone DEF Execution, Advancing, Driving
  <2>3. Put(x, e) /\ UNCHANGED registries
    BY <2>1 DEF Only
  <2> HIDE DEF e
  <2>4. Moves(x, e)
    <3>1. Follows(f, e, stored[f.run], f.run \in history)
      BY <1>1, <1>2, <2>2, Known, GoesOn DEF In, KeepsCanceller
    <3> QED BY <1>1, <2>2, <2>3, <3>1 DEF Moves
  <2> QED BY <1>1, <2>2, <2>3, <2>4, MoveStays, Unchanged, Phases
          DEF Driving, IsPending, registries
<1>3. CASE f.flight.event # "progress"
  <2>1. ReleaseExecution(x, g)
    BY <1>3 DEF Accepted
  <2>2. /\ g \in Execution /\ g.run = f.run /\ g.streamed = f.streamed /\ g.status = f.status
        /\ g.revision = f.revision /\ g.abandoned = f.abandoned
        /\ g.flight = NoFlight /\ KeepsCanceller(f, g) /\ g.aborted = f.aborted
    BY <1>1, FlightOfNone DEF Execution, KeepsCanceller
  <2> HIDE DEF g
  <2>3. f.phase \in Driving
    BY <1>1 DEF Driving
  <2> QED BY <1>1, <2>1, <2>2, <2>3, Releases, Unchanged
<1> QED BY <1>2, <1>3

LEMMA StepRejected ==
  ASSUME RuntimeInv, NEW x \in Executions, Rejected(x)
  PROVE  RuntimeInv'
<1> DEFINE f == local[x]
           e == [f EXCEPT !.flight = NoFlight]
           told == IF f.flight.phase = "refused" THEN Lost(e) ELSE e
<1>1. /\ f.phase = "committing" /\ f.flight.phase # "sent"
      /\ f \in Execution /\ UNCHANGED <<stored, said, history, lease, shutdown, failures>>
      /\ UNCHANGED <<store, shutdown, failures>>
  BY Known DEF Rejected, In, store
<1>2. \/ f.flight.event = "cancelled" /\ Only(x, Over(told))
      \/ f.flight.event = "failed" /\ ReleaseExecution(x, told)
      \/ Throw(x, told)
  BY DEF Rejected
<1>3. /\ told \in Execution /\ told.run = f.run /\ told.streamed = f.streamed
      /\ told.status = f.status /\ told.phase = f.phase
      /\ told.revision = f.revision /\ told.abandoned = f.abandoned
      /\ told.flight = NoFlight /\ KeepsCanceller(f, told)
      /\ f.aborted => told.aborted
  <2>1. /\ e \in Execution /\ e.run = f.run /\ e.streamed = f.streamed
        /\ e.status = f.status /\ e.phase = f.phase
        /\ e.revision = f.revision /\ e.abandoned = f.abandoned
        /\ e.flight = NoFlight /\ KeepsCanceller(f, e)
        /\ f.aborted => e.aborted
    BY <1>1, FlightOfNone DEF Execution, KeepsCanceller
  <2> HIDE DEF e
  <2>2. CASE told = e
    BY <2>1, <2>2
  <2>3. CASE told = Lost(e)
    <3>1. /\ Lost(e) \in Execution /\ Lost(e).run = f.run /\ Lost(e).streamed = f.streamed
          /\ Lost(e).status = f.status /\ Lost(e).phase = f.phase
          /\ Lost(e).revision = f.revision /\ Lost(e).abandoned = f.abandoned
          /\ Lost(e).flight = NoFlight /\ KeepsCanceller(f, Lost(e)) /\ Lost(e).aborted
      BY <2>1 DEF Execution, KeepsCanceller, Lost
    <3> QED BY <2>3, <3>1
  <2> QED BY <2>2, <2>3
<1> HIDE DEF told
<1>4. f.phase \in Driving
  BY <1>1 DEF Driving
<1>5. CASE Only(x, Over(told))
  BY <1>1, <1>3, <1>5, Ends, Unchanged
<1>6. CASE ReleaseExecution(x, told)
  BY <1>1, <1>3, <1>4, <1>6, Releases, Unchanged
<1>7. CASE Throw(x, told)
  BY <1>1, <1>3, <1>7, Throws
<1> QED BY <1>2, <1>5, <1>6, <1>7

LEMMA StepReleased ==
  ASSUME RuntimeInv, NEW x \in Executions, Released(x)
  PROVE  RuntimeInv'
<1> DEFINE f == local[x]
           g == [f EXCEPT !.abandoned = FALSE]
<1>1. /\ f.phase = "releasing" /\ f \in Execution /\ f.flight.phase # "sent"
      /\ UNCHANGED <<stored, said, history, failures>>
      /\ shutdown' = Notified
  BY Known DEF Released, ReleaseLease, In, HasForm
<1>2. LeaseIsFormed(lease') /\ IsFormed(shutdown')
  BY <1>1, LeaseIsKept, Unchanged DEF Released, ReleaseLease
<1>3. CASE Only(x, Over(f))
  BY <1>1, <1>2, <1>3, Ends DEF KeepsCanceller
<1>4. CASE f.abandoned /\ ReleaseExecution(x, g)
  <2>1. /\ g \in Execution /\ g.run = f.run /\ g.streamed = f.streamed /\ g.status = f.status
        /\ g.revision = f.revision /\ ~ g.abandoned
        /\ g.flight = f.flight /\ KeepsCanceller(f, g) /\ g.aborted = f.aborted
    BY <1>1 DEF Execution, KeepsCanceller
  <2> HIDE DEF g
  <2> QED BY <1>1, <1>2, <1>4, <2>1, Releases
<1> QED BY <1>3, <1>4 DEF Released

(* Marks from outside: the lease is lost, or somebody aborts the run.        *)
LEMMA IsMarked ==
  ASSUME RuntimeInv, NEW x \in Executions, NEW e \in Execution, ~ In(x, "idle"), Put(x, e),
         e.phase = local[x].phase, e.run = local[x].run, e.streamed = local[x].streamed,
         e.status = local[x].status, e.revision = local[x].revision,
         e.abandoned = local[x].abandoned, e.flight = local[x].flight,
         KeepsCanceller(local[x], e), local[x].aborted => e.aborted,
         UNCHANGED <<store, registries, shutdown, failures>>
  PROVE  RuntimeInv'
<1>1. Follows(local[x], e, stored[local[x].run], local[x].run \in history)
  BY Known, Marks DEF In
<1>2. Moves(x, e)
  BY <1>1 DEF Moves, store
<1> QED BY <1>2, MoveStays, Unchanged DEF IsPending, store, registries, KeepsCanceller

LEMMA StepLoseLease ==
  ASSUME RuntimeInv, NEW x \in Executions, LoseLease(x)
  PROVE  RuntimeInv'
<1> DEFINE e == [Lost(local[x]) EXCEPT !.timed = FALSE]
<1>1. ~ In(x, "idle")
  BY Known DEF LoseLease, In, HasForm, IdleExecution
<1>2. Lost(local[x]) \in Execution
  BY Known DEF Lost, Execution
<1>3. /\ e \in Execution /\ Put(x, e) /\ e.phase = local[x].phase /\ e.run = local[x].run
      /\ e.streamed = local[x].streamed
      /\ e.status = local[x].status /\ e.revision = local[x].revision
      /\ e.abandoned = local[x].abandoned /\ e.flight = local[x].flight
      /\ KeepsCanceller(local[x], e) /\ e.aborted
  BY <1>2, Known DEF Lost, Execution, KeepsCanceller, LoseLease
<1> HIDE DEF e
<1> QED BY <1>1, <1>3, IsMarked DEF LoseLease

(* Whoever is registered, or waits to be cancelled, is at work or ended.     *)
LEMMA RegisteredHaveStarted ==
  ASSUME RuntimeInv, NEW r \in Runs, activeRuns[r] # None
  PROVE  /\ activeRuns[r] \in Executions /\ local[activeRuns[r]].phase \in Started
         /\ local[activeRuns[r]].run = r /\ ~ In(activeRuns[r], "idle")
  BY Phases DEF RuntimeInv, FormInv, TypeOK, In

LEMMA StepAbortRun ==
  ASSUME RuntimeInv, NEW x \in Executions, AbortRun(x)
  PROVE  RuntimeInv'
<1> DEFINE e == [local[x] EXCEPT !.aborted = TRUE]
<1>1. ~ In(x, "idle")
  BY RegisteredHaveStarted, RuntimeAssumption DEF AbortRun, Registered
<1>2. /\ e \in Execution /\ Put(x, e) /\ e.phase = local[x].phase /\ e.run = local[x].run
      /\ e.streamed = local[x].streamed
      /\ e.status = local[x].status /\ e.revision = local[x].revision
      /\ e.abandoned = local[x].abandoned /\ e.flight = local[x].flight
      /\ KeepsCanceller(local[x], e) /\ e.aborted
  BY Known DEF Execution, KeepsCanceller, AbortRun
<1> HIDE DEF e
<1> QED BY <1>1, <1>2, IsMarked DEF AbortRun

(* What cancelling makes of an execution that nobody advances.               *)
LEMMA CancelledFollows ==
  ASSUME NEW f \in Execution, NEW g \in Execution, NEW s \in StoredRun,
         NEW completed \in BOOLEAN, f.phase # "idle", Knows(f, s, completed),
         f.phase \in Started \ Advancing,
         g.phase = f.phase, g.run = f.run, g.streamed = f.streamed, g.status = f.status,
         g.revision = f.revision, g.abandoned = f.abandoned, g.flight = f.flight,
         KeepsCanceller(f, g)
  PROVE  /\ Follows(f, Cancelled(g), s, completed) /\ Cancelled(g) \in Execution
         /\ Cancelled(g).aborted = g.aborted /\ Cancelled(g).phase = f.phase
         /\ Cancelled(g).canceller \in {f.canceller, "committing"}
<1>1. CASE Cancelled(g) = g
  BY <1>1, Marks DEF KeepsCanceller
<1>2. CASE g.status \notin Terminal /\ g.canceller # "committing"
  <2> DEFINE e == [g EXCEPT !.status = "cancelled", !.canceller = "committing",
                            !.cancellation = Sent(g, "cancelled", "cancelled")]
  <2>1. Sent(g, "cancelled", "cancelled") \in Flight
        /\ Sent(g, "cancelled", "cancelled") = Sent(f, "cancelled", "cancelled")
    BY FlightSent DEF Sent, Terminal
  <2>2. /\ e \in Execution /\ e.phase = f.phase /\ e.run = f.run /\ e.streamed = f.streamed
        /\ e.status = "cancelled" /\ e.revision = f.revision /\ e.abandoned = f.abandoned
        /\ e.flight = f.flight /\ e.canceller = "committing" /\ e.aborted = g.aborted
        /\ e.cancellation = Sent(f, "cancelled", "cancelled")
    BY <2>1 DEF Execution, Terminal
  <2>3. Cancelled(g) = e
    BY <1>2 DEF Cancelled
  <2> HIDE DEF e
  <2>4. Follows(f, e, s, completed)
    BY <1>2, <2>2, Cancels
  <2> QED BY <2>2, <2>3, <2>4
<1> QED BY <1>1, <1>2 DEF Cancelled

LEMMA StepCancelRun ==
  ASSUME RuntimeInv, NEW r \in Runs, CancelRun(r)
  PROVE  RuntimeInv'
<1>0. PICK x \in Executions : x = activeRuns[r]
  BY RegisteredHaveStarted DEF CancelRun
<1> DEFINE f == local[x]
           g == [f EXCEPT !.aborted = TRUE]
<1>1. /\ f \in Execution /\ f.phase \in Started /\ f.run = r /\ ~ In(x, "idle")
      /\ UNCHANGED <<store, registries, shutdown, failures>>
      /\ Put(x, IF g.phase \in Advancing THEN g ELSE Cancelled(g))
  BY <1>0, Known, RegisteredHaveStarted DEF CancelRun
<1>2. /\ g \in Execution /\ g.phase = f.phase /\ g.run = f.run
      /\ g.streamed = f.streamed
      /\ g.status = f.status /\ g.revision = f.revision
      /\ g.abandoned = f.abandoned /\ g.flight = f.flight
      /\ KeepsCanceller(f, g) /\ g.aborted
  BY <1>1 DEF Execution, KeepsCanceller
<1> HIDE DEF g
<1>3. CASE g.phase \in Advancing
  BY <1>1, <1>2, <1>3, IsMarked
<1>4. CASE g.phase \notin Advancing
  <2> DEFINE e == Cancelled(g)
  <2>1. /\ Follows(f, e, stored[f.run], f.run \in history) /\ e \in Execution
        /\ e.aborted = g.aborted /\ e.phase = f.phase
        /\ e.canceller \in {f.canceller, "committing"}
    <3>1. f.phase \in Started \ Advancing /\ f.phase # "idle"
      BY <1>1, <1>2, <1>4 DEF In
    <3> QED BY <1>1, <1>2, <3>1, Known, CancelledFollows
  <2>2. Put(x, e)
    BY <1>1, <1>4
  <2> HIDE DEF e
  <2>3. Moves(x, e) /\ e.run = r
    BY <1>1, <1>2, <2>1, <2>2 DEF Moves, Follows, store
  <2> QED BY <1>0, <1>1, <2>1, <2>3, MoveStays, Unchanged, Phases DEF IsPending, store, registries
<1> QED BY <1>3, <1>4

LEMMA StepCancellationAnswered ==
  ASSUME RuntimeInv, NEW x \in Executions, CancellationAnswered(x)
  PROVE  RuntimeInv'
<1> DEFINE f == local[x]
           g == IF f.cancellation.phase = "refused" THEN Lost(f) ELSE f
           e == [g EXCEPT !.canceller = "done"]
           d == [f EXCEPT !.canceller = "releasing", !.timed = FALSE]
<1>1. /\ f \in Execution /\ f.phase \in Started /\ ~ In(x, "idle")
      /\ f.canceller = "committing"
      /\ UNCHANGED <<stored, lease, said, history, shutdown, failures>>
  BY Known, Phases DEF CancellationAnswered, HasForm, In, store
<1>2. CASE f.cancellation.phase = "accepted"
  <2>1. Put(x, d) /\ Deregister(x)
    BY <1>2 DEF CancellationAnswered
  <2>2. /\ d \in Execution /\ d.phase = f.phase /\ d.run = f.run /\ d.streamed = f.streamed
        /\ d.status = f.status /\ d.revision = f.revision /\ d.abandoned = f.abandoned
        /\ d.flight = f.flight /\ d.canceller = "releasing" /\ d.aborted = f.aborted
        /\ d.cancellation = f.cancellation
    BY <1>1 DEF Execution
  <2> HIDE DEF d
  <2>3. Follows(f, d, stored[f.run], f.run \in history)
    BY <1>1, <2>2, Known, CancellerGoesOn DEF In
  <2>4. Moves(x, d)
    BY <1>1, <2>1, <2>2, <2>3 DEF Moves
  <2> QED BY <1>1, <2>1, <2>2, <2>4, Forgets, Unchanged
<1>3. CASE f.cancellation.phase # "accepted"
  <2>1. Put(x, e) /\ UNCHANGED registries
    BY <1>3 DEF CancellationAnswered, Only
  <2>2. /\ g \in Execution /\ g.phase = f.phase /\ g.run = f.run /\ g.streamed = f.streamed
        /\ g.status = f.status /\ g.revision = f.revision /\ g.abandoned = f.abandoned
        /\ g.flight = f.flight /\ g.cancellation = f.cancellation
        /\ f.aborted => g.aborted
    BY <1>1 DEF Execution, Lost
  <2> HIDE DEF g
  <2>3. /\ e \in Execution /\ e.phase = f.phase /\ e.run = f.run /\ e.streamed = f.streamed
        /\ e.status = f.status /\ e.revision = f.revision /\ e.abandoned = f.abandoned
        /\ e.flight = f.flight /\ e.cancellation = f.cancellation
        /\ e.canceller = "done"
        /\ f.aborted => e.aborted
    BY <2>2 DEF Execution
  <2> HIDE DEF e
  <2>4. Follows(f, e, stored[f.run], f.run \in history)
    BY <1>1, <2>3, Known, CancellerGoesOn DEF In
  <2>5. Moves(x, e)
    BY <1>1, <2>1, <2>3, <2>4 DEF Moves
  <2> QED BY <1>1, <2>1, <2>3, <2>5, MoveStays, Unchanged, Phases DEF IsPending, registries
<1> QED BY <1>2, <1>3

LEMMA StepCancellationReleased ==
  ASSUME RuntimeInv, NEW x \in Executions, CancellationReleased(x)
  PROVE  RuntimeInv'
<1> DEFINE f == local[x]
           e == [f EXCEPT !.canceller = "done"]
<1>1. /\ f \in Execution /\ f.phase \in Started /\ ~ In(x, "idle")
      /\ Put(x, e) /\ UNCHANGED registries
      /\ UNCHANGED <<stored, said, history, failures>> /\ shutdown' = Notified
  BY Known, Phases DEF CancellationReleased, HasForm, In, ReleaseLease, Only
<1>2. LeaseIsFormed(lease') /\ IsFormed(shutdown')
  BY <1>1, LeaseIsKept, Unchanged DEF CancellationReleased, ReleaseLease
<1>3. /\ e \in Execution /\ e.phase = f.phase /\ e.run = f.run /\ e.streamed = f.streamed
      /\ e.status = f.status /\ e.revision = f.revision /\ e.abandoned = f.abandoned
      /\ e.flight = f.flight /\ e.cancellation = f.cancellation
      /\ e.canceller = "done" /\ e.aborted = f.aborted
  BY <1>1 DEF Execution
<1> HIDE DEF e
<1>4. Follows(f, e, stored[f.run], f.run \in history)
  BY <1>1, <1>3, Known, CancellerGoesOn DEF In
<1>5. Moves(x, e)
  BY <1>1, <1>3, <1>4 DEF Moves
<1> QED BY <1>1, <1>2, <1>3, <1>5, MoveStays, Unchanged, Phases DEF IsPending, registries

-----------------------------------------------------------------------------
(* Shutting down.                                                            *)
LEMMA ShutdownMoves ==
  ASSUME RuntimeInv, IsFormed(shutdown'), UNCHANGED <<store, local, registries, failures>>
  PROVE  RuntimeInv'
<1>1. CoreInv /\ TypeOK
  BY DEF RuntimeInv, CoreInv, FormInv
<1>2. UNCHANGED <<stored, lease, said, history, local, activeRuns, activeSessions,
                  pendingStarts, failures>>
  BY DEF store, registries
<1>3. FormInv'
  <2>1. TypeOK'
    BY <1>1, <1>2 DEF TypeOK, IsFormed, ShutdownState
  <2>2. pendingStarts' = Cardinality(Pending)'
    BY <1>2 DEF RuntimeInv, FormInv, Pending
  <2>3. \A y \in Executions :
          /\ HasForm(local'[y])
          /\ local[y].phase \in Started =>
               local'[y].phase \in Started /\ local'[y].run = local[y].run
    BY <1>2 DEF RuntimeInv, FormInv
  <2>4. \A r \in Runs : activeRuns'[r] \in {activeRuns[r], None}
    BY <1>2
  <2> QED BY <1>1, <2>1, <2>2, <2>3, <2>4, FormIsKept
<1>4. StoreInv' /\ HistoryInv' /\ BackgroundInv'
  BY <1>2 DEF RuntimeInv, StoreInv, HistoryInv, BackgroundInv, HistoryIsOfCompletedRuns,
             EventsTellTheStatus, Backgrounded, In
<1>5. AdmissionIsBounded'
  BY <1>2 DEF RuntimeInv, AdmissionIsBounded, Running, Registered
<1>6. RegistryInv'
  BY <1>2 DEF RuntimeInv, RegistryInv, IsReserved, Home, Backgrounded, IsFormed
<1> QED BY <1>3, <1>4, <1>5, <1>6 DEF RuntimeInv

LEMMA StepBeginShutdown ==
  ASSUME RuntimeInv, BeginShutdown
  PROVE  RuntimeInv'
<1>1. IsFormed(shutdown')
  BY Unchanged DEF BeginShutdown, IsFormed, ShutdownState
<1> QED BY <1>1, ShutdownMoves DEF BeginShutdown

LEMMA StepCleanupExpires ==
  ASSUME RuntimeInv, CleanupExpires
  PROVE  RuntimeInv'
<1>1. IsFormed(shutdown')
  BY Unchanged DEF CleanupExpires, IsFormed, ShutdownState
<1> QED BY <1>1, ShutdownMoves DEF CleanupExpires

(* Past the grace many executions move at once, and one is deregistered.     *)
LEMMA ManyMove ==
  ASSUME RuntimeInv, UNCHANGED <<store, pendingStarts, failures>>,
         local' \in [Executions -> Execution],
         \A y \in Executions :
           Goes(y) /\ local'[y].phase = local[y].phase /\ (local[y].aborted => local'[y].aborted),
         \/ UNCHANGED <<activeRuns, activeSessions>>
         \/ \E x \in Executions : Deregister(x),
         IsFormed(shutdown'), shutdown'.timedOut
  PROVE  RuntimeInv'
<1>1. /\ CoreInv /\ TypeOK /\ LeaseIsFormed(lease')
      /\ UNCHANGED <<stored, lease, said, history, pendingStarts, failures>>
  BY Unchanged DEF RuntimeInv, CoreInv, FormInv, store
<1>2. /\ StoreInv' /\ HistoryInv' /\ BackgroundInv'
      /\ \A x \in Executions :
           /\ HasForm(local'[x])
           /\ local[x].phase \in Started =>
                local'[x].phase \in Started /\ local'[x].run = local[x].run
  BY <1>1, KnowledgeIsKept
<1>3. /\ \A r \in Runs : activeRuns'[r] \in {activeRuns[r], None}
      /\ activeRuns' \in [Runs -> Executions \cup {None}] /\ activeSessions' \subseteq Sessions
  <2>1. CASE UNCHANGED <<activeRuns, activeSessions>>
    BY <1>1, <2>1 DEF TypeOK
  <2>2. CASE \E x \in Executions : Deregister(x)
    BY <1>1, <2>2 DEF TypeOK, Deregister
  <2> QED BY <2>1, <2>2
<1>4. TypeOK'
  BY <1>1, <1>3 DEF TypeOK, IsFormed, ShutdownState
<1>5. FormInv'
  <2>1. Pending' = Pending
    BY DEF Pending
  <2>2. pendingStarts' = Cardinality(Pending)'
    BY <1>1, <2>1, PendingIsFinite
  <2> QED BY <1>1, <1>2, <1>3, <1>4, <2>2, FormIsKept
<1>6. AdmissionIsBounded'
  <2>1. Registered' \subseteq Registered
    BY <1>3, RuntimeAssumption DEF Registered
  <2>2. Working' \subseteq Working
    BY <2>1 DEF Working, Registered
  <2> QED BY <1>1, <2>2, AdmissionIsKept, PendingIsFinite
<1>7. RegistryInv'
  BY DEF RegistryInv
<1> QED BY <1>2, <1>5, <1>6, <1>7 DEF RuntimeInv

LEMMA StepCancelNext ==
  ASSUME RuntimeInv, NEW todo \in SUBSET Executions, NEW states \in [Executions -> Execution],
         \A y \in todo : local[y].phase \in Started,
         \A y \in Executions :
           \/ states[y] = local[y]
           \/ local[y].phase \in Started /\ states[y] = [local[y] EXCEPT !.aborted = TRUE],
         CancelNext(todo, states)
  PROVE  RuntimeInv'
<1>1. ASSUME NEW y \in Executions
      PROVE  /\ states[y] \in Execution /\ local[y] \in Execution
             /\ states[y].phase = local[y].phase
             /\ states[y].run = local[y].run /\ states[y].streamed = local[y].streamed
             /\ states[y].status = local[y].status /\ states[y].revision = local[y].revision
             /\ states[y].abandoned = local[y].abandoned
             /\ states[y].flight = local[y].flight
             /\ KeepsCanceller(local[y], states[y])
             /\ local[y].aborted => states[y].aborted
  BY Known DEF Execution, KeepsCanceller
<1>2. ASSUME NEW y \in Executions, local'[y] = states[y]
      PROVE  Goes(y)
  <2>1. CASE states[y] = local[y]
    BY <1>2, <2>1 DEF Goes
  <2>2. CASE local[y].phase \in Started /\ states[y] = [local[y] EXCEPT !.aborted = TRUE]
    <3>1. ~ In(y, "idle")
      BY <2>2, Phases DEF In
    <3>2. /\ states[y] \in Execution /\ local[y] \in Execution
          /\ states[y].phase = local[y].phase
          /\ states[y].run = local[y].run /\ states[y].streamed = local[y].streamed
          /\ states[y].status = local[y].status /\ states[y].revision = local[y].revision
          /\ states[y].abandoned = local[y].abandoned
          /\ states[y].flight = local[y].flight /\ KeepsCanceller(local[y], states[y])
      BY <1>1, <1>2
    <3> DEFINE s == stored[local[y].run]
               completed == local[y].run \in history
    <3>3. /\ s \in StoredRun /\ completed \in BOOLEAN /\ local[y].phase # "idle"
          /\ Knows(local[y], s, completed)
      BY <1>2, <3>1, Known DEF In
    <3> HIDE DEF s, completed
    <3>4. Follows(local[y], states[y], s, completed)
      BY <3>2, <3>3, Marks
    <3> QED BY <1>2, <3>1, <3>4 DEF Goes, s, completed
  <2> QED BY <2>1, <2>2
<1>3. CASE /\ local' = states /\ UNCHANGED registries
           /\ shutdown' = [phase |-> IF IsIdle THEN "returned" ELSE "cleaning",
                           timedOut |-> TRUE, todo |-> {}, cancelling |-> None]
  <2>1. IsFormed(shutdown') /\ shutdown'.timedOut
    BY <1>3 DEF IsFormed, ShutdownState
  <2>2. UNCHANGED <<store, pendingStarts, failures, activeRuns, activeSessions>>
    BY <1>3 DEF CancelNext, registries
  <2>3. \A y \in Executions :
          Goes(y) /\ local'[y].phase = local[y].phase /\ (local[y].aborted => local'[y].aborted)
    BY <1>1, <1>2, <1>3
  <2> QED BY <1>3, <2>1, <2>2, <2>3, ManyMove
<1>4. ASSUME NEW x \in todo, NEW passed \in SUBSET todo, ~ PassedOver(states[x]),
             shutdown' = [phase |-> "cancelling", timedOut |-> TRUE,
                          todo |-> todo \ (passed \cup {x}), cancelling |-> x],
             BeginCancelling(x, states)
      PROVE  RuntimeInv'
  <2>1. IsFormed(shutdown') /\ shutdown'.timedOut
    BY <1>4, RuntimeAssumption DEF IsFormed, ShutdownState
  <2>2. /\ UNCHANGED <<store, failures>> /\ x \in Executions
        /\ local[x].phase \in Started \ Advancing /\ ~ In(x, "idle")
    BY <1>1, <1>4, Phases DEF CancelNext, PassedOver, In
  <2>5. /\ states[x] \in Execution /\ local[x] \in Execution
        /\ states[x].phase = local[x].phase
        /\ states[x].run = local[x].run /\ states[x].streamed = local[x].streamed
        /\ states[x].status = local[x].status /\ states[x].revision = local[x].revision
        /\ states[x].abandoned = local[x].abandoned
        /\ states[x].flight = local[x].flight /\ KeepsCanceller(local[x], states[x])
        /\ local[x].aborted => states[x].aborted
    BY <1>1, <2>2
  <2> DEFINE s == stored[local[x].run]
             completed == local[x].run \in history
  <2>6. /\ s \in StoredRun /\ completed \in BOOLEAN /\ local[x].phase # "idle"
        /\ Knows(local[x], s, completed)
    BY <2>2, Known DEF In
  <2> HIDE DEF s, completed
  <2>3. CASE states[x].leaseLost
    <3> DEFINE e == [states[x] EXCEPT !.canceller = "releasing", !.timed = FALSE]
    <3>1. /\ local' = [states EXCEPT ![x].canceller = "releasing", ![x].timed = FALSE]
          /\ Deregister(x)
      BY <2>3, <1>4 DEF BeginCancelling
    <3>2. local'[x] = e /\ \A y \in Executions \ {x} : local'[y] = states[y]
      BY <2>2, <3>1
    <3>3. /\ e \in Execution /\ e.phase = local[x].phase /\ e.run = local[x].run
          /\ e.streamed = local[x].streamed
          /\ e.status = local[x].status /\ e.revision = local[x].revision
          /\ e.abandoned = local[x].abandoned /\ e.flight = local[x].flight
          /\ e.cancellation = local[x].cancellation /\ e.canceller = "releasing"
          /\ local[x].aborted => e.aborted
      BY <2>5 DEF Execution, KeepsCanceller
    <3> HIDE DEF e
    <3>4. local' \in [Executions -> Execution]
      <4>1. DOMAIN local' = Executions /\ local' = [y \in Executions |-> local'[y]]
        BY <3>1
      <4> QED BY <4>1, <3>2, <3>3
    <3>5. Goes(x)
      <4>1. Follows(local[x], e, s, completed)
        BY <2>2, <2>5, <2>6, <3>3, CancellerGoesOn
      <4> QED BY <2>2, <3>2, <4>1 DEF Goes, s, completed
    <3>6. \A y \in Executions :
            Goes(y) /\ local'[y].phase = local[y].phase /\ (local[y].aborted => local'[y].aborted)
      BY <1>1, <1>2, <3>2, <3>3, <3>5
    <3>7. UNCHANGED pendingStarts
      BY <3>1 DEF Deregister
    <3> QED BY <2>1, <2>2, <3>1, <3>4, <3>6, <3>7, ManyMove
  <2>4. CASE ~ states[x].leaseLost
    <3> DEFINE e == Cancelled(states[x])
    <3>1. local' = [states EXCEPT ![x] = e] /\ UNCHANGED registries
      BY <2>4, <1>4 DEF BeginCancelling
    <3>2. /\ Follows(local[x], e, s, completed)
          /\ e \in Execution /\ e.phase = local[x].phase
          /\ e.aborted = states[x].aborted
      BY <2>2, <2>5, <2>6, CancelledFollows
    <3> HIDE DEF e
    <3>3. local'[x] = e /\ \A y \in Executions \ {x} : local'[y] = states[y]
      BY <2>2, <3>1
    <3>4. local' \in [Executions -> Execution]
      BY <3>1, <3>2
    <3>5. Goes(x)
      BY <2>2, <3>2, <3>3 DEF Goes, s, completed
    <3>6. \A y \in Executions :
            Goes(y) /\ local'[y].phase = local[y].phase /\ (local[y].aborted => local'[y].aborted)
      BY <1>1, <1>2, <2>2, <3>2, <3>3, <3>5
    <3>7. UNCHANGED <<pendingStarts, activeRuns, activeSessions>>
      BY <3>1 DEF registries
    <3> QED BY <2>1, <2>2, <3>4, <3>6, <3>7, ManyMove
  <2> QED BY <2>3, <2>4
<1> QED BY <1>3, <1>4 DEF CancelNext

LEMMA StepGraceExpires ==
  ASSUME RuntimeInv, GraceExpires
  PROVE  RuntimeInv'
<1> DEFINE states == [x \in Executions |->
              IF x \in Registered THEN [local[x] EXCEPT !.aborted = TRUE] ELSE local[x]]
<1>1. \A y \in Registered : y \in Executions /\ local[y].phase \in Started
  BY RegisteredHaveStarted, RuntimeAssumption DEF Registered
<1>2. states \in [Executions -> Execution]
  <2>1. \A y \in Executions : [local[y] EXCEPT !.aborted = TRUE] \in Execution
    BY Known DEF Execution
  <2> QED BY <2>1, Known
<1>3. \A y \in Executions :
        \/ states[y] = local[y]
        \/ local[y].phase \in Started /\ states[y] = [local[y] EXCEPT !.aborted = TRUE]
  BY <1>1
<1>4. CancelNext(Registered, states)
  BY DEF GraceExpires
<1> HIDE DEF states
<1>5. Registered \in SUBSET Executions
  BY DEF Registered
<1> QED BY <1>1, <1>2, <1>3, <1>4, <1>5, StepCancelNext

LEMMA StepGoOnCancelling ==
  ASSUME RuntimeInv, GoOnCancelling
  PROVE  RuntimeInv'
<1>1. /\ shutdown.todo \in SUBSET Executions /\ \A y \in shutdown.todo : local[y].phase \in Started
      /\ local \in [Executions -> Execution]
  BY DEF RuntimeInv, FormInv, TypeOK
<1> QED BY <1>1, StepCancelNext DEF GoOnCancelling

-----------------------------------------------------------------------------
LEMMA RuntimeInvInitially == Init => RuntimeInv
<1> SUFFICES ASSUME Init PROVE RuntimeInv
  OBVIOUS
<1> USE FlightOfNone, RuntimeAssumption, Phases
<1>1. /\ \A x \in Executions : local[x] = IdleExecution
      /\ \A r \in Runs : /\ stored[r] = [status |-> "absent", revision |-> 0]
                         /\ said[r] = {} /\ lease[r] = None /\ activeRuns[r] = None
      /\ history = {} /\ activeSessions = {} /\ pendingStarts = 0
      /\ shutdown = [phase |-> "open", timedOut |-> FALSE, todo |-> {}, cancelling |-> None]
  BY DEF Init
<1>2. Cardinality(Executions) \in Nat
  BY FS_CardinalityType
<1>3. TypeOK
  BY <1>2 DEF Init, TypeOK
<1>4. Pending = {} /\ Registered = {} /\ Working = {}
  BY <1>1 DEF Pending, Registered, Working
<1>5. FormInv
  <2>1. pendingStarts = Cardinality(Pending)
    BY <1>1, <1>4, FS_EmptySet
  <2>2. \A x \in Executions : HasForm(local[x])
    BY <1>1 DEF HasForm
  <2> QED BY <1>1, <1>3, <2>1, <2>2 DEF FormInv
<1>6. StoreInv
  BY <1>1 DEF StoreInv, In
<1>7. HistoryInv
  BY <1>1 DEF HistoryInv, HistoryIsOfCompletedRuns, In
<1>8. BackgroundInv
  BY <1>1 DEF BackgroundInv, EventsTellTheStatus, In, Terminal
<1>9. AdmissionIsBounded
  <2>1. Running = 0
    BY <1>4, FS_EmptySet DEF Running, Working
  <2> QED BY <1>1, <2>1 DEF AdmissionIsBounded
<1>10. RegistryInv
  BY <1>1 DEF RegistryInv, IsReserved, Driving
<1> QED BY <1>5, <1>6, <1>7, <1>8, <1>9, <1>10 DEF RuntimeInv

LEMMA RuntimeInvIsKept == RuntimeInv /\ [Next]_vars => RuntimeInv'
<1> SUFFICES ASSUME RuntimeInv, [Next]_vars PROVE RuntimeInv'
  OBVIOUS
<1>1. ASSUME NEW x \in Executions, Caller(x) PROVE RuntimeInv'
  BY <1>1, StepAuthorize, StepReserveSession, StepCreate, StepReadRun, StepCheckSession,
     StepAcquireLease, StepResumed, StepSendCommit, StepFail, StepAccepted, StepRejected,
     StepReleased, StepExecuteFlight, StepExecuteCancellation, StepCancellationAnswered,
     StepCancellationReleased DEF Caller
<1>2. ASSUME NEW x \in Executions, Host(x) PROVE RuntimeInv'
  BY <1>2, StepAdmitStart, StepAdmitResume, StepAdvance, StepAbandon, StepAbortRun,
     StepLoseLease DEF Host
<1>3. ASSUME NEW r \in Runs, CancelRun(r) \/ ExpireLease(r) PROVE RuntimeInv'
  BY <1>3, StepCancelRun, StepExpireLease
<1>4. ASSUME NEW r \in Runs, NEW status \in Active \cup Terminal, ChangeElsewhere(r, status)
      PROVE  RuntimeInv'
  BY <1>4, StepChangeElsewhere
<1>5. CASE BeginShutdown \/ GraceExpires \/ GoOnCancelling \/ CleanupExpires
  BY <1>5, StepBeginShutdown, StepGraceExpires, StepGoOnCancelling, StepCleanupExpires
<1>6. CASE UNCHANGED vars
  <2>1. IsFormed(shutdown') /\ UNCHANGED <<store, local, registries, failures>>
    BY <1>6, Unchanged DEF vars
  <2> QED BY <2>1, ShutdownMoves
<1> QED BY <1>1, <1>2, <1>3, <1>4, <1>5, <1>6 DEF Next

LEMMA RuntimeInvHolds == Spec => []RuntimeInv
  BY RuntimeInvInitially, RuntimeInvIsKept, PTL DEF Spec

(* What the variables are, in every state of every process: registries of    *)
(* executions by run, as many pending starts as executions at most, answers  *)
(* of the kinds that the store gives.                                        *)
THEOREM RuntimeIsTyped == Spec => []TypeOK
<1>1. RuntimeInv => TypeOK
  BY DEF RuntimeInv, FormInv
<1> QED BY <1>1, RuntimeInvHolds, PTL

(* However many executions there are and however their starts, resumptions,  *)
(* rejections, throws, cancellations and releases come between each other,   *)
(* the limit of active runs holds; and a process that runs one at a time, in *)
(* the background, has whoever advances a run in the registry that cancelRun *)
(* and shutdown look into, as long as no shutdown ran out of its grace.      *)
THEOREM WorkStaysAdmittedAndFindable == Spec => []WorkIsAdmittedAndFindable
<1>1. RuntimeInv => WorkIsAdmittedAndFindable
  BY DEF RuntimeInv, RegistryInv, IsReserved, WorkIsAdmittedAndFindable, WorkersAreFindable
<1> QED BY <1>1, RuntimeInvHolds, PTL

(* The history of a session has completed runs only, however completion,     *)
(* cancellation, lost answers and takeovers race; and without streams every  *)
(* stored run has the terminal event of its status and no other.             *)
THEOREM StoriesAgree == Spec => []StoreTellsOneStory
<1>1. RuntimeInv => StoreTellsOneStory
  BY DEF RuntimeInv, HistoryInv, BackgroundInv, StoreTellsOneStory
<1> QED BY <1>1, RuntimeInvHolds, PTL
=============================================================================
