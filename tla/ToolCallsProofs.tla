---------------------------- MODULE ToolCallsProofs ----------------------------
(* Theorems about ToolCalls, for every answer of a model, every number of     *)
(* workers and every number of crashes, lost leases and lost answers: no      *)
(* effect before its approval, every effect on record, and no effect begun    *)
(* again that nobody decided to retry.                                        *)
EXTENDS ToolCalls, FiniteSetTheorems, TLAPS

(* The calls of the answer, in order and each once.                           *)
LEMMA CallsOfBatch ==
  /\ Len(Batch) \in Nat \ {0} /\ DOMAIN Batch = 1 .. Len(Batch)
  /\ \A i \in 1 .. Len(Batch) : Batch[i] \in Calls
  /\ \A i, j \in 1 .. Len(Batch) : Batch[i] = Batch[j] => i = j
<1>1. Batch \in Seq(Calls) /\ Batch # <<>>
  BY ToolAssumption
<1>2. Len(Batch) \in Nat /\ DOMAIN Batch = 1 .. Len(Batch)
  BY <1>1
<1>3. Len(Batch) # 0
  BY <1>1
<1> QED BY <1>1, <1>2, <1>3, ToolAssumption DEF Calls

LEMMA CallIsACall ==
  ASSUME NEW e \in Worker, HasCall(e),
         e.phase # "reading" \/ e.cleared \/ e.forced
  PROVE  e.index \in 1 .. Len(Batch) /\ Call(e) \in Calls
<1>1. e.index \in 1 .. Len(Batch) + 1 /\ e.index <= Len(Batch)
  BY DEF Worker, HasCall
<1> QED BY <1>1, CallsOfBatch DEF Call

(* The part of the invariant that is about a stored run alone.                *)
StoreIsSound(s, granted, again) ==
  /\ \A i \in DOMAIN Batch :
       i < s.position \/ s.status = "completed" => s.record[Batch[i]].status = "completed"
  /\ s.status = "paused" /\ s.pause = "unknown" =>
       s.record[Batch[s.position]].status \in {"started", "completed"}
  /\ \A c \in Calls :
       /\ s.record[c].status # "none" => Ungated(c, granted)
       /\ s.record[c].status = "failed" => s.record[c].attempt > 0
       /\ c \notin again => s.record[c].attempt <= MaxAttempts[c]

(* What a worker must be for the invariant to hold of it.                     *)
IsSound(e, s, granted, again) ==
  HasCall(e) /\ IsApproved(e, s, granted) /\ IsCounted(e, again)

(* What a stored run may become: no record disappears.                        *)
KeepsRecords(s, t) == \A c \in Calls : s.record[c].status # "none" => t.record[c].status # "none"

LEMMA InvariantOfParts ==
  ToolInv <=> /\ TypeOK /\ HolderIsCurrent /\ EffectsAreLicensed /\ NoEffectBeforeApproval
              /\ StoreIsSound(stored, approved, retried)
              /\ \A w \in Workers : IsSound(worker[w], stored, approved, retried)
              /\ \A c \in begun : stored.record[c].status # "none"
  BY DEF ToolInv, StoreIsSound, IsSound, WorkersAreSound, RecordsAreApproved,
         FailuresAreCounted, EffectsAreOnRecord, AttemptsAreBounded, ProgressIsRecorded,
         UnknownIsOnRecord, Doubtful

LEMMA InvariantOfPartsAfter ==
  ToolInv' <=> /\ TypeOK' /\ HolderIsCurrent' /\ EffectsAreLicensed' /\ NoEffectBeforeApproval'
               /\ StoreIsSound(stored', approved', retried')
               /\ \A w \in Workers : IsSound(worker'[w], stored', approved', retried')
               /\ \A c \in begun' : stored'.record[c].status # "none"
  BY DEF ToolInv, StoreIsSound, IsSound, WorkersAreSound, RecordsAreApproved,
         FailuresAreCounted, EffectsAreOnRecord, AttemptsAreBounded, ProgressIsRecorded,
         UnknownIsOnRecord, Doubtful

(* A worker that has nothing in hand has nothing to be wrong about.           *)
LEMMA IdleIsSound ==
  /\ Idle \in Worker /\ Idle.phase = "idle" /\ ~ Idle.cleared /\ ~ Idle.forced
  /\ \A s, granted, again : IsSound(Idle, s, granted, again)
  BY CallsOfBatch
     DEF Idle, Worker, Phases, NoRecord, ToolRecord, IsSound, HasCall, IsApproved, IsCounted,
         PastGate, InEffect

-----------------------------------------------------------------------------
(* A worker moves.                                                            *)

(* The licences of a call suffice if the claims on it did not grow.           *)
LEMMA LicencesSuffice ==
  ASSUME TypeOK, EffectsAreLicensed, NEW c \in Once, licences'[c] = licences[c],
         Claimants(c)' \subseteq Claimants(c), Startable(c)' => Startable(c)
  PROVE  /\ IsFiniteSet(Claimants(c)')
         /\ licences'[c] >= Cardinality(Claimants(c)') + (IF Startable(c)' THEN 1 ELSE 0)
<1>1. /\ IsFiniteSet(Claimants(c))
      /\ licences[c] >= Cardinality(Claimants(c)) + (IF Startable(c) THEN 1 ELSE 0)
  BY DEF EffectsAreLicensed
<1>2. /\ IsFiniteSet(Claimants(c)')
      /\ Cardinality(Claimants(c)') <= Cardinality(Claimants(c))
  BY <1>1, FS_Subset
<1>3. Cardinality(Claimants(c)) \in Nat /\ Cardinality(Claimants(c)') \in Nat
  BY <1>1, <1>2, FS_CardinalityType
<1>4. licences[c] \in Int
  BY DEF TypeOK, Once
<1> QED BY <1>1, <1>2, <1>3, <1>4

(* The others stay as they were, and are served only by a store that did not  *)
(* move.                                                                      *)
Undisturbed(w) ==
  /\ KeepsRecords(stored, stored')
  /\ approved \subseteq approved' /\ retried \subseteq retried'
  /\ \A v \in Workers \ {w} : holder' = v => holder = v /\ stored' = stored

LEMMA WorkerMoves ==
  ASSUME ToolInv, NEW w \in Workers, NEW f \in Worker, Become(w, f), Undisturbed(w),
         IsSound(f, stored', approved', retried'),
         holder' = w /\ ~ f.behind /\ f.phase # "idle" => IsCurrent(f, stored')
  PROVE  /\ HolderIsCurrent'
         /\ \A v \in Workers : IsSound(worker'[v], stored', approved', retried')
         /\ worker' \in [Workers -> Worker]
<1>1. worker \in [Workers -> Worker] /\ worker' = [worker EXCEPT ![w] = f]
  BY InvariantOfParts DEF TypeOK, Become
<1>2. worker'[w] = f /\ \A v \in Workers \ {w} : worker'[v] = worker[v]
  BY <1>1
<1>3. worker' \in [Workers -> Worker]
  BY <1>1
<1>4. ASSUME NEW v \in Workers \ {w}
      PROVE  IsSound(worker[v], stored', approved', retried')
  <2>1. IsSound(worker[v], stored, approved, retried) /\ worker[v] \in Worker
    BY <1>1, InvariantOfParts
  <2>2. worker[v].phase \in InEffect => Call(worker[v]) \in Calls
    BY <2>1, CallIsACall DEF IsSound, InEffect
  <2>3. IsApproved(worker[v], stored', approved')
    BY <2>1, <2>2 DEF IsSound, IsApproved, Undisturbed, KeepsRecords, Ungated
  <2>4. IsCounted(worker[v], retried')
    BY <2>1 DEF IsSound, IsCounted, Undisturbed
  <2> QED BY <2>1, <2>3, <2>4 DEF IsSound
<1>5. ASSUME NEW v \in Workers, Accepted(v)', ~ In(v, "idle")'
      PROVE  IsCurrent(worker[v], stored)'
  <2>1. CASE v = w
    BY <1>2, <1>5, <2>1 DEF Accepted, In
  <2>2. CASE v # w
    <3>1. holder = v /\ stored' = stored /\ worker'[v] = worker[v]
      BY <1>2, <1>5, <2>2 DEF Accepted, Undisturbed
    <3>2. IsCurrent(worker[v], stored)
      BY <1>5, <3>1, InvariantOfParts DEF Accepted, In, HolderIsCurrent
    <3> QED BY <3>1, <3>2
  <2> QED BY <2>1, <2>2
<1> QED BY <1>2, <1>3, <1>4, <1>5 DEF HolderIsCurrent

(* Unless it comes to claim a call, licences suffice.                         *)
LEMMA ClaimsStay ==
  ASSUME ToolInv, NEW w \in Workers, NEW f \in Worker, Become(w, f), Undisturbed(w),
         f.phase # "invoking", HasCall(f),
         holder' = w /\ ~ f.behind /\ MayStart(f) /\ Call(f) \in Once => Startable(Call(f)),
         \A c \in Once : licences'[c] = licences[c]
  PROVE  EffectsAreLicensed'
<1>1. worker \in [Workers -> Worker] /\ worker' = [worker EXCEPT ![w] = f]
  BY InvariantOfParts DEF TypeOK, Become
<1>2. worker'[w] = f /\ \A v \in Workers \ {w} : worker'[v] = worker[v]
  BY <1>1
<1>3. SUFFICES ASSUME NEW c \in Once
               PROVE  Claimants(c)' \subseteq Claimants(c) /\ (Startable(c)' => Startable(c))
  BY <1>3, LicencesSuffice, InvariantOfParts DEF EffectsAreLicensed
<1>4. Claimants(c)' \subseteq Claimants(c)
  BY <1>2 DEF Claimants, In, Pending
<1>5. ASSUME Startable(c)' PROVE Startable(c)
  <2>1. c \in Calls
    BY DEF Once
  <2>2. CASE stored'.record[c].status = "none"
    BY <2>1, <2>2 DEF Startable, Undisturbed, KeepsRecords
  <2>3. ASSUME NEW v \in Workers, Accepted(v)', MayStart(worker[v])', Pending(v)' = c
        PROVE  Startable(c)
    <3>1. CASE v = w
      BY <1>2, <2>3, <3>1 DEF Accepted, Pending, Call
    <3>2. CASE v # w
      BY <1>2, <2>3, <3>2 DEF Accepted, Pending, Undisturbed, Startable
    <3> QED BY <3>1, <3>2
  <2> QED BY <1>5, <2>2, <2>3 DEF Startable
<1> QED BY <1>4, <1>5

LEMMA DisruptionsAreCounted ==
  ASSUME ToolInv, UNCHANGED disruptions \/ Disrupted
  PROVE  disruptions' \in 0 .. MaxDisruptions
<1>1. disruptions \in 0 .. MaxDisruptions /\ MaxDisruptions \in Nat
  BY ToolAssumption, InvariantOfParts DEF TypeOK
<1> QED BY <1>1 DEF Disrupted

(* Nothing but the worker's memory changes.                                   *)
LEMMA MemoryMoves ==
  ASSUME ToolInv, NEW w \in Workers, NEW f \in Worker, Become(w, f),
         UNCHANGED <<stored, holder, outside>>, UNCHANGED disruptions \/ Disrupted,
         f.phase # "invoking", IsSound(f, stored, approved, retried),
         holder = w /\ ~ f.behind /\ f.phase # "idle" => IsCurrent(f, stored),
         holder = w /\ ~ f.behind /\ MayStart(f) /\ Call(f) \in Once => Startable(Call(f))
  PROVE  ToolInv'
<1>1. /\ stored' = stored /\ holder' = holder /\ begun' = begun /\ approved' = approved
      /\ licences' = licences /\ retried' = retried
  BY DEF outside
<1>2. Undisturbed(w)
  BY <1>1 DEF Undisturbed, KeepsRecords
<1>3. /\ HolderIsCurrent' /\ worker' \in [Workers -> Worker]
      /\ \A v \in Workers : IsSound(worker'[v], stored', approved', retried')
  BY <1>1, <1>2, WorkerMoves
<1>4. EffectsAreLicensed'
  BY <1>1, <1>2, ClaimsStay DEF IsSound
<1>5. TypeOK'
  BY <1>1, <1>3, InvariantOfParts, DisruptionsAreCounted DEF TypeOK
<1>6. /\ NoEffectBeforeApproval' /\ StoreIsSound(stored', approved', retried')
      /\ \A c \in begun' : stored'.record[c].status # "none"
  BY <1>1, InvariantOfParts DEF NoEffectBeforeApproval
<1> QED BY <1>3, <1>4, <1>5, <1>6, InvariantOfPartsAfter

LEMMA SoundnessStays ==
  ASSUME NEW e \in Worker, NEW s, NEW t, NEW granted, NEW again, KeepsRecords(s, t),
         IsSound(e, s, granted, again)
  PROVE  IsSound(e, t, granted, again)
<1>1. e.phase \in InEffect => Call(e) \in Calls
  BY CallIsACall DEF IsSound, InEffect
<1> QED BY <1>1 DEF IsSound, IsApproved, KeepsRecords

LEMMA UnansweredIsSound ==
  ASSUME NEW e \in Worker, NEW s, NEW granted, NEW again, IsSound(e, s, granted, again)
  PROVE  /\ Unanswered(e) \in Worker /\ IsSound(Unanswered(e), s, granted, again)
         /\ Unanswered(e).phase = e.phase
         /\ Unanswered(e).phase = "idle" \/ Unanswered(e).behind
         /\ e.phase = "idle" => Unanswered(e) = e
<1>1. CASE e.phase = "idle"
  BY <1>1 DEF Unanswered
<1>2. CASE e.phase # "idle"
  <2>1. Unanswered(e) = [e EXCEPT !.behind = TRUE]
    BY <1>2 DEF Unanswered
  <2>2. /\ Unanswered(e) \in Worker /\ Unanswered(e).behind
        /\ Unanswered(e).phase = e.phase /\ Unanswered(e).index = e.index
        /\ Unanswered(e).cleared = e.cleared /\ Unanswered(e).forced = e.forced
        /\ Unanswered(e).record = e.record /\ Unanswered(e).attempt = e.attempt
        /\ Unanswered(e).limit = e.limit
    BY <2>1 DEF Worker
  <2>3. Call(Unanswered(e)) = Call(e)
    BY <2>2 DEF Call
  <2> QED BY <1>2, <2>2, <2>3 DEF IsSound, HasCall, IsApproved, IsCounted
<1> QED BY <1>1, <1>2

-----------------------------------------------------------------------------
(* A commit, for whatever is committed and however it is answered.            *)

(* What becomes of a commit of s that continues as f, or as g if it throws.   *)
LEMMA CommitEnds ==
  ASSUME ToolInv, NEW w \in Workers, NEW s, NEW f \in Worker, NEW g \in Worker,
         Commit(w, s, f, g), IsSound(g, stored, approved, retried)
  PROVE  /\ holder' = holder /\ disruptions' \in 0 .. MaxDisruptions
         /\ \/ Accepted(w) /\ stored' = s /\ Become(w, f)
            \/ Accepted(w) /\ stored' = s /\ Become(w, Unanswered(g))
            \/ stored' = stored /\ Become(w, Idle)
            \/ stored' = stored /\ Become(w, g)
  BY DisruptionsAreCounted DEF Commit

LEMMA CommitKeeps ==
  ASSUME ToolInv, NEW w \in Workers, NEW s \in StoredRun,
         NEW f \in Worker, NEW g \in Worker, Commit(w, s, f, g), UNCHANGED outside,
         Accepted(w) =>
           /\ StoreIsSound(s, approved, retried) /\ KeepsRecords(stored, s)
           /\ IsSound(f, s, approved, retried)
           /\ ~ f.behind /\ f.phase # "idle" => IsCurrent(f, s),
         IsSound(g, stored, approved, retried), g.phase # "invoking",
         Accepted(w) /\ g.phase # "idle" => IsCurrent(g, stored),
         g = Idle \/ (g.phase # "idle" /\ g.behind = worker[w].behind),
         Accepted(w) /\ MayStart(g) /\ Call(g) \in Once => Startable(Call(g)),
         Accepted(w) /\ stored' = s /\ Become(w, f) => EffectsAreLicensed'
  PROVE  ToolInv'
<1>1. /\ begun' = begun /\ approved' = approved /\ licences' = licences /\ retried' = retried
      /\ holder' = holder /\ disruptions' \in 0 .. MaxDisruptions
  BY CommitEnds DEF outside
<1>2. /\ Idle \in Worker /\ Idle.phase = "idle" /\ ~ MayStart(Idle)
      /\ IsSound(Idle, stored, approved, retried) /\ IsSound(Idle, s, approved, retried)
  BY IdleIsSound DEF MayStart
<1>3. ASSUME StoreIsSound(stored', approved, retried), KeepsRecords(stored, stored'),
             stored' \in StoredRun, worker' \in [Workers -> Worker], EffectsAreLicensed',
             HolderIsCurrent',
             \A v \in Workers : IsSound(worker'[v], stored', approved', retried')
      PROVE  ToolInv'
  <2>1. TypeOK'
    BY <1>1, <1>3, InvariantOfParts DEF TypeOK
  <2>2. NoEffectBeforeApproval' /\ \A c \in begun' : stored'.record[c].status # "none"
    BY <1>1, <1>3, InvariantOfParts DEF NoEffectBeforeApproval, KeepsRecords, TypeOK
  <2> QED BY <1>1, <1>3, <2>1, <2>2, InvariantOfPartsAfter
<1>4. Accepted(w) => \A v \in Workers \ {w} : holder' # v
  BY <1>1 DEF Accepted
<1>5. CASE Accepted(w) /\ stored' = s /\ (Become(w, f) \/ Become(w, Unanswered(g)))
  <2>1. Undisturbed(w) /\ stored' \in StoredRun /\ StoreIsSound(stored', approved, retried)
    BY <1>1, <1>4, <1>5 DEF Undisturbed
  <2>2. CASE Become(w, f)
    BY <1>1, <1>3, <1>5, <2>1, <2>2, WorkerMoves DEF Undisturbed
  <2>3. CASE Become(w, Unanswered(g))
    <3> DEFINE u == Unanswered(g)
    <3>1. IsSound(g, s, approved, retried)
      BY <1>5, SoundnessStays
    <3>2. /\ u \in Worker /\ IsSound(u, s, approved, retried) /\ u.phase # "invoking"
          /\ u.phase = "idle" \/ u.behind
      BY <3>1, UnansweredIsSound
    <3>3. u.phase = "idle" => u = g
      BY UnansweredIsSound
    <3>4. MayStart(u) /\ ~ u.behind /\ Call(u) \in Once => Startable(Call(u))
      <4>1. SUFFICES ASSUME ~ u.behind, MayStart(u), Call(u) \in Once PROVE Startable(Call(u))
        OBVIOUS
      <4>2. u = g
        BY <3>2, <3>3, <4>1
      <4> QED BY <1>5, <4>1, <4>2
    <3> HIDE DEF u
    <3>5. /\ HolderIsCurrent' /\ worker' \in [Workers -> Worker]
          /\ \A v \in Workers : IsSound(worker'[v], stored', approved', retried')
      BY <1>1, <1>5, <2>1, <2>3, <3>2, WorkerMoves DEF u
    <3>6. EffectsAreLicensed'
      BY <1>1, <2>1, <2>3, <3>2, <3>4, ClaimsStay DEF IsSound, u
    <3> QED BY <1>3, <2>1, <3>5, <3>6 DEF Undisturbed
  <2> QED BY <1>5, <2>2, <2>3
<1>6. CASE stored' = stored /\ (Become(w, Idle) \/ Become(w, g))
  <2>1. UNCHANGED <<stored, holder, outside>>
    BY <1>1, <1>6
  <2>2. UNCHANGED disruptions \/ Disrupted
    BY DEF Commit
  <2>3. CASE Become(w, Idle)
    BY <1>2, <2>1, <2>2, <2>3, MemoryMoves
  <2>4. CASE Become(w, g)
    <3>1. holder = w /\ ~ g.behind /\ g.phase # "idle" => IsCurrent(g, stored)
      BY <1>2 DEF Accepted
    <3>2. holder = w /\ ~ g.behind /\ MayStart(g) /\ Call(g) \in Once => Startable(Call(g))
      BY <1>2 DEF Accepted
    <3> QED BY <2>1, <2>2, <2>4, <3>1, <3>2, MemoryMoves
  <2> QED BY <1>6, <2>3, <2>4
<1> QED BY <1>5, <1>6, CommitEnds

-----------------------------------------------------------------------------
(* One worker, between two calls of the store.                                *)

LEMMA AboutWorker ==
  ASSUME ToolInv, NEW w \in Workers
  PROVE  /\ worker[w] \in Worker /\ stored \in StoredRun
         /\ IsSound(worker[w], stored, approved, retried)
         /\ Accepted(w) /\ worker[w].phase # "idle" => IsCurrent(worker[w], stored)
         /\ StoreIsSound(stored, approved, retried)
         /\ Pending(w) = Call(worker[w])
         /\ worker[w].phase # "reading" \/ worker[w].cleared \/ worker[w].forced =>
              worker[w].index \in 1 .. Len(Batch) /\ Pending(w) \in Calls
<1>1. /\ worker[w] \in Worker /\ stored \in StoredRun
      /\ IsSound(worker[w], stored, approved, retried)
      /\ StoreIsSound(stored, approved, retried)
  BY InvariantOfParts DEF TypeOK
<1>2. Accepted(w) /\ worker[w].phase # "idle" => IsCurrent(worker[w], stored)
  BY InvariantOfParts DEF HolderIsCurrent, In
<1> QED BY <1>1, <1>2, CallIsACall DEF IsSound, Pending, Call

(* The fields of a worker that moves on in the same call.                     *)
LEMMA MovedFields ==
  ASSUME NEW e \in Worker, NEW p \in Phases
  PROVE  LET f == [e EXCEPT !.phase = p] IN
         /\ f \in Worker /\ f.phase = p /\ f.index = e.index /\ f.cleared = e.cleared
         /\ f.forced = e.forced /\ f.record = e.record /\ f.attempt = e.attempt
         /\ f.limit = e.limit /\ f.behind = e.behind /\ Call(f) = Call(e)
  BY DEF Worker, Call

LEMMA NextCallFields ==
  ASSUME NEW w \in Workers, worker[w] \in Worker, worker[w].index \in 1 .. Len(Batch)
  PROVE  /\ NextCall(w) \in Worker /\ NextCall(w).phase = "reading"
         /\ NextCall(w).index = worker[w].index + 1 /\ ~ NextCall(w).cleared
         /\ ~ NextCall(w).forced /\ NextCall(w).behind = worker[w].behind
         /\ ~ MayStart(NextCall(w))
         /\ \A s, granted, again : IsSound(NextCall(w), s, granted, again)
<1>1. /\ NextCall(w) \in Worker /\ NextCall(w).phase = "reading"
      /\ NextCall(w).index = worker[w].index + 1 /\ ~ NextCall(w).cleared
      /\ ~ NextCall(w).forced /\ NextCall(w).behind = worker[w].behind
  <2>1. Idle \in Worker /\ ~ Idle.cleared /\ ~ Idle.forced
    BY IdleIsSound
  <2>2. worker[w].index + 1 \in 1 .. Len(Batch) + 1 /\ worker[w].behind \in BOOLEAN
    BY CallsOfBatch DEF Worker
  <2>3. NextCall(w) = [Idle EXCEPT !.phase = "reading", !.index = worker[w].index + 1,
                                   !.behind = worker[w].behind]
    BY DEF NextCall
  <2> QED BY <2>1, <2>2, <2>3 DEF Worker, Phases
<1>2. ~ MayStart(NextCall(w)) /\ HasCall(NextCall(w))
  BY <1>1 DEF MayStart, HasCall
<1>3. \A s, granted : IsApproved(NextCall(w), s, granted)
  BY <1>1 DEF IsApproved, PastGate, InEffect
<1>4. \A again : IsCounted(NextCall(w), again)
  BY <1>1 DEF IsCounted, InEffect
<1> QED BY <1>1, <1>2, <1>3, <1>4 DEF IsSound

LEMMA ReadRecordKeeps == ASSUME ToolInv, NEW w \in Workers, ReadRecord(w) PROVE ToolInv'
<1> DEFINE e == worker[w]
           f == [e EXCEPT !.phase = "gate", !.record = stored.record[Pending(w)]]
<1>1. /\ Become(w, f) /\ UNCHANGED <<stored, holder, outside>> /\ UNCHANGED disruptions
      /\ e.phase = "reading" /\ e.index <= Len(Batch)
  BY DEF ReadRecord, In
<1>2. /\ e \in Worker /\ IsSound(e, stored, approved, retried) /\ stored \in StoredRun
      /\ Accepted(w) => IsCurrent(e, stored)
      /\ StoreIsSound(stored, approved, retried) /\ Pending(w) = Call(e)
  BY <1>1, AboutWorker
<1>3. e.index \in 1 .. Len(Batch) /\ Call(e) \in Calls
  BY <1>1, <1>2, CallsOfBatch DEF Worker, Call
<1>4. /\ f \in Worker /\ f.phase = "gate" /\ f.index = e.index /\ f.cleared = e.cleared
      /\ f.forced = e.forced /\ f.record = stored.record[Call(e)] /\ f.attempt = e.attempt
      /\ f.limit = e.limit /\ f.behind = e.behind
  BY <1>2, <1>3 DEF Worker, StoredRun, Phases
<1>5. Call(f) = Call(e)
  BY <1>4 DEF Call
<1> HIDE DEF f
<1>6. IsSound(f, stored, approved, retried)
  BY <1>1, <1>2, <1>3, <1>4, <1>5
     DEF IsSound, HasCall, IsApproved, IsCounted, PastGate, InEffect, StoreIsSound
<1>7. holder = w /\ ~ f.behind => IsCurrent(f, stored)
  BY <1>1, <1>2, <1>4, <1>5 DEF Accepted, IsCurrent, InEffect
<1>8. holder = w /\ ~ f.behind /\ MayStart(f) /\ Call(f) \in Once => Startable(Call(f))
  BY <1>1, <1>2, <1>4, <1>5 DEF Accepted, MayStart, Startable
<1> QED BY <1>1, <1>4, <1>6, <1>7, <1>8, MemoryMoves DEF f

LEMMA ReuseKeeps == ASSUME ToolInv, NEW w \in Workers, Reuse(w) PROVE ToolInv'
<1> DEFINE e == worker[w]
<1>1. /\ Become(w, NextCall(w)) /\ UNCHANGED <<stored, holder, outside>>
      /\ UNCHANGED disruptions /\ e.phase = "checked" /\ e.record.status = "completed"
  BY DEF Reuse, In
<1>2. /\ e \in Worker /\ e.index \in 1 .. Len(Batch)
      /\ Accepted(w) => IsCurrent(e, stored)
  BY <1>1, AboutWorker
<1>3. holder = w /\ ~ NextCall(w).behind => IsCurrent(NextCall(w), stored)
  BY <1>1, <1>2, NextCallFields DEF Accepted, IsCurrent, InEffect, Call
<1> QED BY <1>1, <1>2, <1>3, NextCallFields, MemoryMoves

LEMMA PrepareAttemptsKeeps ==
  ASSUME ToolInv, NEW w \in Workers, PrepareAttempts(w) PROVE ToolInv'
<1> DEFINE e == worker[w]
           last == e.record.attempt
           limit == IF e.forced THEN Highest(MaxAttempts[Pending(w)], last + 1)
                    ELSE MaxAttempts[Pending(w)]
           attempt == IF e.record.status = "started" /\ Pending(w) \in Keyed
                      THEN Highest(last, 1) - 1 ELSE last
           f == [e EXCEPT !.phase = "attempting", !.forced = FALSE, !.limit = limit,
                          !.attempt = attempt]
<1>1. /\ Become(w, f) /\ UNCHANGED <<stored, holder, outside>> /\ UNCHANGED disruptions
      /\ e.phase = "checked" /\ e.record.status # "completed" /\ ~ Unknown(w)
  BY DEF PrepareAttempts, In
<1>2. /\ e \in Worker /\ IsSound(e, stored, approved, retried) /\ stored \in StoredRun
      /\ Accepted(w) => IsCurrent(e, stored)
      /\ StoreIsSound(stored, approved, retried) /\ Pending(w) = Call(e)
      /\ e.index \in 1 .. Len(Batch) /\ Call(e) \in Calls
  BY <1>1, AboutWorker
<1>3. /\ last \in Nat /\ MaxAttempts[Pending(w)] \in Nat \ {0}
      /\ e.record.status \in {"none", "started", "completed", "failed"}
  BY <1>2, ToolAssumption DEF Worker, ToolRecord
<1>4. limit \in Nat /\ attempt \in Nat
  BY <1>3 DEF Highest
<1>5. /\ f \in Worker /\ f.phase = "attempting" /\ f.index = e.index /\ f.cleared = e.cleared
      /\ ~ f.forced /\ f.limit = limit /\ f.attempt = attempt /\ f.behind = e.behind
  BY <1>2, <1>4 DEF Worker, Phases
<1>6. Call(f) = Call(e)
  BY <1>5 DEF Call
<1> HIDE DEF f
<1>7. IsSound(f, stored, approved, retried)
  <2>1. HasCall(f) /\ IsApproved(f, stored, approved)
    BY <1>1, <1>2, <1>5, <1>6 DEF IsSound, HasCall, IsApproved, PastGate, InEffect
  <2>2. e.forced => Call(e) \in retried
    BY <1>2 DEF IsSound, IsCounted
  <2>3. Call(f) \notin retried => f.limit <= MaxAttempts[Call(f)]
    BY <1>2, <1>3, <1>5, <1>6, <2>2
  <2> QED BY <1>5, <2>1, <2>3 DEF IsSound, IsCounted, InEffect
<1>8. holder = w /\ ~ f.behind => IsCurrent(f, stored)
  BY <1>1, <1>2, <1>5, <1>6 DEF Accepted, IsCurrent, InEffect
<1>9. ASSUME holder = w, ~ f.behind, MayStart(f), Call(f) \in Once PROVE Startable(Call(f))
  <2>1. Accepted(w) /\ attempt < limit
    BY <1>5, <1>9 DEF Accepted, MayStart
  <2>2. e.record = stored.record[Call(e)]
    BY <1>1, <1>2, <2>1 DEF IsCurrent
  <2>3. Call(e) \notin Keyed /\ MaxAttempts[Call(e)] = 1
    BY <1>6, <1>9 DEF Once
  <2>4. CASE e.forced
    BY <1>2, <1>6, <2>1, <2>4 DEF Startable, MayStart
  <2>5. CASE ~ e.forced
    <3>1. e.record.status # "started"
      BY <1>1, <1>2, <2>3, <2>5 DEF Unknown
    <3>2. e.record.status # "failed"
      BY <1>2, <1>3, <2>1, <2>2, <2>3, <2>5 DEF StoreIsSound
    <3> QED BY <1>1, <1>3, <1>6, <2>2, <3>1, <3>2 DEF Startable
  <2> QED BY <2>4, <2>5
<1> QED BY <1>1, <1>5, <1>7, <1>8, <1>9, MemoryMoves DEF f

(* A worker that only changes its phase, without coming nearer to an effect.  *)
LEMMA PhaseMoves ==
  ASSUME ToolInv, NEW w \in Workers, NEW p \in {"failing", "effectFailed"},
         Become(w, [worker[w] EXCEPT !.phase = p]), UNCHANGED <<stored, holder, outside>>,
         UNCHANGED disruptions,
         \/ p = "failing" /\ worker[w].phase = "attempting"
         \/ p = "effectFailed" /\ worker[w].phase = "executing"
  PROVE  ToolInv'
<1> DEFINE e == worker[w]
           f == [e EXCEPT !.phase = p]
<1>1. /\ e \in Worker /\ IsSound(e, stored, approved, retried) /\ Pending(w) = Call(e)
      /\ Accepted(w) => IsCurrent(e, stored)
      /\ e.index \in 1 .. Len(Batch) /\ Call(e) \in Calls
  BY AboutWorker
<1>2. p \in Phases
  BY DEF Phases
<1>3. /\ f \in Worker /\ f.phase = p /\ f.index = e.index /\ f.cleared = e.cleared
      /\ f.forced = e.forced /\ f.record = e.record /\ f.attempt = e.attempt
      /\ f.limit = e.limit /\ f.behind = e.behind /\ Call(f) = Call(e)
  BY <1>1, <1>2, MovedFields
<1> HIDE DEF f
<1>4. IsSound(f, stored, approved, retried)
  BY <1>1, <1>3 DEF IsSound, HasCall, IsApproved, IsCounted, PastGate, InEffect
<1>5. holder = w /\ ~ f.behind => IsCurrent(f, stored)
  BY <1>1, <1>3 DEF Accepted, IsCurrent, InEffect
<1>6. holder = w /\ ~ f.behind /\ MayStart(f) /\ Call(f) \in Once => Startable(Call(f))
  BY <1>1, <1>3 DEF Accepted, MayStart, Startable
<1> QED BY <1>3, <1>4, <1>5, <1>6, MemoryMoves DEF f

LEMMA CrashKeeps == ASSUME ToolInv, NEW w \in Workers, Crash(w) PROVE ToolInv'
<1>1. /\ Become(w, Idle) /\ UNCHANGED <<stored, holder, outside>> /\ Disrupted
  BY DEF Crash
<1> QED BY <1>1, IdleIsSound, MemoryMoves DEF MayStart

LEMMA MemoryStepsKeep ==
  ASSUME ToolInv, NEW w \in Workers,
         \/ ReadRecord(w) \/ Reuse(w) \/ PrepareAttempts(w) \/ Exhausted(w)
         \/ ToolThrows(w) \/ Crash(w)
  PROVE  ToolInv'
<1>1. CASE Exhausted(w)
  BY <1>1, PhaseMoves DEF Exhausted, Failing, In
<1>2. CASE ToolThrows(w)
  BY <1>2, PhaseMoves DEF ToolThrows, EffectFailed, In
<1> QED BY <1>1, <1>2, ReadRecordKeeps, ReuseKeeps, PrepareAttemptsKeeps, CrashKeeps

-----------------------------------------------------------------------------
(* What a commit writes: a pause, a position, a record, an end.               *)

LEMMA PausedIsSound ==
  ASSUME ToolInv, NEW w \in Workers, worker[w].phase # "idle", Accepted(w),
         worker[w].index \in 1 .. Len(Batch), worker[w].phase # "supplied",
         NEW reason \in {"approval", "unknown"},
         reason = "unknown" => stored.record[Pending(w)].status \in {"started", "completed"}
  PROVE  /\ Paused(w, reason) \in StoredRun
         /\ StoreIsSound(Paused(w, reason), approved, retried)
         /\ KeepsRecords(stored, Paused(w, reason))
<1> DEFINE s == Paused(w, reason)
<1>1. /\ stored \in StoredRun /\ StoreIsSound(stored, approved, retried)
      /\ IsCurrent(worker[w], stored)
  BY AboutWorker
<1>2. /\ s \in StoredRun /\ s.status = "paused" /\ s.pause = reason
      /\ s.position = worker[w].index /\ s.record = stored.record
  BY <1>1 DEF Paused, StoredRun
<1> HIDE DEF s
<1>3. StoreIsSound(s, approved, retried)
  BY <1>1, <1>2 DEF StoreIsSound, IsCurrent, Pending
<1>4. KeepsRecords(stored, s)
  BY <1>2 DEF KeepsRecords
<1> QED BY <1>2, <1>3, <1>4 DEF s

LEMMA RecordedFields ==
  ASSUME ToolInv, NEW w \in Workers, Pending(w) \in Calls,
         NEW status \in {"started", "completed", "failed"}, NEW attempt \in Nat
  PROVE  LET s == Recorded(w, status, attempt) IN
         /\ s \in StoredRun /\ s.status = stored.status /\ s.pause = stored.pause
         /\ s.position = stored.position
         /\ s.record[Pending(w)] = [status |-> status, attempt |-> attempt]
         /\ \A c \in Calls \ {Pending(w)} : s.record[c] = stored.record[c]
<1> DEFINE r == [status |-> status, attempt |-> attempt]
           records == [stored.record EXCEPT ![Pending(w)] = r]
<1>1. stored \in StoredRun
  BY InvariantOfParts DEF TypeOK
<1>2. r \in ToolRecord
  BY DEF ToolRecord
<1>3. stored.record \in [Calls -> ToolRecord]
  BY <1>1 DEF StoredRun
<1>4. /\ records \in [Calls -> ToolRecord] /\ records[Pending(w)] = r
      /\ \A c \in Calls \ {Pending(w)} : records[c] = stored.record[c]
  BY <1>2, <1>3
<1>5. Recorded(w, status, attempt) = [stored EXCEPT !.record = records]
  BY <1>1 DEF Recorded, StoredRun
<1> HIDE DEF records
<1> QED BY <1>1, <1>4, <1>5 DEF StoredRun

(* A record of the pending call, while it is not completed.                   *)
LEMMA RecordedIsSound ==
  ASSUME ToolInv, NEW w \in Workers, worker[w].phase # "idle", Accepted(w),
         worker[w].phase \in {"attempting"} \cup InEffect,
         NEW status \in {"started", "completed", "failed"}, NEW attempt \in Nat \ {0},
         attempt <= worker[w].limit
  PROVE  LET s == Recorded(w, status, attempt) IN
         /\ s \in StoredRun /\ StoreIsSound(s, approved, retried)
         /\ KeepsRecords(stored, s)
<1> DEFINE e == worker[w]
           s == Recorded(w, status, attempt)
<1>1. /\ stored \in StoredRun /\ StoreIsSound(stored, approved, retried)
      /\ IsCurrent(e, stored) /\ IsSound(e, stored, approved, retried) /\ e \in Worker
      /\ Pending(w) = Call(e) /\ e.index \in 1 .. Len(Batch) /\ Call(e) \in Calls
  BY AboutWorker DEF InEffect
<1>2. /\ s \in StoredRun /\ s.status = stored.status /\ s.pause = stored.pause
      /\ s.position = stored.position
      /\ s.record[Call(e)] = [status |-> status, attempt |-> attempt]
      /\ \A c \in Calls \ {Call(e)} : s.record[c] = stored.record[c]
  BY <1>1, RecordedFields
<1> HIDE DEF s
<1>3. /\ s.record[Call(e)].status = status /\ s.record[Call(e)].attempt = attempt
      /\ s.status = "running" /\ stored.record[Call(e)].status # "completed"
  BY <1>1, <1>2 DEF IsCurrent, InEffect
<1>4. Ungated(Call(e), approved) /\ (Call(e) \notin retried => attempt <= MaxAttempts[Call(e)])
  <2>1. Ungated(Call(e), approved)
    BY <1>1 DEF IsSound, IsApproved, PastGate
  <2>2. Call(e) \notin retried => e.limit <= MaxAttempts[Call(e)]
    BY <1>1 DEF IsSound, IsCounted
  <2>3. e.limit \in Nat /\ MaxAttempts[Call(e)] \in Nat
    BY <1>1, ToolAssumption DEF Worker
  <2> QED BY <2>1, <2>2, <2>3
<1>5. \A i \in DOMAIN Batch : i < s.position \/ s.status = "completed" =>
        s.record[Batch[i]].status = "completed"
  <2>1. ASSUME NEW i \in DOMAIN Batch, i < s.position
        PROVE  s.record[Batch[i]].status = "completed"
    <3>1. stored.record[Batch[i]].status = "completed" /\ Batch[i] \in Calls
      BY <1>1, <1>2, <2>1, CallsOfBatch DEF StoreIsSound
    <3> QED BY <1>2, <1>3, <3>1
  <2> QED BY <1>3, <2>1
<1>6. \A c \in Calls :
        /\ s.record[c].status # "none" => Ungated(c, approved)
        /\ s.record[c].status = "failed" => s.record[c].attempt > 0
        /\ c \notin retried => s.record[c].attempt <= MaxAttempts[c]
  <2>1. TAKE c \in Calls
  <2>2. CASE c = Call(e)
    BY <1>3, <1>4, <2>2
  <2>3. CASE c # Call(e)
    BY <1>1, <1>2, <2>3 DEF StoreIsSound
  <2> QED BY <2>2, <2>3
<1>7. StoreIsSound(s, approved, retried)
  BY <1>3, <1>5, <1>6 DEF StoreIsSound
<1>8. KeepsRecords(stored, s)
  BY <1>2, <1>3 DEF KeepsRecords
<1> QED BY <1>2, <1>7, <1>8 DEF s

(* What leaves the records as they are.                                       *)
LEMMA StatusIsSound ==
  ASSUME ToolInv, NEW s \in StoredRun, s.record = stored.record, s.status # "paused",
         \A i \in DOMAIN Batch : i < s.position \/ s.status = "completed" =>
           stored.record[Batch[i]].status = "completed"
  PROVE  StoreIsSound(s, approved, retried) /\ KeepsRecords(stored, s)
<1>1. StoreIsSound(stored, approved, retried)
  BY InvariantOfParts
<1> QED BY <1>1 DEF StoreIsSound, KeepsRecords

(* The licences after a commit that went on without starting an effect.       *)
LEMMA CommitKeepsLicences ==
  ASSUME ToolInv, NEW w \in Workers, NEW s, NEW f \in Worker, UNCHANGED <<holder, outside>>,
         Accepted(w), stored' = s, Become(w, f), KeepsRecords(stored, s),
         f.phase # "invoking", HasCall(f),
         MayStart(f) /\ Call(f) \in Once => Startable(Call(f))
  PROVE  EffectsAreLicensed'
<1>1. Undisturbed(w) /\ licences' = licences
  BY DEF Undisturbed, Accepted, outside
<1> QED BY <1>1, ClaimsStay

-----------------------------------------------------------------------------
(* The commits of the batch loop.                                             *)

(* A commit after which the worker has nothing in hand, nor if it throws.     *)
LEMMA LastCommitKeeps ==
  ASSUME ToolInv, NEW w \in Workers, NEW s \in StoredRun, Commit(w, s, Idle, Idle),
         UNCHANGED outside,
         Accepted(w) => StoreIsSound(s, approved, retried) /\ KeepsRecords(stored, s)
  PROVE  ToolInv'
<1>1. /\ Idle \in Worker /\ Idle.phase = "idle" /\ ~ MayStart(Idle) /\ HasCall(Idle)
      /\ IsSound(Idle, stored, approved, retried) /\ IsSound(Idle, s, approved, retried)
  BY IdleIsSound DEF MayStart, IsSound
<1>2. Accepted(w) /\ stored' = s /\ Become(w, Idle) => EffectsAreLicensed'
  BY <1>1, CommitKeepsLicences DEF Commit
<1> QED BY <1>1, <1>2, CommitKeeps

(* A run that gives up a call.                                                *)
LEMMA FailingIsSound ==
  ASSUME ToolInv, NEW w \in Workers,
         worker[w].phase \in {"gate", "attempting", "effectFailed"}
  PROVE  /\ Failing(w) \in Worker /\ Failing(w).phase = "failing"
         /\ Failing(w).behind = worker[w].behind
         /\ IsSound(Failing(w), stored, approved, retried)
         /\ Accepted(w) => IsCurrent(Failing(w), stored)
         /\ Accepted(w) /\ MayStart(Failing(w)) /\ Call(Failing(w)) \in Once =>
              Startable(Call(Failing(w)))
<1> DEFINE e == worker[w]
           f == Failing(w)
<1>1. /\ e \in Worker /\ IsSound(e, stored, approved, retried) /\ Pending(w) = Call(e)
      /\ Accepted(w) => IsCurrent(e, stored)
  BY AboutWorker
<1>2. /\ f \in Worker /\ f.phase = "failing" /\ f.index = e.index /\ f.cleared = e.cleared
      /\ f.forced = e.forced /\ f.record = e.record /\ f.attempt = e.attempt
      /\ f.limit = e.limit /\ f.behind = e.behind /\ Call(f) = Call(e)
  BY <1>1, MovedFields DEF Failing, Phases
<1> HIDE DEF f
<1>3. IsSound(f, stored, approved, retried)
  BY <1>1, <1>2 DEF IsSound, HasCall, IsApproved, IsCounted, PastGate, InEffect
<1>4. Accepted(w) => IsCurrent(f, stored)
  BY <1>1, <1>2 DEF IsCurrent, InEffect
<1>5. Accepted(w) /\ MayStart(f) /\ Call(f) \in Once => Startable(Call(f))
  BY <1>1, <1>2 DEF MayStart, Startable
<1> QED BY <1>2, <1>3, <1>4, <1>5 DEF f

LEMMA AsksKeep ==
  ASSUME ToolInv, NEW w \in Workers,
         AskApproval(w) \/ AskResolution(w) \/ AskApprovalToRetry(w)
  PROVE  ToolInv'
<1>1. PICK reason \in {"approval", "unknown"} :
        /\ Commit(w, Paused(w, reason), Idle, Idle) /\ UNCHANGED outside
        /\ worker[w].phase \in {"gate", "checked", "attempting"}
        /\ reason = "unknown" => In(w, "checked") /\ Unknown(w)
  BY DEF AskApproval, AskResolution, AskApprovalToRetry, In
<1>2. /\ worker[w].index \in 1 .. Len(Batch) /\ stored \in StoredRun
      /\ Accepted(w) => IsCurrent(worker[w], stored)
      /\ Pending(w) = Call(worker[w])
  BY <1>1, AboutWorker
<1>3. Accepted(w) /\ reason = "unknown" => stored.record[Pending(w)].status \in {"started", "completed"}
  BY <1>1, <1>2 DEF IsCurrent, Unknown, In
<1>4. Paused(w, reason) \in StoredRun
  BY <1>2 DEF Paused, StoredRun
<1>5. Accepted(w) => /\ StoreIsSound(Paused(w, reason), approved, retried)
                     /\ KeepsRecords(stored, Paused(w, reason))
  BY <1>1, <1>2, <1>3, PausedIsSound
<1> QED BY <1>1, <1>4, <1>5, LastCommitKeeps

LEMMA SavePositionKeeps == ASSUME ToolInv, NEW w \in Workers, SavePosition(w) PROVE ToolInv'
<1> DEFINE e == worker[w]
           s == [stored EXCEPT !.position = e.index]
           f == [e EXCEPT !.phase = "checked", !.cleared = FALSE]
<1>1. /\ Commit(w, s, f, Failing(w)) /\ UNCHANGED outside /\ e.phase = "gate"
      /\ ~ NeedsApproval(w)
  BY DEF SavePosition, In
<1>2. /\ e \in Worker /\ IsSound(e, stored, approved, retried) /\ stored \in StoredRun
      /\ Accepted(w) => IsCurrent(e, stored)
      /\ Pending(w) = Call(e) /\ e.index \in 1 .. Len(Batch) /\ Call(e) \in Calls
  BY <1>1, AboutWorker
<1>3. /\ s \in StoredRun /\ s.record = stored.record /\ s.status = stored.status
      /\ s.position = e.index /\ s.pause = stored.pause
  BY <1>2 DEF StoredRun
<1>4. /\ f \in Worker /\ f.phase = "checked" /\ f.index = e.index /\ ~ f.cleared
      /\ f.forced = e.forced /\ f.record = e.record /\ f.attempt = e.attempt
      /\ f.limit = e.limit /\ f.behind = e.behind
  BY <1>2 DEF Worker, Phases
<1>5. Call(f) = Call(e)
  BY <1>4 DEF Call
<1> HIDE DEF f, s
<1>6. Ungated(Call(e), approved)
  <2>1. CASE Call(e) \notin Gated \cup Policed
    BY <2>1 DEF Ungated
  <2>2. CASE e.cleared \/ e.record.status \in {"started", "completed"}
    BY <1>1, <1>2, <2>2 DEF IsSound, IsApproved
  <2> QED BY <1>1, <1>2, <2>1, <2>2 DEF NeedsApproval
<1>7. Accepted(w) => StoreIsSound(s, approved, retried) /\ KeepsRecords(stored, s)
  BY <1>1, <1>2, <1>3, StatusIsSound DEF IsCurrent
<1>8. IsSound(f, s, approved, retried)
  <2>1. HasCall(f) /\ IsApproved(f, s, approved)
    BY <1>2, <1>4, <1>5, <1>6 DEF HasCall, IsApproved, PastGate, InEffect
  <2>2. IsCounted(f, retried)
    BY <1>1, <1>2, <1>4, <1>5 DEF IsSound, IsCounted, InEffect
  <2> QED BY <2>1, <2>2 DEF IsSound
<1>9. Accepted(w) => IsCurrent(f, s)
  BY <1>1, <1>2, <1>3, <1>4, <1>5 DEF IsCurrent, InEffect
<1>10. Accepted(w) /\ MayStart(f) /\ Call(f) \in Once => Startable(Call(f))
  BY <1>2, <1>4, <1>5 DEF MayStart, Startable
<1>11. Accepted(w) /\ stored' = s /\ Become(w, f) => EffectsAreLicensed'
  BY <1>1, <1>4, <1>7, <1>8, <1>10, CommitKeepsLicences DEF Commit, IsSound
<1> QED BY <1>1, <1>3, <1>4, <1>7, <1>8, <1>9, <1>11, FailingIsSound, CommitKeeps

LEMMA SucceedKeeps == ASSUME ToolInv, NEW w \in Workers, Succeed(w) PROVE ToolInv'
<1> DEFINE e == worker[w]
           s == Recorded(w, "completed", e.attempt)
           f == NextCall(w)
           g == EffectFailed(w)
<1>1. Commit(w, s, f, g) /\ UNCHANGED outside /\ e.phase = "executing"
  BY DEF Succeed, In
<1>2. /\ e \in Worker /\ IsSound(e, stored, approved, retried) /\ stored \in StoredRun
      /\ Accepted(w) => IsCurrent(e, stored)
      /\ Pending(w) = Call(e) /\ e.index \in 1 .. Len(Batch) /\ Call(e) \in Calls
  BY <1>1, AboutWorker
<1>3. e.attempt \in Nat \ {0} /\ e.attempt <= e.limit
  BY <1>1, <1>2 DEF IsSound, IsCounted, InEffect, Worker
<1>4. /\ f \in Worker /\ f.phase = "reading" /\ f.index = e.index + 1 /\ ~ MayStart(f)
      /\ IsSound(f, s, approved, retried) /\ HasCall(f)
  BY <1>2, NextCallFields DEF IsSound
<1>5. /\ g \in Worker /\ g.phase = "effectFailed" /\ g.index = e.index /\ g.cleared = e.cleared
      /\ g.forced = e.forced /\ g.record = e.record /\ g.attempt = e.attempt
      /\ g.limit = e.limit /\ g.behind = e.behind /\ Call(g) = Call(e)
  BY <1>2, MovedFields DEF EffectFailed, Phases
<1>6. /\ s \in StoredRun /\ s.status = stored.status /\ s.pause = stored.pause
      /\ s.record[Call(e)] = [status |-> "completed", attempt |-> e.attempt]
      /\ \A c \in Calls \ {Call(e)} : s.record[c] = stored.record[c]
  BY <1>2, <1>3, RecordedFields
<1>7. Accepted(w) => StoreIsSound(s, approved, retried) /\ KeepsRecords(stored, s)
  BY <1>1, <1>3, RecordedIsSound DEF InEffect
<1> HIDE DEF s, f, g
<1>8. Accepted(w) => IsCurrent(f, s)
  <2>1. SUFFICES ASSUME Accepted(w) PROVE IsCurrent(f, s)
    OBVIOUS
  <2>2. ASSUME NEW i \in DOMAIN Batch, i < f.index PROVE s.record[Batch[i]].status = "completed"
    <3>1. CASE i = e.index
      BY <1>6, <3>1 DEF Call
    <3>2. CASE i # e.index
      <4>1. i < e.index /\ Batch[i] \in Calls
        BY <1>2, <1>4, <2>2, <3>2, CallsOfBatch
      <4>2. Batch[i] # Call(e)
        BY <1>2, <4>1, CallsOfBatch DEF Call
      <4> QED BY <1>2, <1>6, <2>1, <4>1, <4>2 DEF IsCurrent
    <3> QED BY <3>1, <3>2
  <2> QED BY <1>1, <1>2, <1>4, <1>6, <2>1, <2>2 DEF IsCurrent, InEffect
<1>9. IsSound(g, stored, approved, retried)
  BY <1>1, <1>2, <1>5 DEF IsSound, HasCall, IsApproved, IsCounted, PastGate, InEffect
<1>10. Accepted(w) => IsCurrent(g, stored)
  BY <1>1, <1>2, <1>5 DEF IsCurrent, InEffect
<1>11. Accepted(w) /\ MayStart(g) /\ Call(g) \in Once => Startable(Call(g))
  BY <1>2, <1>5 DEF MayStart, Startable
<1>12. Accepted(w) /\ stored' = s /\ Become(w, f) => EffectsAreLicensed'
  BY <1>1, <1>4, <1>7, CommitKeepsLicences DEF Commit
<1> QED BY <1>1, <1>4, <1>5, <1>6, <1>7, <1>8, <1>9, <1>10, <1>11, <1>12, CommitKeeps

LEMMA RecordFailureKeeps == ASSUME ToolInv, NEW w \in Workers, RecordFailure(w) PROVE ToolInv'
<1> DEFINE e == worker[w]
           s == Recorded(w, "failed", e.attempt)
           g == Failing(w)
<1>1. /\ UNCHANGED outside /\ e.phase = "effectFailed"
      /\ \E next : /\ Commit(w, s, next, g)
                   /\ \/ next = g
                      \/ /\ next = [e EXCEPT !.phase = "attempting"]
                         /\ Pending(w) \in Keyed
  BY DEF RecordFailure, In
<1>2. PICK f : /\ Commit(w, s, f, g)
               /\ f = g \/ (f = [e EXCEPT !.phase = "attempting"] /\ Pending(w) \in Keyed)
  BY <1>1
<1>3. /\ e \in Worker /\ IsSound(e, stored, approved, retried) /\ stored \in StoredRun
      /\ Accepted(w) => IsCurrent(e, stored)
      /\ Pending(w) = Call(e) /\ e.index \in 1 .. Len(Batch) /\ Call(e) \in Calls
  BY <1>1, AboutWorker
<1>4. e.attempt \in Nat \ {0} /\ e.attempt <= e.limit
  BY <1>1, <1>3 DEF IsSound, IsCounted, InEffect, Worker
<1>5. /\ s \in StoredRun /\ s.status = stored.status /\ s.pause = stored.pause
      /\ s.record[Call(e)] = [status |-> "failed", attempt |-> e.attempt]
      /\ \A c \in Calls \ {Call(e)} : s.record[c] = stored.record[c]
  BY <1>3, <1>4, RecordedFields
<1>6. Accepted(w) => StoreIsSound(s, approved, retried) /\ KeepsRecords(stored, s)
  BY <1>1, <1>4, RecordedIsSound DEF InEffect
<1>7. /\ f \in Worker /\ f.phase \in {"failing", "attempting"} /\ f.index = e.index
      /\ f.cleared = e.cleared /\ f.forced = e.forced /\ f.record = e.record
      /\ f.attempt = e.attempt /\ f.limit = e.limit /\ f.behind = e.behind
      /\ Call(f) = Call(e) /\ (f.phase = "failing" => f = g)
      /\ f.phase = "attempting" => Call(e) \in Keyed
  <2>1. CASE f = g
    BY <1>3, <2>1, MovedFields DEF Failing, Phases
  <2>2. CASE f = [e EXCEPT !.phase = "attempting"] /\ Pending(w) \in Keyed
    BY <1>3, <2>2, MovedFields DEF Phases
  <2> QED BY <1>2, <2>1, <2>2
<1>8. IsSound(f, stored, approved, retried)
  BY <1>1, <1>3, <1>7 DEF IsSound, HasCall, IsApproved, IsCounted, PastGate, InEffect
<1> HIDE DEF s
<1>9. IsSound(f, s, approved, retried)
  BY <1>7, <1>8 DEF IsSound, IsApproved, InEffect
<1>10. Accepted(w) => IsCurrent(f, s)
  <2>1. SUFFICES ASSUME Accepted(w) PROVE IsCurrent(f, s)
    OBVIOUS
  <2>2. ASSUME NEW i \in DOMAIN Batch, i < f.index PROVE s.record[Batch[i]].status = "completed"
    <3>1. i < e.index /\ Batch[i] \in Calls /\ Batch[i] # Call(e)
      BY <1>3, <1>7, <2>2, CallsOfBatch DEF Call
    <3> QED BY <1>3, <1>5, <2>1, <3>1 DEF IsCurrent
  <2> QED BY <1>1, <1>3, <1>5, <1>7, <2>1, <2>2 DEF IsCurrent, InEffect
<1>11. MayStart(f) /\ Call(f) \in Once => Startable(Call(f))
  BY <1>1, <1>3, <1>7 DEF MayStart, Once, IsSound, IsCounted, InEffect
<1>12. Accepted(w) /\ stored' = s /\ Become(w, f) => EffectsAreLicensed'
  BY <1>1, <1>2, <1>6, <1>7, <1>9, <1>11, CommitKeepsLicences DEF Commit, IsSound
<1>13. /\ g \in Worker /\ g.phase = "failing" /\ g.behind = e.behind
       /\ IsSound(g, stored, approved, retried)
       /\ Accepted(w) => IsCurrent(g, stored)
       /\ Accepted(w) /\ MayStart(g) /\ Call(g) \in Once => Startable(Call(g))
  BY <1>1, FailingIsSound
<1> HIDE DEF g
<1> QED BY <1>1, <1>2, <1>5, <1>6, <1>7, <1>9, <1>10, <1>12, <1>13, CommitKeeps

(* An attempt claims a licence: the one that let it start.                    *)
LEMMA StartClaims ==
  ASSUME ToolInv, NEW w \in Workers, NEW s, NEW f \in Worker,
         UNCHANGED <<holder, outside>>, stored' = s, Become(w, f), Accepted(w),
         worker[w].phase = "attempting", MayStart(worker[w]), f.phase = "invoking",
         ~ f.forced, f.index = worker[w].index, KeepsRecords(stored, s),
         s.record[Pending(w)].status # "none"
  PROVE  EffectsAreLicensed'
<1> DEFINE k == Pending(w)
<1>1. worker \in [Workers -> Worker] /\ worker' = [worker EXCEPT ![w] = f]
  BY InvariantOfParts DEF TypeOK, Become
<1>2. worker'[w] = f /\ \A v \in Workers \ {w} : worker'[v] = worker[v]
  BY <1>1
<1>3. SUFFICES ASSUME NEW c \in Once
               PROVE  /\ IsFiniteSet(Claimants(c)')
                      /\ licences'[c] >= Cardinality(Claimants(c)')
                                           + (IF Startable(c)' THEN 1 ELSE 0)
  BY DEF EffectsAreLicensed
<1>4. Startable(c)' => Startable(c) /\ c # k
  <2>1. ASSUME stored'.record[c].status = "none" PROVE Startable(c) /\ c # k
    BY <2>1 DEF Startable, KeepsRecords, Once
  <2>2. ASSUME NEW v \in Workers, Accepted(v)', MayStart(worker[v])', Pending(v)' = c
        PROVE  Startable(c) /\ c # k
    <3>1. v = w
      BY <2>2 DEF Accepted
    <3> QED BY <1>2, <2>2, <3>1 DEF MayStart
  <2> QED BY <2>1, <2>2 DEF Startable
<1>5. CASE c # k
  <2>1. Claimants(c)' \subseteq Claimants(c)
    BY <1>2, <1>5 DEF Claimants, In, Pending
  <2> QED BY <1>4, <2>1, LicencesSuffice, InvariantOfParts DEF outside
<1>6. CASE c = k
  <2>1. /\ IsFiniteSet(Claimants(c)) /\ licences[c] \in Int
        /\ licences[c] >= Cardinality(Claimants(c)) + (IF Startable(c) THEN 1 ELSE 0)
    BY InvariantOfParts DEF EffectsAreLicensed, TypeOK, Once
  <2>2. Startable(c) /\ ~ Startable(c)'
    BY <1>4, <1>6 DEF Startable
  <2>3. w \notin Claimants(c) /\ Claimants(c)' = Claimants(c) \cup {w}
    BY <1>2, <1>6 DEF Claimants, In, Pending
  <2>4. /\ IsFiniteSet(Claimants(c)') /\ Cardinality(Claimants(c)) \in Nat
        /\ Cardinality(Claimants(c)') = Cardinality(Claimants(c)) + 1
    BY <2>1, <2>3, FS_AddElement, FS_CardinalityType
  <2> QED BY <2>1, <2>2, <2>4 DEF outside
<1> QED BY <1>5, <1>6

LEMMA StartAttemptKeeps == ASSUME ToolInv, NEW w \in Workers, StartAttempt(w) PROVE ToolInv'
<1> DEFINE e == worker[w]
           s == Recorded(w, "started", e.attempt + 1)
           f == [e EXCEPT !.phase = "invoking", !.attempt = e.attempt + 1]
           g == Failing(w)
<1>1. /\ Commit(w, s, f, g) /\ UNCHANGED outside /\ e.phase = "attempting"
      /\ e.attempt < e.limit
  BY DEF StartAttempt, In
<1>2. /\ e \in Worker /\ IsSound(e, stored, approved, retried) /\ stored \in StoredRun
      /\ Accepted(w) => IsCurrent(e, stored)
      /\ Pending(w) = Call(e) /\ e.index \in 1 .. Len(Batch) /\ Call(e) \in Calls
  BY <1>1, AboutWorker
<1>3. e.attempt + 1 \in Nat \ {0} /\ e.attempt + 1 <= e.limit /\ ~ e.forced
  BY <1>1, <1>2 DEF IsSound, IsCounted, InEffect, Worker
<1>4. /\ f \in Worker /\ f.phase = "invoking" /\ f.index = e.index /\ f.cleared = e.cleared
      /\ f.forced = e.forced /\ f.record = e.record /\ f.attempt = e.attempt + 1
      /\ f.limit = e.limit /\ f.behind = e.behind
  BY <1>2, <1>3 DEF Worker, Phases
<1>5. Call(f) = Call(e)
  BY <1>4 DEF Call
<1>6. /\ s \in StoredRun /\ s.status = stored.status /\ s.pause = stored.pause
      /\ s.record[Call(e)] = [status |-> "started", attempt |-> e.attempt + 1]
      /\ \A c \in Calls \ {Call(e)} : s.record[c] = stored.record[c]
  BY <1>2, <1>3, RecordedFields
<1>7. Accepted(w) => StoreIsSound(s, approved, retried) /\ KeepsRecords(stored, s)
  BY <1>1, <1>3, RecordedIsSound
<1>8. /\ g \in Worker /\ g.phase = "failing" /\ g.behind = e.behind
      /\ IsSound(g, stored, approved, retried)
      /\ Accepted(w) => IsCurrent(g, stored)
      /\ Accepted(w) /\ MayStart(g) /\ Call(g) \in Once => Startable(Call(g))
  BY <1>1, FailingIsSound
<1> HIDE DEF f, g, s
<1>9. IsSound(f, s, approved, retried)
  <2>1. HasCall(f) /\ IsApproved(f, s, approved)
    BY <1>1, <1>2, <1>4, <1>5, <1>6 DEF IsSound, HasCall, IsApproved, PastGate, InEffect
  <2>2. IsCounted(f, retried)
    BY <1>1, <1>2, <1>3, <1>4, <1>5 DEF IsSound, IsCounted, InEffect
  <2> QED BY <2>1, <2>2 DEF IsSound
<1>10. Accepted(w) => IsCurrent(f, s)
  <2>1. SUFFICES ASSUME Accepted(w) PROVE IsCurrent(f, s)
    OBVIOUS
  <2>2. ASSUME NEW i \in DOMAIN Batch, i < f.index PROVE s.record[Batch[i]].status = "completed"
    <3>1. i < e.index /\ Batch[i] \in Calls /\ Batch[i] # Call(e)
      BY <1>2, <1>4, <2>2, CallsOfBatch DEF Call
    <3> QED BY <1>2, <1>6, <2>1, <3>1 DEF IsCurrent
  <2> QED BY <1>1, <1>2, <1>4, <1>5, <1>6, <2>1, <2>2 DEF IsCurrent, InEffect
<1>11. Accepted(w) /\ stored' = s /\ Become(w, f) => EffectsAreLicensed'
  BY <1>1, <1>2, <1>3, <1>4, <1>6, <1>7, StartClaims DEF Commit, MayStart
<1> QED BY <1>1, <1>4, <1>6, <1>7, <1>8, <1>9, <1>10, <1>11, CommitKeeps

LEMMA EndsKeep ==
  ASSUME ToolInv, NEW w \in Workers,
         Finish(w) \/ \E status \in {"failed", "cancelled"} : EndRun(w, status)
  PROVE  ToolInv'
<1>1. /\ stored \in StoredRun /\ worker[w] \in Worker
      /\ StoreIsSound(stored, approved, retried)
      /\ Accepted(w) /\ worker[w].phase # "idle" => IsCurrent(worker[w], stored)
  BY AboutWorker
<1>2. CASE Finish(w)
  <2> DEFINE s == [stored EXCEPT !.status = "completed"]
  <2>1. /\ Commit(w, s, Idle, Idle) /\ UNCHANGED outside
        /\ worker[w].phase = "reading" /\ worker[w].index > Len(Batch)
    BY <1>2 DEF Finish, In
  <2>2. s \in StoredRun /\ s.record = stored.record /\ s.status = "completed"
    BY <1>1 DEF StoredRun, Terminal
  <2>3. Accepted(w) => \A i \in DOMAIN Batch : stored.record[Batch[i]].status = "completed"
    BY <1>1, <2>1, CallsOfBatch DEF IsCurrent, Worker
  <2> HIDE DEF s
  <2>4. Accepted(w) => StoreIsSound(s, approved, retried) /\ KeepsRecords(stored, s)
    BY <2>2, <2>3, StatusIsSound
  <2> QED BY <2>1, <2>2, <2>4, LastCommitKeeps
<1>3. ASSUME NEW status \in {"failed", "cancelled"}, EndRun(w, status) PROVE ToolInv'
  <2> DEFINE s == [stored EXCEPT !.status = status, !.pause = "none"]
  <2>1. Commit(w, s, Idle, Idle) /\ UNCHANGED outside
    BY <1>3 DEF EndRun
  <2>2. /\ s \in StoredRun /\ s.record = stored.record /\ s.status = status
        /\ s.position = stored.position
    BY <1>1 DEF StoredRun, Terminal
  <2> HIDE DEF s
  <2>3. StoreIsSound(s, approved, retried) /\ KeepsRecords(stored, s)
    BY <1>1, <2>2, StatusIsSound DEF StoreIsSound
  <2> QED BY <2>1, <2>2, <2>3, LastCommitKeeps
<1> QED BY <1>2, <1>3

LEMMA ResumeSuppliedKeeps ==
  ASSUME ToolInv, NEW w \in Workers, ResumeSupplied(w) PROVE ToolInv'
<1> DEFINE e == worker[w]
           s == [stored EXCEPT !.status = "running", !.pause = "none"]
           f == [e EXCEPT !.phase = "reading", !.cleared = TRUE]
<1>1. Commit(w, s, f, Idle) /\ UNCHANGED outside /\ e.phase = "supplied"
  BY DEF ResumeSupplied, In
<1>2. /\ e \in Worker /\ IsSound(e, stored, approved, retried) /\ stored \in StoredRun
      /\ Accepted(w) => IsCurrent(e, stored)
      /\ StoreIsSound(stored, approved, retried)
      /\ Pending(w) = Call(e) /\ e.index \in 1 .. Len(Batch) /\ Call(e) \in Calls
  BY <1>1, AboutWorker
<1>3. /\ s \in StoredRun /\ s.record = stored.record /\ s.status = "running"
      /\ s.pause = "none" /\ s.position = stored.position
  BY <1>2 DEF StoredRun
<1>4. /\ f \in Worker /\ f.phase = "reading" /\ f.index = e.index /\ f.cleared
      /\ f.forced = e.forced /\ f.record = e.record /\ f.attempt = e.attempt
      /\ f.limit = e.limit /\ f.behind = e.behind
  BY <1>2 DEF Worker, Phases
<1>5. Call(f) = Call(e)
  BY <1>4 DEF Call
<1> HIDE DEF f, s
<1>6. StoreIsSound(s, approved, retried) /\ KeepsRecords(stored, s)
  BY <1>2, <1>3, StatusIsSound DEF StoreIsSound
<1>7. IsSound(f, s, approved, retried)
  BY <1>1, <1>2, <1>4, <1>5 DEF IsSound, HasCall, IsApproved, IsCounted, PastGate, InEffect
<1>8. Accepted(w) => IsCurrent(f, s)
  BY <1>1, <1>2, <1>3, <1>4 DEF IsCurrent, InEffect
<1>9. Accepted(w) /\ MayStart(f) /\ Call(f) \in Once => Startable(Call(f))
  BY <1>1, <1>2, <1>4, <1>5 DEF MayStart, Startable
<1>10. Accepted(w) /\ stored' = s /\ Become(w, f) => EffectsAreLicensed'
  BY <1>1, <1>4, <1>6, <1>7, <1>9, CommitKeepsLicences DEF Commit, IsSound
<1>11. /\ Idle \in Worker /\ Idle.phase = "idle" /\ ~ MayStart(Idle)
       /\ IsSound(Idle, stored, approved, retried)
  BY IdleIsSound DEF MayStart
<1> QED BY <1>1, <1>3, <1>4, <1>6, <1>7, <1>8, <1>10, <1>11, CommitKeeps

(* An effect begins: it takes the licence its attempt has claimed.            *)
LEMMA InvokeKeeps == ASSUME ToolInv, NEW w \in Workers, Invoke(w) PROVE ToolInv'
<1> DEFINE e == worker[w]
           f == [e EXCEPT !.phase = "executing"]
<1>1. /\ Become(w, f) /\ e.phase = "invoking"
      /\ stored' = stored /\ holder' = holder /\ approved' = approved /\ retried' = retried
      /\ disruptions' = disruptions /\ begun' = begun \cup {Pending(w)}
      /\ licences' = [c \in Calls \ Keyed |->
                        IF c = Pending(w) THEN licences[c] - 1 ELSE licences[c]]
  BY DEF Invoke, In
<1>2. /\ e \in Worker /\ IsSound(e, stored, approved, retried)
      /\ Accepted(w) => IsCurrent(e, stored)
      /\ Pending(w) = Call(e) /\ e.index \in 1 .. Len(Batch) /\ Call(e) \in Calls
  BY <1>1, AboutWorker
<1>3. /\ f \in Worker /\ f.phase = "executing" /\ f.index = e.index /\ f.cleared = e.cleared
      /\ f.forced = e.forced /\ f.record = e.record /\ f.attempt = e.attempt
      /\ f.limit = e.limit /\ f.behind = e.behind /\ Call(f) = Call(e)
  BY <1>2, MovedFields DEF Phases
<1> HIDE DEF f
<1>4. IsSound(f, stored, approved, retried)
  BY <1>1, <1>2, <1>3 DEF IsSound, HasCall, IsApproved, IsCounted, PastGate, InEffect
<1>5. holder = w /\ ~ f.behind => IsCurrent(f, stored)
  BY <1>1, <1>2, <1>3 DEF Accepted, IsCurrent, InEffect
<1>6. Undisturbed(w)
  BY <1>1 DEF Undisturbed, KeepsRecords
<1>7. /\ HolderIsCurrent' /\ worker' \in [Workers -> Worker]
      /\ \A v \in Workers : IsSound(worker'[v], stored', approved', retried')
  BY <1>1, <1>3, <1>4, <1>5, <1>6, WorkerMoves
<1>8. Ungated(Call(e), approved) /\ stored.record[Call(e)].status # "none"
  BY <1>1, <1>2 DEF IsSound, IsApproved, PastGate, InEffect
<1>9. /\ NoEffectBeforeApproval' /\ begun' \subseteq Calls
      /\ \A c \in begun' : stored'.record[c].status # "none"
  <2>1. NoEffectBeforeApproval'
    BY <1>1, <1>2, <1>8, InvariantOfParts DEF NoEffectBeforeApproval, Ungated
  <2> QED BY <1>1, <1>2, <1>8, <2>1, InvariantOfParts DEF TypeOK
<1>10. TypeOK'
  <2>1. licences' \in [Calls \ Keyed -> Int]
    BY <1>1, InvariantOfParts DEF TypeOK
  <2> QED BY <1>1, <1>7, <1>9, <2>1, InvariantOfParts DEF TypeOK
<1>11. EffectsAreLicensed'
  <2>1. worker \in [Workers -> Worker] /\ worker' = [worker EXCEPT ![w] = f]
    BY <1>1, InvariantOfParts DEF TypeOK, Become
  <2>2. worker'[w] = f /\ \A v \in Workers \ {w} : worker'[v] = worker[v]
    BY <2>1
  <2>3. SUFFICES ASSUME NEW c \in Once
                 PROVE  /\ IsFiniteSet(Claimants(c)')
                        /\ licences'[c] >= Cardinality(Claimants(c)')
                                             + (IF Startable(c)' THEN 1 ELSE 0)
    BY DEF EffectsAreLicensed
  <2>4. Startable(c)' => Startable(c)
    <3>1. ASSUME NEW v \in Workers, Accepted(v)', MayStart(worker[v])', Pending(v)' = c
          PROVE  Startable(c)
      <4>1. CASE v = w
        BY <1>1, <1>2, <1>3, <2>2, <3>1, <4>1
           DEF MayStart, Accepted, Pending, Call, Startable
      <4>2. CASE v # w
        BY <1>1, <2>2, <3>1, <4>2 DEF Accepted, Pending, Startable
      <4> QED BY <4>1, <4>2
    <3> QED BY <1>1, <3>1 DEF Startable
  <2>5. /\ IsFiniteSet(Claimants(c)) /\ licences[c] \in Int
        /\ licences[c] >= Cardinality(Claimants(c)) + (IF Startable(c) THEN 1 ELSE 0)
    BY InvariantOfParts DEF EffectsAreLicensed, TypeOK, Once
  <2>6. CASE c # Pending(w)
    <3>1. Claimants(c)' = Claimants(c)
      BY <1>2, <1>3, <2>2, <2>6 DEF Claimants, In, Pending, Call
    <3>2. licences'[c] = licences[c]
      BY <1>1, <2>6 DEF Once
    <3> QED BY <2>4, <3>1, <3>2, LicencesSuffice, InvariantOfParts
  <2>7. CASE c = Pending(w)
    <3>1. w \in Claimants(c) /\ Claimants(c)' = Claimants(c) \ {w}
      BY <1>1, <1>3, <2>2, <2>7 DEF Claimants, In, Pending
    <3>2. /\ IsFiniteSet(Claimants(c)') /\ Cardinality(Claimants(c)) \in Nat
          /\ Cardinality(Claimants(c)') = Cardinality(Claimants(c)) - 1
      BY <2>5, <3>1, FS_RemoveElement, FS_CardinalityType
    <3>3. licences'[c] = licences[c] - 1
      BY <1>1, <2>7 DEF Once
    <3> QED BY <2>4, <2>5, <3>2, <3>3
  <2> QED BY <2>6, <2>7
<1>12. StoreIsSound(stored', approved', retried')
  BY <1>1, InvariantOfParts
<1> QED BY <1>7, <1>9, <1>10, <1>11, <1>12, InvariantOfPartsAfter

-----------------------------------------------------------------------------
(* The lease moves.                                                           *)

LEMMA FreeLeaseKeeps == ASSUME ToolInv, NEW w \in Workers, FreeLease(w) PROVE ToolInv'
<1>1. /\ holder' = Nobody /\ stored' = stored /\ worker' = worker /\ begun' = begun
      /\ approved' = approved /\ licences' = licences /\ retried' = retried
      /\ disruptions' \in 0 .. MaxDisruptions
  BY DisruptionsAreCounted DEF FreeLease, outside
<1>2. \A v \in Workers : ~ Accepted(v)'
  BY <1>1, ToolAssumption DEF Accepted
<1>3. TypeOK' /\ HolderIsCurrent' /\ NoEffectBeforeApproval'
  BY <1>1, <1>2, InvariantOfParts DEF TypeOK, HolderIsCurrent, NoEffectBeforeApproval
<1>4. EffectsAreLicensed'
  <2>1. ASSUME NEW c \in Once PROVE /\ Claimants(c)' \subseteq Claimants(c)
                                    /\ Startable(c)' => Startable(c)
    BY <1>1, <1>2 DEF Claimants, In, Pending, Startable
  <2> QED BY <1>1, <2>1, LicencesSuffice, InvariantOfParts DEF EffectsAreLicensed
<1> QED BY <1>1, <1>3, <1>4, InvariantOfParts, InvariantOfPartsAfter

(* An idle worker takes the lease and commits s with it.                      *)
LEMMA TakesTheRun ==
  ASSUME ToolInv, NEW w \in Workers, Acquire(w), NEW s \in StoredRun, stored' = s,
         NEW f \in Worker, Become(w, f), f.phase # "invoking",
         begun' = begun, approved \subseteq approved', approved' \subseteq Calls,
         retried \subseteq retried', retried' \subseteq Calls,
         licences' \in [Calls \ Keyed -> Int], UNCHANGED disruptions \/ Disrupted,
         StoreIsSound(s, approved', retried'), KeepsRecords(stored, s),
         IsSound(f, s, approved', retried'),
         f.phase # "idle" => IsCurrent(f, s),
         EffectsAreLicensed'
  PROVE  ToolInv'
<1>1. holder = Nobody /\ holder' = w /\ holder \notin Workers
  BY ToolAssumption DEF Acquire
<1>2. Undisturbed(w)
  BY <1>1 DEF Undisturbed
<1>3. /\ HolderIsCurrent' /\ worker' \in [Workers -> Worker]
      /\ \A v \in Workers : IsSound(worker'[v], stored', approved', retried')
  BY <1>1, <1>2, WorkerMoves
<1>4. TypeOK'
  BY <1>1, <1>3, InvariantOfParts, DisruptionsAreCounted DEF TypeOK
<1>5. NoEffectBeforeApproval' /\ \A c \in begun' : stored'.record[c].status # "none"
  BY InvariantOfParts DEF NoEffectBeforeApproval, KeepsRecords, TypeOK
<1> QED BY <1>3, <1>4, <1>5, InvariantOfPartsAfter

(* While nobody holds the lease, nobody may start what is on record.          *)
LEMMA NobodyStarts ==
  ASSUME ToolInv, NEW w \in Workers, Acquire(w), NEW f \in Worker, Become(w, f),
         f.phase # "invoking", HasCall(f), ~ MayStart(f), KeepsRecords(stored, stored'),
         approved \subseteq approved', retried \subseteq retried', licences' = licences
  PROVE  EffectsAreLicensed'
<1>1. Undisturbed(w)
  BY ToolAssumption DEF Undisturbed, Acquire
<1> QED BY <1>1, ClaimsStay

(* What a takeover reads of the run, and what it may find to resolve.         *)
LEMMA AboutTheRun ==
  ASSUME ToolInv, NEW w \in Workers, In(w, "idle")
  PROVE  /\ stored \in StoredRun /\ stored.position \in 1 .. Len(Batch) /\ Doubtful \in Calls
         /\ StoreIsSound(stored, approved, retried)
         /\ Resolvable => stored.record[Doubtful].status \in {"started", "completed"}
                            /\ Ungated(Doubtful, approved)
         /\ worker \in [Workers -> Worker] /\ worker[w].phase = "idle"
         /\ ~ MayStart(worker[w]) /\ IsSound(worker[w], stored, approved, retried)
         /\ approved \subseteq Calls /\ retried \subseteq Calls
         /\ licences \in [Calls \ Keyed -> Int]
<1>1. /\ stored \in StoredRun /\ StoreIsSound(stored, approved, retried)
      /\ worker \in [Workers -> Worker] /\ worker[w].phase = "idle"
      /\ IsSound(worker[w], stored, approved, retried)
      /\ approved \subseteq Calls /\ retried \subseteq Calls
      /\ licences \in [Calls \ Keyed -> Int]
  BY InvariantOfParts DEF TypeOK, In
<1>2. stored.position \in 1 .. Len(Batch) /\ Doubtful \in Calls
  BY <1>1, CallsOfBatch DEF StoredRun, Doubtful
<1>3. Resolvable => stored.record[Doubtful].status \in {"started", "completed"}
  BY <1>1 DEF Resolvable, StoreIsSound, Doubtful
<1>4. Resolvable => Ungated(Doubtful, approved)
  BY <1>1, <1>2, <1>3 DEF StoreIsSound
<1>5. ~ MayStart(worker[w])
  BY <1>1 DEF MayStart, IsSound, IsCounted
<1> QED BY <1>1, <1>2, <1>3, <1>4, <1>5

(* A takeover that goes on as e, which has been told what a human decided.    *)
LEMMA TakeOverKeeps ==
  ASSUME ToolInv, NEW w \in Workers, NEW e \in Worker, TakeOver(w, e),
         e.phase = "idle", ~ e.behind, e.cleared => Ungated(Doubtful, approved'),
         e.forced => Doubtful \in retried',
         begun' = begun, approved \subseteq approved', approved' \subseteq Calls,
         retried \subseteq retried', retried' \subseteq Calls,
         licences' \in [Calls \ Keyed -> Int],
         e.forced \/ licences' = licences,
         e.forced => EffectsAreLicensed'
  PROVE  ToolInv'
<1> DEFINE s == [stored EXCEPT !.status = "running", !.pause = "none"]
           f == [e EXCEPT !.phase = "reading", !.index = stored.position]
<1>1. /\ Acquire(w) /\ stored' = s /\ In(w, "idle")
      /\ \/ Become(w, f) /\ UNCHANGED disruptions
         \/ UNCHANGED worker /\ Disrupted
  BY DEF TakeOver, Acquire
<1>2. /\ stored \in StoredRun /\ stored.position \in 1 .. Len(Batch) /\ Doubtful \in Calls
      /\ StoreIsSound(stored, approved, retried)
      /\ worker \in [Workers -> Worker] /\ worker[w].phase = "idle"
      /\ ~ MayStart(worker[w]) /\ IsSound(worker[w], stored, approved, retried)
  BY <1>1, AboutTheRun
<1>3. /\ s \in StoredRun /\ s.record = stored.record /\ s.status = "running"
      /\ s.pause = "none" /\ s.position = stored.position
  BY <1>2 DEF StoredRun
<1>4. /\ f \in Worker /\ f.phase = "reading" /\ f.index = stored.position
      /\ f.cleared = e.cleared /\ f.forced = e.forced /\ f.behind = e.behind
  <2>1. stored.position \in 1 .. Len(Batch) + 1
    BY <1>2, CallsOfBatch
  <2> QED BY <2>1 DEF Worker, Phases
<1>5. Call(f) = Doubtful
  BY <1>4 DEF Call, Doubtful
<1> HIDE DEF f, s
<1>6. StoreIsSound(s, approved', retried') /\ KeepsRecords(stored, s)
  <2>1. StoreIsSound(s, approved, retried) /\ KeepsRecords(stored, s)
    BY <1>2, <1>3, StatusIsSound DEF StoreIsSound
  <2> QED BY <2>1 DEF StoreIsSound, Ungated
<1>7. CASE Become(w, f) /\ UNCHANGED disruptions
  <2>1. HasCall(f) /\ IsApproved(f, s, approved') /\ IsCounted(f, retried')
    BY <1>2, <1>4, <1>5 DEF HasCall, IsApproved, IsCounted, PastGate, InEffect
  <2>2. IsCurrent(f, s)
    BY <1>2, <1>3, <1>4 DEF IsCurrent, StoreIsSound, InEffect
  <2>3. EffectsAreLicensed'
    BY <1>1, <1>4, <1>6, <1>7, <2>1, NobodyStarts DEF MayStart
  <2> QED BY <1>1, <1>3, <1>4, <1>6, <1>7, <2>1, <2>2, <2>3, TakesTheRun DEF IsSound
<1>8. CASE UNCHANGED worker /\ Disrupted
  <2> DEFINE i == worker[w]
  <2>1. Become(w, i) /\ i \in Worker
    BY <1>2, <1>8 DEF Become
  <2>2. IsSound(i, s, approved', retried')
    BY <1>2, <2>1 DEF IsSound, IsApproved, IsCounted, PastGate, InEffect, MayStart, HasCall,
                      Ungated
  <2>3. EffectsAreLicensed'
    BY <1>1, <1>2, <1>6, <2>1, NobodyStarts DEF IsSound
  <2> QED BY <1>1, <1>2, <1>3, <1>6, <1>8, <2>1, <2>2, <2>3, TakesTheRun
<1> QED BY <1>1, <1>7, <1>8

LEMMA DecisionsKeep ==
  ASSUME ToolInv, NEW w \in Workers, Recover(w) \/ Approve(w) PROVE ToolInv'
<1>1. In(w, "idle")
  BY DEF Recover, Approve, TakeOver, Acquire
<1>2. /\ approved \subseteq Calls /\ retried \subseteq Calls /\ Doubtful \in Calls
      /\ licences \in [Calls \ Keyed -> Int]
  BY <1>1, AboutTheRun
<1>3. CASE Recover(w)
  <2>1. TakeOver(w, Idle) /\ begun' = begun /\ approved' = approved
    BY <1>3 DEF Recover, outside
  <2>2. licences' = licences /\ retried' = retried
    BY <1>3 DEF Recover, outside
  <2>3. Idle \in Worker /\ Idle.phase = "idle" /\ ~ Idle.cleared /\ ~ Idle.forced /\ ~ Idle.behind
    BY IdleIsSound DEF Idle
  <2> HIDE DEF Idle
  <2> QED BY <1>2, <2>1, <2>2, <2>3, TakeOverKeeps
<1>4. CASE Approve(w)
  <2> DEFINE e == [Idle EXCEPT !.cleared = TRUE]
  <2>1. /\ TakeOver(w, e) /\ begun' = begun /\ approved' = approved \cup {Doubtful}
        /\ licences' = licences /\ retried' = retried
    BY <1>4 DEF Approve
  <2>2. e \in Worker /\ e.phase = "idle" /\ ~ e.forced /\ ~ e.behind
    BY IdleIsSound DEF Worker, Idle
  <2> HIDE DEF e
  <2>3. Ungated(Doubtful, approved')
    BY <2>1 DEF Ungated
  <2> QED BY <1>2, <2>1, <2>2, <2>3, TakeOverKeeps
<1> QED BY <1>3, <1>4

(* A human who decides to retry gives the licence that the retry may claim.   *)
LEMMA RetryKeeps == ASSUME ToolInv, NEW w \in Workers, Retry(w) PROVE ToolInv'
<1> DEFINE e == [Idle EXCEPT !.cleared = TRUE, !.forced = TRUE]
           f == [e EXCEPT !.phase = "reading", !.index = stored.position]
<1>1. /\ TakeOver(w, e) /\ Resolvable /\ In(w, "idle") /\ Acquire(w)
      /\ begun' = begun /\ approved' = approved /\ retried' = retried \cup {Doubtful}
      /\ licences' = [c \in Calls \ Keyed |->
                        IF c = Doubtful THEN licences[c] + 1 ELSE licences[c]]
      /\ stored' = [stored EXCEPT !.status = "running", !.pause = "none"]
      /\ Become(w, f) \/ UNCHANGED worker
  BY DEF Retry, TakeOver, Acquire
<1>2. /\ stored \in StoredRun /\ stored.position \in 1 .. Len(Batch) /\ Doubtful \in Calls
      /\ Ungated(Doubtful, approved)
      /\ worker \in [Workers -> Worker] /\ worker[w].phase = "idle" /\ ~ MayStart(worker[w])
      /\ approved \subseteq Calls /\ retried \subseteq Calls
      /\ licences \in [Calls \ Keyed -> Int]
  BY <1>1, AboutTheRun
<1>3. e \in Worker /\ e.phase = "idle" /\ e.cleared /\ e.forced /\ ~ e.behind
  BY IdleIsSound DEF Worker, Idle
<1>4. stored'.record = stored.record
  BY <1>1, <1>2 DEF StoredRun
<1> HIDE DEF e
<1>5. f \in Worker /\ f.phase = "reading" /\ f.index = stored.position
  <2>1. stored.position \in 1 .. Len(Batch) + 1
    BY <1>2, CallsOfBatch
  <2> QED BY <1>3, <2>1 DEF Worker, Phases
<1>6. PICK g \in Worker : /\ worker' = [worker EXCEPT ![w] = g] /\ g.phase # "invoking"
                          /\ MayStart(g) => Call(g) = Doubtful
  <2>1. CASE Become(w, f)
    BY <1>5, <2>1 DEF Become, Call, Doubtful
  <2>2. CASE UNCHANGED worker
    BY <1>2, <2>2
  <2> QED BY <1>1, <2>1, <2>2
<1>7. worker'[w] = g /\ \A v \in Workers \ {w} : worker'[v] = worker[v]
  BY <1>2, <1>6
<1>8. ASSUME NEW c \in Once
      PROVE  /\ IsFiniteSet(Claimants(c)')
             /\ licences'[c] >= Cardinality(Claimants(c)')
                                  + (IF Startable(c)' THEN 1 ELSE 0)
  <2>1. Claimants(c)' = Claimants(c)
    BY <1>2, <1>6, <1>7 DEF Claimants, In, Pending
  <2>2. CASE c # Doubtful
    <3>1. Startable(c)' => Startable(c)
      <4>1. ASSUME NEW v \in Workers, Accepted(v)', MayStart(worker[v])', Pending(v)' = c
            PROVE  Startable(c)
        <5>1. v = w
          BY <1>1, <4>1 DEF Accepted, Acquire
        <5> QED BY <1>6, <1>7, <2>2, <4>1, <5>1 DEF Pending, Call
      <4> QED BY <1>4, <4>1 DEF Startable
    <3>2. licences'[c] = licences[c]
      BY <1>1, <2>2 DEF Once
    <3> QED BY <2>1, <3>1, <3>2, LicencesSuffice, InvariantOfParts
  <2>3. CASE c = Doubtful
    <3>1. /\ IsFiniteSet(Claimants(c)) /\ licences[c] \in Int
          /\ licences[c] >= Cardinality(Claimants(c)) + (IF Startable(c) THEN 1 ELSE 0)
      BY InvariantOfParts DEF EffectsAreLicensed, TypeOK, Once
    <3>2. licences'[c] = licences[c] + 1
      BY <1>1, <2>3 DEF Once
    <3>3. Cardinality(Claimants(c)) \in Nat
      BY <3>1, FS_CardinalityType
    <3> QED BY <2>1, <3>1, <3>2, <3>3
  <2> QED BY <2>2, <2>3
<1>9. EffectsAreLicensed'
  BY <1>8 DEF EffectsAreLicensed
<1>10. licences' \in [Calls \ Keyed -> Int]
  BY <1>1, <1>2
<1>11. Ungated(Doubtful, approved') /\ Doubtful \in retried'
  BY <1>1, <1>2
<1> QED BY <1>1, <1>2, <1>3, <1>9, <1>10, <1>11, TakeOverKeeps

(* An output that a human supplies stands for the call that is on record.     *)
LEMMA SupplyOutputKeeps == ASSUME ToolInv, NEW w \in Workers, SupplyOutput(w) PROVE ToolInv'
<1> DEFINE n == Highest(stored.record[Doubtful].attempt, 1)
           r == [status |-> "completed", attempt |-> n]
           records == [stored.record EXCEPT ![Doubtful] = r]
           s == [stored EXCEPT !.record = records]
           f == [Idle EXCEPT !.phase = "supplied", !.index = stored.position]
<1>1. /\ Acquire(w) /\ Resolvable /\ In(w, "idle") /\ Become(w, f)
      /\ begun' = begun /\ approved' = approved /\ retried' = retried
      /\ licences' = licences /\ UNCHANGED disruptions
      /\ stored' = [stored EXCEPT !.record[Doubtful] =
                      [status |-> "completed", attempt |-> Highest(@.attempt, 1)]]
  BY DEF SupplyOutput, Acquire, outside
<1>2. /\ stored \in StoredRun /\ stored.position \in 1 .. Len(Batch) /\ Doubtful \in Calls
      /\ StoreIsSound(stored, approved, retried)
      /\ stored.record[Doubtful].status \in {"started", "completed"}
      /\ Ungated(Doubtful, approved)
      /\ approved \subseteq Calls /\ retried \subseteq Calls
      /\ licences \in [Calls \ Keyed -> Int]
  BY <1>1, AboutTheRun
<1>3. /\ stored.record \in [Calls -> ToolRecord] /\ stored.record[Doubtful].attempt \in Nat
      /\ n \in Nat \ {0} /\ r \in ToolRecord
      /\ Doubtful \notin retried => n <= MaxAttempts[Doubtful]
  <2>1. stored.record \in [Calls -> ToolRecord] /\ stored.record[Doubtful].attempt \in Nat
    BY <1>2 DEF StoredRun, ToolRecord
  <2>2. n \in Nat \ {0}
    BY <2>1 DEF Highest
  <2>3. MaxAttempts[Doubtful] \in Nat \ {0}
    BY <1>2, ToolAssumption
  <2>4. Doubtful \notin retried => n <= MaxAttempts[Doubtful]
    BY <1>2, <2>1, <2>3 DEF StoreIsSound, Highest
  <2> QED BY <2>1, <2>2, <2>4 DEF ToolRecord
<1>4. /\ records \in [Calls -> ToolRecord] /\ records[Doubtful] = r
      /\ \A c \in Calls \ {Doubtful} : records[c] = stored.record[c]
  BY <1>2, <1>3
<1>5. stored' = s
  BY <1>1, <1>2, <1>3 DEF StoredRun
<1>6. r.status = "completed" /\ r.attempt = n
  OBVIOUS
<1> HIDE DEF records, r, n
<1>7. /\ s \in StoredRun /\ s.record = records /\ s.status = stored.status
      /\ s.pause = stored.pause /\ s.position = stored.position
  BY <1>2, <1>4 DEF StoredRun
<1>8. /\ f \in Worker /\ f.phase = "supplied" /\ f.index = stored.position
      /\ ~ f.cleared /\ ~ f.forced
  <2>1. stored.position \in 1 .. Len(Batch) + 1
    BY <1>2, CallsOfBatch
  <2>2. Idle \in Worker /\ ~ Idle.cleared /\ ~ Idle.forced
    BY IdleIsSound
  <2> QED BY <2>1, <2>2 DEF Worker, Phases
<1>9. Call(f) = Doubtful
  BY <1>8 DEF Call, Doubtful
<1> HIDE DEF f, s
<1>10. \A i \in DOMAIN Batch : stored.record[Batch[i]].status = "completed" =>
         s.record[Batch[i]].status = "completed"
  BY <1>4, <1>6, <1>7, CallsOfBatch
<1>11. StoreIsSound(s, approved, retried)
  <2>1. \A c \in Calls :
          /\ s.record[c].status # "none" => Ungated(c, approved)
          /\ s.record[c].status = "failed" => s.record[c].attempt > 0
          /\ c \notin retried => s.record[c].attempt <= MaxAttempts[c]
    <3>1. TAKE c \in Calls
    <3>2. CASE c = Doubtful
      BY <1>2, <1>3, <1>4, <1>6, <1>7, <3>2
    <3>3. CASE c # Doubtful
      BY <1>2, <1>4, <1>7, <3>3 DEF StoreIsSound
    <3> QED BY <3>2, <3>3
  <2>2. s.record[Batch[s.position]].status = "completed"
    BY <1>4, <1>6, <1>7 DEF Doubtful
  <2>3. \A i \in DOMAIN Batch : i < s.position \/ s.status = "completed" =>
          s.record[Batch[i]].status = "completed"
    BY <1>2, <1>7, <1>10 DEF StoreIsSound
  <2> QED BY <2>1, <2>2, <2>3 DEF StoreIsSound
<1>12. KeepsRecords(stored, s)
  BY <1>4, <1>6, <1>7 DEF KeepsRecords
<1>13. IsSound(f, s, approved, retried)
  BY <1>2, <1>8, <1>9 DEF IsSound, HasCall, IsApproved, IsCounted, PastGate, InEffect
<1>14. IsCurrent(f, s)
  BY <1>2, <1>8, <1>10 DEF IsCurrent, StoreIsSound, InEffect
<1>15. EffectsAreLicensed'
  BY <1>1, <1>5, <1>8, <1>12, <1>13, NobodyStarts DEF MayStart, IsSound
<1> QED BY <1>1, <1>2, <1>5, <1>7, <1>8, <1>11, <1>12, <1>13, <1>14, <1>15, TakesTheRun

LEMMA CancelStoredKeeps == ASSUME ToolInv, NEW w \in Workers, CancelStored(w) PROVE ToolInv'
<1> DEFINE s == [stored EXCEPT !.status = "cancelled", !.pause = "none"]
           i == worker[w]
<1>1. /\ Acquire(w) /\ In(w, "idle") /\ stored' = s /\ worker' = worker /\ begun' = begun
      /\ approved' = approved /\ retried' = retried /\ licences' = licences
      /\ UNCHANGED disruptions
  BY DEF CancelStored, Acquire, outside
<1>2. /\ stored \in StoredRun /\ StoreIsSound(stored, approved, retried)
      /\ worker \in [Workers -> Worker] /\ i.phase = "idle"
      /\ ~ MayStart(i) /\ IsSound(i, stored, approved, retried)
      /\ approved \subseteq Calls /\ retried \subseteq Calls
      /\ licences \in [Calls \ Keyed -> Int]
  BY <1>1, AboutTheRun
<1>3. /\ s \in StoredRun /\ s.record = stored.record /\ s.status = "cancelled"
      /\ s.position = stored.position
  BY <1>2 DEF StoredRun, Terminal
<1> HIDE DEF s
<1>4. StoreIsSound(s, approved, retried) /\ KeepsRecords(stored, s)
  BY <1>2, <1>3, StatusIsSound DEF StoreIsSound
<1>5. Become(w, i) /\ i \in Worker
  BY <1>1, <1>2 DEF Become
<1>6. IsSound(i, s, approved, retried)
  BY <1>2, <1>4, <1>5, SoundnessStays
<1>7. EffectsAreLicensed'
  BY <1>1, <1>2, <1>4, <1>5, NobodyStarts DEF IsSound
<1> QED BY <1>1, <1>2, <1>3, <1>4, <1>5, <1>6, <1>7, TakesTheRun

-----------------------------------------------------------------------------
(* The theorems.                                                              *)

(* Nothing has begun, and the worker that created the run is the only one.    *)
LEMMA InitIsSound == Init => ToolInv
<1> SUFFICES ASSUME Init PROVE ToolInv
  OBVIOUS
<1>1. PICK o \in Workers :
        /\ holder = o
        /\ worker = [v \in Workers |->
                       IF v = o THEN [Idle EXCEPT !.phase = "reading"] ELSE Idle]
  BY DEF Init
<1> DEFINE f == [Idle EXCEPT !.phase = "reading"]
<1>2. /\ f \in Worker /\ f.phase = "reading" /\ ~ f.cleared /\ ~ f.forced /\ f.index = 1
      /\ Idle \in Worker /\ \A s, granted, again : IsSound(Idle, s, granted, again)
  <2>1. /\ Idle \in Worker /\ ~ Idle.cleared /\ ~ Idle.forced
        /\ \A s, granted, again : IsSound(Idle, s, granted, again)
    BY IdleIsSound
  <2>2. Idle.index = 1
    BY DEF Idle
  <2> QED BY <2>1, <2>2 DEF Worker, Phases
<1>3. /\ worker \in [Workers -> Worker] /\ worker[o] = f
      /\ \A v \in Workers \ {o} : worker[v] = Idle
  BY <1>1, <1>2
<1>4. IsSound(f, stored, approved, retried) /\ ~ MayStart(f)
  <2>1. HasCall(f) /\ ~ MayStart(f)
    BY <1>2 DEF HasCall, MayStart
  <2>2. IsApproved(f, stored, approved)
    BY <1>2 DEF IsApproved, PastGate, InEffect
  <2>3. IsCounted(f, retried)
    BY <1>2 DEF IsCounted, InEffect
  <2> QED BY <2>1, <2>2, <2>3 DEF IsSound
<1> HIDE DEF f
<1>5. /\ stored.status = "running" /\ stored.pause = "none" /\ stored.position = 1
      /\ stored.record = [c \in Calls |-> NoRecord]
      /\ begun = {} /\ approved = {} /\ retried = {} /\ disruptions = 0
      /\ licences = [c \in Calls \ Keyed |-> 1]
  BY DEF Init
<1>6. stored \in StoredRun
  <2>1. NoRecord \in ToolRecord
    BY DEF NoRecord, ToolRecord
  <2>2. [c \in Calls |-> NoRecord] \in [Calls -> ToolRecord]
    BY <2>1
  <2>3. stored = [status |-> "running", pause |-> "none", position |-> 1,
                  record |-> [c \in Calls |-> NoRecord]]
    BY DEF Init
  <2>4. 1 \in 1 .. Len(Batch)
    BY CallsOfBatch
  <2> HIDE DEF NoRecord
  <2> QED BY <2>2, <2>3, <2>4 DEF StoredRun
<1>7. TypeOK
  <2>1. licences \in [Calls \ Keyed -> Int]
    BY <1>5
  <2>2. disruptions \in 0 .. MaxDisruptions
    BY <1>5, ToolAssumption
  <2> QED BY <1>1, <1>3, <1>5, <1>6, <2>1, <2>2 DEF TypeOK
<1>8. \A c \in Calls : stored.record[c].status = "none" /\ stored.record[c].attempt = 0
  BY <1>5 DEF NoRecord
<1>9. StoreIsSound(stored, approved, retried)
  <2>1. \A c \in Calls : MaxAttempts[c] \in Nat
    BY ToolAssumption
  <2> QED BY <1>5, <1>8, <2>1, CallsOfBatch DEF StoreIsSound
<1>10. IsCurrent(f, stored)
  BY <1>2, <1>5, CallsOfBatch DEF IsCurrent, InEffect
<1>11. HolderIsCurrent
  BY <1>1, <1>3, <1>10 DEF HolderIsCurrent, Accepted
<1>12. EffectsAreLicensed
  <2>1. SUFFICES ASSUME NEW c \in Once
                 PROVE  /\ IsFiniteSet(Claimants(c))
                        /\ licences[c] >= Cardinality(Claimants(c))
                                            + (IF Startable(c) THEN 1 ELSE 0)
    BY DEF EffectsAreLicensed
  <2>2. Claimants(c) = {}
    BY <1>2, <1>3 DEF Claimants, In, Idle
  <2>3. licences[c] = 1
    BY <1>5 DEF Once
  <2> QED BY <2>2, <2>3, FS_EmptySet
<1> QED BY <1>3, <1>2, <1>4, <1>5, <1>7, <1>9, <1>11, <1>12, InvariantOfParts
        DEF NoEffectBeforeApproval

LEMMA ToolStepsKeep == ToolInv /\ [Next]_vars => ToolInv'
<1> SUFFICES ASSUME ToolInv, [Next]_vars PROVE ToolInv'
  OBVIOUS
<1>1. CASE UNCHANGED vars
  <2>1. /\ stored' = stored /\ holder' = holder /\ worker' = worker /\ begun' = begun
        /\ approved' = approved /\ licences' = licences /\ retried' = retried
        /\ disruptions' = disruptions
    BY <1>1 DEF vars, outside
  <2> QED BY <2>1
          DEF ToolInv, HolderIsCurrent, WorkersAreSound, RecordsAreApproved,
              FailuresAreCounted, EffectsAreLicensed, Claimants, Startable,
              NoEffectBeforeApproval, EffectsAreOnRecord, ProgressIsRecorded,
              UnknownIsOnRecord, AttemptsAreBounded, TypeOK, Accepted, In, Pending, Doubtful
<1>2. ASSUME NEW w \in Workers, Step(w) PROVE ToolInv'
  BY <1>2, MemoryStepsKeep, AsksKeep, SavePositionKeeps, StartAttemptKeeps, InvokeKeeps,
     SucceedKeeps, RecordFailureKeeps, EndsKeep, ResumeSuppliedKeeps DEF Step
<1>3. ASSUME NEW w \in Workers, Resolve(w) PROVE ToolInv'
  BY <1>3, DecisionsKeep, RetryKeeps, SupplyOutputKeeps DEF Resolve
<1> QED BY <1>1, <1>2, <1>3, MemoryStepsKeep, FreeLeaseKeeps, DecisionsKeep,
           CancelStoredKeeps DEF Next

(* The inductive invariant.                                                   *)
LEMMA ToolInvariant == Spec => []ToolInv
  BY InitIsSound, ToolStepsKeep, PTL DEF Spec

(* A call that needs an approval has no effect before a human gave it         *)
(* (executeAgent of agent-engine.ts), whoever takes the run over, whatever    *)
(* is retried, and with whatever a worker left behind still has in hand.      *)
THEOREM EffectsWaitForApproval == Spec => []NoEffectBeforeApproval
<1>1. ToolInv => NoEffectBeforeApproval
  BY DEF ToolInv
<1> QED BY <1>1, ToolInvariant, PTL

(* Every effect that began is on record, the checkpoint passes no call        *)
(* without its result, and what a run asks a human to resolve has begun.      *)
THEOREM EffectsAreRecorded == Spec => []EffectsAreOnRecord
<1>1. ToolInv => EffectsAreOnRecord
  BY DEF ToolInv
<1> QED BY <1>1, ToolInvariant, PTL

(* A tool that is declared as the default has it, with one attempt unless it  *)
(* has a key, begins its effect once for each decision of a human: no crash,  *)
(* lost answer, supplied output or worker left behind repeats it; and no tool *)
(* is attempted more often than it declares.                                  *)
THEOREM EffectsBeginOnce ==
  ASSUME \A c \in Calls \ Keyed : MaxAttempts[c] = 1
  PROVE  Spec => []OneBeginningPerDecision
<1>1. ToolInv => OneBeginningPerDecision
  <2> SUFFICES ASSUME ToolInv, NEW c \in Calls \ Keyed PROVE licences[c] >= 0
    BY DEF ToolInv, OneBeginningPerDecision, UnkeyedToolsAskFirst
  <2>1. /\ IsFiniteSet(Claimants(c)) /\ licences[c] \in Int
        /\ licences[c] >= Cardinality(Claimants(c)) + (IF Startable(c) THEN 1 ELSE 0)
    BY InvariantOfParts DEF EffectsAreLicensed, TypeOK, Once
  <2>2. Cardinality(Claimants(c)) \in Nat
    BY <2>1, FS_CardinalityType
  <2> QED BY <2>1, <2>2
<1> QED BY <1>1, ToolInvariant, PTL

=============================================================================
