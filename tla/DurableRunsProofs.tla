------------------------- MODULE DurableRunsProofs --------------------------
(* Theorems about DurableRuns, for every number of runs, sessions and      *)
(* attempts and every bound.  First the form of the states: the types, and *)
(* that what an attempt still uses it has.  Then the inductive invariant   *)
(* ReservationInv: a session reserves at most one active run, and a        *)
(* terminal run is final. Then HistoryInv: the history of a session is its *)
(* completed runs, and the refinement of SessionReservation. Last what a   *)
(* lease protects.                                                         *)
EXTENDS DurableRuns, SequenceTheorems, TLAPS

(* The one element of an optional field. *)
LEMMA OnlyOne == \A x : Only({x}) = x
  BY DEF Only

LEMMA OnlyMember == ASSUME NEW S, NEW T, S \subseteq T, S # {} PROVE Only(S) \in T
  BY DEF Only

(* A commit of an attempt is a commit record of the store. *)
CommitRecord == [run : Runs, expectedRevision : Nat, owner : Owners,
                 generation : Nat, status : Active \cup Terminal,
                 checkpoint : SUBSET Nat, session : SUBSET SessionRecord,
                 events : Seq(Nat)]

LEMMA CommitOfType ==
  ASSUME WellFormed, NEW o \in Owners,
         exec[o].phase \in Following,
         NEW status \in Active \cup Terminal, NEW position \in SUBSET Nat,
         NEW withSession \in SUBSET SessionRecord, NEW n \in {0, 1}
  PROVE  CommitOf(o, status, position, withSession, n) \in CommitRecord
<1>1. exec[o] \in ExecRecord /\ exec[o].run \in Runs
  BY DEF WellFormed, TypeOK, Engaged, IsEngaged
<1>2. <<>> \in Seq(Nat) /\ <<exec[o].sequence + 1>> \in Seq(Nat)
  BY <1>1 DEF ExecRecord
<1>3. QED
  BY <1>1, <1>2 DEF CommitOf, CommitRecord, ExecRecord

LEMMA CommitKeepsTypes ==
  ASSUME StoreTypeOK, NEW c \in CommitRecord, CommitExecution(c)
  PROVE  StoreTypeOK'
<1>1. now' \in Nat /\ lease' \in [Runs -> LeaseRecord]
  BY DEF StoreTypeOK, CommitExecution
<1>2. run' \in [Runs -> RunRecord]
  <2>1. /\ c.run \in Runs /\ c.status \in Active \cup Terminal
        /\ c.expectedRevision + 1 \in Nat /\ run[c.run] \in RunRecord
    BY DEF StoreTypeOK, CommitRecord
  <2>2. [run[c.run] EXCEPT !.status = c.status,
                           !.revision = c.expectedRevision + 1] \in RunRecord
    BY <2>1 DEF RunRecord
  <2>3. QED
    BY <2>1, <2>2 DEF StoreTypeOK, CommitExecution
<1>3. session' \in [Sessions -> SessionRecord]
  <2>1. c.session # {} => StoredSession(Only(c.session)) \in SessionRecord
    <3>1. c.session # {} => Only(c.session) \in SessionRecord
      BY OnlyMember DEF CommitRecord
    <3>2. QED
      BY <3>1 DEF StoredSession, SessionRecord
  <2>2. QED
    BY <2>1 DEF StoreTypeOK, CommitExecution
<1>4. checkpoint' \in [Runs -> Nat]
  <2>1. c.checkpoint # {} => Only(c.checkpoint) \in Nat
    BY OnlyMember DEF CommitRecord
  <2>2. QED
    BY <2>1 DEF StoreTypeOK, CommitExecution
<1>5. events' \in [Runs -> Seq(Nat)]
  <2>1. c.run \in Runs /\ c.events \in Seq(Nat) /\ events[c.run] \in Seq(Nat)
    BY DEF StoreTypeOK, CommitRecord
  <2>2. events[c.run] \o c.events \in Seq(Nat)
    BY <2>1, ConcatProperties
  <2>3. QED
    BY <2>1, <2>2 DEF StoreTypeOK, CommitExecution
<1>6. QED
  BY <1>1, <1>2, <1>3, <1>4, <1>5 DEF StoreTypeOK
-----------------------------------------------------------------------------
(* The records an attempt moves to.                                        *)

LEMMA IdleIsWell == IdleExec \in ExecRecord /\ IsEngaged(IdleExec)
  BY DEF IdleExec, ExecRecord, Phases, Active, AbsentSession, SessionRecord,
         IsEngaged, Following

LEMMA TokenIsWell ==
  ASSUME NEW e \in ExecRecord, e.run \in Runs
  PROVE  Token(e) \in ExecRecord /\ IsEngaged(Token(e))
  BY IdleIsWell DEF Token, IdleExec, ExecRecord, Phases, IsEngaged, Following

LEMMA RetiredIsWell ==
  ASSUME NEW e \in ExecRecord, e.renewal # 0 => e.run \in Runs
  PROVE  Retired(e) \in ExecRecord /\ IsEngaged(Retired(e))
<1>1. CASE e.renewal = 0
  <2>1. Retired(e) = [IdleExec EXCEPT !.phase = "done"]
    BY <1>1 DEF Retired
  <2>2. QED
    BY <2>1, IdleIsWell DEF IdleExec, ExecRecord, Phases, IsEngaged, Following
<1>2. CASE e.renewal # 0
  <2>1. Retired(e) = [Token(e) EXCEPT !.phase = "done"]
    BY <1>2 DEF Retired
  <2>2. Token(e) \in ExecRecord /\ e.run \in Runs
    BY <1>2, TokenIsWell
  <2>3. Retired(e) \in ExecRecord
    BY <2>1, <2>2 DEF ExecRecord, Phases
  <2>4. Retired(e).phase = "done" /\ Retired(e).run = e.run
    BY <2>1, <2>2 DEF Token, IdleExec, ExecRecord
  <2>5. QED
    BY <2>2, <2>3, <2>4 DEF IsEngaged, Following
<1>3. QED
  BY <1>1, <1>2

LEMMA FollowerIsWell ==
  ASSUME WellFormed, NEW o \in Owners, exec[o].phase \in Following
  PROVE  /\ exec[o] \in ExecRecord
         /\ exec[o].run \in Runs /\ exec[o].session \in Sessions
  BY DEF WellFormed, TypeOK, Engaged, IsEngaged

LEMMA AnsweredIsWell ==
  ASSUME WellFormed, NEW o \in Owners, exec[o].phase \in Following,
         NEW c \in CommitRecord
  PROVE  /\ Answered(o, c) \in ExecRecord /\ IsEngaged(Answered(o, c))
         /\ Thrown(o, c) \in ExecRecord /\ IsEngaged(Thrown(o, c))
<1>1. /\ exec[o] \in ExecRecord
      /\ exec[o].run \in Runs /\ exec[o].session \in Sessions
  BY FollowerIsWell
<1>2. c.status \in Active \cup Terminal /\ Len(c.events) \in Nat
  BY LenProperties DEF CommitRecord
<1>3. c.checkpoint # {} => Only(c.checkpoint) \in Nat
  BY OnlyMember DEF CommitRecord
<1>4. c.session # {} => StoredSession(Only(c.session)) \in SessionRecord
  <2>1. c.session # {} => Only(c.session) \in SessionRecord
    BY OnlyMember DEF CommitRecord
  <2>2. QED
    BY <2>1 DEF StoredSession, SessionRecord
<1>5. DEFINE q == exec[o].sequence + Len(c.events)
             p == IF c.checkpoint = {} THEN exec[o].position ELSE Only(c.checkpoint)
             s == IF c.session = {} THEN exec[o].snapshot
                  ELSE StoredSession(Only(c.session))
             v == exec[o].revision + 1
<1>6. q \in Nat /\ p \in Nat /\ s \in SessionRecord /\ v \in Nat
  <2>1. /\ exec[o].sequence \in Nat /\ exec[o].position \in Nat
        /\ exec[o].snapshot \in SessionRecord /\ exec[o].revision \in Nat
    BY <1>1 DEF ExecRecord
  <2>2. q \in Nat /\ v \in Nat
    BY <2>1, <1>2
  <2>3. p \in Nat
    BY <2>1, <1>3
  <2>4. s \in SessionRecord
    BY <2>1, <1>4
  <2>5. QED
    BY <2>2, <2>3, <2>4
<1>7. Answered(o, c) = [exec[o] EXCEPT !.phase = "owning", !.revision = v,
                          !.status = c.status, !.sequence = q, !.position = p,
                          !.snapshot = s]
  BY <1>1 DEF Answered, ExecRecord
<1>8. Thrown(o, c) = [exec[o] EXCEPT !.phase = "owning", !.sequence = q]
  BY DEF Thrown
<1>9. HIDE DEF q, p, s, v
<1>10. Answered(o, c) \in ExecRecord
  BY <1>1, <1>2, <1>6, <1>7 DEF ExecRecord, Phases
<1>11. Thrown(o, c) \in ExecRecord
  BY <1>1, <1>6, <1>8 DEF ExecRecord, Phases
<1>12. IsEngaged(Answered(o, c)) /\ IsEngaged(Thrown(o, c))
  BY <1>1, <1>7, <1>8 DEF IsEngaged, ExecRecord
<1>13. QED
  BY <1>10, <1>11, <1>12

-----------------------------------------------------------------------------
(* Every step keeps the state well formed.                                 *)

LEMMA StoreStays ==
  ASSUME WellFormed, UNCHANGED storeVars
  PROVE  StoreTypeOK' /\ StoredRunsAreWhole'
  BY DEF WellFormed, TypeOK, StoreTypeOK, StoredRunsAreWhole, storeVars

LEMMA AttemptMoves ==
  ASSUME WellFormed, StoreTypeOK', StoredRunsAreWhole',
         minted' \subseteq (Runs \cup Sessions),
         NEW o \in Owners, NEW e, Become(o, e), e \in ExecRecord, IsEngaged(e)
  PROVE  WellFormed'
<1>1. exec' \in [Owners -> ExecRecord]
  BY DEF WellFormed, TypeOK, Become
<1>2. \A p \in Owners : exec'[p] = exec[p] \/ exec'[p] = e
  BY DEF WellFormed, TypeOK, Become
<1>3. Engaged'
  BY <1>2 DEF WellFormed, Engaged, IsEngaged
<1>4. QED
  BY <1>1, <1>3 DEF WellFormed, TypeOK

LEMMA CommitKeepsRunsWhole ==
  ASSUME WellFormed, NEW c \in CommitRecord, CommitAllowed(c), CommitExecution(c)
  PROVE  StoreTypeOK' /\ StoredRunsAreWhole'
<1>1. StoreTypeOK'
  BY CommitKeepsTypes DEF WellFormed, TypeOK
<1>2. \A r \in Runs : r # c.run => run'[r] = run[r]
  BY DEF CommitExecution, WellFormed, TypeOK, StoreTypeOK
<1>3. /\ run'[c.run].status = c.status
      /\ run'[c.run].revision = c.expectedRevision + 1
      /\ run'[c.run].session = run[c.run].session
  BY DEF CommitExecution, WellFormed, TypeOK, StoreTypeOK, RunRecord, CommitRecord
<1>4. /\ run[c.run].session \in Sessions /\ c.status # "absent"
      /\ c.expectedRevision + 1 # 0 /\ c.run \in Runs
  BY DEF CommitAllowed, WellFormed, StoredRunsAreWhole, CommitRecord, Active, Terminal
<1>5. StoredRunsAreWhole'
  BY <1>2, <1>3, <1>4 DEF WellFormed, StoredRunsAreWhole
<1>6. QED
  BY <1>1, <1>5

LEMMA CommitStepKeepsForm ==
  ASSUME WellFormed, NEW o \in Owners, exec[o].phase \in Following,
         NEW c \in CommitRecord,
         NEW a \in ExecRecord, NEW u \in ExecRecord, NEW t \in ExecRecord,
         IsEngaged(a), IsEngaged(u), IsEngaged(t),
         CommitStep(o, c, a, u, t)
  PROVE  WellFormed'
<1>2. minted' \subseteq (Runs \cup Sessions)
  BY DEF CommitStep, WellFormed, TypeOK
<1>3. StoreTypeOK' /\ StoredRunsAreWhole'
  BY StoreStays, CommitKeepsRunsWhole DEF CommitStep
<1>4. Become(o, a) \/ Become(o, u) \/ Become(o, t)
  BY DEF CommitStep
<1>5. QED
  BY <1>2, <1>3, <1>4, AttemptMoves

LEMMA QuietMove ==
  ASSUME WellFormed, UNCHANGED storeVars, minted' \subseteq (Runs \cup Sessions),
         NEW o \in Owners, NEW e \in ExecRecord, IsEngaged(e), Become(o, e)
  PROVE  WellFormed'
  BY StoreStays, AttemptMoves

LEMMA AttemptOfType ==
  ASSUME WellFormed, NEW o \in Owners
  PROVE  /\ exec[o] \in ExecRecord /\ IsEngaged(exec[o])
         /\ Retired(exec[o]) \in ExecRecord /\ IsEngaged(Retired(exec[o]))
<1>1. exec[o] \in ExecRecord /\ IsEngaged(exec[o])
  BY DEF WellFormed, TypeOK, Engaged
<1>2. QED
  BY <1>1, RetiredIsWell DEF IsEngaged

LEMMA PreparedIsWell ==
  ASSUME WellFormed, NEW r \in Runs, NEW s \in Sessions
  PROVE  Prepared(r, s) \in ExecRecord /\ IsEngaged(Prepared(r, s))
<1>1. session[s] \in SessionRecord /\ now + LeaseTerm \in Nat
  BY ConstantsAssumption DEF WellFormed, TypeOK, StoreTypeOK
<1>2. QED
  BY <1>1, IdleIsWell DEF Prepared, IdleExec, ExecRecord, Phases, IsEngaged, Following

LEMMA PrepareKeepsForm ==
  ASSUME WellFormed, NEW o \in Owners, NEW r \in Runs, NEW s \in Sessions,
         PrepareNewSession(o, r, s) \/ PrepareKnownSession(o, r, s)
  PROVE  WellFormed'
<1>1. UNCHANGED storeVars /\ Become(o, Prepared(r, s))
      /\ minted' \subseteq (Runs \cup Sessions)
  BY DEF PrepareNewSession, PrepareKnownSession, WellFormed, TypeOK
<1>2. QED
  BY <1>1, PreparedIsWell, QuietMove

LEMMA CreateKeepsForm ==
  ASSUME WellFormed, NEW o \in Owners, Create(o)
  PROVE  WellFormed'
<1> DEFINE e == exec[o]
<1>1. /\ e \in ExecRecord /\ e.phase = "creating"
      /\ e.run \in Runs /\ e.session \in Sessions
  BY AttemptOfType DEF Create, In, IsEngaged
<1>2. minted' \subseteq (Runs \cup Sessions)
  BY DEF Create, WellFormed, TypeOK
<1>3. ASSUME Become(o, Retired(e)), UNCHANGED storeVars PROVE WellFormed'
  BY <1>2, <1>3, AttemptOfType, QuietMove
<1>4. ASSUME NEW expires \in e.expires .. (now + LeaseTerm),
             CreateExecution(e.run, e.session, e.snapshot, o, expires),
             \/ Become(o, [e EXCEPT !.phase = "owning", !.revision = 1,
                                    !.status = "running", !.position = 1, !.sequence = 1,
                                    !.generation = 1, !.expires = expires,
                                    !.snapshot = StoredSession(@)])
             \/ Become(o, Retired(e))
      PROVE  WellFormed'
  <2> DEFINE stored == StoredSession(e.snapshot)
             born == [status |-> "running", revision |-> 1, session |-> e.session]
             token == [owner |-> o, generation |-> 1, expires |-> expires]
             f == [e EXCEPT !.phase = "owning", !.revision = 1,
                            !.status = "running", !.position = 1, !.sequence = 1, !.generation = 1, !.expires = expires,
                            !.snapshot = stored]
  <2>1. expires \in Nat
    BY <1>1, ConstantsAssumption DEF ExecRecord, WellFormed, TypeOK, StoreTypeOK
  <2>2. stored \in SessionRecord
    BY <1>1 DEF StoredSession, ExecRecord, SessionRecord
  <2>3. born \in RunRecord /\ token \in LeaseRecord
    BY <1>1, <2>1 DEF RunRecord, LeaseRecord, Active
  <2>4. <<1>> \in Seq(Nat)
    OBVIOUS
  <2>5. StoreTypeOK'
    BY <1>1, <1>4, <2>2, <2>3, <2>4
       DEF CreateExecution, WellFormed, TypeOK, StoreTypeOK
  <2>6. StoredRunsAreWhole'
    BY <1>1, <1>4 DEF CreateExecution, WellFormed, TypeOK, StoreTypeOK,
                      StoredRunsAreWhole
  <2> HIDE DEF stored
  <2>7. f \in ExecRecord /\ IsEngaged(f)
    <3>1. f \in ExecRecord
      BY <1>1, <2>1, <2>2 DEF ExecRecord, Phases, Active
    <3>2. f.run = e.run /\ f.session = e.session
      BY <1>1 DEF ExecRecord
    <3>3. QED
      BY <1>1, <3>1, <3>2 DEF IsEngaged
  <2>8. Become(o, f) \/ Become(o, Retired(e))
    BY <1>4 DEF stored
  <2>9. QED
    BY <1>2, <2>5, <2>6, <2>7, <2>8, AttemptOfType, AttemptMoves
<1>5. QED
  BY <1>3, <1>4 DEF Create

LEMMA CompactionKeepsForm ==
  ASSUME WellFormed, NEW o \in Owners,
         (\E s \in Sessions : ReadForCompaction(o, s)) \/ SaveCompaction(o)
  PROVE  WellFormed'
<1>1. ASSUME NEW s \in Sessions, ReadForCompaction(o, s) PROVE WellFormed'
  <2> DEFINE f == [IdleExec EXCEPT !.phase = "compacting", !.session = s,
                                   !.snapshot = session[s]]
  <2>1. session[s] \in SessionRecord
    BY DEF WellFormed, TypeOK, StoreTypeOK
  <2>2. f \in ExecRecord /\ IsEngaged(f)
    BY <2>1, IdleIsWell DEF IdleExec, ExecRecord, Phases, IsEngaged, Following
  <2>3. minted' \subseteq (Runs \cup Sessions) /\ UNCHANGED storeVars /\ Become(o, f)
    BY <1>1 DEF ReadForCompaction, WellFormed, TypeOK
  <2>4. QED
    BY <2>2, <2>3, QuietMove
<1>2. ASSUME SaveCompaction(o) PROVE WellFormed'
  <2> DEFINE e == exec[o]
  <2>1. e \in ExecRecord /\ e.session \in Sessions
    BY <1>2, AttemptOfType DEF SaveCompaction, In, IsEngaged
  <2>2. minted' \subseteq (Runs \cup Sessions) /\ Become(o, Retired(e))
    BY <1>2 DEF SaveCompaction, WellFormed, TypeOK
  <2>3. CASE UNCHANGED storeVars
    BY <2>2, <2>3, AttemptOfType, QuietMove
  <2>4. CASE SaveSession(e.session, e.snapshot)
    <3>1. StoredSession(e.snapshot) \in SessionRecord
      BY <2>1 DEF StoredSession, ExecRecord, SessionRecord
    <3>2. StoreTypeOK' /\ StoredRunsAreWhole'
      BY <2>4, <3>1
         DEF SaveSession, WellFormed, TypeOK, StoreTypeOK, StoredRunsAreWhole
    <3>3. QED
      BY <2>2, <3>2, AttemptOfType, AttemptMoves
  <2>5. QED
    BY <1>2, <2>3, <2>4 DEF SaveCompaction
<1>3. QED
  BY <1>1, <1>2

LEMMA LookupKeepsForm ==
  ASSUME WellFormed, NEW o \in Owners,
         \/ \E r \in Runs : Locate(o, r)
         \/ ReadCheckpoint(o) \/ ReadSession(o) \/ LocateToCancel(o) \/ ReadEvents(o)
  PROVE  WellFormed'
<1> DEFINE e == exec[o]
<1>1. e \in ExecRecord /\ Retired(e) \in ExecRecord /\ IsEngaged(Retired(e))
      /\ (e.phase \in Following => e.run \in Runs /\ e.session \in Sessions)
  BY AttemptOfType DEF IsEngaged
<1>2. minted' \subseteq (Runs \cup Sessions) /\ UNCHANGED storeVars
  BY DEF Locate, ReadCheckpoint, ReadSession, LocateToCancel, ReadEvents,
         WellFormed, TypeOK
<1>3. now + LeaseTerm \in Nat
  BY ConstantsAssumption DEF WellFormed, TypeOK, StoreTypeOK
<1>4. ASSUME NEW r \in Runs, Locate(o, r) PROVE WellFormed'
  <2> DEFINE f == [IdleExec EXCEPT !.phase = "located", !.run = r,
                                   !.session = run[r].session,
                                   !.revision = run[r].revision,
                                   !.status = run[r].status]
  <2>1. /\ run[r].status \in Active /\ run[r].revision \in Nat
        /\ run[r].session \in Sessions
    BY <1>4 DEF Locate, WellFormed, TypeOK, StoreTypeOK, StoredRunsAreWhole,
                RunRecord, Active
  <2>2. f \in ExecRecord /\ IsEngaged(f)
    BY <2>1, IdleIsWell DEF IdleExec, ExecRecord, Phases, IsEngaged, Following
  <2>3. QED
    BY <1>2, <1>4, <2>2, QuietMove DEF Locate
<1>5. ASSUME ReadCheckpoint(o) PROVE WellFormed'
  <2> DEFINE f == [e EXCEPT !.phase = "checked", !.position = checkpoint[e.run]]
  <2>1. e.run \in Runs /\ e.session \in Sessions /\ checkpoint[e.run] \in Nat
    BY <1>1, <1>5 DEF ReadCheckpoint, In, Following, WellFormed, TypeOK, StoreTypeOK
  <2>2. f \in ExecRecord /\ IsEngaged(f)
    BY <1>1, <2>1 DEF ExecRecord, Phases, IsEngaged, Following
  <2>3. Become(o, f) \/ Become(o, Retired(e))
    BY <1>5 DEF ReadCheckpoint
  <2>4. QED
    BY <1>1, <1>2, <2>2, <2>3, QuietMove
<1>6. ASSUME ReadSession(o) PROVE WellFormed'
  <2> DEFINE f == [e EXCEPT !.phase = "contending", !.snapshot = session[e.session],
                            !.expires = now + LeaseTerm]
  <2>1. e.run \in Runs /\ e.session \in Sessions
    BY <1>1, <1>6 DEF ReadSession, In, Following
  <2>2. session[e.session] \in SessionRecord
    BY <2>1 DEF WellFormed, TypeOK, StoreTypeOK
  <2>3. f \in ExecRecord
    BY <1>1, <1>3, <2>2 DEF ExecRecord, Phases
  <2>4. IsEngaged(f)
    BY <1>1, <2>1 DEF ExecRecord, IsEngaged
  <2>5. Become(o, f) \/ Become(o, Retired(e))
    BY <1>6 DEF ReadSession
  <2>6. QED
    BY <1>1, <1>2, <2>3, <2>4, <2>5, QuietMove
<1>7. ASSUME LocateToCancel(o) PROVE WellFormed'
  <2> DEFINE f == [e EXCEPT !.phase = "contending", !.cancels = TRUE,
                            !.expires = now + LeaseTerm]
  <2>1. e.run \in Runs /\ e.session \in Sessions
    BY <1>1, <1>7 DEF LocateToCancel, In, Following
  <2>2. f \in ExecRecord
    BY <1>1, <1>3 DEF ExecRecord, Phases
  <2>3. IsEngaged(f)
    BY <1>1, <2>1 DEF ExecRecord, IsEngaged
  <2>4. QED
    BY <1>2, <1>7, <2>2, <2>3, QuietMove DEF LocateToCancel
<1>8. ASSUME ReadEvents(o) PROVE WellFormed'
  <2> DEFINE stored == events[e.run]
             last == IF stored = <<>> THEN 0 ELSE stored[Len(stored)]
             f == [e EXCEPT !.phase = "caughtUp", !.sequence = last]
  <2>1. e.run \in Runs /\ e.session \in Sessions
    BY <1>1, <1>8 DEF ReadEvents, In, Following
  <2>2. last \in Nat
    <3>1. stored \in Seq(Nat)
      BY <2>1 DEF WellFormed, TypeOK, StoreTypeOK
    <3>2. stored # <<>> => Len(stored) \in 1 .. Len(stored)
      BY <3>1, EmptySeq, LenProperties
    <3>3. stored # <<>> => stored[Len(stored)] \in Nat
      BY <3>1, <3>2, ElementOfSeq
    <3>4. QED
      BY <3>3
  <2> HIDE DEF last
  <2>3. f \in ExecRecord
    BY <1>1, <2>2 DEF ExecRecord, Phases
  <2>4. IsEngaged(f)
    BY <1>1, <2>1 DEF ExecRecord, IsEngaged
  <2>5. Become(o, f)
    BY <1>8 DEF ReadEvents, last
  <2>6. QED
    BY <1>2, <2>3, <2>4, <2>5, QuietMove
<1>9. QED
  BY <1>4, <1>5, <1>6, <1>7, <1>8

LEMMA LeaseStoreStays ==
  ASSUME WellFormed, lease' \in [Runs -> LeaseRecord],
         UNCHANGED <<now, run, session, checkpoint, events>>
  PROVE  StoreTypeOK' /\ StoredRunsAreWhole'
  BY DEF WellFormed, TypeOK, StoreTypeOK, StoredRunsAreWhole

LEMMA LeaseKeepsForm ==
  ASSUME WellFormed, NEW o \in Owners,
         \/ Acquire(o) \/ IssueRenewal(o) \/ ApplyRenewal(o)
         \/ LoseLease(o) \/ Release(o) \/ Crash(o)
  PROVE  WellFormed'
<1> DEFINE e == exec[o]
<1>1. /\ e \in ExecRecord /\ IsEngaged(e)
      /\ Retired(e) \in ExecRecord /\ IsEngaged(Retired(e))
  BY AttemptOfType
<1>2. minted' \subseteq (Runs \cup Sessions)
  BY DEF Acquire, IssueRenewal, ApplyRenewal, LoseLease, Release, Crash,
         WellFormed, TypeOK
<1>3. now \in Nat /\ now + LeaseTerm \in Nat /\ now + LeaseTerm # 0
      /\ lease \in [Runs -> LeaseRecord]
  BY ConstantsAssumption DEF WellFormed, TypeOK, StoreTypeOK
<1>4. ASSUME Acquire(o) PROVE WellFormed'
  <2> DEFINE f == [e EXCEPT !.phase = "leased",
                            !.generation = lease[e.run].generation + 1]
             token == [owner |-> o, generation |-> lease[e.run].generation + 1,
                       expires |-> e.expires]
  <2>1. e.run \in Runs /\ e.session \in Sessions
    BY <1>1, <1>4 DEF Acquire, In, IsEngaged, Following
  <2>2. lease[e.run].generation + 1 \in Nat /\ e.expires \in Nat
    BY <1>1, <1>3, <2>1 DEF LeaseRecord, ExecRecord
  <2>3. ASSUME Become(o, Retired(e)), UNCHANGED storeVars PROVE WellFormed'
    BY <1>1, <1>2, <2>3, QuietMove
  <2>4. ASSUME AcquireLease(e.run, o, e.expires),
               Become(o, f) \/ Become(o, Retired(e))
        PROVE  WellFormed'
    <3>1. token \in LeaseRecord
      BY <2>2 DEF LeaseRecord
    <3>2. lease' \in [Runs -> LeaseRecord]
      BY <1>3, <2>4, <3>1 DEF AcquireLease
    <3>3. StoreTypeOK' /\ StoredRunsAreWhole'
      BY <2>4, <3>2, LeaseStoreStays DEF AcquireLease
    <3>4. f \in ExecRecord
      BY <1>1, <2>2 DEF ExecRecord, Phases
    <3>5. IsEngaged(f)
      BY <1>1, <2>1 DEF ExecRecord, IsEngaged
    <3>6. QED
      BY <1>1, <1>2, <2>4, <3>3, <3>4, <3>5, AttemptMoves
  <2>5. QED
    BY <1>4, <2>3, <2>4 DEF Acquire
<1>5. ASSUME IssueRenewal(o) PROVE WellFormed'
  <2> DEFINE f == [e EXCEPT !.renewal = now + LeaseTerm]
  <2>1. e.run \in Runs /\ e.session \in Sessions
    BY <1>1, <1>5 DEF IssueRenewal, In, IsEngaged, Following
  <2>2. f \in ExecRecord
    BY <1>1, <1>3 DEF ExecRecord
  <2>3. IsEngaged(f)
    BY <1>1, <2>1 DEF ExecRecord, IsEngaged
  <2>4. QED
    BY <1>2, <1>5, <2>2, <2>3, QuietMove DEF IssueRenewal
<1>6. ASSUME ApplyRenewal(o) PROVE WellFormed'
  <2> DEFINE f == [e EXCEPT !.renewal = 0]
             g == [f EXCEPT !.expires = e.renewal]
  <2>1. e.run \in Runs /\ e.renewal \in Nat
    BY <1>1, <1>6 DEF ApplyRenewal, IsEngaged, ExecRecord
  <2>2. f \in ExecRecord /\ g \in ExecRecord
    BY <1>1, <2>1 DEF ExecRecord
  <2>3. IsEngaged(f) /\ IsEngaged(g)
    BY <1>1, <2>1 DEF ExecRecord, IsEngaged
  <2>4. f.renewal = 0 /\ f.run \in Runs
    BY <1>1, <2>1 DEF ExecRecord
  <2>5. /\ Retired(f) \in ExecRecord /\ IsEngaged(Retired(f))
        /\ Token(f) \in ExecRecord /\ IsEngaged(Token(f))
    BY <2>2, <2>4, RetiredIsWell, TokenIsWell
  <2>6. Become(o, f) \/ Become(o, g) \/ Become(o, Retired(f)) \/ Become(o, Token(f))
    BY <1>6 DEF ApplyRenewal
  <2>7. StoreTypeOK' /\ StoredRunsAreWhole'
    <3>1. CASE RenewLease(e.run, e.renewal)
      <4>1. lease' \in [Runs -> LeaseRecord]
        BY <1>3, <2>1, <3>1 DEF RenewLease, LeaseRecord
      <4>2. QED
        BY <3>1, <4>1, LeaseStoreStays DEF RenewLease
    <3>2. QED
      BY <1>6, <3>1, StoreStays DEF ApplyRenewal
  <2>8. QED
    BY <1>2, <2>2, <2>3, <2>5, <2>6, <2>7, AttemptMoves
<1>7. ASSUME LoseLease(o) PROVE WellFormed'
  <2>1. e.run \in Runs
    BY <1>1, <1>7 DEF LoseLease, In, IsEngaged, Following
  <2>2. QED
    BY <1>1, <1>2, <1>7, <2>1, TokenIsWell, QuietMove DEF LoseLease
<1>8. ASSUME Release(o) PROVE WellFormed'
  <2>1. e.run \in Runs
    BY <1>1, <1>8 DEF Release, In, IsEngaged
  <2>2. StoreTypeOK' /\ StoredRunsAreWhole'
    <3>1. CASE ReleaseLease(e.run, o, e.generation)
      <4>1. lease' \in [Runs -> LeaseRecord]
        BY <1>3, <2>1, <3>1 DEF ReleaseLease, LeaseRecord
      <4>2. QED
        BY <3>1, <4>1, LeaseStoreStays DEF ReleaseLease
    <3>2. QED
      BY <1>8, <3>1, StoreStays DEF Release
  <2>3. QED
    BY <1>1, <1>2, <1>8, <2>2, AttemptMoves DEF Release
<1>9. ASSUME Crash(o) PROVE WellFormed'
  BY <1>1, <1>2, <1>9, QuietMove DEF Crash
<1>10. QED
  BY <1>4, <1>5, <1>6, <1>7, <1>8, <1>9

LEMMA CommitsKeepForm ==
  ASSUME WellFormed, NEW o \in Owners,
         \/ TakeOver(o) \/ TakeOverToCancel(o) \/ EmitEvent(o) \/ SaveProgress(o)
         \/ CompactInRun(o) \/ Pause(o) \/ Complete(o)
         \/ \E status \in {"failed", "cancelled"} : Abandon(o, status)
  PROVE  WellFormed'
<1> DEFINE e == exec[o]
           pushed == [e.snapshot EXCEPT !.history = @ \cup {e.run}]
<1>1. /\ e.phase \in Following /\ e \in ExecRecord
      /\ e.run \in Runs /\ e.session \in Sessions
  BY FollowerIsWell
     DEF TakeOver, TakeOverToCancel, EmitEvent, SaveProgress, CompactInRun, Pause,
         Complete, Abandon, In, Following
<1>2. /\ e.position \in Nat /\ e.position + 1 \in Nat
      /\ e.snapshot \in SessionRecord
  BY <1>1 DEF ExecRecord
<1>3. pushed \in SessionRecord
  BY <1>1, <1>2 DEF SessionRecord
<1>4. /\ Token(e) \in ExecRecord /\ IsEngaged(Token(e))
      /\ Retired(e) \in ExecRecord /\ IsEngaged(Retired(e))
  BY <1>1, TokenIsWell, AttemptOfType
<1>5. ASSUME NEW status \in Active \cup Terminal, NEW position \in SUBSET Nat,
             NEW withSession \in SUBSET SessionRecord, NEW n \in {0, 1},
             LET c == CommitOf(o, status, position, withSession, n) IN
             \/ Continue(o, c) \/ Conclude(o, c)
             \/ CommitStep(o, c, Answered(o, c), Token(e), Token(e))
             \/ CommitStep(o, c, Token(e), Retired(e), Retired(e))
      PROVE  WellFormed'
  <2> DEFINE c == CommitOf(o, status, position, withSession, n)
  <2>1. c \in CommitRecord
    BY <1>1, CommitOfType
  <2> HIDE DEF c
  <2>2. /\ Answered(o, c) \in ExecRecord /\ IsEngaged(Answered(o, c))
        /\ Thrown(o, c) \in ExecRecord /\ IsEngaged(Thrown(o, c))
    BY <1>1, <2>1, AnsweredIsWell
  <2>3. QED
    BY <1>1, <1>4, <1>5, <2>1, <2>2, CommitStepKeepsForm DEF Continue, Conclude, c
<1>6. /\ {0} \in SUBSET Nat /\ {e.position} \in SUBSET Nat
      /\ {e.position + 1} \in SUBSET Nat /\ {e.snapshot} \in SUBSET SessionRecord
      /\ {pushed} \in SUBSET SessionRecord /\ {} \in SUBSET SessionRecord
      /\ {} \in SUBSET Nat
  BY <1>2, <1>3
<1> HIDE DEF pushed
<1>7. ASSUME TakeOver(o) PROVE WellFormed'
  BY <1>2, <1>5, <1>6, <1>7 DEF TakeOver, Active
<1>8. ASSUME TakeOverToCancel(o) PROVE WellFormed'
  BY <1>5, <1>6, <1>8 DEF TakeOverToCancel, Terminal
<1>9. ASSUME EmitEvent(o) PROVE WellFormed'
  BY <1>5, <1>6, <1>9 DEF EmitEvent, Active
<1>10. ASSUME SaveProgress(o) PROVE WellFormed'
  BY <1>2, <1>5, <1>6, <1>10 DEF SaveProgress, Active
<1>11. ASSUME CompactInRun(o) PROVE WellFormed'
  BY <1>2, <1>5, <1>6, <1>11 DEF CompactInRun, Active
<1>12. ASSUME Pause(o) PROVE WellFormed'
  BY <1>2, <1>5, <1>6, <1>12 DEF Pause, Active
<1>13. ASSUME Complete(o) PROVE WellFormed'
  <2>1. Conclude(o, CommitOf(o, "completed", {0}, {pushed}, 1))
    BY <1>13 DEF Complete, pushed
  <2>2. QED
    BY <1>3, <1>5, <1>6, <2>1 DEF Terminal
<1>14. ASSUME NEW status \in {"failed", "cancelled"}, Abandon(o, status)
       PROVE  WellFormed'
  BY <1>5, <1>6, <1>14 DEF Abandon, Conclude, Terminal
<1>15. QED
  BY <1>7, <1>8, <1>9, <1>10, <1>11, <1>12, <1>13, <1>14

LEMMA EnvironmentKeepsForm ==
  ASSUME WellFormed, (\E R \in SUBSET Purgeable : Purge(R)) \/ Tick
  PROVE  WellFormed'
<1>1. ASSUME NEW R \in SUBSET Purgeable, Purge(R) PROVE WellFormed'
  <2>1. AbsentRun \in RunRecord /\ AbsentLease \in LeaseRecord
        /\ AbsentSession \in SessionRecord /\ <<>> \in Seq(Nat)
    BY DEF AbsentRun, RunRecord, AbsentLease, LeaseRecord, AbsentSession, SessionRecord
  <2>2. StoreTypeOK'
    BY <1>1, <2>1 DEF Purge, PurgeRuns, WellFormed, TypeOK, StoreTypeOK
  <2>3. StoredRunsAreWhole'
    BY <1>1 DEF Purge, PurgeRuns, WellFormed, StoredRunsAreWhole, AbsentRun
  <2>4. QED
    BY <1>1, <2>2, <2>3 DEF Purge, WellFormed, TypeOK, Engaged
<1>2. ASSUME Tick PROVE WellFormed'
  BY <1>2 DEF Tick, WellFormed, TypeOK, StoreTypeOK, Engaged, StoredRunsAreWhole
<1>3. QED
  BY <1>1, <1>2

LEMMA InitIsWellFormed == Init => WellFormed
<1>1. AbsentRun \in RunRecord /\ AbsentLease \in LeaseRecord
      /\ AbsentSession \in SessionRecord /\ <<>> \in Seq(Nat)
  BY DEF AbsentRun, RunRecord, AbsentLease, LeaseRecord, AbsentSession, SessionRecord
<1>2. Init => TypeOK
  BY <1>1, IdleIsWell DEF Init, StoreInit, TypeOK, StoreTypeOK
<1>3. Init => Engaged /\ StoredRunsAreWhole
  BY IdleIsWell DEF Init, StoreInit, Engaged, StoredRunsAreWhole, AbsentRun
<1>4. QED
  BY <1>2, <1>3 DEF WellFormed

LEMMA FormIsKept == WellFormed /\ [Next]_vars => WellFormed'
<1> SUFFICES ASSUME WellFormed, [Next]_vars PROVE WellFormed'
  OBVIOUS
<1>1. ASSUME NEW o \in Owners, Attempt(o) PROVE WellFormed'
  BY <1>1, PrepareKeepsForm, CreateKeepsForm, CompactionKeepsForm, LookupKeepsForm,
     LeaseKeepsForm, CommitsKeepForm DEF Attempt
<1>2. CASE UNCHANGED vars
  BY <1>2, StoreStays DEF vars, WellFormed, TypeOK, Engaged
<1>3. QED
  BY <1>1, <1>2, EnvironmentKeepsForm DEF Next

(* Every reachable state is well typed, every attempt that will still use  *)
(* a run or a session names one, and a stored run has a session.           *)
THEOREM RunsAreWellFormed == Spec => []WellFormed
  BY InitIsWellFormed, FormIsKept, PTL DEF Spec

(* In particular the store and every attempt are well typed.               *)
THEOREM RunsAreTyped == Spec => []TypeOK
<1>1. WellFormed => TypeOK
  BY DEF WellFormed
<1> QED BY <1>1, RunsAreWellFormed, PTL

-----------------------------------------------------------------------------
(* A session reserves at most one active run.                              *)

(* An attempt that moves from e to f without having read or written a run: *)
(* its view, if it still has one, is the view it had.                      *)
Carries(f, e) ==
  /\ f.run \in {e.run, NoRun}
  /\ f.phase = "creating" => e.phase = "creating" /\ f.run = e.run
  /\ f.phase \in Following =>
       /\ e.phase \in Following
       /\ f.run = e.run /\ f.session = e.session
       /\ f.revision = e.revision /\ f.status = e.status

LEMMA OthersStay ==
  ASSUME WellFormed, NEW o \in Owners, NEW f, Become(o, f)
  PROVE  exec'[o] = f /\ \A p \in Owners : p # o => exec'[p] = exec[p]
  BY DEF Become, WellFormed, TypeOK

LEMMA CarryingOn ==
  ASSUME ReservationInv, WellFormed', UNCHANGED <<run, minted>>,
         NEW o \in Owners, NEW f, Become(o, f), Carries(f, exec[o])
  PROVE  ReservationInv'
<1>1. exec'[o] = f /\ \A p \in Owners : p # o => exec'[p] = exec[p]
  BY OthersStay DEF ReservationInv
<1>2. OneActiveRunPerSession'
  BY DEF ReservationInv, OneActiveRunPerSession, Holds
<1>3. CreatedOnce'
  <2>1. \A p \in Owners : exec'[p].run \in {exec[p].run, NoRun}
    BY <1>1 DEF Carries
  <2>2. \A p \in Owners : exec'[p].phase = "creating" =>
          exec[p].phase = "creating" /\ exec'[p].run = exec[p].run
    BY <1>1 DEF Carries
  <2>3. \A p \in Owners : exec[p].phase = "creating" => exec[p].run \in Runs
    BY DEF ReservationInv, WellFormed, Engaged, IsEngaged
  <2>4. QED
    BY <2>1, <2>2, <2>3, ConstantsAssumption DEF ReservationInv, CreatedOnce
<1>4. ViewsAreAccurate'
  <2>1. \A p \in Owners : exec'[p].phase \in Following =>
          /\ exec[p].phase \in Following
          /\ exec'[p].run = exec[p].run /\ exec'[p].session = exec[p].session
          /\ exec'[p].revision = exec[p].revision /\ exec'[p].status = exec[p].status
    BY <1>1 DEF Carries
  <2>2. QED
    BY <2>1 DEF ReservationInv, ViewsAreAccurate
<1>5. QED
  BY <1>2, <1>3, <1>4 DEF ReservationInv

LEMMA WhatIsCarried ==
  ASSUME WellFormed, NEW o \in Owners
  PROVE  /\ Carries(Token(exec[o]), exec[o])
         /\ Carries(Retired(exec[o]), exec[o])
         /\ \A f \in ExecRecord : Carries(f, exec[o]) =>
              Carries(Token(f), exec[o]) /\ Carries(Retired(f), exec[o])
<1>1. \A f \in ExecRecord :
        /\ Token(f).phase = "releasing" /\ Token(f).run = f.run
        /\ Retired(f).phase = "done" /\ Retired(f).run \in {f.run, NoRun}
  BY DEF Token, Retired, IdleExec, ExecRecord
<1>2. \A f \in ExecRecord : f.run \in {exec[o].run, NoRun} =>
        Carries(Token(f), exec[o]) /\ Carries(Retired(f), exec[o])
  BY <1>1 DEF Carries, Following
<1>3. exec[o] \in ExecRecord
  BY AttemptOfType
<1>4. QED
  BY <1>2, <1>3 DEF Carries
-----------------------------------------------------------------------------
LEMMA PrepareKeepsReservation ==
  ASSUME ReservationInv, WellFormed', NEW o \in Owners,
         NEW r \in Runs, NEW s \in Sessions,
         PrepareNewSession(o, r, s) \/ PrepareKnownSession(o, r, s)
  PROVE  ReservationInv'
<1> DEFINE f == Prepared(r, s)
<1>1. /\ UNCHANGED run /\ r \notin minted
      /\ minted \subseteq minted' /\ r \in minted'
  BY DEF PrepareNewSession, PrepareKnownSession, storeVars
<1>2. /\ exec'[o] = f /\ (\A p \in Owners : p # o => exec'[p] = exec[p])
      /\ f.phase = "creating" /\ f.run = r
  BY OthersStay DEF PrepareNewSession, PrepareKnownSession, ReservationInv, Prepared,
                    IdleExec
<1>3. OneActiveRunPerSession'
  BY <1>1 DEF ReservationInv, OneActiveRunPerSession, Holds
<1>4. CreatedOnce'
  <2>1. run[r].status = "absent" /\ \A p \in Owners : exec[p].run # r
    BY <1>1 DEF ReservationInv, CreatedOnce
  <2>2. QED
    BY <1>1, <1>2, <2>1 DEF ReservationInv, CreatedOnce
<1>5. ViewsAreAccurate'
  BY <1>1, <1>2 DEF ReservationInv, ViewsAreAccurate, Following
<1>6. QED
  BY <1>3, <1>4, <1>5 DEF ReservationInv

LEMMA CreateKeepsReservation ==
  ASSUME ReservationInv, WellFormed', NEW o \in Owners, Create(o)
  PROVE  ReservationInv'
<1> DEFINE e == exec[o]
           born == [status |-> "running", revision |-> 1, session |-> e.session]
<1>1. /\ e \in ExecRecord /\ e.phase = "creating"
      /\ e.run \in Runs /\ e.session \in Sessions
  BY AttemptOfType DEF Create, In, IsEngaged, ReservationInv
<1>2. ASSUME Become(o, Retired(e)), UNCHANGED storeVars PROVE ReservationInv'
  BY <1>2, WhatIsCarried, CarryingOn DEF Create, storeVars, ReservationInv
<1>3. ASSUME NEW expires, NEW f, ~ SessionBusyExcept(e.session, {}),
             CreateExecution(e.run, e.session, e.snapshot, o, expires),
             Become(o, f), f.run \in {e.run, NoRun}, f.phase # "creating",
             f.phase \in Following =>
               /\ f.run = e.run /\ f.session = e.session
               /\ f.revision = 1 /\ f.status = "running"
      PROVE  ReservationInv'
  <2>1. run'[e.run] = born /\ \A r \in Runs : r # e.run => run'[r] = run[r]
    BY <1>1, <1>3 DEF CreateExecution, ReservationInv, WellFormed, TypeOK, StoreTypeOK
  <2>2. /\ exec'[o] = f /\ (\A p \in Owners : p # o => exec'[p] = exec[p])
        /\ minted' = minted
    BY <1>3, OthersStay DEF ReservationInv, Create
  <2>3. \A p \in Owners : p # o => exec[p].run # e.run
    BY <1>1 DEF ReservationInv, CreatedOnce
  <2>4. OneActiveRunPerSession'
    BY <1>3, <2>1 DEF ReservationInv, OneActiveRunPerSession, Holds, SessionBusyExcept
  <2>5. CreatedOnce'
    <3>1. e.run \in minted
      BY <1>1 DEF ReservationInv, CreatedOnce
    <3>2. \A p \in Owners : exec'[p].phase = "creating" => p # o
      BY <1>3, <2>2
    <3>3. \A p \in Owners : exec'[p].run \in {exec[p].run, NoRun}
      BY <1>3, <2>2
    <3>4. \A p \in Owners : exec[p].phase = "creating" => exec[p].run \in Runs
      BY DEF ReservationInv, WellFormed, Engaged, IsEngaged
    <3>5. QED
      BY <2>1, <2>2, <2>3, <3>1, <3>2, <3>3, <3>4, ConstantsAssumption
         DEF ReservationInv, CreatedOnce
  <2>6. ViewsAreAccurate'
    <3>1. ASSUME NEW p \in Owners, p # o, exec[p].phase \in Following
          PROVE  run'[exec[p].run] = run[exec[p].run]
      BY <2>1, <2>3, <3>1, FollowerIsWell DEF ReservationInv
    <3>2. f.phase \in Following => run'[f.run] = born /\ f.revision = 1
                                   /\ f.status = "running" /\ f.session = e.session
      BY <1>3, <2>1
    <3>3. QED
      BY <2>2, <3>1, <3>2 DEF ReservationInv, ViewsAreAccurate, Active
  <2>7. QED
    BY <2>4, <2>5, <2>6 DEF ReservationInv
<1>4. ASSUME ~ (Become(o, Retired(e)) /\ UNCHANGED storeVars) PROVE ReservationInv'
  <2>1. PICK expires : 
          /\ CreateAllowed(e.run, e.session, e.snapshot.revision)
          /\ CreateExecution(e.run, e.session, e.snapshot, o, expires)
          /\ \/ Become(o, [e EXCEPT !.phase = "owning", !.revision = 1,
                                    !.status = "running", !.position = 1, !.sequence = 1,
                                    !.generation = 1, !.expires = expires,
                                    !.snapshot = StoredSession(@)])
             \/ Become(o, Retired(e))
    BY <1>4 DEF Create
  <2> DEFINE f == [e EXCEPT !.phase = "owning", !.revision = 1,
                            !.status = "running", !.position = 1, !.sequence = 1, !.generation = 1, !.expires = expires,
                            !.snapshot = StoredSession(@)]
  <2>2. ~ SessionBusyExcept(e.session, {})
    BY <2>1 DEF CreateAllowed
  <2>3. f.run = e.run /\ f.session = e.session /\ f.phase = "owning" /\ f.revision = 1
        /\ f.status = "running"
    BY <1>1 DEF ExecRecord
  <2>4. CASE Become(o, Retired(e))
    <3>1. Retired(e).run \in {e.run, NoRun} /\ Retired(e).phase = "done"
      BY <1>1 DEF Retired, Token, IdleExec, ExecRecord
    <3>2. QED
      BY <2>1, <2>2, <2>4, <3>1, <1>3 DEF Following
  <2>5. CASE Become(o, f)
    BY <2>1, <2>2, <2>3, <2>5, <1>3 DEF Following
  <2>6. QED
    BY <2>1, <2>4, <2>5
<1>5. QED
  BY <1>2, <1>4

LEMMA LocateKeepsReservation ==
  ASSUME ReservationInv, WellFormed', NEW o \in Owners, NEW r \in Runs, Locate(o, r)
  PROVE  ReservationInv'
<1> DEFINE f == [IdleExec EXCEPT !.phase = "located", !.run = r,
                                 !.session = run[r].session,
                                 !.revision = run[r].revision,
                                 !.status = run[r].status]
<1>1. /\ exec'[o] = f /\ (\A p \in Owners : p # o => exec'[p] = exec[p])
      /\ f.phase = "located" /\ f.run = r /\ f.session = run[r].session
      /\ f.revision = run[r].revision /\ f.status = run[r].status
  BY OthersStay DEF Locate, ReservationInv, IdleExec
<1>2. run' = run /\ minted' = minted /\ run[r].status \in Active
  BY DEF Locate, storeVars
<1>3. run[r].status # "absent" /\ run[r].revision > 0
  BY <1>2 DEF ReservationInv, WellFormed, StoredRunsAreWhole, TypeOK, StoreTypeOK,
              RunRecord, Active
<1>4. OneActiveRunPerSession'
  BY <1>2 DEF ReservationInv, OneActiveRunPerSession, Holds
<1>5. CreatedOnce'
  <2>1. r \in minted /\ \A p \in Owners : exec[p].phase = "creating" => exec[p].run # r
    BY <1>3 DEF ReservationInv, CreatedOnce
  <2>2. exec'[o].phase # "creating" /\ exec'[o].run = r
    BY <1>1
  <2>3. \A p \in Owners : p # o => exec'[p] = exec[p]
    BY <1>1
  <2> HIDE DEF f
  <2>4. \A p \in Owners : exec'[p].run \in Runs => exec'[p].run \in minted'
    BY <1>2, <2>1, <2>2, <2>3 DEF ReservationInv, CreatedOnce
  <2>5. ASSUME NEW p \in Owners, exec'[p].phase = "creating"
        PROVE  /\ p # o /\ run'[exec'[p].run].status = "absent"
               /\ \A q \in Owners : q # p => exec'[q].run # exec'[p].run
    <3>1. p # o /\ exec'[p] = exec[p] /\ exec[p].run # r
      BY <2>1, <2>2, <2>3, <2>5
    <3>2. \A q \in Owners : q # p => exec[q].run # exec[p].run
      BY <2>5, <3>1 DEF ReservationInv, CreatedOnce
    <3>3. QED
      BY <1>2, <2>2, <2>3, <2>5, <3>1, <3>2 DEF ReservationInv, CreatedOnce
  <2>6. QED
    BY <1>2, <2>4, <2>5 DEF ReservationInv, CreatedOnce
<1>6. ViewsAreAccurate'
  <2>1. run[r].revision \in Nat
    BY DEF ReservationInv, WellFormed, TypeOK, StoreTypeOK, RunRecord
  <2>2. \A p \in Owners : p # o => exec'[p] = exec[p]
    BY <1>1
  <2>3. /\ exec'[o].run = r /\ exec'[o].session = run[r].session
        /\ exec'[o].revision = run[r].revision /\ exec'[o].status = run[r].status
    BY <1>1
  <2> HIDE DEF f
  <2>4. QED
    BY <1>2, <1>3, <2>1, <2>2, <2>3 DEF ReservationInv, ViewsAreAccurate
<1>7. QED
  BY <1>4, <1>5, <1>6 DEF ReservationInv

(* A commit that is applied was decided on the stored run: its author saw  *)
(* the run active at the stored revision.                                  *)
LEMMA CommitsAreInformed ==
  ASSUME ReservationInv, NEW o \in Owners, exec[o].phase \in Following,
         NEW c, c.run = exec[o].run, c.expectedRevision = exec[o].revision,
         CommitAllowed(c)
  PROVE  /\ run[c.run].status \in Active
         /\ run[c.run].session = exec[o].session
         /\ run[c.run].revision = exec[o].revision
  BY DEF ReservationInv, ViewsAreAccurate, CommitAllowed

LEMMA CommitKeepsReservation ==
  ASSUME ReservationInv, WellFormed', NEW o \in Owners,
         exec[o].phase \in Following,
         NEW c \in CommitRecord, c.run = exec[o].run,
         c.expectedRevision = exec[o].revision,
         CommitAllowed(c), CommitExecution(c), minted' = minted,
         NEW f, Become(o, f), f.run \in {c.run, NoRun}, f.phase # "creating",
         f.phase \in Following =>
           /\ f.run = c.run /\ f.session = exec[o].session /\ f.status \in Active
           /\ \/ f.revision = exec[o].revision
              \/ f.revision = exec[o].revision + 1 /\ f.status = c.status
  PROVE  ReservationInv'
<1> DEFINE r == c.run
           s == exec[o].session
           v == exec[o].revision
<1>1. /\ exec'[o] = f /\ \A p \in Owners : p # o => exec'[p] = exec[p]
  BY OthersStay DEF ReservationInv
<1>2. /\ run[r].status \in Active /\ run[r].session = s
      /\ run[r].revision = v /\ r \in Runs /\ s \in Sessions /\ v \in Nat /\ v > 0
  <2>1. r \in Runs /\ s \in Sessions /\ exec[o] \in ExecRecord
    BY FollowerIsWell DEF ReservationInv
  <2>2. v \in Nat /\ v > 0
    BY <2>1 DEF ExecRecord, ReservationInv, ViewsAreAccurate
  <2>3. QED
    BY <2>1, <2>2, CommitsAreInformed
<1>3. /\ run'[r].status = c.status /\ run'[r].revision = v + 1 /\ run'[r].session = s
      /\ \A q \in Runs : q # r => run'[q] = run[q]
  BY <1>2 DEF CommitExecution, CommitRecord, ReservationInv, WellFormed, TypeOK,
              StoreTypeOK, RunRecord
<1>4. c.status # "absent"
  BY DEF CommitRecord, Active, Terminal
<1>5. OneActiveRunPerSession'
  <2>1. \A q \in Runs, t \in Sessions : Holds(q, t)' => Holds(q, t)
    BY <1>2, <1>3 DEF Holds
  <2>2. QED
    BY <2>1 DEF ReservationInv, OneActiveRunPerSession, Holds
<1>6. CreatedOnce'
  <2>1. r \in minted /\ run[r].status # "absent"
    BY <1>2 DEF ReservationInv, CreatedOnce, Active
  <2>2. \A p \in Owners : exec[p].phase = "creating" =>
          exec[p].run \in Runs /\ exec[p].run # r /\ p # o
    BY <2>1 DEF ReservationInv, WellFormed, Engaged, IsEngaged, CreatedOnce, Following
  <2>3. \A p \in Owners : exec'[p].run \in {exec[p].run, NoRun}
    BY <1>1
  <2>4. \A p \in Owners : exec'[p].phase = "creating" => exec'[p] = exec[p]
    BY <1>1
  <2>5. QED
    BY <1>3, <2>1, <2>2, <2>3, <2>4, ConstantsAssumption DEF ReservationInv, CreatedOnce
<1>7. ViewsAreAccurate'
  <2>1. ASSUME NEW p \in Owners, p # o, exec[p].phase \in Following
        PROVE  LET stored == run'[exec[p].run] IN
               /\ exec[p].revision > 0 /\ exec[p].status \in Active
               /\ stored.status # "absent" => exec[p].revision <= stored.revision
               /\ stored.revision = exec[p].revision =>
                    stored.status = exec[p].status /\ stored.session = exec[p].session
    <3>1. exec[p].run \in Runs /\ exec[p].revision \in Nat
      BY <2>1, FollowerIsWell DEF ReservationInv, ExecRecord
    <3>2. CASE exec[p].run = r
      BY <1>2, <1>3, <2>1, <3>1, <3>2 DEF ReservationInv, ViewsAreAccurate, Active
    <3>3. CASE exec[p].run # r
      BY <1>3, <2>1, <3>1, <3>3 DEF ReservationInv, ViewsAreAccurate
    <3>4. QED
      BY <3>2, <3>3
  <2>2. f.phase \in Following =>
          LET stored == run'[f.run] IN
          /\ f.revision > 0 /\ f.status \in Active
          /\ stored.status # "absent" => f.revision <= stored.revision
          /\ stored.revision = f.revision =>
               stored.status = f.status /\ stored.session = f.session
    BY <1>2, <1>3
  <2>3. QED
    BY <1>1, <2>1, <2>2 DEF ViewsAreAccurate
<1>8. QED
  BY <1>5, <1>6, <1>7 DEF ReservationInv

LEMMA CommitStepKeepsReservation ==
  ASSUME ReservationInv, WellFormed', NEW o \in Owners,
         exec[o].phase \in Following,
         NEW c \in CommitRecord, c.run = exec[o].run,
         c.expectedRevision = exec[o].revision,
         NEW a, NEW u, NEW t, CommitStep(o, c, a, u, t),
         a = Token(exec[o]) \/ (a = Answered(o, c) /\ c.status \in Active),
         u \in {Token(exec[o]), Retired(exec[o])},
         t \in {Thrown(o, c), Token(exec[o]), Retired(exec[o])}
  PROVE  ReservationInv'
<1> DEFINE e == exec[o]
<1>1. e \in ExecRecord /\ e.run \in Runs
  BY FollowerIsWell DEF ReservationInv
<1>2. e.status \in Active
  BY DEF ReservationInv, ViewsAreAccurate
<1>3. /\ Answered(o, c).phase = "owning" /\ Answered(o, c).run = e.run
      /\ Answered(o, c).session = e.session
      /\ Answered(o, c).revision = e.revision + 1 /\ Answered(o, c).status = c.status
  BY <1>1 DEF Answered, ExecRecord
<1>4. /\ Thrown(o, c).phase = "owning" /\ Thrown(o, c).run = e.run
      /\ Thrown(o, c).session = e.session
      /\ Thrown(o, c).revision = e.revision /\ Thrown(o, c).status = e.status
  BY <1>1 DEF Thrown, ExecRecord
<1>5. /\ Token(e).phase = "releasing" /\ Token(e).run = e.run
      /\ Retired(e).phase = "done" /\ Retired(e).run \in {e.run, NoRun}
  BY <1>1 DEF Token, Retired, IdleExec, ExecRecord
<1>6. minted' = minted
  BY DEF CommitStep
<1>7. ASSUME CommitAllowed(c), CommitExecution(c), Become(o, a) \/ Become(o, t)
      PROVE  ReservationInv'
  <2>1. ASSUME NEW f \in {Token(e), Retired(e)}, Become(o, f) PROVE ReservationInv'
    <3>1. f.phase \notin Following /\ f.phase # "creating" /\ f.run \in {c.run, NoRun}
      BY <1>5 DEF Following
    <3>2. QED
      BY <1>6, <1>7, <2>1, <3>1, CommitKeepsReservation
  <2>2. ASSUME Become(o, Thrown(o, c)) PROVE ReservationInv'
    <3>1. Thrown(o, c).run = c.run /\ Thrown(o, c).phase # "creating"
      BY <1>4
    <3>2. QED
      BY <1>2, <1>4, <1>6, <1>7, <2>2, <3>1, CommitKeepsReservation
  <2>3. ASSUME Become(o, Answered(o, c)), c.status \in Active PROVE ReservationInv'
    <3>1. Answered(o, c).run = c.run /\ Answered(o, c).phase # "creating"
      BY <1>3
    <3>2. QED
      BY <1>3, <1>6, <1>7, <2>3, <3>1, CommitKeepsReservation
  <2>4. QED
    BY <1>7, <2>1, <2>2, <2>3
<1>8. ASSUME UNCHANGED storeVars, Become(o, t) \/ Become(o, u)
      PROVE  ReservationInv'
  <2>1. Carries(Token(e), e) /\ Carries(Retired(e), e) /\ Carries(Thrown(o, c), e)
    BY <1>4, WhatIsCarried DEF Carries, ReservationInv, Following
  <2>2. QED
    BY <1>6, <1>8, <2>1, CarryingOn DEF storeVars
<1>9. QED
  BY <1>7, <1>8 DEF CommitStep

LEMMA CommitsKeepReservation ==
  ASSUME ReservationInv, WellFormed', NEW o \in Owners,
         \/ TakeOver(o) \/ TakeOverToCancel(o) \/ EmitEvent(o) \/ SaveProgress(o)
         \/ CompactInRun(o) \/ Pause(o) \/ Complete(o)
         \/ \E status \in {"failed", "cancelled"} : Abandon(o, status)
  PROVE  ReservationInv'
<1> DEFINE e == exec[o]
           pushed == [e.snapshot EXCEPT !.history = @ \cup {e.run}]
<1>1. /\ e.phase \in Following /\ e \in ExecRecord /\ e.run \in Runs
  BY FollowerIsWell
     DEF TakeOver, TakeOverToCancel, EmitEvent, SaveProgress, CompactInRun, Pause,
         Complete, Abandon, In, Following, ReservationInv
<1>2. e.position \in Nat /\ e.position + 1 \in Nat /\ e.snapshot \in SessionRecord
  BY <1>1 DEF ExecRecord
<1>3. pushed \in SessionRecord
  BY <1>1, <1>2 DEF SessionRecord
<1>4. ASSUME NEW status \in Active \cup Terminal, NEW position \in SUBSET Nat,
             NEW withSession \in SUBSET SessionRecord, NEW n \in {0, 1},
             LET c == CommitOf(o, status, position, withSession, n) IN
             \/ Continue(o, c) /\ status \in Active
             \/ Conclude(o, c)
             \/ /\ CommitStep(o, c, Answered(o, c), Token(e), Token(e))
                /\ status \in Active
             \/ CommitStep(o, c, Token(e), Retired(e), Retired(e))
      PROVE  ReservationInv'
  <2> DEFINE c == CommitOf(o, status, position, withSession, n)
  <2>1. c \in CommitRecord
    BY <1>1, CommitOfType DEF ReservationInv
  <2>2. c.run = e.run /\ c.expectedRevision = e.revision /\ c.status = status
    BY DEF CommitOf
  <2> HIDE DEF c
  <2>3. QED
    BY <1>1, <1>4, <2>1, <2>2, CommitStepKeepsReservation DEF Continue, Conclude, c
<1>5. /\ {0} \in SUBSET Nat /\ {e.position} \in SUBSET Nat
      /\ {e.position + 1} \in SUBSET Nat /\ {e.snapshot} \in SUBSET SessionRecord
      /\ {pushed} \in SUBSET SessionRecord /\ {} \in SUBSET SessionRecord
      /\ {} \in SUBSET Nat
  BY <1>2, <1>3
<1> HIDE DEF pushed
<1>6. ASSUME TakeOver(o) PROVE ReservationInv'
  BY <1>2, <1>4, <1>5, <1>6 DEF TakeOver, Active
<1>7. ASSUME TakeOverToCancel(o) PROVE ReservationInv'
  BY <1>4, <1>5, <1>7 DEF TakeOverToCancel, Terminal
<1>8. ASSUME EmitEvent(o) PROVE ReservationInv'
  BY <1>4, <1>5, <1>8 DEF EmitEvent, Active
<1>9. ASSUME SaveProgress(o) PROVE ReservationInv'
  BY <1>2, <1>4, <1>5, <1>9 DEF SaveProgress, Active
<1>10. ASSUME CompactInRun(o) PROVE ReservationInv'
  BY <1>2, <1>4, <1>5, <1>10 DEF CompactInRun, Active
<1>11. ASSUME Pause(o) PROVE ReservationInv'
  BY <1>2, <1>4, <1>5, <1>11 DEF Pause, Active
<1>12. ASSUME Complete(o) PROVE ReservationInv'
  <2>1. Conclude(o, CommitOf(o, "completed", {0}, {pushed}, 1))
    BY <1>12 DEF Complete, pushed
  <2>2. QED
    BY <1>3, <1>4, <1>5, <2>1 DEF Terminal
<1>13. ASSUME NEW status \in {"failed", "cancelled"}, Abandon(o, status)
       PROVE  ReservationInv'
  BY <1>4, <1>5, <1>13 DEF Abandon, Conclude, Terminal
<1>14. QED
  BY <1>6, <1>7, <1>8, <1>9, <1>10, <1>11, <1>12, <1>13

LEMMA AttemptsKeepReservation ==
  ASSUME ReservationInv, WellFormed', NEW o \in Owners, Attempt(o)
  PROVE  ReservationInv'
<1> DEFINE e == exec[o]
<1>1. e \in ExecRecord /\ Carries(Retired(e), e) /\ Carries(Token(e), e)
  BY AttemptOfType, WhatIsCarried DEF ReservationInv
<1>2. ASSUME NEW r \in Runs, NEW s \in Sessions,
             PrepareNewSession(o, r, s) \/ PrepareKnownSession(o, r, s)
      PROVE  ReservationInv'
  BY <1>2, PrepareKeepsReservation
<1>3. ASSUME Create(o) PROVE ReservationInv'
  BY <1>3, CreateKeepsReservation
<1>4. ASSUME NEW r \in Runs, Locate(o, r) PROVE ReservationInv'
  BY <1>4, LocateKeepsReservation
<1>5. ASSUME NEW s \in Sessions, ReadForCompaction(o, s) PROVE ReservationInv'
  <2> DEFINE f == [IdleExec EXCEPT !.phase = "compacting", !.session = s,
                                   !.snapshot = session[s]]
  <2>1. Carries(f, e)
    BY DEF Carries, IdleExec, Following
  <2>2. QED
    BY <1>5, <2>1, CarryingOn DEF ReadForCompaction, storeVars
<1>6. ASSUME SaveCompaction(o) PROVE ReservationInv'
  BY <1>1, <1>6, CarryingOn DEF SaveCompaction, SaveSession, storeVars
<1>7. ASSUME ReadCheckpoint(o) PROVE ReservationInv'
  <2> DEFINE f == [e EXCEPT !.phase = "checked", !.position = checkpoint[e.run]]
  <2>1. Carries(f, e)
    BY <1>1, <1>7 DEF ReadCheckpoint, In, Carries, ExecRecord, Following
  <2>2. Become(o, f) \/ Become(o, Retired(e))
    BY <1>7 DEF ReadCheckpoint
  <2>3. QED
    BY <1>1, <1>7, <2>1, <2>2, CarryingOn DEF ReadCheckpoint, storeVars
<1>8. ASSUME ReadSession(o) PROVE ReservationInv'
  <2> DEFINE f == [e EXCEPT !.phase = "contending", !.snapshot = session[e.session],
                            !.expires = now + LeaseTerm]
  <2>1. Carries(f, e)
    BY <1>1, <1>8 DEF ReadSession, In, Carries, ExecRecord, Following
  <2>2. Become(o, f) \/ Become(o, Retired(e))
    BY <1>8 DEF ReadSession
  <2>3. QED
    BY <1>1, <1>8, <2>1, <2>2, CarryingOn DEF ReadSession, storeVars
<1>9. ASSUME LocateToCancel(o) PROVE ReservationInv'
  <2> DEFINE f == [e EXCEPT !.phase = "contending", !.cancels = TRUE,
                            !.expires = now + LeaseTerm]
  <2>1. Carries(f, e)
    BY <1>1, <1>9 DEF LocateToCancel, In, Carries, ExecRecord, Following
  <2>2. QED
    BY <1>9, <2>1, CarryingOn DEF LocateToCancel, storeVars
<1>10. ASSUME Acquire(o) PROVE ReservationInv'
  <2> DEFINE f == [e EXCEPT !.phase = "leased",
                            !.generation = lease[e.run].generation + 1]
  <2>1. Carries(f, e)
    BY <1>1, <1>10 DEF Acquire, In, Carries, ExecRecord, Following
  <2>2. UNCHANGED <<run, minted>> /\ (Become(o, f) \/ Become(o, Retired(e)))
    BY <1>10 DEF Acquire, AcquireLease, storeVars
  <2>3. QED
    BY <1>1, <2>1, <2>2, CarryingOn
<1>11. ASSUME ReadEvents(o) PROVE ReservationInv'
  <2> DEFINE last == IF events[e.run] = <<>> THEN 0
                     ELSE events[e.run][Len(events[e.run])]
             f == [e EXCEPT !.phase = "caughtUp", !.sequence = last]
  <2>1. Become(o, f)
    BY <1>11 DEF ReadEvents
  <2> HIDE DEF last
  <2>2. Carries(f, e)
    BY <1>1, <1>11 DEF ReadEvents, In, Carries, ExecRecord, Following
  <2>3. QED
    BY <1>11, <2>1, <2>2, CarryingOn DEF ReadEvents, storeVars
<1>12. ASSUME \/ TakeOver(o) \/ TakeOverToCancel(o) \/ EmitEvent(o) \/ SaveProgress(o)
              \/ CompactInRun(o) \/ Pause(o) \/ Complete(o)
              \/ \E status \in {"failed", "cancelled"} : Abandon(o, status)
       PROVE  ReservationInv'
  BY <1>12, CommitsKeepReservation
<1>13. ASSUME IssueRenewal(o) PROVE ReservationInv'
  <2> DEFINE f == [e EXCEPT !.renewal = now + LeaseTerm]
  <2>1. Carries(f, e)
    BY <1>1 DEF Carries, ExecRecord
  <2>2. QED
    BY <1>13, <2>1, CarryingOn DEF IssueRenewal, storeVars
<1>14. ASSUME ApplyRenewal(o) PROVE ReservationInv'
  <2> DEFINE f == [e EXCEPT !.renewal = 0]
             g == [f EXCEPT !.expires = e.renewal]
  <2>1. f \in ExecRecord /\ Carries(f, e) /\ Carries(g, e)
    BY <1>1 DEF Carries, ExecRecord
  <2>2. Carries(Retired(f), e) /\ Carries(Token(f), e)
    BY <2>1, WhatIsCarried DEF ReservationInv
  <2>3. Become(o, f) \/ Become(o, g) \/ Become(o, Retired(f)) \/ Become(o, Token(f))
    BY <1>14 DEF ApplyRenewal
  <2>4. UNCHANGED <<run, minted>>
    BY <1>14 DEF ApplyRenewal, RenewLease, storeVars
  <2>5. QED
    BY <2>1, <2>2, <2>3, <2>4, CarryingOn
<1>15. ASSUME LoseLease(o) \/ Release(o) \/ Crash(o) PROVE ReservationInv'
  <2>1. UNCHANGED <<run, minted>>
    BY <1>15 DEF LoseLease, Release, ReleaseLease, Crash, storeVars
  <2>2. Become(o, Token(e)) \/ Become(o, Retired(e))
    BY <1>15 DEF LoseLease, Release, Crash
  <2>3. QED
    BY <1>1, <2>1, <2>2, CarryingOn
<1>16. QED
  BY <1>2, <1>3, <1>4, <1>5, <1>6, <1>7, <1>8, <1>9, <1>10, <1>11, <1>12, <1>13,
     <1>14, <1>15 DEF Attempt

LEMMA EnvironmentKeepsReservation ==
  ASSUME ReservationInv, WellFormed',
         (\E R \in SUBSET Purgeable : Purge(R)) \/ Tick
  PROVE  ReservationInv'
<1>1. UNCHANGED <<exec, minted>>
  BY DEF Purge, Tick
<1>2. \A r \in Runs : run'[r] = run[r] \/ run'[r] = AbsentRun
  BY DEF Purge, PurgeRuns, Tick
<1>3. OneActiveRunPerSession'
  BY <1>2 DEF ReservationInv, OneActiveRunPerSession, Holds, AbsentRun, Active
<1>4. CreatedOnce'
  <2>1. \A o \in Owners : exec[o].phase = "creating" => exec[o].run \in Runs
    BY DEF ReservationInv, WellFormed, Engaged, IsEngaged
  <2>2. QED
    BY <1>1, <1>2, <2>1 DEF ReservationInv, CreatedOnce, AbsentRun
<1>5. ViewsAreAccurate'
  <2>1. \A o \in Owners : exec[o].phase \in Following =>
          exec[o].run \in Runs /\ exec[o].revision \in Nat
    BY FollowerIsWell DEF ReservationInv, ExecRecord
  <2>2. QED
    BY <1>1, <1>2, <2>1 DEF ReservationInv, ViewsAreAccurate, AbsentRun
<1>6. QED
  BY <1>3, <1>4, <1>5 DEF ReservationInv

(* The step of the invariant, for the theorems below. *)
LEMMA ReservationIsKept == ReservationInv /\ [Next]_vars => ReservationInv'
<1> SUFFICES ASSUME ReservationInv, [Next]_vars PROVE ReservationInv'
  OBVIOUS
<1>1. WellFormed'
  BY FormIsKept DEF ReservationInv
<1>2. CASE UNCHANGED vars
  BY <1>1, <1>2 DEF vars, storeVars, ReservationInv, CreatedOnce, ViewsAreAccurate,
                    OneActiveRunPerSession, Holds
<1>3. QED
  BY <1>1, <1>2, AttemptsKeepReservation, EnvironmentKeepsReservation DEF Next

LEMMA InitReserves == Init => ReservationInv
<1>1. Init => WellFormed
  BY InitIsWellFormed
<1>2. Init => CreatedOnce
  BY ConstantsAssumption DEF Init, StoreInit, CreatedOnce, IdleExec, AbsentRun
<1>3. Init => ViewsAreAccurate
  BY DEF Init, ViewsAreAccurate, IdleExec, Following
<1>4. Init => OneActiveRunPerSession
  BY DEF Init, StoreInit, OneActiveRunPerSession, Holds, AbsentRun, Active
<1> QED BY <1>1, <1>2, <1>3, <1>4 DEF ReservationInv

LEMMA ReservationIsInvariant == Spec => []ReservationInv
  BY InitReserves, ReservationIsKept, PTL DEF Spec

(* A session reserves at most one running or paused run at any time.       *)
THEOREM SessionsAreExclusive == Spec => []OneActiveRunPerSession
<1>1. ReservationInv => OneActiveRunPerSession
  BY DEF ReservationInv
<1>2. QED
  BY <1>1, ReservationIsInvariant, PTL

LEMMA CommitsSpareTerminalRuns ==
  ASSUME ReservationInv, NEW o \in Owners, exec[o].phase \in Following,
         NEW c, c.run = exec[o].run, c.expectedRevision = exec[o].revision,
         NEW a, NEW u, NEW t, CommitStep(o, c, a, u, t),
         NEW r \in Runs, run[r].status \in Terminal
  PROVE  run'[r] = run[r]
<1>1. CASE UNCHANGED storeVars
  BY <1>1 DEF storeVars
<1>2. CASE CommitAllowed(c) /\ CommitExecution(c)
  <2>1. c.run # r
    BY <1>2, CommitsAreInformed DEF Active, Terminal
  <2>2. QED
    BY <1>2, <2>1 DEF CommitExecution, ReservationInv, WellFormed, TypeOK, StoreTypeOK
<1>3. QED
  BY <1>1, <1>2 DEF CommitStep

(* A run that completed, failed or was cancelled keeps its record until it *)
(* is purged, whatever late commit, takeover or cancellation arrives.      *)
THEOREM TerminalRunsAreFinal == Spec => TerminalIsFinal
<1>1. ASSUME ReservationInv, [Next]_vars, NEW r \in Runs, run[r].status \in Terminal
      PROVE  run'[r] \in {run[r], AbsentRun}
  <2>1. ASSUME NEW o \in Owners, Attempt(o) PROVE run'[r] = run[r]
    <3> DEFINE e == exec[o]
    <3>1. CASE UNCHANGED run
      BY <3>1
    <3>2. ASSUME Create(o) PROVE run'[r] = run[r]
      <4>1. e.run # r
        BY <1>1, <3>2 DEF Create, In, ReservationInv, CreatedOnce, Terminal
      <4>2. \/ UNCHANGED run
            \/ \E expires : CreateExecution(e.run, e.session, e.snapshot, o, expires)
        BY <3>2 DEF Create, storeVars
      <4>3. CASE \E expires : CreateExecution(e.run, e.session, e.snapshot, o, expires)
        <5>1. \E born : run' = [run EXCEPT ![e.run] = born]
          BY <4>3 DEF CreateExecution
        <5>2. QED
          BY <4>1, <5>1 DEF ReservationInv, WellFormed, TypeOK, StoreTypeOK
      <4>4. QED
        BY <4>2, <4>3
    <3>3. ASSUME \/ TakeOver(o) \/ TakeOverToCancel(o) \/ EmitEvent(o)
                 \/ SaveProgress(o) \/ CompactInRun(o) \/ Pause(o) \/ Complete(o)
                 \/ \E status \in {"failed", "cancelled"} : Abandon(o, status)
          PROVE  run'[r] = run[r]
      <4>1. e.phase \in Following
        BY <3>3 DEF TakeOver, TakeOverToCancel, EmitEvent, SaveProgress, CompactInRun,
                    Pause, Complete, Abandon, In, Following
      <4>2. ASSUME NEW status, NEW position, NEW withSession, NEW n,
                   LET c == CommitOf(o, status, position, withSession, n) IN
                   \/ Continue(o, c) \/ Conclude(o, c)
                   \/ \E a, u, t : CommitStep(o, c, a, u, t)
            PROVE  run'[r] = run[r]
        <5> DEFINE c == CommitOf(o, status, position, withSession, n)
        <5>1. c.run = e.run /\ c.expectedRevision = e.revision
          BY DEF CommitOf
        <5> HIDE DEF c
        <5>2. PICK a, u, t : CommitStep(o, c, a, u, t)
          BY <4>2 DEF Continue, Conclude, c
        <5>3. QED
          BY <1>1, <4>1, <5>1, <5>2, CommitsSpareTerminalRuns
      <4>3. CASE TakeOver(o)
        BY <4>2, <4>3 DEF TakeOver
      <4>4. CASE TakeOverToCancel(o)
        BY <4>2, <4>4 DEF TakeOverToCancel
      <4>5. CASE EmitEvent(o) \/ SaveProgress(o) \/ CompactInRun(o)
        BY <4>2, <4>5 DEF EmitEvent, SaveProgress, CompactInRun
      <4>6. CASE Pause(o) \/ Complete(o)
        BY <4>2, <4>6 DEF Pause, Complete
      <4>7. ASSUME NEW status, Abandon(o, status) PROVE run'[r] = run[r]
        <5>1. \E a, u, t : CommitStep(o, CommitOf(o, status, {0}, {}, 1), a, u, t)
          BY <4>7 DEF Abandon
        <5>2. QED
          BY <4>2, <5>1
      <4>8. QED
        BY <3>3, <4>3, <4>4, <4>5, <4>6, <4>7
    <3>4. CASE \/ \E q \in Runs, s \in Sessions :
                    PrepareNewSession(o, q, s) \/ PrepareKnownSession(o, q, s)
               \/ \E s \in Sessions : ReadForCompaction(o, s)
               \/ SaveCompaction(o)
               \/ \E q \in Runs : Locate(o, q)
               \/ ReadCheckpoint(o) \/ ReadSession(o) \/ LocateToCancel(o)
               \/ Acquire(o) \/ ReadEvents(o)
               \/ IssueRenewal(o) \/ ApplyRenewal(o) \/ LoseLease(o)
               \/ Release(o) \/ Crash(o)
      <4>1. UNCHANGED run
        BY <3>4 DEF PrepareNewSession, PrepareKnownSession, ReadForCompaction,
                    SaveCompaction, SaveSession, Locate, ReadCheckpoint, ReadSession,
                    LocateToCancel, Acquire, AcquireLease, ReadEvents, IssueRenewal,
                    ApplyRenewal, RenewLease, LoseLease, Release, ReleaseLease, Crash,
                    storeVars
      <4>2. QED
        BY <4>1
    <3>5. QED
      BY <2>1, <3>2, <3>3, <3>4 DEF Attempt
  <2>2. ASSUME NEW R \in SUBSET Purgeable, Purge(R) PROVE run'[r] \in {run[r], AbsentRun}
    BY <2>2 DEF Purge, PurgeRuns
  <2>3. CASE UNCHANGED run
    BY <2>3
  <2>4. QED
    BY <1>1, <2>1, <2>2, <2>3 DEF Next, Tick, vars, storeVars
<1>2. ReservationInv /\ [Next]_vars =>
        [\A r \in Runs : run[r].status \in Terminal => run'[r] \in {run[r], AbsentRun}]_vars
  BY <1>1
<1>3. QED
  BY <1>2, ReservationIsInvariant, PTL DEF Spec, TerminalIsFinal

-----------------------------------------------------------------------------
(***************************************************************************)
(* No interaction is lost: the history of a session is the completed runs  *)
(* of the session, whatever stale snapshots starts, takeovers, completions *)
(* and rewrites of the history use.  And the attempts implement the        *)
(* reservation of sessions.                                                *)
(***************************************************************************)
(* The part of the invariant that is about what attempts have read.        *)
SnapshotInv == SessionsAreWhole /\ SnapshotsAreAccurate /\ NewSessionsAreUnshared

(* What a snapshot must say of the stored session.                         *)
Reads(e, stored) ==
  /\ stored.revision # 0 => e.snapshot.revision <= stored.revision
  /\ stored.revision = e.snapshot.revision => stored.history = e.snapshot.history
  /\ e.snapshot.revision = 0 => e.phase = "creating" /\ stored.revision = 0

(* An attempt goes on with the snapshot it had, or without one.            *)
KeepsSnapshot(f, e) ==
  HasSnapshot(f) => /\ HasSnapshot(e) /\ (f.phase = "creating" <=> e.phase = "creating")
                    /\ f.session = e.session /\ f.snapshot = e.snapshot

LEMMA SessionOfReader ==
  ASSUME WellFormed, NEW o \in Owners, HasSnapshot(exec[o])
  PROVE  /\ exec[o] \in ExecRecord /\ exec[o].session \in Sessions
         /\ exec[o].snapshot \in SessionRecord
         /\ session[exec[o].session] \in SessionRecord
<1>1. exec[o] \in ExecRecord /\ exec[o].session \in Sessions
  BY AttemptOfType DEF HasSnapshot, IsEngaged, Following
<1> QED BY <1>1 DEF ExecRecord, WellFormed, TypeOK, StoreTypeOK

(* The sessions are as they were, one attempt moved.                       *)
LEMMA ReaderMoves ==
  ASSUME WellFormed, SnapshotInv, UNCHANGED session, minted \subseteq minted',
         NEW o \in Owners, NEW f, Become(o, f),
         HasSnapshot(f) => /\ f.session \in minted' /\ Reads(f, session[f.session])
                           /\ \A p \in Owners : 
                                p # o /\ HasSnapshot(exec[p]) /\ exec[p].session = f.session
                                => f.snapshot.revision # 0 /\ exec[p].snapshot.revision # 0
  PROVE  SnapshotInv'
<1>1. exec'[o] = f /\ \A p \in Owners : p # o => exec'[p] = exec[p]
  BY OthersStay
<1>2. SessionsAreWhole'
  BY DEF SnapshotInv, SessionsAreWhole
<1>3. SnapshotsAreAccurate'
  BY <1>1 DEF SnapshotInv, SnapshotsAreAccurate, HasSnapshot, Reads, In
<1>4. NewSessionsAreUnshared'
  BY <1>1 DEF SnapshotInv, NewSessionsAreUnshared, HasSnapshot
<1> QED BY <1>2, <1>3, <1>4 DEF SnapshotInv

LEMMA ReaderCarriesOn ==
  ASSUME WellFormed, SnapshotInv, UNCHANGED <<session, minted>>,
         NEW o \in Owners, NEW f, Become(o, f), KeepsSnapshot(f, exec[o])
  PROVE  SnapshotInv'
<1>1. HasSnapshot(f) =>
        /\ f.session \in minted' /\ Reads(f, session[f.session])
        /\ \A p \in Owners : p # o /\ HasSnapshot(exec[p]) /\ exec[p].session = f.session
             => f.snapshot.revision # 0 /\ exec[p].snapshot.revision # 0
  BY DEF KeepsSnapshot, SnapshotInv, SnapshotsAreAccurate, NewSessionsAreUnshared, Reads, In
<1> QED BY <1>1, ReaderMoves

(* An attempt reads a stored session.                                      *)
LEMMA ReaderReads ==
  ASSUME WellFormed, SnapshotInv, UNCHANGED <<session, minted>>,
         NEW o \in Owners, NEW f, Become(o, f),
         f.session \in Sessions, session[f.session].revision # 0,
         f.snapshot = session[f.session]
  PROVE  SnapshotInv'
<1>1. f.session \in minted
  BY DEF SnapshotInv, SessionsAreWhole
<1>2. session[f.session].revision \in Nat
  BY DEF WellFormed, TypeOK, StoreTypeOK, SessionRecord
<1>3. Reads(f, session[f.session])
  BY <1>2 DEF Reads
<1>4. \A p \in Owners : HasSnapshot(exec[p]) /\ exec[p].session = f.session
        => exec[p].snapshot.revision # 0
  BY DEF SnapshotInv, SnapshotsAreAccurate
<1> QED BY <1>1, <1>3, <1>4, ReaderMoves

(* A session is written by an attempt whose snapshot is the stored one.    *)
LEMMA ReaderWrites ==
  ASSUME WellFormed, SnapshotInv, minted' = minted,
         NEW o \in Owners, HasSnapshot(exec[o]), NEW f, Become(o, f),
         NEW history,
         session' = [session EXCEPT ![exec[o].session] =
                       [revision |-> exec[o].snapshot.revision + 1, history |-> history]],
         session[exec[o].session].revision = exec[o].snapshot.revision,
         HasSnapshot(f) =>
           /\ f.session = exec[o].session
           /\ \/ f.snapshot = session'[exec[o].session]
              \/ f.snapshot = exec[o].snapshot /\ exec[o].phase # "creating"
  PROVE  SnapshotInv'
<1> DEFINE e == exec[o]
           s == e.session
           v == e.snapshot.revision
<1>1. /\ e \in ExecRecord /\ s \in Sessions /\ e.snapshot \in SessionRecord /\ v \in Nat
  BY SessionOfReader DEF SessionRecord
<1>2. exec'[o] = f /\ \A p \in Owners : p # o => exec'[p] = exec[p]
  BY OthersStay
<1>3. /\ session'[s].revision = v + 1
      /\ \A t \in Sessions : t # s => session'[t] = session[t]
  BY <1>1 DEF WellFormed, TypeOK, StoreTypeOK
<1>4. s \in minted
  BY DEF SnapshotInv, SnapshotsAreAccurate
<1>5. SessionsAreWhole'
  BY <1>1, <1>3, <1>4 DEF SnapshotInv, SessionsAreWhole
<1>6. ASSUME NEW p \in Owners, p # o, HasSnapshot(exec[p])
      PROVE  /\ Reads(exec[p], session'[exec[p].session])
             /\ exec[p].session = s => exec[p].snapshot.revision # 0
  <2>1. /\ exec[p].session \in Sessions /\ exec[p].snapshot.revision \in Nat
        /\ session[exec[p].session].revision \in Nat
    BY <1>6, SessionOfReader DEF SessionRecord
  <2>2. CASE exec[p].session = s
    <3>1. v # 0 /\ exec[p].snapshot.revision # 0
      BY <1>6, <2>2 DEF SnapshotInv, NewSessionsAreUnshared
    <3>2. exec[p].snapshot.revision <= v
      BY <1>6, <2>2, <3>1 DEF SnapshotInv, SnapshotsAreAccurate
    <3> QED BY <1>1, <1>3, <2>1, <2>2, <3>1, <3>2 DEF Reads
  <2>3. CASE exec[p].session # s
    BY <1>3, <1>6, <2>1, <2>3 DEF SnapshotInv, SnapshotsAreAccurate, Reads, In
  <2> QED BY <2>2, <2>3
<1>7. HasSnapshot(f) => Reads(f, session'[s]) /\ f.session = s /\ f.snapshot.revision # 0
  <2>1. f.snapshot = session'[s] => Reads(f, session'[s]) /\ f.snapshot.revision # 0
    BY <1>1, <1>3 DEF Reads
  <2>2. f.snapshot = e.snapshot /\ e.phase # "creating" =>
          Reads(f, session'[s]) /\ f.snapshot.revision # 0
    BY <1>1, <1>3 DEF Reads, SnapshotInv, SnapshotsAreAccurate, In
  <2> QED BY <2>1, <2>2
<1>8. SnapshotsAreAccurate'
  <2>1. ASSUME NEW p \in Owners, HasSnapshot(exec'[p])
        PROVE  exec'[p].session \in minted /\ Reads(exec'[p], session'[exec'[p].session])
    BY <1>2, <1>4, <1>6, <1>7, <2>1 DEF SnapshotInv, SnapshotsAreAccurate
  <2> QED BY <2>1 DEF SnapshotsAreAccurate, HasSnapshot, Reads, In
<1>9. NewSessionsAreUnshared'
  <2>1. ASSUME NEW p \in Owners, NEW q \in Owners, p # q,
               exec'[p].session = exec'[q].session,
               HasSnapshot(exec'[p]), HasSnapshot(exec'[q])
        PROVE  exec'[p].snapshot.revision # 0
    <3>1. CASE p = o
      BY <1>2, <1>7, <2>1, <3>1
    <3>2. CASE q = o
      BY <1>2, <1>6, <1>7, <2>1, <3>2
    <3>3. CASE p # o /\ q # o
      BY <1>2, <2>1, <3>3 DEF SnapshotInv, NewSessionsAreUnshared
    <3> QED BY <3>1, <3>2, <3>3
  <2> QED BY <2>1 DEF NewSessionsAreUnshared, HasSnapshot
<1> QED BY <1>5, <1>8, <1>9 DEF SnapshotInv

-----------------------------------------------------------------------------
LEMMA IdlersHaveNoSnapshot ==
  ASSUME NEW e \in ExecRecord
  PROVE  ~HasSnapshot(Token(e)) /\ ~HasSnapshot(Retired(e))
<1>1. Token(e).phase = "releasing"
  BY DEF Token, IdleExec
<1>2. Retired(e).phase = "done"
  BY DEF Retired, Token, IdleExec
<1> QED BY <1>1, <1>2 DEF HasSnapshot

(* A start reads the session it is for, stored or newly named.             *)
LEMMA PrepareKeepsSnapshots ==
  ASSUME WellFormed, SnapshotInv, NEW o \in Owners, NEW r \in Runs, NEW s \in Sessions,
         PrepareNewSession(o, r, s) \/ PrepareKnownSession(o, r, s)
  PROVE  SnapshotInv'
<1> DEFINE f == Prepared(r, s)
<1>1. /\ f.phase = "creating" /\ f.session = s /\ f.snapshot = session[s]
      /\ session[s] \in SessionRecord /\ Become(o, f) /\ UNCHANGED session
      /\ minted \subseteq minted'
  BY DEF Prepared, IdleExec, PrepareNewSession, PrepareKnownSession, storeVars,
         WellFormed, TypeOK, StoreTypeOK
<1>2. CASE PrepareNewSession(o, r, s)
  <2>1. s \in minted' /\ s \notin minted
    BY <1>2 DEF PrepareNewSession
  <2>2. \A p \in Owners : HasSnapshot(exec[p]) => exec[p].session # s
    BY <2>1 DEF SnapshotInv, SnapshotsAreAccurate
  <2>3. Reads(f, session[f.session])
    BY <1>1 DEF Reads, SessionRecord
  <2> HIDE DEF f
  <2> QED BY <1>1, <2>1, <2>2, <2>3, ReaderMoves
<1>3. CASE PrepareKnownSession(o, r, s)
  <2>1. session[s].revision # 0
    BY <1>1, <1>3 DEF PrepareKnownSession, SessionRecord
  <2>2. s \in minted'
    BY <1>1, <2>1 DEF SnapshotInv, SessionsAreWhole
  <2>3. Reads(f, session[f.session])
    BY <1>1, <2>1 DEF Reads, SessionRecord
  <2>4. \A p \in Owners : HasSnapshot(exec[p]) /\ exec[p].session = s
          => exec[p].snapshot.revision # 0
    BY <2>1 DEF SnapshotInv, SnapshotsAreAccurate
  <2> HIDE DEF f
  <2> QED BY <1>1, <2>1, <2>2, <2>3, <2>4, ReaderMoves
<1> QED BY <1>2, <1>3

LEMMA CreateKeepsSnapshots ==
  ASSUME WellFormed, SnapshotInv, NEW o \in Owners, Create(o)
  PROVE  SnapshotInv'
<1> DEFINE e == exec[o]
<1>1. HasSnapshot(e) /\ e.phase = "creating" /\ minted' = minted
  BY DEF Create, In, HasSnapshot
<1>2. e \in ExecRecord /\ e.session \in Sessions /\ e.snapshot \in SessionRecord
  BY <1>1, SessionOfReader
<1>3. ~HasSnapshot(Retired(e))
  BY <1>2, IdlersHaveNoSnapshot
<1>4. CASE UNCHANGED storeVars /\ Become(o, Retired(e))
  BY <1>1, <1>3, <1>4, ReaderCarriesOn DEF KeepsSnapshot, storeVars
<1>5. ASSUME NEW expires,
             CreateAllowed(e.run, e.session, e.snapshot.revision),
             CreateExecution(e.run, e.session, e.snapshot, o, expires),
             \/ Become(o, [e EXCEPT !.phase = "owning", !.revision = 1,
                                    !.status = "running", !.position = 1, !.sequence = 1,
                                    !.generation = 1, !.expires = expires,
                                    !.snapshot = StoredSession(@)])
             \/ Become(o, Retired(e))
      PROVE  SnapshotInv'
  <2> DEFINE stored == StoredSession(e.snapshot)
             f == [e EXCEPT !.phase = "owning", !.revision = 1,
                            !.status = "running", !.position = 1, !.sequence = 1,
                            !.generation = 1, !.expires = expires, !.snapshot = stored]
  <2>1. Become(o, f) \/ Become(o, Retired(e))
    BY <1>5
  <2>2. /\ session' = [session EXCEPT ![e.session] = stored]
        /\ stored = [revision |-> e.snapshot.revision + 1, history |-> e.snapshot.history]
        /\ session[e.session].revision = e.snapshot.revision
    BY <1>5 DEF CreateExecution, CreateAllowed, StoredSession
  <2>3. session'[e.session] = stored
    BY <1>2, <2>2 DEF WellFormed, TypeOK, StoreTypeOK
  <2> HIDE DEF stored
  <2>4. f.session = e.session /\ f.snapshot = stored
    BY <1>2 DEF ExecRecord
  <2> HIDE DEF f
  <2>5. CASE Become(o, f)
    BY <1>1, <2>2, <2>3, <2>4, <2>5, ReaderWrites
  <2>6. CASE Become(o, Retired(e))
    BY <1>1, <1>3, <2>2, <2>6, ReaderWrites
  <2> QED BY <2>1, <2>5, <2>6
<1> QED BY <1>4, <1>5 DEF Create

LEMMA CompactionKeepsSnapshots ==
  ASSUME WellFormed, SnapshotInv, NEW o \in Owners,
         (\E s \in Sessions : ReadForCompaction(o, s)) \/ SaveCompaction(o)
  PROVE  SnapshotInv'
<1>1. ASSUME NEW s \in Sessions, ReadForCompaction(o, s) PROVE SnapshotInv'
  <2> DEFINE f == [IdleExec EXCEPT !.phase = "compacting", !.session = s,
                                   !.snapshot = session[s]]
  <2>1. f.session = s /\ f.snapshot = session[s]
    BY DEF IdleExec
  <2>2. Become(o, f) /\ UNCHANGED <<session, minted>>
    BY <1>1 DEF ReadForCompaction, storeVars
  <2>3. session[s].revision # 0
    <3>1. session[s].revision > 0 /\ session[s] \in SessionRecord
      BY <1>1 DEF ReadForCompaction, WellFormed, TypeOK, StoreTypeOK
    <3> QED BY <3>1 DEF SessionRecord
  <2> HIDE DEF f
  <2> QED BY <2>1, <2>2, <2>3, ReaderReads
<1>2. ASSUME SaveCompaction(o) PROVE SnapshotInv'
  <2> DEFINE e == exec[o]
  <2>1. /\ HasSnapshot(e) /\ e \in ExecRecord /\ minted' = minted /\ Become(o, Retired(e))
    BY <1>2, AttemptOfType DEF SaveCompaction, In, HasSnapshot
  <2>2. ~HasSnapshot(Retired(e))
    BY <2>1, IdlersHaveNoSnapshot
  <2>3. CASE UNCHANGED storeVars
    BY <2>1, <2>2, <2>3, ReaderCarriesOn DEF KeepsSnapshot, storeVars
  <2>4. CASE SaveSessionAllowed(e.session, e.snapshot.revision) /\ SaveSession(e.session, e.snapshot)
    BY <2>1, <2>2, <2>4, ReaderWrites DEF SaveSessionAllowed, SaveSession, StoredSession
  <2> QED BY <1>2, <2>3, <2>4 DEF SaveCompaction
<1> QED BY <1>1, <1>2

LEMMA LookupKeepsSnapshots ==
  ASSUME WellFormed, SnapshotInv, NEW o \in Owners,
         \/ \E r \in Runs : Locate(o, r)
         \/ ReadCheckpoint(o) \/ ReadSession(o) \/ LocateToCancel(o) \/ ReadEvents(o)
  PROVE  SnapshotInv'
<1> DEFINE e == exec[o]
<1>1. e \in ExecRecord /\ KeepsSnapshot(Retired(e), e) /\ UNCHANGED <<session, minted>>
  BY AttemptOfType, IdlersHaveNoSnapshot
     DEF KeepsSnapshot, storeVars, Locate, ReadCheckpoint, ReadSession, LocateToCancel,
         ReadEvents
<1>2. ASSUME Become(o, Retired(e)) PROVE SnapshotInv'
  BY <1>1, <1>2, ReaderCarriesOn
<1>3. ASSUME NEW r \in Runs, Locate(o, r) PROVE SnapshotInv'
  <2> DEFINE f == [IdleExec EXCEPT !.phase = "located", !.run = r,
                                   !.session = run[r].session,
                                   !.revision = run[r].revision,
                                   !.status = run[r].status]
  <2>1. KeepsSnapshot(f, e)
    BY DEF IdleExec, KeepsSnapshot, HasSnapshot
  <2> QED BY <1>1, <1>3, <2>1, ReaderCarriesOn DEF Locate
<1>4. ASSUME ReadCheckpoint(o) PROVE SnapshotInv'
  <2> DEFINE f == [e EXCEPT !.phase = "checked", !.position = checkpoint[e.run]]
  <2>1. KeepsSnapshot(f, e)
    BY <1>1 DEF ExecRecord, KeepsSnapshot, HasSnapshot
  <2> QED BY <1>1, <1>2, <1>4, <2>1, ReaderCarriesOn DEF ReadCheckpoint
<1>5. ASSUME ReadSession(o) PROVE SnapshotInv'
  <2> DEFINE f == [e EXCEPT !.phase = "contending", !.snapshot = session[e.session],
                            !.expires = now + LeaseTerm]
  <2>1. e.session \in Sessions
    BY <1>5, FollowerIsWell DEF ReadSession, In, Following
  <2>2. f.session = e.session /\ f.snapshot = session[e.session]
    BY <1>1 DEF ExecRecord
  <2>3. \/ Become(o, Retired(e))
        \/ Become(o, f) /\ session[e.session].revision # 0
    BY <1>5 DEF ReadSession
  <2> HIDE DEF f
  <2> QED BY <1>1, <1>2, <2>1, <2>2, <2>3, ReaderReads
<1>6. ASSUME LocateToCancel(o) PROVE SnapshotInv'
  <2> DEFINE f == [e EXCEPT !.phase = "contending", !.cancels = TRUE,
                            !.expires = now + LeaseTerm]
  <2>1. KeepsSnapshot(f, e)
    BY <1>1 DEF ExecRecord, KeepsSnapshot, HasSnapshot
  <2> QED BY <1>1, <1>6, <2>1, ReaderCarriesOn DEF LocateToCancel
<1>7. ASSUME ReadEvents(o) PROVE SnapshotInv'
  <2> DEFINE last == IF events[e.run] = <<>> THEN 0
                     ELSE events[e.run][Len(events[e.run])]
             f == [e EXCEPT !.phase = "caughtUp", !.sequence = last]
  <2>1. Become(o, f) /\ e.phase = "leased"
    BY <1>7 DEF ReadEvents, In
  <2> HIDE DEF last
  <2>2. KeepsSnapshot(f, e)
    BY <1>1, <2>1 DEF ExecRecord, KeepsSnapshot, HasSnapshot
  <2> QED BY <1>1, <2>1, <2>2, ReaderCarriesOn
<1> QED BY <1>3, <1>4, <1>5, <1>6, <1>7

LEMMA LeaseKeepsSnapshots ==
  ASSUME WellFormed, SnapshotInv, NEW o \in Owners,
         \/ Acquire(o) \/ IssueRenewal(o) \/ ApplyRenewal(o) \/ LoseLease(o)
         \/ Release(o) \/ Crash(o)
  PROVE  SnapshotInv'
<1> DEFINE e == exec[o]
           quiet == [e EXCEPT !.renewal = 0]
<1>1. /\ e \in ExecRecord /\ KeepsSnapshot(Retired(e), e) /\ KeepsSnapshot(Token(e), e)
  BY AttemptOfType, IdlersHaveNoSnapshot DEF KeepsSnapshot
<1>2. quiet \in ExecRecord
  BY <1>1 DEF ExecRecord
<1>3. UNCHANGED <<session, minted>>
  BY DEF storeVars, Acquire, IssueRenewal, ApplyRenewal, LoseLease, Release, Crash,
         AcquireLease, RenewLease, ReleaseLease
<1>4. KeepsSnapshot(Retired(quiet), e) /\ KeepsSnapshot(Token(quiet), e)
  BY <1>2, IdlersHaveNoSnapshot DEF KeepsSnapshot
<1>5. ASSUME Acquire(o) PROVE SnapshotInv'
  <2> DEFINE f == [e EXCEPT !.phase = "leased", !.generation = lease[e.run].generation + 1]
  <2>1. (Become(o, f) \/ Become(o, Retired(e))) /\ e.phase = "contending"
    BY <1>5 DEF Acquire, In
  <2>2. KeepsSnapshot(f, e)
    BY <1>1, <2>1 DEF ExecRecord, KeepsSnapshot, HasSnapshot
  <2> QED BY <1>1, <1>3, <2>1, <2>2, ReaderCarriesOn
<1>6. ASSUME IssueRenewal(o) PROVE SnapshotInv'
  <2> DEFINE f == [e EXCEPT !.renewal = now + LeaseTerm]
  <2>1. Become(o, f) /\ e.phase = "owning"
    BY <1>6 DEF IssueRenewal, In
  <2>2. KeepsSnapshot(f, e)
    BY <1>1, <2>1 DEF ExecRecord, KeepsSnapshot, HasSnapshot
  <2> QED BY <1>3, <2>1, <2>2, ReaderCarriesOn
<1>7. ASSUME ApplyRenewal(o) PROVE SnapshotInv'
  <2> DEFINE g == [quiet EXCEPT !.expires = e.renewal]
  <2>1. \/ Become(o, quiet) \/ Become(o, g)
        \/ Become(o, Retired(quiet)) \/ Become(o, Token(quiet))
    BY <1>7 DEF ApplyRenewal
  <2>2. /\ quiet.phase = e.phase /\ quiet.cancels = e.cancels
        /\ quiet.session = e.session /\ quiet.snapshot = e.snapshot
    BY <1>1 DEF ExecRecord
  <2>3. /\ g.phase = e.phase /\ g.cancels = e.cancels
        /\ g.session = e.session /\ g.snapshot = e.snapshot
    BY <1>1 DEF ExecRecord
  <2>4. KeepsSnapshot(quiet, e) /\ KeepsSnapshot(g, e)
    BY <2>2, <2>3 DEF KeepsSnapshot, HasSnapshot
  <2> HIDE DEF quiet, g
  <2> QED BY <1>3, <1>4, <2>1, <2>4, ReaderCarriesOn
<1>8. ASSUME LoseLease(o) \/ Release(o) \/ Crash(o) PROVE SnapshotInv'
  BY <1>1, <1>3, <1>8, ReaderCarriesOn DEF LoseLease, Release, Crash
<1> QED BY <1>5, <1>6, <1>7, <1>8

(* A commit writes the session it carries over the snapshot it started     *)
(* from; its author goes on with what was stored, or with what it had.     *)
LEMMA CommitStepKeepsSnapshots ==
  ASSUME ReservationInv, SnapshotInv, NEW o \in Owners,
         exec[o].phase \in {"caughtUp", "owning"},
         NEW c \in CommitRecord, c.run = exec[o].run, c.expectedRevision = exec[o].revision,
         \/ c.session = {}
         \/ /\ exec[o].phase = "owning"
            /\ \E h : c.session = {[revision |-> exec[o].snapshot.revision, history |-> h]},
         NEW a, NEW u, NEW t, CommitStep(o, c, a, u, t),
         a = Token(exec[o]) \/ (a = Answered(o, c) /\ HasSnapshot(exec[o])),
         u \in {Token(exec[o]), Retired(exec[o])},
         (t = Thrown(o, c) /\ exec[o].phase = "owning") \/ t \in {Token(exec[o]), Retired(exec[o])}
  PROVE  SnapshotInv'
<1> DEFINE e == exec[o]
           v == e.snapshot.revision
<1>1. /\ WellFormed /\ e.phase \in Following /\ e.phase # "creating"
      /\ e \in ExecRecord /\ e.run \in Runs /\ e.session \in Sessions
      /\ KeepsSnapshot(Retired(e), e) /\ KeepsSnapshot(Token(e), e)
      /\ ~HasSnapshot(Retired(e)) /\ ~HasSnapshot(Token(e)) /\ minted' = minted
  BY FollowerIsWell, IdlersHaveNoSnapshot
     DEF ReservationInv, Following, KeepsSnapshot, CommitStep
<1>2. /\ Thrown(o, c).phase = "owning" /\ Thrown(o, c).session = e.session
      /\ Thrown(o, c).snapshot = e.snapshot
  BY <1>1 DEF Thrown, ExecRecord
<1>3. /\ Answered(o, c).phase = "owning" /\ Answered(o, c).session = e.session
      /\ Answered(o, c).snapshot = IF c.session = {} THEN e.snapshot
                                   ELSE StoredSession(Only(c.session))
  BY <1>1 DEF Answered, ExecRecord
<1>4. KeepsSnapshot(t, e) /\ KeepsSnapshot(u, e)
  BY <1>1, <1>2 DEF KeepsSnapshot, HasSnapshot
<1>5. CASE UNCHANGED storeVars /\ (Become(o, u) \/ Become(o, t))
  BY <1>1, <1>4, <1>5, ReaderCarriesOn DEF storeVars
<1>6. CASE CommitAllowed(c) /\ CommitExecution(c) /\ (Become(o, a) \/ Become(o, t))
  <2>1. run[c.run].session = e.session
    BY <1>1, <1>6, CommitsAreInformed
  <2>2. CASE c.session = {}
    <3>1. UNCHANGED session
      BY <1>6, <2>2 DEF CommitExecution
    <3>2. KeepsSnapshot(a, e)
      BY <1>1, <1>3, <2>2 DEF KeepsSnapshot, HasSnapshot
    <3> QED BY <1>1, <1>4, <1>6, <3>1, <3>2, ReaderCarriesOn
  <2>3. CASE c.session # {}
    <3>1. PICK h : c.session = {[revision |-> v, history |-> h]}
      BY <2>3
    <3> DEFINE w == [revision |-> v, history |-> h]
               stored == [revision |-> v + 1, history |-> h]
    <3>2. Only(c.session) = w /\ StoredSession(w) = stored
      BY <3>1, OnlyOne DEF StoredSession
    <3>3. session' = [session EXCEPT ![e.session] = stored]
      BY <1>6, <2>1, <2>3, <3>2 DEF CommitExecution
    <3>4. session[e.session].revision = v
      BY <1>6, <2>1, <3>1 DEF CommitAllowed
    <3>5. session'[e.session] = stored
      BY <1>1, <3>3 DEF WellFormed, TypeOK, StoreTypeOK
    <3>6. HasSnapshot(e)
      BY <2>3 DEF HasSnapshot
    <3>7. Answered(o, c).snapshot = stored
      BY <1>3, <2>3, <3>2
    <3> HIDE DEF w, stored
    <3>8. ASSUME NEW f, Become(o, f), f \in {a, t} PROVE SnapshotInv'
      <4>1. HasSnapshot(f) =>
              /\ f.session = e.session
              /\ \/ f.snapshot = session'[e.session]
                 \/ f.snapshot = e.snapshot /\ e.phase # "creating"
        BY <1>1, <1>2, <1>3, <3>5, <3>7, <3>8
      <4> QED BY <1>1, <3>3, <3>4, <3>6, <3>8, <4>1, ReaderWrites DEF stored
    <3> QED BY <1>6, <3>8
  <2> QED BY <2>2, <2>3
<1> QED BY <1>5, <1>6 DEF CommitStep

LEMMA CommitsKeepSnapshots ==
  ASSUME ReservationInv, SnapshotInv, NEW o \in Owners,
         \/ TakeOver(o) \/ TakeOverToCancel(o) \/ EmitEvent(o) \/ SaveProgress(o)
         \/ CompactInRun(o) \/ Pause(o) \/ Complete(o)
         \/ \E status \in {"failed", "cancelled"} : Abandon(o, status)
  PROVE  SnapshotInv'
<1> DEFINE e == exec[o]
           pushed == [e.snapshot EXCEPT !.history = @ \cup {e.run}]
<1>1. /\ e.phase \in {"caughtUp", "owning"} /\ e.phase \in Following
      /\ e \in ExecRecord /\ e.run \in Runs
      /\ e.position \in Nat /\ e.position + 1 \in Nat /\ e.snapshot \in SessionRecord
  <2>1. e.phase \in {"caughtUp", "owning"}
    BY DEF TakeOver, TakeOverToCancel, EmitEvent, SaveProgress, CompactInRun, Pause,
           Complete, Abandon, In
  <2>2. e.phase \in Following /\ e \in ExecRecord /\ e.run \in Runs
    BY <2>1, FollowerIsWell DEF ReservationInv, Following
  <2> QED BY <2>1, <2>2 DEF ExecRecord
<1>2. /\ pushed \in SessionRecord
      /\ pushed = [revision |-> e.snapshot.revision, history |-> e.snapshot.history \cup {e.run}]
      /\ e.snapshot = [revision |-> e.snapshot.revision, history |-> e.snapshot.history]
  <2> DEFINE w == e.snapshot
  <2>1. w \in SessionRecord /\ pushed = [w EXCEPT !.history = w.history \cup {e.run}]
    BY <1>1 DEF SessionRecord
  <2>2. w.history \cup {e.run} \in SUBSET Runs
    BY <1>1 DEF SessionRecord
  <2> HIDE DEF w, pushed
  <2>3. pushed = [revision |-> w.revision, history |-> w.history \cup {e.run}]
    BY <2>1 DEF SessionRecord
  <2>4. w = [revision |-> w.revision, history |-> w.history]
    BY <2>1 DEF SessionRecord
  <2>5. pushed \in SessionRecord
    BY <2>1, <2>2, <2>3 DEF SessionRecord
  <2> QED BY <2>3, <2>4, <2>5 DEF w
<1> HIDE DEF pushed
<1>3. ASSUME NEW status \in Active \cup Terminal, NEW position \in SUBSET Nat,
             NEW withSession \in {{}, {e.snapshot}, {pushed}}, NEW n \in {0, 1},
             withSession = {} \/ e.phase = "owning",
             LET c == CommitOf(o, status, position, withSession, n) IN
             \/ Continue(o, c) /\ e.phase = "owning"
             \/ Conclude(o, c)
             \/ CommitStep(o, c, Answered(o, c), Token(e), Token(e)) /\ ~ e.cancels
             \/ CommitStep(o, c, Token(e), Retired(e), Retired(e))
      PROVE  SnapshotInv'
  <2> DEFINE c == CommitOf(o, status, position, withSession, n)
  <2>1. withSession \in SUBSET SessionRecord
    BY <1>1, <1>2
  <2>2. c \in CommitRecord
    BY <1>1, <2>1, CommitOfType DEF ReservationInv
  <2>3. /\ c.run = e.run /\ c.expectedRevision = e.revision /\ c.session = withSession
    BY DEF CommitOf
  <2> HIDE DEF c
  <2>4. \/ c.session = {}
        \/ /\ e.phase = "owning"
           /\ \E h : c.session = {[revision |-> e.snapshot.revision, history |-> h]}
    BY <1>2, <1>3, <2>3
  <2>5. e.phase = "owning" \/ ~ e.cancels => HasSnapshot(e)
    BY <1>1 DEF HasSnapshot
  <2> QED BY <1>1, <1>3, <2>2, <2>3, <2>4, <2>5, CommitStepKeepsSnapshots
          DEF Continue, Conclude, c
<1>4. /\ {0} \in SUBSET Nat /\ {e.position} \in SUBSET Nat
      /\ {e.position + 1} \in SUBSET Nat /\ {} \in SUBSET Nat
  BY <1>1
<1>5. ASSUME TakeOver(o) PROVE SnapshotInv'
  BY <1>3, <1>4, <1>5 DEF TakeOver, Active
<1>6. ASSUME TakeOverToCancel(o) PROVE SnapshotInv'
  BY <1>3, <1>4, <1>6 DEF TakeOverToCancel, Terminal
<1>7. ASSUME EmitEvent(o) PROVE SnapshotInv'
  BY <1>3, <1>4, <1>7 DEF EmitEvent, Active, In
<1>8. ASSUME SaveProgress(o) PROVE SnapshotInv'
  BY <1>3, <1>4, <1>8 DEF SaveProgress, Active, In
<1>9. ASSUME CompactInRun(o) PROVE SnapshotInv'
  BY <1>3, <1>4, <1>9 DEF CompactInRun, Active, In
<1>10. ASSUME Pause(o) PROVE SnapshotInv'
  BY <1>3, <1>4, <1>10 DEF Pause, Active
<1>11. ASSUME Complete(o) PROVE SnapshotInv'
  <2>1. Conclude(o, CommitOf(o, "completed", {0}, {pushed}, 1)) /\ e.phase = "owning"
    BY <1>11 DEF Complete, pushed, In
  <2> QED BY <1>3, <1>4, <2>1 DEF Terminal
<1>12. ASSUME NEW status \in {"failed", "cancelled"}, Abandon(o, status)
       PROVE  SnapshotInv'
  BY <1>3, <1>4, <1>12 DEF Abandon, Conclude, Terminal
<1> QED BY <1>5, <1>6, <1>7, <1>8, <1>9, <1>10, <1>11, <1>12

LEMMA PurgeKeepsSnapshots ==
  ASSUME WellFormed, SnapshotInv, NEW R \in SUBSET Purgeable, Purge(R)
  PROVE  SnapshotInv'
<1>1. \A s \in Sessions : session'[s] = session[s] \/ session'[s] = AbsentSession
  BY DEF Purge, PurgeRuns
<1>2. UNCHANGED <<exec, minted>>
  BY DEF Purge
<1>3. SessionsAreWhole'
  BY <1>1, <1>2 DEF SnapshotInv, SessionsAreWhole, AbsentSession
<1>4. SnapshotsAreAccurate'
  <2>1. \A o \in Owners : HasSnapshot(exec[o]) => exec[o].session \in Sessions
    BY SessionOfReader
  <2>2. ASSUME NEW o \in Owners, HasSnapshot(exec[o])
        PROVE  exec[o].session \in minted /\ Reads(exec[o], session'[exec[o].session])
    <3>1. exec[o].session \in minted /\ Reads(exec[o], session[exec[o].session])
      BY <2>2 DEF SnapshotInv, SnapshotsAreAccurate, Reads, In
    <3>2. exec[o].session \in Sessions
      BY <2>1, <2>2
    <3> DEFINE s == exec[o].session
    <3>3. session[s].revision = 0 => session[s].history = {}
      BY <3>2 DEF SnapshotInv, SessionsAreWhole
    <3>4. AbsentSession.revision = 0 /\ AbsentSession.history = {}
      BY DEF AbsentSession
    <3>5. Reads(exec[o], AbsentSession)
      BY <3>1, <3>3, <3>4 DEF Reads
    <3> QED BY <1>1, <3>1, <3>2, <3>5
  <2> QED BY <1>2, <2>2 DEF SnapshotsAreAccurate, HasSnapshot, Reads, In
<1>5. NewSessionsAreUnshared'
  BY <1>2 DEF SnapshotInv, NewSessionsAreUnshared, HasSnapshot
<1> QED BY <1>3, <1>4, <1>5 DEF SnapshotInv

LEMMA SnapshotsAreKept == ReservationInv /\ SnapshotInv /\ [Next]_vars => SnapshotInv'
<1> SUFFICES ASSUME ReservationInv, SnapshotInv, [Next]_vars PROVE SnapshotInv'
  OBVIOUS
<1>1. WellFormed
  BY DEF ReservationInv
<1>2. ASSUME NEW o \in Owners, Attempt(o) PROVE SnapshotInv'
  BY <1>1, <1>2, PrepareKeepsSnapshots, CreateKeepsSnapshots, CompactionKeepsSnapshots,
     LookupKeepsSnapshots, LeaseKeepsSnapshots, CommitsKeepSnapshots DEF Attempt
<1>3. CASE UNCHANGED <<session, exec, minted>>
  BY <1>3 DEF SnapshotInv, SessionsAreWhole, SnapshotsAreAccurate, NewSessionsAreUnshared,
              HasSnapshot, In
<1> QED BY <1>1, <1>2, <1>3, PurgeKeepsSnapshots DEF Next, Tick, vars, storeVars

-----------------------------------------------------------------------------
(* What a step does to the stored runs and histories: nothing a reader of  *)
(* them could tell, the creation of a run, or the end of one.              *)
Quiet ==
  /\ \A r \in Runs : run'[r].session = run[r].session /\ Standing(r)' = Standing(r)
  /\ \A s \in Sessions : session'[s].history = session[s].history

Creates(r, s) ==
  /\ run[r].status = "absent" /\ ~ SessionBusyExcept(s, {})
  /\ run' = [run EXCEPT ![r] = [status |-> "running", revision |-> 1, session |-> s]]
  /\ \A t \in Sessions : session'[t].history = session[t].history

Settles(r) ==
  /\ run[r].status \in Active /\ run[r].session \in Sessions
  /\ run'[r].session = run[r].session /\ run'[r].status \in Terminal
  /\ \A q \in Runs : q # r => run'[q] = run[q]
  /\ \A s \in Sessions : session'[s].history =
       IF run'[r].status = "completed" /\ s = run[r].session
       THEN session[s].history \cup {r} ELSE session[s].history

(* A session that is written keeps its history, when what is written is    *)
(* the history that was read at the stored revision.                       *)
LEMMA WritingBack ==
  ASSUME WellFormed, SnapshotInv, NEW o \in Owners, HasSnapshot(exec[o]),
         session[exec[o].session].revision = exec[o].snapshot.revision,
         NEW w, session' = [session EXCEPT ![exec[o].session] = StoredSession(w)]
  PROVE  /\ session'[exec[o].session].history = w.history
         /\ session[exec[o].session].history = exec[o].snapshot.history
         /\ \A s \in Sessions : s # exec[o].session => session'[s] = session[s]
<1>1. exec[o].session \in Sessions
  BY SessionOfReader
<1>2. session[exec[o].session].history = exec[o].snapshot.history
  BY DEF SnapshotInv, SnapshotsAreAccurate
<1> QED BY <1>1, <1>2 DEF WellFormed, TypeOK, StoreTypeOK, StoredSession

LEMMA CreatesARun ==
  ASSUME WellFormed, SnapshotInv, NEW o \in Owners, Create(o)
  PROVE  Quiet \/ Creates(exec[o].run, exec[o].session)
<1> DEFINE e == exec[o]
<1>1. HasSnapshot(e)
  BY DEF Create, In, HasSnapshot
<1>2. CASE UNCHANGED storeVars
  BY <1>2 DEF Quiet, storeVars, Standing
<1>3. ASSUME NEW expires,
             CreateAllowed(e.run, e.session, e.snapshot.revision),
             CreateExecution(e.run, e.session, e.snapshot, o, expires)
      PROVE  Creates(e.run, e.session)
  <2>1. /\ session' = [session EXCEPT ![e.session] = StoredSession(e.snapshot)]
        /\ session[e.session].revision = e.snapshot.revision
    BY <1>3 DEF CreateExecution, CreateAllowed
  <2>2. /\ session'[e.session].history = e.snapshot.history
        /\ session[e.session].history = e.snapshot.history
        /\ \A t \in Sessions : t # e.session => session'[t] = session[t]
    BY <1>1, <2>1, WritingBack
  <2>3. \A t \in Sessions : session'[t].history = session[t].history
    BY <2>2
  <2> QED BY <1>3, <2>3 DEF Creates, CreateAllowed, CreateExecution
<1> QED BY <1>2, <1>3 DEF Create

LEMMA CompactionIsQuiet ==
  ASSUME WellFormed, SnapshotInv, NEW o \in Owners, SaveCompaction(o)
  PROVE  Quiet
<1> DEFINE e == exec[o]
<1>1. HasSnapshot(e)
  BY DEF SaveCompaction, In, HasSnapshot
<1>2. CASE UNCHANGED storeVars
  BY <1>2 DEF Quiet, storeVars, Standing
<1>3. CASE SaveSessionAllowed(e.session, e.snapshot.revision) /\ SaveSession(e.session, e.snapshot)
  <2>1. /\ session' = [session EXCEPT ![e.session] = StoredSession(e.snapshot)]
        /\ session[e.session].revision = e.snapshot.revision
        /\ run' = run
    BY <1>3 DEF SaveSession, SaveSessionAllowed
  <2>2. /\ session'[e.session].history = e.snapshot.history
        /\ session[e.session].history = e.snapshot.history
        /\ \A t \in Sessions : t # e.session => session'[t] = session[t]
    BY <1>1, <2>1, WritingBack
  <2>3. \A t \in Sessions : session'[t].history = session[t].history
    BY <2>2
  <2> QED BY <2>1, <2>3 DEF Quiet, Standing
<1> QED BY <1>2, <1>3 DEF SaveCompaction

(* A commit that leaves the run active, and keeps the history it read, is  *)
(* quiet; one that ends the run adds the run to the history it read        *)
(* exactly if the run completed.                                           *)
LEMMA CommitStepSettles ==
  ASSUME ReservationInv, SnapshotInv, NEW o \in Owners,
         exec[o].phase \in {"caughtUp", "owning"},
         NEW c \in CommitRecord, c.run = exec[o].run, c.expectedRevision = exec[o].revision,
         NEW w \in SessionRecord, w.revision = exec[o].snapshot.revision,
         c.session = {} \/ (c.session = {w} /\ exec[o].phase = "owning"),
         NEW a, NEW u, NEW t, CommitStep(o, c, a, u, t),
         \/ c.status # "completed" /\ w.history = exec[o].snapshot.history
         \/ /\ c.status = "completed" /\ c.session # {}
            /\ w.history = exec[o].snapshot.history \cup {c.run}
  PROVE  Quiet \/ Settles(exec[o].run)
<1> DEFINE e == exec[o]
           r == e.run
           s == e.session
<1>1. /\ WellFormed /\ e.phase \in Following /\ r \in Runs /\ s \in Sessions
  BY FollowerIsWell DEF ReservationInv, Following
<1>2. CASE UNCHANGED storeVars
  BY <1>2 DEF Quiet, storeVars, Standing
<1>3. CASE CommitAllowed(c) /\ CommitExecution(c)
  <2>1. run[r].status \in Active /\ run[r].session = s
    BY <1>1, <1>3, CommitsAreInformed
  <2>2. /\ run'[r].status = c.status /\ run'[r].session = run[r].session
        /\ \A q \in Runs : q # r => run'[q] = run[q]
    BY <1>1, <1>3 DEF CommitExecution, WellFormed, TypeOK, StoreTypeOK, RunRecord
  <2>3. c.status \in Active \cup Terminal
    BY DEF CommitRecord
  <2>4. \A q \in Sessions : session'[q].history =
          IF c.status = "completed" /\ q = s THEN session[q].history \cup {r}
          ELSE session[q].history
    <3>1. CASE c.session = {}
      BY <1>3, <3>1 DEF CommitExecution
    <3>2. CASE c.session # {}
      <4>1. Only(c.session) = w /\ w \in c.session /\ HasSnapshot(e)
        BY <3>2, OnlyOne DEF HasSnapshot
      <4>2. session' = [session EXCEPT ![s] = StoredSession(w)]
        BY <1>3, <2>1, <3>2, <4>1 DEF CommitExecution
      <4>3. session[s].revision = e.snapshot.revision
        BY <1>3, <2>1, <4>1 DEF CommitAllowed
      <4>4. /\ session'[s].history = w.history /\ session[s].history = e.snapshot.history
            /\ \A q \in Sessions : q # s => session'[q] = session[q]
        BY <1>1, <4>1, <4>2, <4>3, WritingBack
      <4> QED BY <4>4
    <3> QED BY <3>1, <3>2
  <2>5. CASE c.status \in Active
    <3>1. ASSUME NEW q \in Runs
          PROVE  run'[q].session = run[q].session /\ Standing(q)' = Standing(q)
      <4>1. CASE q = r
        <5>1. run[q].status \in Active /\ run'[q].status \in Active
              /\ run'[q].session = run[q].session
          BY <2>1, <2>2, <2>5, <4>1
        <5> QED BY <5>1 DEF Standing, Active
      <4>2. CASE q # r
        BY <2>2, <4>2 DEF Standing
      <4> QED BY <4>1, <4>2
    <3> QED BY <2>4, <2>5, <3>1 DEF Quiet, Active
  <2>6. CASE c.status \in Terminal
    BY <1>1, <2>1, <2>2, <2>4, <2>6 DEF Settles
  <2> QED BY <2>3, <2>5, <2>6
<1> QED BY <1>2, <1>3 DEF CommitStep

LEMMA CommitsSettle ==
  ASSUME ReservationInv, SnapshotInv, NEW o \in Owners,
         \/ TakeOver(o) \/ TakeOverToCancel(o) \/ EmitEvent(o) \/ SaveProgress(o)
         \/ CompactInRun(o) \/ Pause(o) \/ Complete(o)
         \/ \E status \in {"failed", "cancelled"} : Abandon(o, status)
  PROVE  exec[o].phase \in Following /\ (Quiet \/ Settles(exec[o].run))
<1> DEFINE e == exec[o]
           pushed == [e.snapshot EXCEPT !.history = @ \cup {e.run}]
<1>1. e.phase \in {"caughtUp", "owning"} /\ e.phase \in Following
  BY DEF TakeOver, TakeOverToCancel, EmitEvent, SaveProgress, CompactInRun, Pause,
         Complete, Abandon, In, Following
<1>2. e \in ExecRecord /\ e.run \in Runs
  BY <1>1, FollowerIsWell DEF ReservationInv
<1>3. /\ e.position \in Nat /\ e.position + 1 \in Nat /\ e.snapshot \in SessionRecord
  BY <1>2 DEF ExecRecord
<1>4. /\ pushed \in SessionRecord /\ pushed.revision = e.snapshot.revision
      /\ pushed.history = e.snapshot.history \cup {e.run}
  <2>1. e.snapshot.history \cup {e.run} \in SUBSET Runs
    BY <1>2, <1>3 DEF SessionRecord
  <2> QED BY <1>3, <2>1 DEF SessionRecord
<1> HIDE DEF pushed
<1>5. ASSUME NEW status \in Active \cup Terminal, NEW position \in SUBSET Nat,
             NEW withSession, NEW n \in {0, 1},
             NEW a, NEW u, NEW t,
             CommitStep(o, CommitOf(o, status, position, withSession, n), a, u, t),
             \/ withSession = {} /\ status # "completed"
             \/ withSession = {e.snapshot} /\ e.phase = "owning" /\ status # "completed"
             \/ withSession = {pushed} /\ e.phase = "owning" /\ status = "completed"
      PROVE  Quiet \/ Settles(e.run)
  <2> DEFINE c == CommitOf(o, status, position, withSession, n)
  <2>1. c \in CommitRecord
    BY <1>1, <1>3, <1>4, <1>5, CommitOfType DEF ReservationInv
  <2>2. /\ c.run = e.run /\ c.expectedRevision = e.revision /\ c.session = withSession
        /\ c.status = status
    BY DEF CommitOf
  <2> HIDE DEF c
  <2>3. CASE status = "completed"
    BY <1>1, <1>4, <1>5, <2>1, <2>2, <2>3, CommitStepSettles DEF c
  <2>4. CASE status # "completed"
    BY <1>1, <1>3, <1>5, <2>1, <2>2, <2>4, CommitStepSettles DEF c
  <2> QED BY <2>3, <2>4
<1>6. /\ {0} \in SUBSET Nat /\ {e.position} \in SUBSET Nat
      /\ {e.position + 1} \in SUBSET Nat /\ {} \in SUBSET Nat
  BY <1>3
<1>7. CASE TakeOver(o)
  BY <1>1, <1>5, <1>6, <1>7 DEF TakeOver, Active
<1>8. CASE TakeOverToCancel(o)
  BY <1>1, <1>5, <1>6, <1>8 DEF TakeOverToCancel, Terminal, Conclude
<1>9. CASE EmitEvent(o)
  BY <1>1, <1>5, <1>6, <1>9 DEF EmitEvent, Active, Continue
<1>10. CASE SaveProgress(o)
  BY <1>1, <1>5, <1>6, <1>10 DEF SaveProgress, Active, Continue
<1>11. CASE CompactInRun(o)
  BY <1>1, <1>5, <1>6, <1>11 DEF CompactInRun, Active, Continue, In
<1>12. CASE Pause(o)
  BY <1>1, <1>5, <1>6, <1>12 DEF Pause, Active, Conclude
<1>13. CASE Complete(o)
  <2>1. /\ e.phase = "owning"
        /\ Conclude(o, CommitOf(o, "completed", {0}, {pushed}, 1))
    BY <1>13 DEF Complete, pushed, In
  <2> QED BY <1>1, <1>5, <1>6, <2>1 DEF Terminal, Conclude
<1>14. ASSUME NEW status \in {"failed", "cancelled"}, Abandon(o, status)
       PROVE  Quiet \/ Settles(e.run)
  BY <1>1, <1>5, <1>6, <1>14 DEF Abandon, Terminal
<1> QED BY <1>1, <1>7, <1>8, <1>9, <1>10, <1>11, <1>12, <1>13, <1>14

LEMMA AttemptsSettle ==
  ASSUME ReservationInv, SnapshotInv, NEW o \in Owners, Attempt(o)
  PROVE  \/ Quiet
         \/ In(o, "creating") /\ Creates(exec[o].run, exec[o].session)
         \/ exec[o].phase \in Following /\ Settles(exec[o].run)
<1>1. CASE UNCHANGED <<run, session>>
  BY <1>1 DEF Quiet, Standing
<1>2. CASE \/ \E r \in Runs, s \in Sessions :
                PrepareNewSession(o, r, s) \/ PrepareKnownSession(o, r, s)
           \/ \E s \in Sessions : ReadForCompaction(o, s)
           \/ \E r \in Runs : Locate(o, r)
           \/ ReadCheckpoint(o) \/ ReadSession(o) \/ LocateToCancel(o)
           \/ Acquire(o) \/ ReadEvents(o)
           \/ IssueRenewal(o) \/ ApplyRenewal(o) \/ LoseLease(o)
           \/ Release(o) \/ Crash(o)
  <2>1. UNCHANGED <<run, session>>
    BY <1>2 DEF PrepareNewSession, PrepareKnownSession, ReadForCompaction, Locate,
                ReadCheckpoint, ReadSession, LocateToCancel, Acquire, AcquireLease,
                ReadEvents, IssueRenewal, ApplyRenewal, RenewLease, LoseLease, Release,
                ReleaseLease, Crash, storeVars
  <2> QED BY <1>1, <2>1
<1>3. CASE Create(o)
  BY <1>3, CreatesARun DEF ReservationInv, Create
<1>4. CASE SaveCompaction(o)
  BY <1>4, CompactionIsQuiet DEF ReservationInv
<1> QED BY <1>2, <1>3, <1>4, CommitsSettle DEF Attempt

(* An attempt that is about to create a run was so before, or has just     *)
(* drawn the id of the run.                                                *)
LEMMA StartsAreFresh ==
  ASSUME WellFormed, NEW o \in Owners, Attempt(o),
         NEW p \in Owners, exec'[p].phase = "creating"
  PROVE  \/ exec[p].phase = "creating" /\ exec'[p].run = exec[p].run
         \/ exec'[p].run \notin minted
<1> DEFINE e == exec[o]
<1>1. e \in ExecRecord
  BY AttemptOfType
<1>2. ASSUME NEW f, Become(o, f), f.phase # "creating" \/ (f.phase = e.phase /\ f.run = e.run)
      PROVE  exec[p].phase = "creating" /\ exec'[p].run = exec[p].run
  BY <1>2, OthersStay
<1>3. \A x \in ExecRecord : Token(x).phase # "creating" /\ Retired(x).phase # "creating"
  BY DEF Token, Retired, IdleExec
<1>4. ASSUME NEW r \in Runs, NEW s \in Sessions,
             PrepareNewSession(o, r, s) \/ PrepareKnownSession(o, r, s)
      PROVE  \/ exec[p].phase = "creating" /\ exec'[p].run = exec[p].run
             \/ exec'[p].run \notin minted
  <2>1. Become(o, Prepared(r, s)) /\ Prepared(r, s).run = r /\ r \notin minted
    BY <1>4 DEF PrepareNewSession, PrepareKnownSession, Prepared, IdleExec
  <2> QED BY <2>1, OthersStay
<1>5. CASE Create(o)
  <2>1. \/ Become(o, Retired(e))
        \/ \E expires : Become(o, [e EXCEPT !.phase = "owning", !.revision = 1,
                                    !.status = "running", !.position = 1, !.sequence = 1,
                                    !.generation = 1, !.expires = expires,
                                    !.snapshot = StoredSession(@)])
    BY <1>5 DEF Create
  <2>2. ASSUME NEW expires, NEW f,
               f = [e EXCEPT !.phase = "owning", !.revision = 1,
                             !.status = "running", !.position = 1, !.sequence = 1,
                             !.generation = 1, !.expires = expires,
                             !.snapshot = StoredSession(@)]
        PROVE  f.phase # "creating"
    BY <1>1, <2>2 DEF ExecRecord
  <2> QED BY <1>1, <1>2, <1>3, <2>1, <2>2
<1>6. ASSUME NEW s \in Sessions, ReadForCompaction(o, s)
      PROVE  exec[p].phase = "creating" /\ exec'[p].run = exec[p].run
  <2> DEFINE f == [IdleExec EXCEPT !.phase = "compacting", !.session = s,
                                   !.snapshot = session[s]]
  <2>1. f.phase # "creating"
    BY DEF IdleExec
  <2> QED BY <1>2, <1>6, <2>1 DEF ReadForCompaction
<1>7. ASSUME NEW r \in Runs, Locate(o, r)
      PROVE  exec[p].phase = "creating" /\ exec'[p].run = exec[p].run
  <2> DEFINE f == [IdleExec EXCEPT !.phase = "located", !.run = r,
                                   !.session = run[r].session,
                                   !.revision = run[r].revision,
                                   !.status = run[r].status]
  <2>1. f.phase # "creating"
    BY DEF IdleExec
  <2> QED BY <1>2, <1>7, <2>1 DEF Locate
<1>8. CASE \/ SaveCompaction(o) \/ LoseLease(o) \/ Release(o) \/ Crash(o)
  BY <1>1, <1>2, <1>3, <1>8 DEF SaveCompaction, LoseLease, Release, Crash
<1>9. CASE \/ ReadCheckpoint(o) \/ ReadSession(o) \/ LocateToCancel(o)
           \/ Acquire(o) \/ ReadEvents(o)
  <2>1. \E f : Become(o, f) /\ (f = Retired(e) \/ f.phase # "creating")
    <3>1. \A phase \in {"checked", "contending", "leased", "caughtUp"} :
            \A x, y : /\ [e EXCEPT !.phase = phase, !.position = x].phase # "creating"
                     /\ [e EXCEPT !.phase = phase, !.snapshot = x, !.expires = y].phase # "creating"
                     /\ [e EXCEPT !.phase = phase, !.cancels = x, !.expires = y].phase # "creating"
                     /\ [e EXCEPT !.phase = phase, !.generation = x].phase # "creating"
                     /\ [e EXCEPT !.phase = phase, !.sequence = x].phase # "creating"
      BY <1>1 DEF ExecRecord
    <3> QED BY <1>9, <3>1 DEF ReadCheckpoint, ReadSession, LocateToCancel, Acquire, ReadEvents
  <2> QED BY <1>1, <1>2, <1>3, <2>1
<1>10. CASE IssueRenewal(o)
  <2> DEFINE f == [e EXCEPT !.renewal = now + LeaseTerm]
  <2>1. f.phase = e.phase /\ f.run = e.run
    BY <1>1 DEF ExecRecord
  <2> QED BY <1>2, <1>10, <2>1 DEF IssueRenewal
<1>11. CASE ApplyRenewal(o)
  <2> DEFINE f == [e EXCEPT !.renewal = 0]
             g == [f EXCEPT !.expires = e.renewal]
  <2>1. f \in ExecRecord /\ f.phase = e.phase /\ f.run = e.run
        /\ g.phase = e.phase /\ g.run = e.run
    BY <1>1 DEF ExecRecord
  <2>2. Become(o, f) \/ Become(o, g) \/ Become(o, Retired(f)) \/ Become(o, Token(f))
    BY <1>11 DEF ApplyRenewal
  <2> HIDE DEF f, g
  <2> QED BY <1>2, <1>3, <2>1, <2>2
<1>12. CASE \/ TakeOver(o) \/ TakeOverToCancel(o) \/ EmitEvent(o) \/ SaveProgress(o)
            \/ CompactInRun(o) \/ Pause(o) \/ Complete(o)
            \/ \E status \in {"failed", "cancelled"} : Abandon(o, status)
  <2>1. \A c : Answered(o, c).phase # "creating" /\ Thrown(o, c).phase # "creating"
    BY <1>1 DEF Answered, Thrown, ExecRecord
  <2>2. \E f : /\ Become(o, f)
              /\ \/ \E c : f = Answered(o, c) \/ f = Thrown(o, c)
                 \/ f = Token(e) \/ f = Retired(e)
    BY <1>12 DEF TakeOver, TakeOverToCancel, EmitEvent, SaveProgress, CompactInRun, Pause,
                 Complete, Abandon, Continue, Conclude, CommitStep
  <2> QED BY <1>1, <1>2, <1>3, <2>1, <2>2
<1> QED BY <1>4, <1>5, <1>6, <1>7, <1>8, <1>9, <1>10, <1>11, <1>12 DEF Attempt

-----------------------------------------------------------------------------
LEMMA AttemptsKeepHistories ==
  ASSUME HistoryInv, ReservationInv', NEW o \in Owners, Attempt(o)
  PROVE  HistoriesAreSettled' /\ HistoryIsTheCompletedRuns'
<1> DEFINE e == exec[o]
           Settled(r) == r \in minted /\ \A p \in Owners : In(p, "creating") => exec[p].run # r
<1>1. ReservationInv /\ SnapshotInv /\ WellFormed
  BY DEF HistoryInv, SnapshotInv, ReservationInv
<1>2. minted \subseteq minted'
  BY DEF Attempt, PrepareNewSession, PrepareKnownSession, Create, ReadForCompaction,
         SaveCompaction, Locate, ReadCheckpoint, ReadSession, LocateToCancel, Acquire,
         ReadEvents, TakeOver, TakeOverToCancel, EmitEvent, SaveProgress, CompactInRun,
         Pause, Complete, Abandon, Continue, Conclude, CommitStep, IssueRenewal,
         ApplyRenewal, LoseLease, Release, Crash
<1>3. ASSUME NEW r, Settled(r)
      PROVE  r \in minted' /\ \A p \in Owners : exec'[p].phase = "creating" => exec'[p].run # r
  BY <1>1, <1>2, <1>3, StartsAreFresh DEF In
<1>4. ASSUME \A s \in Sessions : \A r \in session'[s].history : Settled(r)
      PROVE  HistoriesAreSettled'
  BY <1>3, <1>4 DEF HistoriesAreSettled, In
<1>5. \A s \in Sessions : \A r \in session[s].history : r \in Runs /\ Settled(r)
  BY <1>1 DEF HistoryInv, HistoriesAreSettled, WellFormed, TypeOK, StoreTypeOK, SessionRecord
<1> HIDE DEF Settled
<1>6. \A r \in Runs : run[r].status = "completed" => run[r].session \in Sessions
  BY <1>1 DEF WellFormed, StoredRunsAreWhole
<1>7. CASE Quiet
  <2>1. HistoriesAreSettled'
    BY <1>4, <1>5, <1>7 DEF Quiet
  <2>2. ASSUME NEW r \in Runs
        PROVE  /\ (run'[r].status = "completed") = (run[r].status = "completed")
               /\ (run'[r].status = "absent") = (run[r].status = "absent")
               /\ run'[r].session = run[r].session
    BY <1>7 DEF Quiet, Standing, Active
  <2>3. \A r \in Runs : run'[r].status = "completed" => r \in session'[run'[r].session].history
    <3>1. ASSUME NEW r \in Runs, run'[r].status = "completed"
          PROVE  r \in session'[run'[r].session].history
      <4>1. run[r].status = "completed" /\ run'[r].session = run[r].session
        BY <2>2, <3>1
      <4>2. run[r].session \in Sessions /\ r \in session[run[r].session].history
        BY <1>6, <4>1 DEF HistoryInv, HistoryIsTheCompletedRuns
      <4> QED BY <1>7, <4>1, <4>2 DEF Quiet
    <3> QED BY <3>1
  <2>4. \A s \in Sessions : \A r \in session'[s].history :
          run'[r].status \in {"completed", "absent"}
    <3>1. \A s \in Sessions : session'[s].history = session[s].history
      BY <1>7 DEF Quiet
    <3>2. ASSUME NEW s \in Sessions, NEW r \in session'[s].history
          PROVE  run'[r].status \in {"completed", "absent"}
      <4>1. r \in session[s].history /\ r \in Runs
        BY <1>5, <3>1, <3>2
      <4>2. run[r].status \in {"completed", "absent"}
        BY <4>1 DEF HistoryInv, HistoryIsTheCompletedRuns
      <4> QED BY <2>2, <4>1, <4>2
    <3> QED BY <3>2
  <2> QED BY <2>1, <2>3, <2>4 DEF HistoryIsTheCompletedRuns
<1>8. CASE In(o, "creating") /\ Creates(e.run, e.session)
  <2>1. HistoriesAreSettled'
    BY <1>4, <1>5, <1>8 DEF Creates
  <2>2. e.run \in Runs
    BY <1>1, <1>8, AttemptOfType DEF IsEngaged, In
  <2>3. \A s \in Sessions : e.run \notin session[s].history
    BY <1>8 DEF HistoryInv, HistoriesAreSettled
  <2>4. run'[e.run].status = "running" /\ \A r \in Runs : r # e.run => run'[r] = run[r]
    BY <1>1, <1>8, <2>2 DEF Creates, WellFormed, TypeOK, StoreTypeOK
  <2> QED BY <1>5, <1>6, <1>8, <2>1, <2>2, <2>3, <2>4
          DEF Creates, HistoryInv, HistoryIsTheCompletedRuns
<1>9. CASE e.phase \in Following /\ Settles(e.run)
  <2>1. e.run \in Runs
    BY <1>1, <1>9, FollowerIsWell
  <2>2. Settled(e.run)
    BY <1>1, <1>9, <2>1 DEF Settles, ReservationInv, CreatedOnce, Settled, In, Active
  <2>3. \A s \in Sessions : e.run \notin session[s].history
    BY <1>9, <2>1 DEF Settles, HistoryInv, HistoryIsTheCompletedRuns, Active
  <2>4. HistoriesAreSettled'
    BY <1>4, <1>5, <1>9, <2>2 DEF Settles
  <2>5. \A r \in Runs : run'[r].status = "completed" => r \in session'[run'[r].session].history
    <3>1. ASSUME NEW r \in Runs, run'[r].status = "completed", r # e.run
          PROVE  r \in session'[run'[r].session].history
      <4>1. run'[r] = run[r] /\ run[r].session \in Sessions
        BY <1>6, <1>9, <3>1 DEF Settles
      <4>2. r \in session[run[r].session].history
        BY <3>1, <4>1 DEF HistoryInv, HistoryIsTheCompletedRuns
      <4> QED BY <1>9, <4>1, <4>2 DEF Settles
    <3>2. run'[e.run].status = "completed" => e.run \in session'[run'[e.run].session].history
      BY <1>9 DEF Settles
    <3> QED BY <3>1, <3>2
  <2>6. \A s \in Sessions : \A r \in session'[s].history : run'[r].status \in {"completed", "absent"}
    <3>1. ASSUME NEW s \in Sessions, NEW r \in session'[s].history, r # e.run
          PROVE  run'[r].status \in {"completed", "absent"}
      <4>1. r \in session[s].history
        BY <1>9, <3>1 DEF Settles
      <4>2. r \in Runs /\ run'[r] = run[r]
        BY <1>5, <1>9, <3>1, <4>1 DEF Settles
      <4> QED BY <4>1, <4>2 DEF HistoryInv, HistoryIsTheCompletedRuns
    <3>2. ASSUME NEW s \in Sessions, e.run \in session'[s].history
          PROVE  run'[e.run].status \in {"completed", "absent"}
      BY <1>9, <2>3, <3>2 DEF Settles
    <3> QED BY <3>1, <3>2
  <2> QED BY <2>4, <2>5, <2>6 DEF HistoryIsTheCompletedRuns
<1> QED BY <1>1, <1>7, <1>8, <1>9, AttemptsSettle

LEMMA PurgeKeepsHistories ==
  ASSUME HistoryInv, NEW R \in SUBSET Purgeable, Purge(R)
  PROVE  HistoriesAreSettled' /\ HistoryIsTheCompletedRuns'
<1>1. /\ UNCHANGED <<exec, minted>>
      /\ \A r \in Runs : run'[r] = IF r \in R THEN AbsentRun ELSE run[r]
      /\ \A s \in Sessions : session'[s] = AbsentSession \/ session'[s] = session[s]
      /\ \A r \in Runs \ R : run[r].session \in Sessions =>
            session'[run[r].session] = session[run[r].session]
  BY DEF Purge, PurgeRuns
<1>2. /\ AbsentRun.status = "absent" /\ AbsentSession.history = {}
  BY DEF AbsentRun, AbsentSession
<1>3. HistoriesAreSettled'
  BY <1>1, <1>2 DEF HistoryInv, HistoriesAreSettled, In
<1>4. \A r \in Runs : run[r].status = "completed" => run[r].session \in Sessions
  BY DEF HistoryInv, ReservationInv, WellFormed, StoredRunsAreWhole
<1>5. \A s \in Sessions : \A r \in session[s].history : r \in Runs
  BY DEF HistoryInv, ReservationInv, WellFormed, TypeOK, StoreTypeOK, SessionRecord
<1>6. ASSUME NEW r \in Runs, run'[r].status = "completed"
      PROVE  r \in session'[run'[r].session].history
  <2>1. r \notin R /\ run'[r] = run[r]
    BY <1>1, <1>2, <1>6
  <2> QED BY <1>1, <1>4, <1>6, <2>1 DEF HistoryInv, HistoryIsTheCompletedRuns
<1>7. ASSUME NEW s \in Sessions, NEW r \in session'[s].history
      PROVE  run'[r].status \in {"completed", "absent"}
  <2>1. r \in session[s].history
    BY <1>1, <1>2, <1>7
  <2> QED BY <1>1, <1>2, <1>5, <2>1 DEF HistoryInv, HistoryIsTheCompletedRuns
<1> QED BY <1>3, <1>6, <1>7 DEF HistoryIsTheCompletedRuns

LEMMA HistoryIsKept == HistoryInv /\ [Next]_vars => HistoryInv'
<1> SUFFICES ASSUME HistoryInv, [Next]_vars PROVE HistoryInv'
  OBVIOUS
<1>1. ReservationInv' /\ SnapshotInv'
  BY ReservationIsKept, SnapshotsAreKept DEF HistoryInv, SnapshotInv
<1>2. ASSUME UNCHANGED <<run, session, exec, minted>>
      PROVE  HistoriesAreSettled' /\ HistoryIsTheCompletedRuns'
  BY <1>2 DEF HistoryInv, HistoriesAreSettled, HistoryIsTheCompletedRuns, In
<1>3. HistoriesAreSettled' /\ HistoryIsTheCompletedRuns'
  BY <1>1, <1>2, AttemptsKeepHistories, PurgeKeepsHistories
     DEF Next, Tick, vars, storeVars, HistoryInv
<1> QED BY <1>1, <1>3 DEF HistoryInv, SnapshotInv

LEMMA HistoryIsInvariant == Spec => []HistoryInv
<1>1. Init => ReservationInv
  BY InitReserves
<1>2. Init => SnapshotInv
  BY DEF Init, StoreInit, SnapshotInv, SessionsAreWhole, SnapshotsAreAccurate,
         NewSessionsAreUnshared, HasSnapshot, IdleExec, AbsentSession
<1>3. Init => HistoriesAreSettled /\ HistoryIsTheCompletedRuns
  BY DEF Init, StoreInit, HistoriesAreSettled, HistoryIsTheCompletedRuns, AbsentSession,
         AbsentRun
<1>4. Init => HistoryInv
  BY <1>1, <1>2, <1>3 DEF HistoryInv, SnapshotInv
<1> QED BY <1>4, HistoryIsKept, PTL DEF Spec

(* No interaction is lost or invented: the history of a session accounts   *)
(* for every completed run that is stored, and for no run that did not     *)
(* complete, whatever stale sessions starts, takeovers and compactions     *)
(* write back.                                                             *)
THEOREM HistoryIsComplete == Spec => []HistoryIsTheCompletedRuns
<1>1. HistoryInv => HistoryIsTheCompletedRuns
  BY DEF HistoryInv
<1> QED BY <1>1, HistoryIsInvariant, PTL

-----------------------------------------------------------------------------
(* The refinement of the reservation of sessions.                          *)

LEMMA CreationReserves ==
  ASSUME WellFormed, NEW r \in Runs, NEW s \in Sessions, Creates(r, s)
  PROVE  Reservation!Reserve(r, s)
<1>1. run'[r].status = "running" /\ run'[r].session = s
      /\ \A q \in Runs : q # r => run'[q] = run[q]
  BY DEF Creates, WellFormed, TypeOK, StoreTypeOK
<1>2. Standing(r) = "absent"
  BY DEF Creates, Standing, Active
<1>3. \A q \in Runs : Standing(q) = "active" <=> run[q].status \in Active
  BY DEF Standing, Active, WellFormed, TypeOK, StoreTypeOK, RunRecord, Terminal
<1>4. ~ Reservation!Reserved(s)
  BY <1>3 DEF Reservation!Reserved, Creates, SessionBusyExcept, Holds
<1>5. \A q \in Runs : Standing(q)' = IF q = r THEN "active" ELSE Standing(q)
  <2>1. ASSUME NEW q \in Runs, q = r PROVE Standing(q)' = "active"
    BY <1>1, <2>1 DEF Standing, Active
  <2>2. ASSUME NEW q \in Runs, q # r PROVE Standing(q)' = Standing(q)
    BY <1>1, <2>2 DEF Standing
  <2> QED BY <2>1, <2>2
<1>6. [q \in Runs |-> Standing(q)]' = [[q \in Runs |-> Standing(q)] EXCEPT ![r] = "active"]
  BY <1>5
<1>7. [q \in Runs |-> run[q].session]' = [[q \in Runs |-> run[q].session] EXCEPT ![r] = s]
  BY <1>1
<1>8. [t \in Sessions |-> session[t].history]' = [t \in Sessions |-> session[t].history]
  BY DEF Creates
<1> QED BY <1>2, <1>4, <1>6, <1>7, <1>8 DEF Reservation!Reserve

LEMMA EndingSettles ==
  ASSUME WellFormed, NEW r \in Runs, Settles(r)
  PROVE  Reservation!Complete(r) \/ Reservation!Abandon(r)
<1> DEFINE ending == IF run'[r].status = "completed" THEN "completed" ELSE "abandoned"
<1>1. Standing(r) = "active"
  <2>1. run[r].status \in Active
    BY DEF Settles
  <2> QED BY <2>1 DEF Standing, Active
<1>2. \A q \in Runs : Standing(q)' = IF q = r THEN ending ELSE Standing(q)
  <2>1. ASSUME NEW q \in Runs, q = r PROVE Standing(q)' = ending
    <3>1. run'[q].status \in Terminal /\ ending = IF run'[q].status = "completed" THEN "completed" ELSE "abandoned"
      BY <2>1 DEF Settles
    <3> HIDE DEF ending
    <3> QED BY <3>1 DEF Standing, Active, Terminal
  <2>2. ASSUME NEW q \in Runs, q # r PROVE Standing(q)' = Standing(q)
    BY <2>2 DEF Settles, Standing
  <2> QED BY <2>1, <2>2
<1>3. [q \in Runs |-> Standing(q)]' = [[q \in Runs |-> Standing(q)] EXCEPT ![r] = ending]
  BY <1>2
<1>4. [q \in Runs |-> run[q].session]' = [q \in Runs |-> run[q].session]
  BY DEF Settles
<1>5. CASE run'[r].status = "completed"
  <2>1. [s \in Sessions |-> session[s].history]' =
          [[s \in Sessions |-> session[s].history]
             EXCEPT ![run[r].session] = @ \cup {r}]
    BY <1>5 DEF Settles
  <2>2. Reservation!Complete(r)
    BY <1>1, <1>3, <1>4, <1>5, <2>1 DEF Reservation!Complete
  <2> QED BY <2>2
<1>6. CASE run'[r].status # "completed"
  <2>1. [s \in Sessions |-> session[s].history]' = [s \in Sessions |-> session[s].history]
    BY <1>6 DEF Settles
  <2>2. Reservation!Abandon(r)
    BY <1>1, <1>3, <1>4, <1>6, <2>1 DEF Reservation!Abandon
  <2> QED BY <2>2
<1> QED BY <1>5, <1>6

LEMMA PurgingForgets ==
  ASSUME WellFormed, NEW R \in SUBSET Purgeable, Purge(R)
  PROVE  Reservation!Forget(R)
<1> DEFINE emptied == {s \in Sessions : /\ \E r \in R : run[r].session = s
                                      /\ \A r \in Runs \ R : run[r].session # s}
<1>1. /\ \A r \in Runs : run'[r] = IF r \in R THEN AbsentRun ELSE run[r]
      /\ \A s \in Sessions : session'[s] = IF s \in emptied THEN AbsentSession ELSE session[s]
      /\ \A r \in R : r \in Runs /\ run[r].status \in Terminal
  BY DEF Purge, PurgeRuns, Purgeable
<1>2. \A r \in R : Standing(r) \in {"completed", "abandoned"}
  BY <1>1 DEF Standing, Active, Terminal
<1>3. \A r \in Runs : Standing(r)' = IF r \in R THEN "absent" ELSE Standing(r)
  BY <1>1 DEF Standing, AbsentRun, Active
<1>4. [r \in Runs |-> Standing(r)]' = [r \in Runs |-> IF r \in R THEN "absent" ELSE Standing(r)]
  BY <1>3
<1>5. [r \in Runs |-> run[r].session]' =
        [r \in Runs |-> IF r \in R THEN NoSession ELSE run[r].session]
  BY <1>1 DEF AbsentRun
<1>6. [s \in Sessions |-> session[s].history]' =
        [s \in Sessions |-> IF s \in emptied THEN {} ELSE session[s].history]
  <2>1. \A s \in Sessions : session'[s].history =
          IF s \in emptied THEN {} ELSE session[s].history
    <3>1. AbsentSession.history = {}
      BY DEF AbsentSession
    <3> HIDE DEF emptied
    <3> QED BY <1>1, <3>1
  <2> HIDE DEF emptied
  <2> QED BY <2>1
<1>7. \A r \in R : r \in Runs /\ [q \in Runs |-> Standing(q)][r] \in {"completed", "abandoned"}
  BY <1>1, <1>2
<1>8. emptied = {s \in Sessions : /\ \E r \in R : [q \in Runs |-> run[q].session][r] = s
                                 /\ \A r \in Runs \ R : [q \in Runs |-> run[q].session][r] # s}
  BY <1>1
<1>9. \A r \in Runs : [q \in Runs |-> Standing(q)][r] = Standing(r)
  OBVIOUS
<1> HIDE DEF emptied
<1> QED BY <1>4, <1>5, <1>6, <1>7, <1>8, <1>9 DEF Reservation!Forget

LEMMA AttemptsReserve ==
  ASSUME ReservationInv, SnapshotInv, NEW o \in Owners, Attempt(o)
  PROVE  [Reservation!Next]_(Reservation!vars)
<1> DEFINE e == exec[o]
<1>1. CASE Quiet
  BY <1>1 DEF Quiet, Reservation!vars
<1>2. CASE In(o, "creating") /\ Creates(e.run, e.session)
  <2>1. e.run \in Runs /\ e.session \in Sessions
    BY <1>2, AttemptOfType DEF ReservationInv, IsEngaged, In
  <2>2. PICK r \in Runs, s \in Sessions : Creates(r, s)
    BY <1>2, <2>1
  <2> QED BY <2>2, CreationReserves DEF Reservation!Next, ReservationInv
<1>3. CASE e.phase \in Following /\ Settles(e.run)
  <2>1. e.run \in Runs
    BY <1>3, FollowerIsWell DEF ReservationInv
  <2>2. PICK r \in Runs : Settles(r)
    BY <1>3, <2>1
  <2> QED BY <2>2, EndingSettles DEF Reservation!Next, ReservationInv
<1> QED BY <1>1, <1>2, <1>3, AttemptsSettle

(* The engines and the store implement the reservation of sessions: every  *)
(* step of an attempt, whatever it raced with, reserves a session that was *)
(* free, settles a run once, or changes nothing a session shows, and a     *)
(* purge forgets a history only with the last run of the session.          *)
THEOREM RunsReserveSessions == Spec => ReservesSessions
<1>1. Init => Reservation!Init
  BY DEF Init, StoreInit, Reservation!Init, Standing, AbsentRun, AbsentSession, Active
<1>2. HistoryInv /\ [Next]_vars => [Reservation!Next]_(Reservation!vars)
  <2> SUFFICES ASSUME HistoryInv, [Next]_vars PROVE [Reservation!Next]_(Reservation!vars)
    OBVIOUS
  <2>1. ReservationInv /\ SnapshotInv /\ WellFormed
    BY DEF HistoryInv, SnapshotInv, ReservationInv
  <2>2. ASSUME NEW o \in Owners, Attempt(o) PROVE [Reservation!Next]_(Reservation!vars)
    BY <2>1, <2>2, AttemptsReserve
  <2>3. ASSUME NEW R \in SUBSET Purgeable, Purge(R)
        PROVE  [Reservation!Next]_(Reservation!vars)
    <3>1. R \in SUBSET Runs
      BY DEF Purgeable
    <3> QED BY <2>1, <2>3, <3>1, PurgingForgets DEF Reservation!Next
  <2>4. CASE UNCHANGED <<run, session>>
    BY <2>4 DEF Reservation!vars, Standing
  <2> QED BY <2>2, <2>3, <2>4 DEF Next, Tick, vars, storeVars
<1> QED BY <1>1, <1>2, HistoryIsInvariant, PTL DEF Spec, Reservation!Spec, ReservesSessions

-----------------------------------------------------------------------------
(* What a lease protects: a run has a checkpoint exactly as long as it is  *)
(* active; its event numbers increase; whoever believes to hold its lease  *)
(* does, and what a takeover has read is what it replaces.                 *)

(* A run has a checkpoint exactly as long as it is active.                 *)

(* An attempt that will write the position it holds back has read one: a    *)
(* takeover, unless it cancels, after its checkpoint read, and an owner.    *)
Resuming(e) ==
  \/ e.phase \in {"checked", "owning"}
  \/ e.phase \in {"contending", "leased", "caughtUp"} /\ e.cancels = FALSE

Positioned(e) == Resuming(e) => e.position # 0

CheckpointInv == CheckpointIffActive /\ \A o \in Owners : Positioned(exec[o])

(* What goes on resuming, or starts to, holds the position it held.         *)
KeepsPosition(f, e) == Resuming(f) => Resuming(e) /\ f.position = e.position

-----------------------------------------------------------------------------
(* A step that moves one attempt and neither runs nor checkpoints.          *)
LEMMA ResumerMoves ==
  ASSUME ReservationInv, CheckpointInv, UNCHANGED <<run, checkpoint>>,
         NEW o \in Owners, NEW f, Become(o, f), Positioned(f)
  PROVE  CheckpointInv'
<1>1. exec'[o] = f /\ \A p \in Owners : p # o => exec'[p] = exec[p]
  BY OthersStay DEF ReservationInv
<1>2. \A p \in Owners : Positioned(exec'[p])
  BY <1>1 DEF CheckpointInv
<1> QED BY <1>2 DEF CheckpointInv, CheckpointIffActive, Positioned, Resuming

LEMMA ResumerCarriesOn ==
  ASSUME ReservationInv, CheckpointInv, UNCHANGED <<run, checkpoint>>,
         NEW o \in Owners, NEW f, Become(o, f), KeepsPosition(f, exec[o])
  PROVE  CheckpointInv'
<1>1. Positioned(f)
  BY DEF CheckpointInv, Positioned, KeepsPosition
<1> QED BY <1>1, ResumerMoves

(* An attempt that is over, or has only its lease to give back, resumes     *)
(* nothing.                                                                 *)
LEMMA IdlersResumeNothing ==
  ASSUME NEW e \in ExecRecord
  PROVE  ~Resuming(Retired(e)) /\ ~Resuming(Token(e))
<1>1. Token(e).phase = "releasing"
  BY DEF Token, IdleExec
<1>2. Retired(e).phase = "done"
  <2>1. CASE e.renewal = 0
    BY <2>1 DEF Retired, IdleExec
  <2>2. CASE e.renewal # 0
    BY <2>2 DEF Retired, Token, IdleExec
  <2> QED BY <2>1, <2>2
<1> QED BY <1>1, <1>2 DEF Resuming

LEMMA CreateKeepsCheckpoints ==
  ASSUME ReservationInv, CheckpointInv, NEW o \in Owners, Create(o)
  PROVE  CheckpointInv'
<1> DEFINE e == exec[o]
<1>1. e \in ExecRecord /\ e.run \in Runs
  BY AttemptOfType DEF ReservationInv, Create, In, IsEngaged
<1>2. Positioned(Retired(e))
  BY <1>1, IdlersResumeNothing DEF Positioned
<1>3. ASSUME Become(o, Retired(e)), UNCHANGED storeVars PROVE CheckpointInv'
  BY <1>2, <1>3, ResumerMoves DEF storeVars
<1>4. ASSUME NEW expires,
             CreateExecution(e.run, e.session, e.snapshot, o, expires),
             \/ Become(o, [e EXCEPT !.phase = "owning", !.revision = 1,
                                    !.status = "running", !.position = 1, !.sequence = 1,
                                    !.generation = 1, !.expires = expires,
                                    !.snapshot = StoredSession(@)])
             \/ Become(o, Retired(e))
      PROVE  CheckpointInv'
  <2> DEFINE stored == StoredSession(e.snapshot)
             f == [e EXCEPT !.phase = "owning", !.revision = 1,
                            !.status = "running", !.position = 1, !.sequence = 1,
                            !.generation = 1, !.expires = expires, !.snapshot = stored]
  <2>1. Become(o, f) \/ Become(o, Retired(e))
    BY <1>4
  <2> HIDE DEF stored
  <2>2. Positioned(f)
    BY <1>1 DEF Positioned, ExecRecord
  <2> HIDE DEF f
  <2>3. \A p \in Owners : Positioned(exec'[p])
    BY <1>2, <2>1, <2>2, OthersStay DEF ReservationInv, CheckpointInv
  <2>4. /\ run'[e.run].status = "running" /\ checkpoint'[e.run] = 1
        /\ \A r \in Runs : r # e.run => run'[r] = run[r] /\ checkpoint'[r] = checkpoint[r]
    BY <1>1, <1>4 DEF CreateExecution, ReservationInv, WellFormed, TypeOK, StoreTypeOK
  <2> QED BY <2>3, <2>4 DEF CheckpointInv, CheckpointIffActive, Positioned, Resuming, Active
<1> QED BY <1>3, <1>4 DEF Create

-----------------------------------------------------------------------------
(* A commit deletes the checkpoint of a run it ends, and of no other.       *)
Ends(c) ==
  IF c.checkpoint = {} THEN c.status \in Active
  ELSE Only(c.checkpoint) # 0 <=> c.status \in Active

LEMMA CommitStepKeepsCheckpoints ==
  ASSUME ReservationInv, CheckpointInv, NEW o \in Owners, exec[o].phase \in Following,
         NEW c \in CommitRecord, c.run = exec[o].run,
         c.expectedRevision = exec[o].revision, Ends(c),
         NEW a, NEW u, NEW t, CommitStep(o, c, a, u, t),
         Positioned(a), Positioned(u), Positioned(t)
  PROVE  CheckpointInv'
<1>1. Become(o, a) \/ Become(o, u) \/ Become(o, t)
  BY DEF CommitStep
<1>2. CASE UNCHANGED storeVars
  BY <1>1, <1>2, ResumerMoves DEF storeVars
<1>3. CASE CommitAllowed(c) /\ CommitExecution(c)
  <2>1. \A p \in Owners : Positioned(exec'[p])
    BY <1>1, OthersStay DEF ReservationInv, CheckpointInv
  <2>2. run[c.run].status \in Active /\ c.run \in Runs
    BY <1>3, CommitsAreInformed DEF CommitRecord
  <2>3. /\ run'[c.run].status = c.status
        /\ \A r \in Runs : r # c.run => run'[r] = run[r]
    BY <1>3, <2>2 DEF CommitExecution, ReservationInv, WellFormed, TypeOK, StoreTypeOK, RunRecord
  <2>4. /\ checkpoint'[c.run] = IF c.checkpoint = {} THEN checkpoint[c.run]
                               ELSE Only(c.checkpoint)
        /\ \A r \in Runs : r # c.run => checkpoint'[r] = checkpoint[r]
    BY <1>3, <2>2 DEF CommitExecution, ReservationInv, WellFormed, TypeOK, StoreTypeOK
  <2>5. checkpoint'[c.run] # 0 <=> run'[c.run].status \in Active
    BY <2>2, <2>3, <2>4 DEF Ends, CheckpointInv, CheckpointIffActive
  <2>6. \A r \in Runs : checkpoint'[r] # 0 <=> run'[r].status \in Active
    BY <2>3, <2>4, <2>5 DEF CheckpointInv, CheckpointIffActive
  <2> QED BY <2>1, <2>6 DEF CheckpointInv, CheckpointIffActive, Positioned, Resuming
<1> QED BY <1>2, <1>3 DEF CommitStep

(* What an attempt is after a commit: it holds the position it wrote.       *)
LEMMA AnsweredIsPositioned ==
  ASSUME ReservationInv, CheckpointInv, NEW o \in Owners, Resuming(exec[o]),
         exec[o].phase \in Following,
         NEW c \in CommitRecord, c.status \in Active, Ends(c)
  PROVE  Positioned(Answered(o, c)) /\ Positioned(Thrown(o, c))
<1>1. exec[o] \in ExecRecord /\ exec[o].position # 0
  BY FollowerIsWell DEF ReservationInv, CheckpointInv, Positioned
<1>2. /\ Answered(o, c).position = IF c.checkpoint = {} THEN exec[o].position
                                  ELSE Only(c.checkpoint)
      /\ Thrown(o, c).position = exec[o].position
  <2> DEFINE v == exec[o].revision + 1
             q == exec[o].sequence + Len(c.events)
             p == IF c.checkpoint = {} THEN exec[o].position ELSE Only(c.checkpoint)
             s == IF c.session = {} THEN exec[o].snapshot
                  ELSE StoredSession(Only(c.session))
  <2>1. Answered(o, c) = [exec[o] EXCEPT !.phase = "owning", !.revision = v,
                            !.status = c.status, !.sequence = q, !.position = p,
                            !.snapshot = s]
    BY <1>1 DEF Answered, ExecRecord
  <2>2. Thrown(o, c) = [exec[o] EXCEPT !.phase = "owning", !.sequence = q]
    BY DEF Thrown
  <2> HIDE DEF v, q, s
  <2> HIDE DEF p
  <2>3. Answered(o, c).position = p /\ Thrown(o, c).position = exec[o].position
    BY <1>1, <2>1, <2>2 DEF ExecRecord
  <2> QED BY <2>3 DEF p
<1> QED BY <1>1, <1>2 DEF Positioned, Ends

LEMMA CommitsKeepCheckpoints ==
  ASSUME ReservationInv, CheckpointInv, NEW o \in Owners,
         \/ TakeOver(o) \/ TakeOverToCancel(o) \/ EmitEvent(o) \/ SaveProgress(o)
         \/ CompactInRun(o) \/ Pause(o) \/ Complete(o)
         \/ \E status \in {"failed", "cancelled"} : Abandon(o, status)
  PROVE  CheckpointInv'
<1> DEFINE e == exec[o]
           pushed == [e.snapshot EXCEPT !.history = @ \cup {e.run}]
<1>1. /\ e.phase \in Following /\ e \in ExecRecord
      /\ e.run \in Runs /\ e.session \in Sessions
  BY FollowerIsWell
     DEF ReservationInv, TakeOver, TakeOverToCancel, EmitEvent, SaveProgress, CompactInRun,
         Pause, Complete, Abandon, In, Following
<1>2. /\ e.position \in Nat /\ e.position + 1 \in Nat /\ e.position + 1 # 0
      /\ e.snapshot \in SessionRecord
  BY <1>1 DEF ExecRecord
<1>3. pushed \in SessionRecord
  BY <1>1, <1>2 DEF SessionRecord
<1>4. Positioned(Token(e)) /\ Positioned(Retired(e))
  BY <1>1, IdlersResumeNothing DEF Positioned
(* A commit to go on after, and one to end with. *)
<1>5. ASSUME NEW status \in Active, NEW position \in SUBSET Nat,
             NEW withSession \in SUBSET SessionRecord, NEW n \in {0, 1},
             position # {} => Only(position) # 0, Resuming(e),
             LET c == CommitOf(o, status, position, withSession, n) IN
             \/ Continue(o, c) \/ Conclude(o, c)
             \/ CommitStep(o, c, Answered(o, c), Token(e), Token(e))
      PROVE  CheckpointInv'
  <2> DEFINE c == CommitOf(o, status, position, withSession, n)
  <2>1. c \in CommitRecord
    BY <1>1, CommitOfType DEF ReservationInv
  <2>2. /\ c.run = e.run /\ c.expectedRevision = e.revision
        /\ c.status \in Active /\ Ends(c)
    BY <1>5 DEF CommitOf, Ends
  <2> HIDE DEF c
  <2>3. Positioned(Answered(o, c)) /\ Positioned(Thrown(o, c))
    BY <1>1, <1>5, <2>1, <2>2, AnsweredIsPositioned
  <2> QED BY <1>1, <1>4, <1>5, <2>1, <2>2, <2>3, CommitStepKeepsCheckpoints
          DEF Continue, Conclude, c
<1>6. ASSUME NEW status \in Terminal,
             NEW withSession \in SUBSET SessionRecord,
             LET c == CommitOf(o, status, {0}, withSession, 1) IN
             \/ Conclude(o, c)
             \/ CommitStep(o, c, Token(e), Retired(e), Retired(e))
      PROVE  CheckpointInv'
  <2> DEFINE c == CommitOf(o, status, {0}, withSession, 1)
  <2>1. c \in CommitRecord
    <3>1. {0} \in SUBSET Nat
      OBVIOUS
    <3> QED BY <1>1, <3>1, CommitOfType DEF ReservationInv
  <2>2. /\ c.run = e.run /\ c.expectedRevision = e.revision
        /\ c.status = status /\ c.checkpoint = {0}
    BY DEF CommitOf
  <2> HIDE DEF c
  <2>3. Ends(c)
    BY <2>2, OnlyOne DEF Ends, Active, Terminal
  <2> QED BY <1>1, <1>4, <1>6, <2>1, <2>2, <2>3, CommitStepKeepsCheckpoints DEF Conclude, c
<1>7. /\ {e.position} \in SUBSET Nat /\ {e.position + 1} \in SUBSET Nat
      /\ {e.snapshot} \in SUBSET SessionRecord /\ {pushed} \in SUBSET SessionRecord
      /\ {} \in SUBSET SessionRecord /\ {} \in SUBSET Nat
      /\ Only({e.position}) = e.position /\ Only({e.position + 1}) = e.position + 1
  BY <1>2, <1>3, OnlyOne
<1>8. "running" \in Active /\ "paused" \in Active
      /\ {"completed", "failed", "cancelled"} \subseteq Terminal
  BY DEF Active, Terminal
<1> HIDE DEF pushed
<1>9. ASSUME TakeOver(o) PROVE CheckpointInv'
  <2>1. Resuming(e) /\ e.position # 0
    BY <1>1, <1>9 DEF TakeOver, In, Resuming, CheckpointInv, Positioned, ExecRecord
  <2> QED BY <1>5, <1>7, <1>8, <1>9, <2>1 DEF TakeOver
<1>10. ASSUME TakeOverToCancel(o) PROVE CheckpointInv'
  BY <1>6, <1>7, <1>8, <1>10 DEF TakeOverToCancel
<1>11. ASSUME EmitEvent(o) PROVE CheckpointInv'
  BY <1>5, <1>7, <1>8, <1>11 DEF EmitEvent, In, Resuming
<1>12. ASSUME SaveProgress(o) PROVE CheckpointInv'
  BY <1>2, <1>5, <1>7, <1>8, <1>12 DEF SaveProgress, In, Resuming
<1>13. ASSUME CompactInRun(o) PROVE CheckpointInv'
  BY <1>2, <1>5, <1>7, <1>8, <1>13 DEF CompactInRun, In, Resuming
<1>14. ASSUME Pause(o) PROVE CheckpointInv'
  BY <1>2, <1>5, <1>7, <1>8, <1>14 DEF Pause, In, Resuming
<1>15. ASSUME Complete(o) PROVE CheckpointInv'
  <2>1. Conclude(o, CommitOf(o, "completed", {0}, {pushed}, 1))
    BY <1>15 DEF Complete, pushed
  <2> QED BY <1>6, <1>7, <1>8, <2>1
<1>16. ASSUME NEW status \in {"failed", "cancelled"}, Abandon(o, status)
       PROVE  CheckpointInv'
  BY <1>6, <1>7, <1>8, <1>16 DEF Abandon, Conclude
<1> QED BY <1>9, <1>10, <1>11, <1>12, <1>13, <1>14, <1>15, <1>16

-----------------------------------------------------------------------------
LEMMA AttemptsKeepCheckpoints ==
  ASSUME ReservationInv, CheckpointInv, NEW o \in Owners, Attempt(o)
  PROVE  CheckpointInv'
<1> DEFINE e == exec[o]
<1>1. /\ e \in ExecRecord /\ (e.phase \in Following => e.run \in Runs)
      /\ KeepsPosition(Retired(e), e) /\ KeepsPosition(Token(e), e)
  BY AttemptOfType, IdlersResumeNothing DEF ReservationInv, KeepsPosition, IsEngaged
<1>2. ASSUME NEW r \in Runs, NEW s \in Sessions,
             PrepareNewSession(o, r, s) \/ PrepareKnownSession(o, r, s)
      PROVE  CheckpointInv'
  <2>1. Become(o, Prepared(r, s)) /\ UNCHANGED storeVars
    BY <1>2 DEF PrepareNewSession, PrepareKnownSession
  <2>2. Positioned(Prepared(r, s))
    BY DEF Positioned, Resuming, Prepared, IdleExec
  <2> QED BY <2>1, <2>2, ResumerMoves DEF storeVars
<1>3. ASSUME NEW s \in Sessions, ReadForCompaction(o, s) PROVE CheckpointInv'
  <2> DEFINE f == [IdleExec EXCEPT !.phase = "compacting", !.session = s,
                                   !.snapshot = session[s]]
  <2>1. Positioned(f)
    BY DEF Positioned, Resuming, IdleExec
  <2> QED BY <1>3, <2>1, ResumerMoves DEF ReadForCompaction, storeVars
<1>4. ASSUME SaveCompaction(o) PROVE CheckpointInv'
  BY <1>1, <1>4, ResumerCarriesOn DEF SaveCompaction, SaveSession, storeVars
<1>5. ASSUME NEW r \in Runs, Locate(o, r) PROVE CheckpointInv'
  <2> DEFINE f == [IdleExec EXCEPT !.phase = "located", !.run = r,
                                   !.session = run[r].session,
                                   !.revision = run[r].revision,
                                   !.status = run[r].status]
  <2>1. Positioned(f)
    BY DEF Positioned, Resuming, IdleExec
  <2> QED BY <1>5, <2>1, ResumerMoves DEF Locate, storeVars
<1>6. ASSUME ReadCheckpoint(o) PROVE CheckpointInv'
  <2> DEFINE f == [e EXCEPT !.phase = "checked", !.position = checkpoint[e.run]]
  <2>1. CASE checkpoint[e.run] = 0
    BY <1>1, <1>6, <2>1, ResumerCarriesOn DEF ReadCheckpoint, storeVars
  <2>2. CASE checkpoint[e.run] # 0
    <3>1. Become(o, f)
      BY <1>6, <2>2 DEF ReadCheckpoint
    <3>2. Positioned(f)
      BY <1>1, <2>2 DEF Positioned, ExecRecord
    <3> QED BY <1>6, <3>1, <3>2, ResumerMoves DEF ReadCheckpoint, storeVars
  <2> QED BY <2>1, <2>2
<1>7. ASSUME ReadSession(o) PROVE CheckpointInv'
  <2> DEFINE f == [e EXCEPT !.phase = "contending", !.snapshot = session[e.session],
                            !.expires = now + LeaseTerm]
  <2>1. KeepsPosition(f, e)
    BY <1>1, <1>7 DEF ReadSession, In, KeepsPosition, Resuming, ExecRecord
  <2>2. Become(o, f) \/ Become(o, Retired(e))
    BY <1>7 DEF ReadSession
  <2> QED BY <1>1, <1>7, <2>1, <2>2, ResumerCarriesOn DEF ReadSession, storeVars
<1>8. ASSUME LocateToCancel(o) PROVE CheckpointInv'
  <2> DEFINE f == [e EXCEPT !.phase = "contending", !.cancels = TRUE,
                            !.expires = now + LeaseTerm]
  <2>1. f.phase = "contending" /\ f.cancels = TRUE
    BY <1>1 DEF ExecRecord
  <2>2. Positioned(f)
    BY <2>1 DEF Positioned, Resuming
  <2> QED BY <1>8, <2>2, ResumerMoves DEF LocateToCancel, storeVars
<1>9. ASSUME Acquire(o) PROVE CheckpointInv'
  <2> DEFINE f == [e EXCEPT !.phase = "leased",
                            !.generation = lease[e.run].generation + 1]
  <2>1. KeepsPosition(f, e)
    BY <1>1, <1>9 DEF Acquire, In, KeepsPosition, Resuming, ExecRecord
  <2>2. UNCHANGED <<run, checkpoint>> /\ (Become(o, f) \/ Become(o, Retired(e)))
    BY <1>9 DEF Acquire, AcquireLease, storeVars
  <2> QED BY <1>1, <2>1, <2>2, ResumerCarriesOn
<1>10. ASSUME ReadEvents(o) PROVE CheckpointInv'
  <2> DEFINE last == IF events[e.run] = <<>> THEN 0
                     ELSE events[e.run][Len(events[e.run])]
             f == [e EXCEPT !.phase = "caughtUp", !.sequence = last]
  <2>1. Become(o, f)
    BY <1>10 DEF ReadEvents
  <2> HIDE DEF last
  <2>2. KeepsPosition(f, e)
    BY <1>1, <1>10 DEF ReadEvents, In, KeepsPosition, Resuming, ExecRecord
  <2> QED BY <1>10, <2>1, <2>2, ResumerCarriesOn DEF ReadEvents, storeVars
<1>11. ASSUME IssueRenewal(o) PROVE CheckpointInv'
  <2> DEFINE f == [e EXCEPT !.renewal = now + LeaseTerm]
  <2>1. KeepsPosition(f, e)
    BY <1>1 DEF KeepsPosition, Resuming, ExecRecord
  <2> QED BY <1>11, <2>1, ResumerCarriesOn DEF IssueRenewal, storeVars
<1>12. ASSUME ApplyRenewal(o) PROVE CheckpointInv'
  <2> DEFINE f == [e EXCEPT !.renewal = 0]
             g == [f EXCEPT !.expires = e.renewal]
  <2>1. f \in ExecRecord /\ KeepsPosition(f, e) /\ KeepsPosition(g, e)
    BY <1>1 DEF KeepsPosition, Resuming, ExecRecord
  <2>2. KeepsPosition(Retired(f), e) /\ KeepsPosition(Token(f), e)
    BY <2>1, IdlersResumeNothing DEF KeepsPosition
  <2>3. Become(o, f) \/ Become(o, g) \/ Become(o, Retired(f)) \/ Become(o, Token(f))
    BY <1>12 DEF ApplyRenewal
  <2>4. UNCHANGED <<run, checkpoint>>
    BY <1>12 DEF ApplyRenewal, RenewLease, storeVars
  <2> QED BY <2>1, <2>2, <2>3, <2>4, ResumerCarriesOn
<1>13. ASSUME LoseLease(o) \/ Release(o) \/ Crash(o) PROVE CheckpointInv'
  <2>1. UNCHANGED <<run, checkpoint>>
    BY <1>13 DEF LoseLease, Release, ReleaseLease, Crash, storeVars
  <2>2. Become(o, Token(e)) \/ Become(o, Retired(e))
    BY <1>13 DEF LoseLease, Release, Crash
  <2> QED BY <1>1, <2>1, <2>2, ResumerCarriesOn
<1> QED
  BY <1>2, <1>3, <1>4, <1>5, <1>6, <1>7, <1>8, <1>9, <1>10, <1>11, <1>12, <1>13,
     CreateKeepsCheckpoints, CommitsKeepCheckpoints DEF Attempt

LEMMA EnvironmentKeepsCheckpoints ==
  ASSUME ReservationInv, CheckpointInv, (\E R \in SUBSET Purgeable : Purge(R)) \/ Tick
  PROVE  CheckpointInv'
<1>1. ASSUME NEW R \in SUBSET Purgeable, Purge(R) PROVE CheckpointInv'
  <2>1. \A r \in Runs :
          \/ run'[r] = AbsentRun /\ checkpoint'[r] = 0
          \/ run'[r] = run[r] /\ checkpoint'[r] = checkpoint[r]
    BY <1>1 DEF Purge, PurgeRuns
  <2>2. AbsentRun.status \notin Active
    BY DEF AbsentRun, Active
  <2>3. \A r \in Runs : checkpoint'[r] # 0 <=> run'[r].status \in Active
    BY <2>1, <2>2 DEF CheckpointInv, CheckpointIffActive
  <2> QED BY <1>1, <2>3 DEF Purge, CheckpointInv, CheckpointIffActive, Positioned, Resuming
<1>2. ASSUME Tick PROVE CheckpointInv'
  BY <1>2 DEF Tick, CheckpointInv, CheckpointIffActive, Positioned, Resuming
<1> QED BY <1>1, <1>2

LEMMA CheckpointsAreKept == ReservationInv /\ CheckpointInv /\ [Next]_vars => CheckpointInv'
<1> SUFFICES ASSUME ReservationInv, CheckpointInv, [Next]_vars PROVE CheckpointInv'
  OBVIOUS
<1>1. CASE UNCHANGED vars
  BY <1>1 DEF vars, storeVars, CheckpointInv, CheckpointIffActive, Positioned, Resuming
<1> QED BY <1>1, AttemptsKeepCheckpoints, EnvironmentKeepsCheckpoints DEF Next

(* A run that is active can be taken over, and one that is over cannot:     *)
(* whatever commits are lost, refused or late, the checkpoint is written    *)
(* and deleted together with the status (commitExecution of the stores).    *)
THEOREM ActiveRunsHaveCheckpoints == Spec => []CheckpointIffActive
<1>1. Init => CheckpointInv
  BY DEF Init, StoreInit, CheckpointInv, CheckpointIffActive, Positioned, Resuming,
         IdleExec, AbsentRun, Active
<1>2. CheckpointInv => CheckpointIffActive
  BY DEF CheckpointInv
<1> QED BY <1>1, <1>2, CheckpointsAreKept, ReservationIsInvariant, PTL DEF Spec

-----------------------------------------------------------------------------
(* The sequence numbers of a run's events increase: no attempt that took a *)
(* run over, lost it, or never heard the answer of its commit appends a    *)
(* number that a reader has passed.                                        *)

Increasing(s) == \A i, j \in DOMAIN s : i < j => s[i] < s[j]
UpTo(s, n) == \A i \in DOMAIN s : s[i] <= n

(* An attempt that has read the events and may commit.                      *)
Writing(e) == e.phase \in {"caughtUp", "owning"}

(* It numbers on from the last event, as long as its revision is the stored *)
(* one; with another revision nothing it commits is accepted.               *)
Ahead(e, revision, s) == Writing(e) /\ revision = e.revision => UpTo(s, e.sequence)

EventsInv ==
  /\ EventsIncrease
  /\ \A o \in Owners : Ahead(exec[o], run[exec[o].run].revision, events[exec[o].run])

(* What goes on writing does so with the view it had.                       *)
KeepsNumber(f, e) ==
  Writing(f) => /\ Writing(e) /\ f.run = e.run /\ f.revision = e.revision
                /\ f.sequence >= e.sequence

-----------------------------------------------------------------------------
(* A sequence grows by the number after the one that bounds it.             *)
LEMMA EventsGrow ==
  ASSUME NEW s \in Seq(Nat), NEW n \in Nat, Increasing(s), UpTo(s, n),
         NEW d, d = <<>> \/ d = <<n + 1>>
  PROVE  Increasing(s \o d) /\ UpTo(s \o d, n + Len(d))
<1>1. CASE d = <<>>
  <2>1. s \o d = s /\ Len(d) = 0
    BY <1>1
  <2> QED BY <2>1 DEF UpTo
<1>2. CASE d = <<n + 1>>
  <2> DEFINE g == s \o d
  <2>1. d \in Seq(Nat) /\ Len(d) = 1 /\ d[1] = n + 1
    BY <1>2
  <2>2. /\ g \in Seq(Nat) /\ Len(s) \in Nat /\ Len(g) = Len(s) + 1
        /\ \A i \in 1 .. Len(s) : g[i] = s[i]
        /\ g[Len(s) + 1] = n + 1
    <3> HIDE <1>2
    <3>1. Len(s) \in Nat
      BY LenProperties
    <3>2. /\ g \in Seq(Nat) /\ Len(g) = Len(s) + 1
          /\ \A i \in 1 .. Len(s) + 1 : g[i] = IF i <= Len(s) THEN s[i] ELSE d[i - Len(s)]
      <4>1. /\ g \in Seq(Nat) /\ Len(g) = Len(s) + Len(d)
            /\ \A i \in 1 .. Len(s) + Len(d) : g[i] = IF i <= Len(s) THEN s[i] ELSE d[i - Len(s)]
        BY <2>1, ConcatProperties
      <4> HIDE DEF g
      <4> QED BY <2>1, <4>1
    <3> HIDE DEF g
    <3>3. \A i \in 1 .. Len(s) : g[i] = s[i]
      BY <3>1, <3>2
    <3>4. g[Len(s) + 1] = n + 1
      BY <2>1, <3>1, <3>2
    <3> QED BY <3>1, <3>2, <3>3, <3>4
  <2>3. DOMAIN g = 1 .. (Len(s) + 1) /\ DOMAIN s = 1 .. Len(s)
    BY <2>2, LenProperties
  <2>4. \A i \in DOMAIN s : s[i] \in Nat /\ s[i] <= n
    BY <2>3, ElementOfSeq DEF UpTo
  <2> HIDE DEF g
  <2>5. \A i \in DOMAIN g : i \in DOMAIN s \/ i = Len(s) + 1
    BY <2>2, <2>3
  <2>6. ASSUME NEW i \in DOMAIN g, NEW j \in DOMAIN g, i < j PROVE g[i] < g[j]
    <3>1. i \in DOMAIN s /\ g[i] = s[i]
      BY <2>2, <2>3, <2>5, <2>6
    <3>2. CASE j \in DOMAIN s
      BY <2>2, <2>3, <2>6, <3>1, <3>2 DEF Increasing
    <3>3. CASE j = Len(s) + 1
      BY <2>2, <2>4, <3>1, <3>3
    <3> QED BY <2>5, <3>2, <3>3
  <2>7. UpTo(g, n + 1)
    <3>1. ASSUME NEW i \in DOMAIN g PROVE g[i] <= n + 1
      <4>1. CASE i \in DOMAIN s
        BY <2>2, <2>3, <2>4, <4>1
      <4>2. CASE i = Len(s) + 1
        BY <2>2, <4>2
      <4> QED BY <2>5, <4>1, <4>2
    <3> QED BY <3>1 DEF UpTo
  <2> QED BY <2>1, <2>6, <2>7 DEF Increasing, g
<1> QED BY <1>1, <1>2

(* The last event bounds them all.                                          *)
LEMMA LastBounds ==
  ASSUME NEW s \in Seq(Nat), Increasing(s)
  PROVE  UpTo(s, IF s = <<>> THEN 0 ELSE s[Len(s)])
<1>1. CASE s = <<>>
  BY <1>1 DEF UpTo
<1>2. CASE s # <<>>
  <2>1. Len(s) \in Nat /\ Len(s) # 0 /\ DOMAIN s = 1 .. Len(s)
    BY <1>2, LenProperties, EmptySeq
  <2>2. \A i \in DOMAIN s : s[i] \in Nat
    BY <2>1, ElementOfSeq
  <2>3. ASSUME NEW i \in DOMAIN s PROVE s[i] <= s[Len(s)]
    <3>1. Len(s) \in DOMAIN s /\ (i = Len(s) \/ i < Len(s))
      BY <2>1
    <3> QED BY <2>2, <3>1 DEF Increasing
  <2> QED BY <1>2, <2>3 DEF UpTo
<1> QED BY <1>1, <1>2

-----------------------------------------------------------------------------
LEMMA WriterMoves ==
  ASSUME ReservationInv, EventsInv, UNCHANGED <<run, events>>,
         NEW o \in Owners, NEW f, Become(o, f),
         Ahead(f, run[f.run].revision, events[f.run])
  PROVE  EventsInv'
<1>1. exec'[o] = f /\ \A p \in Owners : p # o => exec'[p] = exec[p]
  BY OthersStay DEF ReservationInv
<1>2. \A p \in Owners : Ahead(exec'[p], run[exec'[p].run].revision, events[exec'[p].run])
  BY <1>1 DEF EventsInv
<1>3. \A p \in Owners : Ahead(exec[p], run[exec[p].run].revision, events[exec[p].run])'
  BY <1>2 DEF Ahead, Writing, UpTo
<1>4. EventsIncrease'
  BY DEF EventsInv, EventsIncrease
<1> QED BY <1>3, <1>4 DEF EventsInv

LEMMA WriterCarriesOn ==
  ASSUME ReservationInv, EventsInv, UNCHANGED <<run, events>>,
         NEW o \in Owners, NEW f \in ExecRecord, Become(o, f), KeepsNumber(f, exec[o])
  PROVE  EventsInv'
<1>1. CASE ~Writing(f)
  BY <1>1, WriterMoves DEF Ahead
<1>2. CASE Writing(f)
  <2> DEFINE e == exec[o]
             s == events[e.run]
  <2>1. /\ Writing(e) /\ f.run = e.run /\ f.revision = e.revision
        /\ f.sequence >= e.sequence
    BY <1>2 DEF KeepsNumber
  <2>2. e \in ExecRecord /\ e.run \in Runs
    BY <2>1, FollowerIsWell DEF ReservationInv, Writing, Following
  <2>3. s \in Seq(Nat) /\ e.sequence \in Nat /\ f.sequence \in Nat
    BY <2>2 DEF ReservationInv, WellFormed, TypeOK, StoreTypeOK, ExecRecord
  <2>4. \A i \in DOMAIN s : s[i] \in Nat
    BY <2>3, LenProperties, ElementOfSeq
  <2>5. Ahead(e, run[e.run].revision, s)
    BY DEF EventsInv
  <2>6. UpTo(s, e.sequence) => UpTo(s, f.sequence)
    BY <2>1, <2>3, <2>4 DEF UpTo
  <2>7. Ahead(f, run[f.run].revision, events[f.run])
    BY <2>1, <2>5, <2>6 DEF Ahead
  <2> QED BY <2>7, WriterMoves
<1> QED BY <1>1, <1>2

(* An attempt that is over, or has only its lease to give back.             *)
LEMMA IdlersWriteNothing ==
  ASSUME NEW e \in ExecRecord
  PROVE  ~Writing(Retired(e)) /\ ~Writing(Token(e))
<1>1. Token(e).phase = "releasing"
  BY DEF Token, IdleExec
<1>2. Retired(e).phase = "done"
  <2>1. CASE e.renewal = 0
    BY <2>1 DEF Retired, IdleExec
  <2>2. CASE e.renewal # 0
    BY <2>2 DEF Retired, Token, IdleExec
  <2> QED BY <2>1, <2>2
<1> QED BY <1>1, <1>2 DEF Writing

(* A run that is created is nobody's yet.                                   *)
LEMMA CreateKeepsEvents ==
  ASSUME ReservationInv, EventsInv, NEW o \in Owners, Create(o)
  PROVE  EventsInv'
<1> DEFINE e == exec[o]
<1>1. e \in ExecRecord /\ e.run \in Runs /\ In(o, "creating")
  BY AttemptOfType DEF ReservationInv, Create, In, IsEngaged
<1>2. ~Writing(Retired(e))
  BY <1>1, IdlersWriteNothing
<1>3. ASSUME Become(o, Retired(e)), UNCHANGED storeVars PROVE EventsInv'
  BY <1>2, <1>3, WriterMoves DEF storeVars, Ahead
<1>4. ASSUME NEW expires,
             CreateExecution(e.run, e.session, e.snapshot, o, expires),
             \/ Become(o, [e EXCEPT !.phase = "owning", !.revision = 1,
                                    !.status = "running", !.position = 1, !.sequence = 1,
                                    !.generation = 1, !.expires = expires,
                                    !.snapshot = StoredSession(@)])
             \/ Become(o, Retired(e))
      PROVE  EventsInv'
  <2> DEFINE stored == StoredSession(e.snapshot)
             f == [e EXCEPT !.phase = "owning", !.revision = 1,
                            !.status = "running", !.position = 1, !.sequence = 1,
                            !.generation = 1, !.expires = expires, !.snapshot = stored]
  <2>1. Become(o, f) \/ Become(o, Retired(e))
    BY <1>4
  <2> HIDE DEF stored
  <2>2. f.run = e.run /\ f.sequence = 1
    BY <1>1 DEF ExecRecord
  <2> HIDE DEF f
  <2>3. /\ events'[e.run] = <<1>>
        /\ \A r \in Runs : r # e.run => run'[r] = run[r] /\ events'[r] = events[r]
    BY <1>1, <1>4 DEF CreateExecution, ReservationInv, WellFormed, TypeOK, StoreTypeOK
  <2>4. UpTo(events'[e.run], 1) /\ Increasing(events'[e.run])
    BY <2>3 DEF UpTo, Increasing
  <2>5. ASSUME NEW p \in Owners
        PROVE  Ahead(exec'[p], run'[exec'[p].run].revision, events'[exec'[p].run])
    <3>1. CASE p = o
      <4>1. exec'[p] = f \/ exec'[p] = Retired(e)
        BY <2>1, <3>1, OthersStay DEF ReservationInv
      <4> QED BY <1>2, <2>2, <2>4, <4>1 DEF Ahead
    <3>2. CASE p # o
      <4>1. exec'[p] = exec[p]
        BY <2>1, <3>2, OthersStay DEF ReservationInv
      <4>2. exec[p].run # e.run
        BY <1>1, <3>2 DEF ReservationInv, CreatedOnce, In
      <4>3. Writing(exec[p]) => exec[p].run \in Runs
        BY FollowerIsWell DEF ReservationInv, Writing, Following
      <4>4. Ahead(exec[p], run[exec[p].run].revision, events[exec[p].run])
        BY DEF EventsInv
      <4> QED BY <2>3, <4>1, <4>2, <4>3, <4>4 DEF Ahead
    <3> QED BY <3>1, <3>2
  <2>6. \A r \in Runs : Increasing(events'[r])
    BY <2>3, <2>4 DEF EventsInv, EventsIncrease, Increasing
  <2>7. \A p \in Owners : Ahead(exec[p], run[exec[p].run].revision, events[exec[p].run])'
    BY <2>5 DEF Ahead, Writing, UpTo
  <2>8. EventsIncrease'
    BY <2>6 DEF EventsIncrease, Increasing
  <2> QED BY <2>7, <2>8 DEF EventsInv
<1> QED BY <1>3, <1>4 DEF Create

-----------------------------------------------------------------------------
(* What an attempt may be after a commit: it numbers on from what it sent.  *)
NumbersOn(x, e, c) ==
  Writing(x) => x.run = e.run /\ x.sequence = e.sequence + Len(c.events)

(* A commit that is applied leaves every other view of the run behind, so   *)
(* whatever its author becomes, only its author numbers on.                 *)
LEMMA CommitStepKeepsEvents ==
  ASSUME ReservationInv, EventsInv, NEW o \in Owners, Writing(exec[o]),
         NEW c \in CommitRecord, c.run = exec[o].run,
         c.expectedRevision = exec[o].revision,
         c.events = <<>> \/ c.events = <<exec[o].sequence + 1>>,
         NEW a, NEW u \in ExecRecord, NEW t \in ExecRecord, CommitStep(o, c, a, u, t),
         NumbersOn(a, exec[o], c), NumbersOn(t, exec[o], c),
         ~Writing(u), KeepsNumber(t, exec[o])
  PROVE  EventsInv'
<1> DEFINE e == exec[o]
           s == events[e.run]
<1>1. /\ e.phase \in Following /\ e \in ExecRecord /\ e.run \in Runs
      /\ e.sequence \in Nat /\ e.revision \in Nat
  BY FollowerIsWell DEF ReservationInv, Writing, Following, ExecRecord
<1>2. CASE UNCHANGED storeVars /\ (Become(o, u) \/ Become(o, t))
  <2>1. KeepsNumber(u, e)
    BY DEF KeepsNumber
  <2> QED BY <1>2, <2>1, WriterCarriesOn DEF storeVars
<1>3. CASE CommitAllowed(c) /\ CommitExecution(c) /\ (Become(o, a) \/ Become(o, t))
  <2>1. run[e.run].revision = e.revision
    BY <1>3 DEF CommitAllowed
  <2>2. /\ run'[e.run].revision = e.revision + 1
        /\ \A r \in Runs : r # e.run => run'[r] = run[r]
    BY <1>1, <1>3 DEF CommitExecution, ReservationInv, WellFormed, TypeOK, StoreTypeOK, RunRecord
  <2>3. /\ events'[e.run] = s \o c.events
        /\ \A r \in Runs : r # e.run => events'[r] = events[r]
    BY <1>1, <1>3 DEF CommitExecution, ReservationInv, WellFormed, TypeOK, StoreTypeOK
  <2>4. s \in Seq(Nat) /\ Increasing(s) /\ UpTo(s, e.sequence)
    BY <1>1, <2>1 DEF ReservationInv, WellFormed, TypeOK, StoreTypeOK, EventsInv,
                      EventsIncrease, Increasing, Ahead
  <2>5. Increasing(events'[e.run]) /\ UpTo(events'[e.run], e.sequence + Len(c.events))
    BY <1>1, <2>3, <2>4, EventsGrow
  <2>6. ASSUME NEW p \in Owners
        PROVE  Ahead(exec'[p], run'[exec'[p].run].revision, events'[exec'[p].run])
    <3>1. CASE p = o
      <4>1. exec'[p] = a \/ exec'[p] = t
        BY <1>3, <3>1, OthersStay DEF ReservationInv
      <4> QED BY <2>5, <4>1 DEF Ahead, NumbersOn
    <3>2. CASE p # o
      <4>1. exec'[p] = exec[p]
        BY <1>3, <3>2, OthersStay DEF ReservationInv
      <4>2. Writing(exec[p]) => /\ exec[p].phase \in Following /\ exec[p].run \in Runs
                                /\ exec[p].revision \in Nat
        BY FollowerIsWell DEF ReservationInv, Writing, Following, ExecRecord
      <4>3. Writing(exec[p]) /\ exec[p].run = e.run => exec[p].revision <= e.revision
        <5>1. run[e.run].status # "absent"
          BY <1>3 DEF CommitAllowed
        <5> QED BY <2>1, <4>2, <5>1 DEF ReservationInv, ViewsAreAccurate
      <4>4. Ahead(exec[p], run[exec[p].run].revision, events[exec[p].run])
        BY DEF EventsInv
      <4>5. CASE exec[p].run = e.run
        BY <1>1, <2>2, <4>1, <4>2, <4>3, <4>5 DEF Ahead
      <4>6. CASE exec[p].run # e.run
        BY <2>2, <2>3, <4>1, <4>2, <4>4, <4>6 DEF Ahead
      <4> QED BY <4>5, <4>6
    <3> QED BY <3>1, <3>2
  <2>7. \A r \in Runs : Increasing(events'[r])
    BY <2>3, <2>5 DEF EventsInv, EventsIncrease, Increasing
  <2>8. \A p \in Owners : Ahead(exec[p], run[exec[p].run].revision, events[exec[p].run])'
    BY <2>6 DEF Ahead, Writing, UpTo
  <2>9. EventsIncrease'
    BY <2>7 DEF EventsIncrease, Increasing
  <2> QED BY <2>8, <2>9 DEF EventsInv
<1> QED BY <1>2, <1>3 DEF CommitStep

LEMMA AnswersNumberOn ==
  ASSUME ReservationInv, NEW o \in Owners, Writing(exec[o]), NEW c \in CommitRecord
  PROVE  /\ NumbersOn(Answered(o, c), exec[o], c) /\ NumbersOn(Thrown(o, c), exec[o], c)
         /\ Thrown(o, c) \in ExecRecord /\ KeepsNumber(Thrown(o, c), exec[o])
<1> DEFINE e == exec[o]
           v == e.revision + 1
           q == e.sequence + Len(c.events)
           p == IF c.checkpoint = {} THEN e.position ELSE Only(c.checkpoint)
           s == IF c.session = {} THEN e.snapshot ELSE StoredSession(Only(c.session))
<1>1. e \in ExecRecord /\ e.phase \in Following
  BY FollowerIsWell DEF ReservationInv, Writing, Following
<1>2. q \in Nat /\ e.sequence \in Nat /\ q >= e.sequence
  <2>1. Len(c.events) \in Nat /\ e.sequence \in Nat
    BY <1>1, LenProperties DEF CommitRecord, ExecRecord
  <2> QED BY <2>1
<1>3. Answered(o, c) = [e EXCEPT !.phase = "owning", !.revision = v, !.status = c.status,
                                 !.sequence = q, !.position = p, !.snapshot = s]
  BY <1>1 DEF Answered, ExecRecord
<1>4. Thrown(o, c) = [e EXCEPT !.phase = "owning", !.sequence = q]
  BY DEF Thrown
<1> HIDE DEF v, p, s
<1>5. Answered(o, c).run = e.run /\ Answered(o, c).sequence = q
  <2> HIDE DEF q
  <2> QED BY <1>1, <1>3 DEF ExecRecord
<1>6. /\ Thrown(o, c).run = e.run /\ Thrown(o, c).sequence = q
      /\ Thrown(o, c).revision = e.revision
  <2> HIDE DEF q
  <2> QED BY <1>1, <1>4 DEF ExecRecord
<1>7. Thrown(o, c) \in ExecRecord
  BY <1>1, AnsweredIsWell DEF ReservationInv
<1> QED BY <1>2, <1>5, <1>6, <1>7 DEF NumbersOn, KeepsNumber

LEMMA CommitsKeepEvents ==
  ASSUME ReservationInv, EventsInv, NEW o \in Owners,
         \/ TakeOver(o) \/ TakeOverToCancel(o) \/ EmitEvent(o) \/ SaveProgress(o)
         \/ CompactInRun(o) \/ Pause(o) \/ Complete(o)
         \/ \E status \in {"failed", "cancelled"} : Abandon(o, status)
  PROVE  EventsInv'
<1> DEFINE e == exec[o]
           pushed == [e.snapshot EXCEPT !.history = @ \cup {e.run}]
<1>1. /\ Writing(e) /\ e.phase \in Following /\ e \in ExecRecord
      /\ e.run \in Runs /\ e.session \in Sessions
  <2>1. Writing(e) /\ e.phase \in Following
    BY DEF TakeOver, TakeOverToCancel, EmitEvent, SaveProgress, CompactInRun, Pause,
           Complete, Abandon, In, Following, Writing
  <2> QED BY <2>1, FollowerIsWell DEF ReservationInv
<1>2. /\ e.position \in Nat /\ e.position + 1 \in Nat /\ e.snapshot \in SessionRecord
  BY <1>1 DEF ExecRecord
<1>3. pushed \in SessionRecord
  BY <1>1, <1>2 DEF SessionRecord
<1>4. /\ Token(e) \in ExecRecord /\ Retired(e) \in ExecRecord
      /\ ~Writing(Token(e)) /\ ~Writing(Retired(e))
  BY <1>1, TokenIsWell, AttemptOfType, IdlersWriteNothing DEF ReservationInv
<1>5. ASSUME NEW status \in Active \cup Terminal, NEW position \in SUBSET Nat,
             NEW withSession \in SUBSET SessionRecord, NEW n \in {0, 1},
             LET c == CommitOf(o, status, position, withSession, n) IN
             \/ Continue(o, c) \/ Conclude(o, c)
             \/ CommitStep(o, c, Answered(o, c), Token(e), Token(e))
             \/ CommitStep(o, c, Token(e), Retired(e), Retired(e))
      PROVE  EventsInv'
  <2> DEFINE c == CommitOf(o, status, position, withSession, n)
  <2>1. c \in CommitRecord
    BY <1>1, CommitOfType DEF ReservationInv
  <2>2. /\ c.run = e.run /\ c.expectedRevision = e.revision
        /\ c.events = <<>> \/ c.events = <<e.sequence + 1>>
    BY DEF CommitOf
  <2> HIDE DEF c
  <2>3. /\ NumbersOn(Answered(o, c), e, c) /\ NumbersOn(Thrown(o, c), e, c)
        /\ Thrown(o, c) \in ExecRecord /\ KeepsNumber(Thrown(o, c), e)
    BY <1>1, <2>1, AnswersNumberOn
  <2>4. /\ NumbersOn(Token(e), e, c) /\ NumbersOn(Retired(e), e, c)
        /\ KeepsNumber(Token(e), e) /\ KeepsNumber(Retired(e), e)
    BY <1>4 DEF NumbersOn, KeepsNumber
  <2> QED BY <1>1, <1>4, <1>5, <2>1, <2>2, <2>3, <2>4, CommitStepKeepsEvents
          DEF Continue, Conclude, c
<1>6. /\ {0} \in SUBSET Nat /\ {e.position} \in SUBSET Nat
      /\ {e.position + 1} \in SUBSET Nat /\ {e.snapshot} \in SUBSET SessionRecord
      /\ {pushed} \in SUBSET SessionRecord /\ {} \in SUBSET SessionRecord
      /\ {} \in SUBSET Nat
  BY <1>2, <1>3
<1> HIDE DEF pushed
<1>7. ASSUME TakeOver(o) PROVE EventsInv'
  BY <1>5, <1>6, <1>7 DEF TakeOver, Active
<1>8. ASSUME TakeOverToCancel(o) PROVE EventsInv'
  BY <1>5, <1>6, <1>8 DEF TakeOverToCancel, Terminal
<1>9. ASSUME EmitEvent(o) PROVE EventsInv'
  BY <1>5, <1>6, <1>9 DEF EmitEvent, Active
<1>10. ASSUME SaveProgress(o) PROVE EventsInv'
  BY <1>5, <1>6, <1>10 DEF SaveProgress, Active
<1>11. ASSUME CompactInRun(o) PROVE EventsInv'
  BY <1>5, <1>6, <1>11 DEF CompactInRun, Active
<1>12. ASSUME Pause(o) PROVE EventsInv'
  BY <1>5, <1>6, <1>12 DEF Pause, Active
<1>13. ASSUME Complete(o) PROVE EventsInv'
  <2>1. Conclude(o, CommitOf(o, "completed", {0}, {pushed}, 1))
    BY <1>13 DEF Complete, pushed
  <2> QED BY <1>5, <1>6, <2>1 DEF Terminal
<1>14. ASSUME NEW status \in {"failed", "cancelled"}, Abandon(o, status)
       PROVE  EventsInv'
  BY <1>5, <1>6, <1>14 DEF Abandon, Conclude, Terminal
<1> QED BY <1>7, <1>8, <1>9, <1>10, <1>11, <1>12, <1>13, <1>14

-----------------------------------------------------------------------------
LEMMA AttemptsKeepEvents ==
  ASSUME ReservationInv, EventsInv, NEW o \in Owners, Attempt(o)
  PROVE  EventsInv'
<1> DEFINE e == exec[o]
<1>1. /\ e \in ExecRecord /\ Retired(e) \in ExecRecord
      /\ (e.phase \in Following \cup {"releasing"} => e.run \in Runs)
      /\ ~Writing(Retired(e)) /\ ~Writing(Token(e))
  BY AttemptOfType, IdlersWriteNothing DEF ReservationInv, IsEngaged
(* A step after which the attempt does not write, or writes as before. *)
<1>2. ASSUME NEW f, Become(o, f), ~Writing(f), UNCHANGED <<run, events>>
      PROVE  EventsInv'
  BY <1>2, WriterMoves DEF Ahead
<1>3. ASSUME NEW r \in Runs, NEW s \in Sessions,
             PrepareNewSession(o, r, s) \/ PrepareKnownSession(o, r, s)
      PROVE  EventsInv'
  <2>1. Become(o, Prepared(r, s)) /\ UNCHANGED storeVars
    BY <1>3 DEF PrepareNewSession, PrepareKnownSession
  <2>2. ~Writing(Prepared(r, s))
    BY DEF Writing, Prepared, IdleExec
  <2> QED BY <1>2, <2>1, <2>2 DEF storeVars
<1>4. ASSUME NEW s \in Sessions, ReadForCompaction(o, s) PROVE EventsInv'
  <2> DEFINE f == [IdleExec EXCEPT !.phase = "compacting", !.session = s,
                                   !.snapshot = session[s]]
  <2>1. ~Writing(f)
    BY DEF Writing, IdleExec
  <2> QED BY <1>2, <1>4, <2>1 DEF ReadForCompaction, storeVars
<1>5. ASSUME SaveCompaction(o) PROVE EventsInv'
  BY <1>1, <1>2, <1>5 DEF SaveCompaction, SaveSession, storeVars
<1>6. ASSUME NEW r \in Runs, Locate(o, r) PROVE EventsInv'
  <2> DEFINE f == [IdleExec EXCEPT !.phase = "located", !.run = r,
                                   !.session = run[r].session,
                                   !.revision = run[r].revision,
                                   !.status = run[r].status]
  <2>1. ~Writing(f)
    BY DEF Writing, IdleExec
  <2> QED BY <1>2, <1>6, <2>1 DEF Locate, storeVars
<1>7. ASSUME ReadCheckpoint(o) PROVE EventsInv'
  <2> DEFINE f == [e EXCEPT !.phase = "checked", !.position = checkpoint[e.run]]
  <2>1. ~Writing(f)
    BY <1>1 DEF Writing, ExecRecord
  <2>2. Become(o, f) \/ Become(o, Retired(e))
    BY <1>7 DEF ReadCheckpoint
  <2> QED BY <1>1, <1>2, <1>7, <2>1, <2>2 DEF ReadCheckpoint, storeVars
<1>8. ASSUME ReadSession(o) PROVE EventsInv'
  <2> DEFINE f == [e EXCEPT !.phase = "contending", !.snapshot = session[e.session],
                            !.expires = now + LeaseTerm]
  <2>1. ~Writing(f)
    BY <1>1 DEF Writing, ExecRecord
  <2>2. Become(o, f) \/ Become(o, Retired(e))
    BY <1>8 DEF ReadSession
  <2> QED BY <1>1, <1>2, <1>8, <2>1, <2>2 DEF ReadSession, storeVars
<1>9. ASSUME LocateToCancel(o) PROVE EventsInv'
  <2> DEFINE f == [e EXCEPT !.phase = "contending", !.cancels = TRUE,
                            !.expires = now + LeaseTerm]
  <2>1. ~Writing(f)
    BY <1>1 DEF Writing, ExecRecord
  <2> QED BY <1>2, <1>9, <2>1 DEF LocateToCancel, storeVars
<1>10. ASSUME Acquire(o) PROVE EventsInv'
  <2> DEFINE f == [e EXCEPT !.phase = "leased",
                            !.generation = lease[e.run].generation + 1]
  <2>1. ~Writing(f)
    BY <1>1 DEF Writing, ExecRecord
  <2>2. UNCHANGED <<run, events>> /\ (Become(o, f) \/ Become(o, Retired(e)))
    BY <1>10 DEF Acquire, AcquireLease, storeVars
  <2> QED BY <1>1, <1>2, <2>1, <2>2
<1>11. ASSUME ReadEvents(o) PROVE EventsInv'
  <2> DEFINE s == events[e.run]
             last == IF s = <<>> THEN 0 ELSE s[Len(s)]
             f == [e EXCEPT !.phase = "caughtUp", !.sequence = last]
  <2>1. Become(o, f) /\ UNCHANGED <<run, events>>
    BY <1>11 DEF ReadEvents, storeVars
  <2>2. e.run \in Runs
    BY <1>1, <1>11 DEF ReadEvents, In, Following
  <2>3. UpTo(s, last)
    BY <2>2, LastBounds DEF ReservationInv, WellFormed, TypeOK, StoreTypeOK, EventsInv,
                            EventsIncrease, Increasing
  <2> HIDE DEF last
  <2>4. f.run = e.run /\ f.sequence = last
    BY <1>1 DEF ExecRecord
  <2> HIDE DEF f
  <2>5. Ahead(f, run[f.run].revision, events[f.run])
    BY <2>3, <2>4 DEF Ahead
  <2> QED BY <2>1, <2>5, WriterMoves
<1>12. ASSUME IssueRenewal(o) PROVE EventsInv'
  <2> DEFINE f == [e EXCEPT !.renewal = now + LeaseTerm]
  <2>1. now + LeaseTerm \in Nat
    BY ConstantsAssumption DEF ReservationInv, WellFormed, TypeOK, StoreTypeOK
  <2>2. f \in ExecRecord /\ KeepsNumber(f, e)
    BY <1>1, <2>1 DEF KeepsNumber, Writing, ExecRecord
  <2> QED BY <1>12, <2>2, WriterCarriesOn DEF IssueRenewal, storeVars
<1>13. ASSUME ApplyRenewal(o) PROVE EventsInv'
  <2> DEFINE f == [e EXCEPT !.renewal = 0]
             g == [f EXCEPT !.expires = e.renewal]
  <2>1. f \in ExecRecord /\ g \in ExecRecord /\ KeepsNumber(f, e) /\ KeepsNumber(g, e)
    <3>1. e.renewal \in Nat /\ e.sequence \in Nat
      BY <1>1 DEF ExecRecord
    <3>2. f \in ExecRecord
      BY <1>1 DEF ExecRecord
    <3>3. g \in ExecRecord
      BY <3>1, <3>2 DEF ExecRecord
    <3>4. /\ f.phase = e.phase /\ f.run = e.run /\ f.revision = e.revision
          /\ f.sequence = e.sequence
      BY <1>1 DEF ExecRecord
    <3>5. /\ g.phase = f.phase /\ g.run = f.run /\ g.revision = f.revision
          /\ g.sequence = f.sequence
      BY <3>2 DEF ExecRecord
    <3> QED BY <3>1, <3>2, <3>3, <3>4, <3>5 DEF KeepsNumber, Writing
  <2>2. ~Writing(Retired(f)) /\ ~Writing(Token(f))
    BY <2>1, IdlersWriteNothing
  <2>3. Become(o, f) \/ Become(o, g) \/ Become(o, Retired(f)) \/ Become(o, Token(f))
    BY <1>13 DEF ApplyRenewal
  <2>4. UNCHANGED <<run, events>>
    BY <1>13 DEF ApplyRenewal, RenewLease, storeVars
  <2> QED BY <1>2, <2>1, <2>2, <2>3, <2>4, WriterCarriesOn
<1>14. ASSUME LoseLease(o) \/ Release(o) \/ Crash(o) PROVE EventsInv'
  <2>1. UNCHANGED <<run, events>>
    BY <1>14 DEF LoseLease, Release, ReleaseLease, Crash, storeVars
  <2>2. Become(o, Token(e)) \/ Become(o, Retired(e))
    BY <1>14 DEF LoseLease, Release, Crash
  <2> QED BY <1>1, <1>2, <2>1, <2>2
<1> QED
  BY <1>3, <1>4, <1>5, <1>6, <1>7, <1>8, <1>9, <1>10, <1>11, <1>12, <1>13, <1>14,
     CreateKeepsEvents, CommitsKeepEvents DEF Attempt

LEMMA EnvironmentKeepsEvents ==
  ASSUME ReservationInv, EventsInv, (\E R \in SUBSET Purgeable : Purge(R)) \/ Tick
  PROVE  EventsInv'
<1>1. ASSUME NEW R \in SUBSET Purgeable, Purge(R) PROVE EventsInv'
  <2>1. \A r \in Runs :
          \/ run'[r].revision = 0 /\ events'[r] = <<>>
          \/ run'[r] = run[r] /\ events'[r] = events[r]
    BY <1>1 DEF Purge, PurgeRuns, AbsentRun
  <2>2. \A r \in Runs : Increasing(events'[r])
    BY <2>1 DEF EventsInv, EventsIncrease, Increasing
  <2>3. ASSUME NEW p \in Owners
        PROVE  Ahead(exec[p], run'[exec[p].run].revision, events'[exec[p].run])
    <3>1. Writing(exec[p]) => exec[p].run \in Runs /\ exec[p].revision # 0
      BY FollowerIsWell DEF ReservationInv, ViewsAreAccurate, Writing, Following
    <3>2. Ahead(exec[p], run[exec[p].run].revision, events[exec[p].run])
      BY DEF EventsInv
    <3> QED BY <2>1, <3>1, <3>2 DEF Ahead
  <2>4. exec' = exec
    BY <1>1 DEF Purge
  <2>5. \A p \in Owners : Ahead(exec[p], run[exec[p].run].revision, events[exec[p].run])'
    BY <2>3, <2>4 DEF Ahead, Writing, UpTo
  <2>6. EventsIncrease'
    BY <2>2 DEF EventsIncrease, Increasing
  <2> QED BY <2>5, <2>6 DEF EventsInv
<1>2. ASSUME Tick PROVE EventsInv'
  BY <1>2 DEF Tick, EventsInv, EventsIncrease, Ahead, Writing, UpTo
<1> QED BY <1>1, <1>2

LEMMA EventsAreKept == ReservationInv /\ EventsInv /\ [Next]_vars => EventsInv'
<1> SUFFICES ASSUME ReservationInv, EventsInv, [Next]_vars PROVE EventsInv'
  OBVIOUS
<1>1. CASE UNCHANGED vars
  BY <1>1 DEF vars, storeVars, EventsInv, EventsIncrease, Ahead, Writing, UpTo
<1> QED BY <1>1, AttemptsKeepEvents, EnvironmentKeepsEvents DEF Next

(* The events of a run are numbered upwards whoever appends them: the next  *)
(* number is taken from the events read after the lease was granted, and a  *)
(* commit is accepted only at the revision they were read at (createEvent   *)
(* of run-core.ts and commitExecution of the stores).                       *)
THEOREM EventNumbersIncrease == Spec => []EventsIncrease
<1>1. Init => EventsInv
  BY DEF Init, StoreInit, EventsInv, EventsIncrease, Ahead, Writing, IdleExec
<1>2. EventsInv => EventsIncrease
  BY DEF EventsInv
<1> QED BY <1>1, <1>2, EventsAreKept, ReservationIsInvariant, PTL DEF Spec

-----------------------------------------------------------------------------
(* Whoever believes to hold the lease of a run does: late renewals, lost   *)
(* answers and expired leases never leave two attempts at work on one run, *)
(* and what a takeover has read is what it replaces.                       *)

BeliefsHold == BeliefsAreRight /\ GrantsAreKept

(* What the store must say for an attempt to be right about its lease.     *)
Backs(l, o, e) ==
  e.generation > 0 /\ l.owner = o /\ l.generation = e.generation /\ l.expires >= e.expires

Holding(l, o, e) ==
  e.generation > 0 /\ l.owner = o /\ l.generation = e.generation /\ l.expires > now

(* A lease that an attempt has been granted and not used.                  *)
Grants(l, o, e) ==
  l.owner = o /\ l.generation = e.generation => e.generation > 0 /\ l.expires >= e.expires

(* The record an attempt moves to is right about the leases.               *)
IsRight(f, o) ==
  /\ f.phase = "owning" =>
       /\ Holding(lease'[f.run], o, f) => run'[f.run].status \in Active
       /\ f.expires > now => Backs(lease'[f.run], o, f)
  /\ f.phase \in {"leased", "caughtUp"} => Grants(lease'[f.run], o, f)
  /\ f.renewal # 0 => f.phase \in {"owning", "releasing", "done"}

(* It stays with the lease it had.                                         *)
KeepsLease(f, e) ==
  /\ f.phase = "owning" =>
       e.phase = "owning" /\ f.run = e.run /\ f.generation = e.generation /\ f.expires = e.expires
  /\ f.phase \in {"leased", "caughtUp"} =>
       /\ e.phase \in {"leased", "caughtUp"}
       /\ f.run = e.run /\ f.generation = e.generation /\ f.expires = e.expires
  /\ f.renewal # 0 => f.phase \in {"owning", "releasing", "done"}

(* Nobody else who holds a valid lease of an active run is disturbed, and  *)
(* nobody else is given a lease.                                           *)
Undisturbed(o) ==
  \A r \in Runs :
    /\ \A p \in Owners \ {o} :
         /\ run[r].status \in Active
         /\ lease[r].owner = p /\ lease[r].generation > 0 /\ lease[r].expires > now
         => lease'[r] = lease[r] /\ run'[r].status \in Active
    /\ lease'[r] = lease[r] \/ lease'[r].owner = o

LEMMA BelieverOfType ==
  ASSUME WellFormed, NEW o \in Owners
  PROVE  /\ exec[o] \in ExecRecord /\ now \in Nat
         /\ exec[o].expires \in Nat /\ exec[o].generation \in Nat /\ exec[o].renewal \in Nat
         /\ exec[o].phase \in Following \cup {"creating", "releasing"} \/ exec[o].renewal # 0
              => exec[o].run \in Runs
         /\ \A r \in Runs : /\ lease[r] \in LeaseRecord /\ lease[r].expires \in Nat
                           /\ lease[r].generation \in Nat
<1>1. exec[o] \in ExecRecord /\ IsEngaged(exec[o])
  BY AttemptOfType
<1>2. exec[o].expires \in Nat /\ exec[o].generation \in Nat /\ exec[o].renewal \in Nat
  BY <1>1 DEF ExecRecord
<1>3. now \in Nat /\ lease \in [Runs -> LeaseRecord]
  BY DEF WellFormed, TypeOK, StoreTypeOK
<1> QED BY <1>1, <1>2, <1>3 DEF LeaseRecord, IsEngaged

LEMMA BelieverMoves ==
  ASSUME ReservationInv, WellFormed', BeliefsHold, UNCHANGED now,
         NEW o \in Owners, NEW f, Become(o, f), IsRight(f, o), Undisturbed(o)
  PROVE  BeliefsHold'
<1>1. WellFormed /\ exec'[o] = f /\ \A p \in Owners : p # o => exec'[p] = exec[p]
  BY OthersStay DEF ReservationInv
<1>2. ASSUME NEW p \in Owners, exec'[p].phase = "owning"
      PROVE  /\ Holding(lease'[exec'[p].run], p, exec'[p]) => run'[exec'[p].run].status \in Active
             /\ exec'[p].expires > now => Backs(lease'[exec'[p].run], p, exec'[p])
  <2>1. CASE p = o
    BY <1>1, <1>2, <2>1 DEF IsRight
  <2>2. CASE p # o
    <3> DEFINE e == exec[p]
    <3>1. exec'[p] = e /\ e.run \in Runs
      BY <1>1, <1>2, <2>2, BelieverOfType DEF Following
    <3>2. /\ LeaseValid(e.run, p, e.generation) => run[e.run].status \in Active
          /\ e.expires > now => /\ LeaseValid(e.run, p, e.generation)
                                /\ lease[e.run].expires >= e.expires
      BY <1>2, <3>1 DEF BeliefsHold, BeliefsAreRight, In
    <3>3. LeaseValid(e.run, p, e.generation) =>
            lease'[e.run] = lease[e.run] /\ run'[e.run].status \in Active
      BY <2>2, <3>1, <3>2 DEF Undisturbed, LeaseValid
    <3>4. Holding(lease'[e.run], p, e) => LeaseValid(e.run, p, e.generation)
      BY <2>2, <3>1 DEF Undisturbed, LeaseValid, Holding
    <3> QED BY <3>1, <3>2, <3>3, <3>4 DEF Backs, LeaseValid
  <2> QED BY <2>1, <2>2
<1>3. BeliefsAreRight'
  <2>1. ASSUME NEW p \in Owners, exec'[p].phase = "owning", exec'[p].expires > now,
               Backs(lease'[exec'[p].run], p, exec'[p])
        PROVE  lease'[exec'[p].run].expires > now
    <3>1. /\ exec'[p] \in ExecRecord /\ IsEngaged(exec'[p])
          /\ lease' \in [Runs -> LeaseRecord] /\ now' \in Nat
      BY DEF WellFormed, TypeOK, StoreTypeOK, Engaged, IsEngaged
    <3>2. exec'[p].run \in Runs /\ exec'[p].expires \in Nat
      BY <2>1, <3>1 DEF ExecRecord, IsEngaged, Following
    <3>3. lease'[exec'[p].run].expires \in Nat
      BY <3>1, <3>2 DEF LeaseRecord
    <3> QED BY <2>1, <3>1, <3>2, <3>3 DEF Backs
  <2> QED BY <1>2, <2>1 DEF BeliefsAreRight, In, LeaseValid, Holding, Backs
<1>4. GrantsAreKept'
  <2>1. ASSUME NEW p \in Owners
        PROVE  /\ exec'[p].renewal # 0 => exec'[p].phase \in {"owning", "releasing", "done"}
               /\ exec'[p].phase \in {"leased", "caughtUp"}
                    => Grants(lease'[exec'[p].run], p, exec'[p])
    <3>1. CASE p = o
      BY <1>1, <3>1 DEF IsRight
    <3>2. CASE p # o
      <4>1. exec'[p] = exec[p]
        BY <1>1, <3>2
      <4>2. exec[p].phase \in {"leased", "caughtUp"} =>
              exec[p].run \in Runs /\ Grants(lease[exec[p].run], p, exec[p])
        BY <1>1, BelieverOfType DEF BeliefsHold, GrantsAreKept, Grants, Following
      <4> QED BY <3>2, <4>1, <4>2 DEF BeliefsHold, GrantsAreKept, Undisturbed, Grants
    <3> QED BY <3>1, <3>2
  <2> QED BY <2>1 DEF GrantsAreKept, Grants
<1> QED BY <1>3, <1>4 DEF BeliefsHold

(* The stored runs and leases are as they were.                            *)
LEMMA BelieverCarriesOn ==
  ASSUME ReservationInv, WellFormed', BeliefsHold, UNCHANGED <<now, run, lease>>,
         NEW o \in Owners, NEW f, Become(o, f), KeepsLease(f, exec[o])
  PROVE  BeliefsHold'
<1>1. Undisturbed(o)
  BY DEF Undisturbed
<1>2. IsRight(f, o)
  BY DEF IsRight, KeepsLease, BeliefsHold, BeliefsAreRight, GrantsAreKept, Backs, Grants,
         Holding, In, LeaseValid
<1> QED BY <1>1, <1>2, BelieverMoves

LEMMA IdlersBelieveNothing ==
  ASSUME NEW e \in ExecRecord
  PROVE  /\ Token(e).phase = "releasing" /\ Retired(e).phase = "done"
         /\ KeepsLease(Token(e), e) /\ KeepsLease(Retired(e), e)
<1>1. Token(e).phase = "releasing"
  BY DEF Token, IdleExec
<1>2. Retired(e).phase = "done"
  BY DEF Retired, Token, IdleExec
<1> QED BY <1>1, <1>2 DEF KeepsLease

-----------------------------------------------------------------------------
LEMMA QuietStepsKeepBeliefs ==
  ASSUME ReservationInv, WellFormed', BeliefsHold, NEW o \in Owners,
         \/ \E r \in Runs, s \in Sessions :
              PrepareNewSession(o, r, s) \/ PrepareKnownSession(o, r, s)
         \/ \E s \in Sessions : ReadForCompaction(o, s)
         \/ SaveCompaction(o)
         \/ \E r \in Runs : Locate(o, r)
         \/ ReadCheckpoint(o) \/ ReadSession(o) \/ LocateToCancel(o) \/ ReadEvents(o)
         \/ IssueRenewal(o) \/ LoseLease(o) \/ Crash(o)
  PROVE  BeliefsHold'
<1> DEFINE e == exec[o]
<1>1. /\ e \in ExecRecord /\ KeepsLease(Token(e), e) /\ KeepsLease(Retired(e), e)
      /\ e.renewal # 0 => e.phase \in {"owning", "releasing", "done"}
  BY AttemptOfType, IdlersBelieveNothing DEF ReservationInv, BeliefsHold, GrantsAreKept
<1>2. UNCHANGED <<now, run, lease>>
  BY DEF PrepareNewSession, PrepareKnownSession, ReadForCompaction, SaveCompaction,
         SaveSession, Locate, ReadCheckpoint, ReadSession, LocateToCancel, ReadEvents,
         IssueRenewal, LoseLease, Crash, storeVars
<1>3. ASSUME NEW f, Become(o, f), KeepsLease(f, e) PROVE BeliefsHold'
  BY <1>2, <1>3, BelieverCarriesOn
<1>4. ASSUME NEW f, Become(o, f), f.phase \notin {"owning", "leased", "caughtUp"}, f.renewal = 0
      PROVE  BeliefsHold'
  BY <1>3, <1>4 DEF KeepsLease
<1>5. ASSUME NEW r \in Runs, NEW s \in Sessions,
             PrepareNewSession(o, r, s) \/ PrepareKnownSession(o, r, s)
      PROVE  BeliefsHold'
  <2>1. Become(o, Prepared(r, s)) /\ Prepared(r, s).phase = "creating" /\ Prepared(r, s).renewal = 0
    BY <1>5 DEF PrepareNewSession, PrepareKnownSession, Prepared, IdleExec
  <2> QED BY <1>4, <2>1
<1>6. ASSUME NEW s \in Sessions, ReadForCompaction(o, s) PROVE BeliefsHold'
  <2> DEFINE f == [IdleExec EXCEPT !.phase = "compacting", !.session = s,
                                   !.snapshot = session[s]]
  <2>1. f.phase = "compacting" /\ f.renewal = 0
    BY DEF IdleExec
  <2> QED BY <1>4, <1>6, <2>1 DEF ReadForCompaction
<1>7. ASSUME NEW r \in Runs, Locate(o, r) PROVE BeliefsHold'
  <2> DEFINE f == [IdleExec EXCEPT !.phase = "located", !.run = r,
                                   !.session = run[r].session,
                                   !.revision = run[r].revision,
                                   !.status = run[r].status]
  <2>1. f.phase = "located" /\ f.renewal = 0
    BY DEF IdleExec
  <2> QED BY <1>4, <1>7, <2>1 DEF Locate
<1>8. CASE SaveCompaction(o) \/ LoseLease(o) \/ Crash(o)
  BY <1>1, <1>3, <1>8 DEF SaveCompaction, LoseLease, Crash
<1>9. CASE ReadCheckpoint(o)
  <2> DEFINE f == [e EXCEPT !.phase = "checked", !.position = checkpoint[e.run]]
  <2>1. f.phase = "checked" /\ f.renewal = e.renewal
    BY <1>1 DEF ExecRecord
  <2>2. (Become(o, f) \/ Become(o, Retired(e))) /\ e.phase = "located"
    BY <1>9 DEF ReadCheckpoint, In
  <2> QED BY <1>1, <1>3, <1>4, <2>1, <2>2
<1>10. CASE ReadSession(o)
  <2> DEFINE f == [e EXCEPT !.phase = "contending", !.snapshot = session[e.session],
                            !.expires = now + LeaseTerm]
  <2>1. f.phase = "contending" /\ f.renewal = e.renewal
    BY <1>1 DEF ExecRecord
  <2>2. (Become(o, f) \/ Become(o, Retired(e))) /\ e.phase = "checked"
    BY <1>10 DEF ReadSession, In
  <2> QED BY <1>1, <1>3, <1>4, <2>1, <2>2
<1>11. CASE LocateToCancel(o)
  <2> DEFINE f == [e EXCEPT !.phase = "contending", !.cancels = TRUE,
                            !.expires = now + LeaseTerm]
  <2>1. f.phase = "contending" /\ f.renewal = e.renewal
    BY <1>1 DEF ExecRecord
  <2>2. Become(o, f) /\ e.phase = "located"
    BY <1>11 DEF LocateToCancel, In
  <2> QED BY <1>1, <1>4, <2>1, <2>2
<1>12. CASE ReadEvents(o)
  <2> DEFINE last == IF events[e.run] = <<>> THEN 0
                     ELSE events[e.run][Len(events[e.run])]
             f == [e EXCEPT !.phase = "caughtUp", !.sequence = last]
  <2>1. Become(o, f) /\ e.phase = "leased"
    BY <1>12 DEF ReadEvents, In
  <2> HIDE DEF last
  <2>2. /\ f.phase = "caughtUp" /\ f.renewal = e.renewal /\ f.run = e.run
        /\ f.generation = e.generation /\ f.expires = e.expires
    BY <1>1 DEF ExecRecord
  <2> QED BY <1>1, <1>3, <2>1, <2>2 DEF KeepsLease
<1>13. CASE IssueRenewal(o)
  <2> DEFINE f == [e EXCEPT !.renewal = now + LeaseTerm]
  <2>1. Become(o, f) /\ e.phase = "owning"
    BY <1>13 DEF IssueRenewal, In
  <2>2. /\ f.phase = "owning" /\ f.run = e.run
        /\ f.generation = e.generation /\ f.expires = e.expires
    BY <1>1, <2>1 DEF ExecRecord
  <2> QED BY <1>3, <2>1, <2>2 DEF KeepsLease
<1> QED BY <1>5, <1>6, <1>7, <1>8, <1>9, <1>10, <1>11, <1>12, <1>13

LEMMA CreateKeepsBeliefs ==
  ASSUME ReservationInv, WellFormed', BeliefsHold, NEW o \in Owners, Create(o)
  PROVE  BeliefsHold'
<1> DEFINE e == exec[o]
<1>1. /\ e \in ExecRecord /\ e.run \in Runs /\ KeepsLease(Retired(e), e)
      /\ e.phase = "creating" /\ e.renewal = 0
  BY AttemptOfType, IdlersBelieveNothing
     DEF ReservationInv, BeliefsHold, GrantsAreKept, Create, In, IsEngaged
<1>2. CASE UNCHANGED storeVars /\ Become(o, Retired(e))
  BY <1>1, <1>2, BelieverCarriesOn DEF storeVars
<1>3. ASSUME NEW expires,
             CreateAllowed(e.run, e.session, e.snapshot.revision),
             CreateExecution(e.run, e.session, e.snapshot, o, expires),
             \/ Become(o, [e EXCEPT !.phase = "owning", !.revision = 1,
                                    !.status = "running", !.position = 1, !.sequence = 1,
                                    !.generation = 1, !.expires = expires,
                                    !.snapshot = StoredSession(@)])
             \/ Become(o, Retired(e))
      PROVE  BeliefsHold'
  <2> DEFINE stored == StoredSession(e.snapshot)
             f == [e EXCEPT !.phase = "owning", !.revision = 1,
                            !.status = "running", !.position = 1, !.sequence = 1,
                            !.generation = 1, !.expires = expires, !.snapshot = stored]
  <2>1. Become(o, f) \/ Become(o, Retired(e))
    BY <1>3
  <2> HIDE DEF stored
  <2>2. /\ run'[e.run].status = "running"
        /\ lease'[e.run] = [owner |-> o, generation |-> 1, expires |-> expires]
        /\ \A r \in Runs : r # e.run => run'[r] = run[r] /\ lease'[r] = lease[r]
        /\ now' = now /\ run[e.run].status = "absent"
    BY <1>1, <1>3 DEF CreateExecution, CreateAllowed, ReservationInv, WellFormed, TypeOK,
                      StoreTypeOK
  <2>3. Undisturbed(o)
    BY <2>2 DEF Undisturbed, Active
  <2>4. /\ f.phase = "owning" /\ f.run = e.run /\ f.generation = 1 /\ f.expires = expires
        /\ f.renewal = 0
    BY <1>1 DEF ExecRecord
  <2> HIDE DEF f
  <2>5. CASE Become(o, f)
    <3>1. expires >= expires
      <4>1. exec'[o] = f /\ exec'[o] \in ExecRecord
        BY <2>5, OthersStay DEF ReservationInv, WellFormed, TypeOK
      <4> QED BY <2>4, <4>1 DEF ExecRecord
    <3>2. IsRight(f, o)
      BY <2>2, <2>4, <3>1 DEF IsRight, Backs, Active, Holding
    <3> QED BY <2>2, <2>3, <2>5, <3>2, BelieverMoves
  <2>6. CASE Become(o, Retired(e))
    <3>1. IsRight(Retired(e), o)
      BY <1>1, IdlersBelieveNothing DEF IsRight
    <3> QED BY <2>2, <2>3, <2>6, <3>1, BelieverMoves
  <2> QED BY <2>1, <2>5, <2>6
<1> QED BY <1>2, <1>3 DEF Create

(* A lease is granted only when nobody's is in force.                      *)
LEMMA AcquireKeepsBeliefs ==
  ASSUME ReservationInv, WellFormed', BeliefsHold, NEW o \in Owners, Acquire(o)
  PROVE  BeliefsHold'
<1> DEFINE e == exec[o]
           f == [e EXCEPT !.phase = "leased", !.generation = lease[e.run].generation + 1]
<1>1. /\ e \in ExecRecord /\ e.run \in Runs /\ KeepsLease(Retired(e), e)
      /\ e.phase = "contending" /\ e.renewal = 0 /\ e.expires \in Nat
      /\ now \in Nat
      /\ \A r \in Runs : /\ lease[r] \in LeaseRecord /\ lease[r].expires \in Nat
                         /\ lease[r].generation \in Nat
  BY AttemptOfType, IdlersBelieveNothing, BelieverOfType
     DEF ReservationInv, BeliefsHold, GrantsAreKept, Acquire, In, Following
<1>2. CASE UNCHANGED storeVars /\ Become(o, Retired(e))
  BY <1>1, <1>2, BelieverCarriesOn DEF storeVars
<1>3. CASE /\ AcquireAllowed(e.run) /\ AcquireLease(e.run, o, e.expires)
           /\ Become(o, f) \/ Become(o, Retired(e))
  <2> DEFINE g == lease[e.run].generation + 1
  <2>1. /\ lease'[e.run].owner = o /\ lease'[e.run].generation = g
        /\ lease'[e.run].expires = e.expires
        /\ \A r \in Runs : r # e.run => lease'[r] = lease[r]
        /\ UNCHANGED <<now, run>>
    BY <1>1, <1>3 DEF AcquireLease, ReservationInv, WellFormed, TypeOK, StoreTypeOK
  <2>2. Undisturbed(o)
    <3>1. ~ (lease[e.run].generation > 0 /\ lease[e.run].expires > now)
      BY <1>1, <1>3 DEF AcquireAllowed
    <3> QED BY <2>1, <3>1 DEF Undisturbed
  <2>3. /\ f.phase = "leased" /\ f.run = e.run /\ f.generation = g
        /\ f.expires = e.expires /\ f.renewal = e.renewal
    BY <1>1 DEF ExecRecord
  <2>4. g > 0 /\ e.expires >= e.expires
    BY <1>1
  <2> HIDE DEF f, g
  <2>5. IsRight(f, o)
    BY <1>1, <2>1, <2>3, <2>4 DEF IsRight, Grants
  <2>6. IsRight(Retired(e), o)
    BY <1>1, IdlersBelieveNothing DEF IsRight
  <2> QED BY <1>3, <2>1, <2>2, <2>5, <2>6, BelieverMoves
<1> QED BY <1>2, <1>3 DEF Acquire

(* A renewal, however late, finds the lease it is for or changes nothing.  *)
LEMMA RenewalKeepsBeliefs ==
  ASSUME ReservationInv, WellFormed', BeliefsHold, NEW o \in Owners, ApplyRenewal(o)
  PROVE  BeliefsHold'
<1> DEFINE e == exec[o]
           quiet == [e EXCEPT !.renewal = 0]
           kept == [quiet EXCEPT !.expires = e.renewal]
<1>1. /\ e \in ExecRecord /\ e.run \in Runs /\ e.renewal \in Nat
      /\ e.phase \in {"owning", "releasing", "done"} /\ e.renewal # 0
  BY BelieverOfType DEF ReservationInv, BeliefsHold, GrantsAreKept, ApplyRenewal
<1>2. /\ quiet \in ExecRecord /\ quiet.phase = e.phase /\ quiet.renewal = 0
      /\ kept.phase = e.phase /\ kept.renewal = 0 /\ kept.run = e.run
      /\ kept.generation = e.generation /\ kept.expires = e.renewal
  BY <1>1 DEF ExecRecord
<1>3. /\ Retired(quiet).phase = "done" /\ Token(quiet).phase = "releasing"
  BY <1>2, IdlersBelieveNothing
<1>4. /\ e.phase # "owning" => IsRight(quiet, o)
      /\ IsRight(Retired(quiet), o) /\ IsRight(Token(quiet), o)
  BY <1>1, <1>2, <1>3 DEF IsRight
<1>5. \/ /\ LeaseValid(e.run, o, e.generation) /\ RenewLease(e.run, e.renewal)
         /\ \/ Become(o, kept) /\ e.phase = "owning"
            \/ Become(o, quiet) /\ e.phase # "owning"
            \/ Become(o, Retired(quiet)) \/ Become(o, Token(quiet))
      \/ /\ UNCHANGED storeVars
         /\ \/ Become(o, quiet) /\ e.phase # "owning"
            \/ Become(o, Retired(quiet)) \/ Become(o, Token(quiet))
  BY DEF ApplyRenewal
<1> HIDE DEF quiet, kept
<1>6. ASSUME UNCHANGED storeVars,
             \/ Become(o, quiet) /\ e.phase # "owning"
             \/ Become(o, Retired(quiet)) \/ Become(o, Token(quiet))
      PROVE  BeliefsHold'
  <2>1. UNCHANGED <<now, run, lease>> /\ Undisturbed(o)
    BY <1>6 DEF storeVars, Undisturbed
  <2> QED BY <1>4, <1>6, <2>1, BelieverMoves
<1>7. ASSUME LeaseValid(e.run, o, e.generation), RenewLease(e.run, e.renewal),
             \/ Become(o, kept) /\ e.phase = "owning"
             \/ Become(o, quiet) /\ e.phase # "owning"
             \/ Become(o, Retired(quiet)) \/ Become(o, Token(quiet))
      PROVE  BeliefsHold'
  <2>1. /\ lease'[e.run].owner = o /\ lease'[e.run].generation = e.generation
        /\ lease'[e.run].expires = e.renewal
        /\ \A r \in Runs : r # e.run => lease'[r] = lease[r]
        /\ UNCHANGED <<now, run>>
        /\ lease[e.run].owner = o /\ e.generation > 0
    BY <1>1, <1>7 DEF RenewLease, LeaseValid, ReservationInv, WellFormed, TypeOK,
                      StoreTypeOK, LeaseRecord
  <2>2. Undisturbed(o)
    BY <2>1 DEF Undisturbed
  <2>3. e.phase = "owning" => run[e.run].status \in Active
    BY <1>7 DEF BeliefsHold, BeliefsAreRight, In
  <2>4. e.phase = "owning" => IsRight(kept, o)
    BY <1>1, <1>2, <2>1, <2>3 DEF IsRight, Backs
  <2> QED BY <1>4, <1>7, <2>1, <2>2, <2>4, BelieverMoves
<1> QED BY <1>5, <1>6, <1>7

LEMMA ReleaseKeepsBeliefs ==
  ASSUME ReservationInv, WellFormed', BeliefsHold, NEW o \in Owners, Release(o)
  PROVE  BeliefsHold'
<1> DEFINE e == exec[o]
<1>1. /\ e \in ExecRecord /\ e.run \in Runs /\ KeepsLease(Retired(e), e)
      /\ Retired(e).phase = "done" /\ Become(o, Retired(e))
  BY BelieverOfType, IdlersBelieveNothing DEF ReservationInv, Release, In
<1>2. CASE UNCHANGED storeVars
  BY <1>1, <1>2, BelieverCarriesOn DEF storeVars
<1>3. CASE ReleaseLease(e.run, o, e.generation)
  <2>1. \A r \in Runs : lease'[r] = lease[r] \/ (lease[r].owner = o /\ lease'[r].owner = o)
    BY <1>1, <1>3 DEF ReleaseLease, ReservationInv, WellFormed, TypeOK, StoreTypeOK,
                      LeaseRecord
  <2>2. UNCHANGED <<now, run>> /\ Undisturbed(o)
    BY <1>3, <2>1 DEF ReleaseLease, Undisturbed
  <2>3. IsRight(Retired(e), o)
    BY <1>1 DEF IsRight
  <2> QED BY <1>1, <2>2, <2>3, BelieverMoves
<1> QED BY <1>2, <1>3 DEF Release

(* A commit that is applied is its author's, who holds the lease.          *)
LEMMA CommitStepKeepsBeliefs ==
  ASSUME ReservationInv, WellFormed', BeliefsHold, NEW o \in Owners,
         exec[o].phase \in {"caughtUp", "owning"},
         NEW c \in CommitRecord, c.run = exec[o].run, c.owner = o,
         c.generation = exec[o].generation,
         NEW a, NEW u, NEW t, CommitStep(o, c, a, u, t),
         a = Token(exec[o]) \/ (a = Answered(o, c) /\ c.status \in Active),
         u \in {Token(exec[o]), Retired(exec[o])},
         \/ t = Thrown(o, c) /\ exec[o].phase = "owning" /\ c.status \in Active
         \/ t \in {Token(exec[o]), Retired(exec[o])}
  PROVE  BeliefsHold'
<1> DEFINE e == exec[o]
<1>1. /\ e \in ExecRecord /\ e.run \in Runs /\ e.phase \in Following
      /\ KeepsLease(Retired(e), e) /\ KeepsLease(Token(e), e)
      /\ e.renewal # 0 => e.phase \in {"owning", "releasing", "done"}
  BY BelieverOfType, IdlersBelieveNothing DEF ReservationInv, Following, BeliefsHold, GrantsAreKept
<1>2. /\ Thrown(o, c).phase = "owning" /\ Thrown(o, c).run = e.run
      /\ Thrown(o, c).generation = e.generation /\ Thrown(o, c).expires = e.expires
  BY <1>1 DEF Thrown, ExecRecord
<1>3. /\ Answered(o, c).phase = "owning" /\ Answered(o, c).run = e.run
      /\ Answered(o, c).generation = e.generation /\ Answered(o, c).expires = e.expires
  BY <1>1 DEF Answered, ExecRecord
<1>4. KeepsLease(u, e) /\ KeepsLease(t, e)
  BY <1>1, <1>2 DEF KeepsLease
<1>5. CASE UNCHANGED storeVars /\ (Become(o, u) \/ Become(o, t))
  BY <1>4, <1>5, BelieverCarriesOn DEF storeVars
<1>6. CASE CommitAllowed(c) /\ CommitExecution(c) /\ (Become(o, a) \/ Become(o, t))
  <2>1. /\ UNCHANGED <<now, lease>> /\ lease[e.run].owner = o
        /\ lease[e.run].generation = e.generation /\ e.generation > 0
        /\ run'[e.run].status = c.status
        /\ \A r \in Runs : r # e.run => run'[r] = run[r]
    BY <1>1, <1>6 DEF CommitAllowed, LeaseValid, CommitExecution, ReservationInv, WellFormed,
                      TypeOK, StoreTypeOK, RunRecord
  <2>2. Undisturbed(o)
    BY <2>1 DEF Undisturbed
  <2>3. /\ e.phase = "owning" /\ e.expires > now => lease[e.run].expires >= e.expires
        /\ e.phase = "caughtUp" => lease[e.run].expires >= e.expires
    BY <2>1 DEF BeliefsHold, BeliefsAreRight, GrantsAreKept, In
  <2>4. e.expires > now => Backs(lease'[e.run], o, e)
    BY <2>1, <2>3 DEF Backs
  <2>5. ASSUME NEW f, f.phase = "owning", f.run = e.run, f.generation = e.generation,
               f.expires = e.expires, c.status \in Active
        PROVE  IsRight(f, o)
    BY <2>1, <2>4, <2>5 DEF IsRight, Backs
  <2>6. IsRight(Token(e), o) /\ IsRight(Retired(e), o)
    BY <1>1, IdlersBelieveNothing DEF IsRight
  <2>7. IsRight(a, o) /\ IsRight(t, o)
    BY <1>2, <1>3, <2>5, <2>6
  <2> QED BY <1>6, <2>1, <2>2, <2>7, BelieverMoves
<1> QED BY <1>5, <1>6 DEF CommitStep

LEMMA CommitsKeepBeliefs ==
  ASSUME ReservationInv, WellFormed', BeliefsHold, NEW o \in Owners,
         \/ TakeOver(o) \/ TakeOverToCancel(o) \/ EmitEvent(o) \/ SaveProgress(o)
         \/ CompactInRun(o) \/ Pause(o) \/ Complete(o)
         \/ \E status \in {"failed", "cancelled"} : Abandon(o, status)
  PROVE  BeliefsHold'
<1> DEFINE e == exec[o]
           pushed == [e.snapshot EXCEPT !.history = @ \cup {e.run}]
<1>1. e.phase \in {"caughtUp", "owning"} /\ e.phase \in Following
  BY DEF TakeOver, TakeOverToCancel, EmitEvent, SaveProgress, CompactInRun, Pause,
         Complete, Abandon, In, Following
<1>2. e \in ExecRecord /\ e.run \in Runs
  BY <1>1, FollowerIsWell DEF ReservationInv
<1>3. /\ e.position \in Nat /\ e.position + 1 \in Nat /\ e.snapshot \in SessionRecord
  BY <1>2 DEF ExecRecord
<1>4. pushed \in SessionRecord
  BY <1>2, <1>3 DEF SessionRecord
<1> HIDE DEF pushed
<1>5. ASSUME NEW status \in Active \cup Terminal, NEW position \in SUBSET Nat,
             NEW withSession \in SUBSET SessionRecord, NEW n \in {0, 1},
             LET c == CommitOf(o, status, position, withSession, n) IN
             \/ Continue(o, c) /\ status \in Active /\ e.phase = "owning"
             \/ Conclude(o, c)
             \/ /\ CommitStep(o, c, Answered(o, c), Token(e), Token(e))
                /\ status \in Active
             \/ CommitStep(o, c, Token(e), Retired(e), Retired(e))
      PROVE  BeliefsHold'
  <2> DEFINE c == CommitOf(o, status, position, withSession, n)
  <2>1. c \in CommitRecord
    BY <1>1, CommitOfType DEF ReservationInv
  <2>2. /\ c.run = e.run /\ c.owner = o /\ c.generation = e.generation /\ c.status = status
    BY DEF CommitOf
  <2> HIDE DEF c
  <2> QED BY <1>1, <1>5, <2>1, <2>2, CommitStepKeepsBeliefs DEF Continue, Conclude, c
<1>6. /\ {0} \in SUBSET Nat /\ {e.position} \in SUBSET Nat
      /\ {e.position + 1} \in SUBSET Nat /\ {e.snapshot} \in SUBSET SessionRecord
      /\ {pushed} \in SUBSET SessionRecord /\ {} \in SUBSET SessionRecord
      /\ {} \in SUBSET Nat
  BY <1>3, <1>4
<1>7. CASE TakeOver(o)
  BY <1>5, <1>6, <1>7 DEF TakeOver, Active
<1>8. CASE TakeOverToCancel(o)
  BY <1>5, <1>6, <1>8 DEF TakeOverToCancel, Terminal
<1>9. CASE EmitEvent(o)
  BY <1>5, <1>6, <1>9 DEF EmitEvent, Active, In
<1>10. CASE SaveProgress(o)
  BY <1>5, <1>6, <1>10 DEF SaveProgress, Active, In
<1>11. CASE CompactInRun(o)
  BY <1>5, <1>6, <1>11 DEF CompactInRun, Active, In
<1>12. CASE Pause(o)
  BY <1>5, <1>6, <1>12 DEF Pause, Active
<1>13. CASE Complete(o)
  <2>1. Conclude(o, CommitOf(o, "completed", {0}, {pushed}, 1))
    BY <1>13 DEF Complete, pushed
  <2> QED BY <1>5, <1>6, <2>1 DEF Terminal
<1>14. ASSUME NEW status \in {"failed", "cancelled"}, Abandon(o, status)
       PROVE  BeliefsHold'
  BY <1>5, <1>6, <1>14 DEF Abandon, Conclude, Terminal
<1> QED BY <1>7, <1>8, <1>9, <1>10, <1>11, <1>12, <1>13, <1>14

LEMMA PurgeKeepsBeliefs ==
  ASSUME ReservationInv, BeliefsHold, NEW R \in SUBSET Purgeable, Purge(R)
  PROVE  BeliefsHold'
<1>1. /\ UNCHANGED <<now, exec>>
      /\ \A r \in Runs : IF r \in R THEN lease'[r] = AbsentLease
                       ELSE lease'[r] = lease[r] /\ run'[r] = run[r]
      /\ \A r \in R : run[r].status \notin Active
  BY DEF Purge, PurgeRuns, Purgeable, Active, Terminal
<1>2. \A o \in Owners : AbsentLease.owner # o
  BY ConstantsAssumption DEF AbsentLease
<1>3. \A o \in Owners : /\ WellFormed
                        /\ exec[o].phase \in {"owning", "leased", "caughtUp"} => exec[o].run \in Runs
  BY BelieverOfType DEF ReservationInv, Following
<1>4. BeliefsAreRight'
  <2>1. ASSUME NEW o \in Owners, exec[o].phase = "owning"
        PROVE  LET e == exec[o] IN
               /\ Holding(lease'[e.run], o, e) => run'[e.run].status \in Active
               /\ e.expires > now => Holding(lease'[e.run], o, e) /\ lease'[e.run].expires >= e.expires
    <3> DEFINE e == exec[o]
    <3>1. /\ LeaseValid(e.run, o, e.generation) => run[e.run].status \in Active
          /\ e.expires > now => /\ LeaseValid(e.run, o, e.generation)
                                /\ lease[e.run].expires >= e.expires
          /\ e.run \in Runs
      BY <1>3, <2>1 DEF BeliefsHold, BeliefsAreRight, In
    <3>2. CASE e.run \in R
      BY <1>1, <1>2, <3>1, <3>2 DEF Holding
    <3>3. CASE e.run \notin R
      BY <1>1, <3>1, <3>3 DEF Holding, LeaseValid
    <3> QED BY <3>2, <3>3
  <2> QED BY <1>1, <2>1 DEF BeliefsAreRight, In, LeaseValid, Holding
<1>5. GrantsAreKept'
  BY <1>1, <1>2, <1>3 DEF BeliefsHold, GrantsAreKept
<1> QED BY <1>4, <1>5 DEF BeliefsHold

LEMMA TickKeepsBeliefs ==
  ASSUME ReservationInv, BeliefsHold, Tick
  PROVE  BeliefsHold'
<1>1. UNCHANGED <<run, lease, exec>> /\ now' = now + 1
  BY DEF Tick
<1>2. ASSUME NEW o \in Owners, exec[o].phase = "owning"
      PROVE  LET e == exec[o] IN
             /\ e.run \in Runs /\ now \in Nat /\ e.expires \in Nat
             /\ lease[e.run].expires \in Nat
             /\ LeaseValid(e.run, o, e.generation) => run[e.run].status \in Active
             /\ e.expires > now => /\ LeaseValid(e.run, o, e.generation)
                                   /\ lease[e.run].expires >= e.expires
  BY <1>2, BelieverOfType DEF ReservationInv, Following, BeliefsHold, BeliefsAreRight, In
<1>3. BeliefsAreRight'
  <2>1. ASSUME NEW o \in Owners, exec[o].phase = "owning"
        PROVE  LET e == exec[o]
                   valid == /\ e.generation > 0 /\ lease[e.run].owner = o
                            /\ lease[e.run].generation = e.generation
                            /\ lease[e.run].expires > now + 1
               IN
               /\ valid => run[e.run].status \in Active
               /\ e.expires > now + 1 => valid /\ lease[e.run].expires >= e.expires
    BY <1>2, <2>1 DEF LeaseValid
  <2> QED BY <1>1, <2>1 DEF BeliefsAreRight, In, LeaseValid
<1>4. GrantsAreKept'
  BY <1>1 DEF BeliefsHold, GrantsAreKept
<1> QED BY <1>3, <1>4 DEF BeliefsHold

LEMMA BeliefIsKept == BeliefInv /\ [Next]_vars => BeliefInv'
<1> SUFFICES ASSUME BeliefInv, [Next]_vars PROVE BeliefInv'
  OBVIOUS
<1>1. ReservationInv /\ BeliefsHold /\ ReservationInv' /\ WellFormed'
  BY ReservationIsKept DEF BeliefInv, BeliefsHold, ReservationInv
<1>2. ASSUME NEW o \in Owners, Attempt(o) PROVE BeliefsHold'
  BY <1>1, <1>2, QuietStepsKeepBeliefs, CreateKeepsBeliefs, AcquireKeepsBeliefs,
     RenewalKeepsBeliefs, ReleaseKeepsBeliefs, CommitsKeepBeliefs DEF Attempt
<1>3. ASSUME UNCHANGED vars PROVE BeliefsHold'
  BY <1>1, <1>3 DEF vars, storeVars, BeliefsHold, BeliefsAreRight, GrantsAreKept, In, LeaseValid
<1>4. BeliefsHold'
  BY <1>1, <1>2, <1>3, PurgeKeepsBeliefs, TickKeepsBeliefs DEF Next
<1> QED BY <1>1, <1>4 DEF BeliefInv, BeliefsHold

LEMMA BeliefIsInvariant == Spec => []BeliefInv
<1>1. Init => BeliefInv
  BY InitReserves DEF Init, BeliefInv, BeliefsAreRight, GrantsAreKept, In, IdleExec
<1> QED BY <1>1, BeliefIsKept, PTL DEF Spec

(* At most one attempt works on a run believing that its lease has not run *)
(* out, however late renewals apply and whichever answers are lost.        *)
THEOREM RunsHaveOneBeliever == Spec => []OneBelieverPerRun
<1>1. BeliefInv => OneBelieverPerRun
  BY DEF BeliefInv, BeliefsAreRight, OneBelieverPerRun, Believes, In, LeaseValid
<1> QED BY <1>1, BeliefIsInvariant, PTL

-----------------------------------------------------------------------------
(* Nobody else's step changes a run under a lease that is in force: what    *)
(* writes to a run is its creation, a commit of the lease's holder, or a    *)
(* purge.                                                                   *)
LEMMA CommitsNeedTheLease ==
  ASSUME WellFormed, NEW o \in Owners, NEW r \in Runs, run'[r] # run[r],
         \/ TakeOver(o) \/ TakeOverToCancel(o) \/ EmitEvent(o) \/ SaveProgress(o)
         \/ CompactInRun(o) \/ Pause(o) \/ Complete(o)
         \/ \E status \in {"failed", "cancelled"} : Abandon(o, status)
  PROVE  lease[r].owner = o /\ exec[o].run = r
<1> DEFINE e == exec[o]
<1>1. ASSUME NEW status, NEW position, NEW withSession, NEW n, NEW a, NEW u, NEW t,
             CommitStep(o, CommitOf(o, status, position, withSession, n), a, u, t)
      PROVE  lease[r].owner = o /\ e.run = r
  <2> DEFINE c == CommitOf(o, status, position, withSession, n)
  <2>1. c.run = e.run /\ c.owner = o
    BY DEF CommitOf
  <2> HIDE DEF c
  <2>2. CommitAllowed(c) /\ CommitExecution(c)
    BY <1>1 DEF CommitStep, storeVars, c
  <2>3. c.run = r
    BY <2>2 DEF CommitExecution, WellFormed, TypeOK, StoreTypeOK
  <2> QED BY <2>1, <2>2, <2>3 DEF CommitAllowed, LeaseValid
<1>2. ASSUME NEW status \in {"failed", "cancelled"}, Abandon(o, status)
      PROVE  lease[r].owner = o /\ e.run = r
  BY <1>1, <1>2 DEF Abandon
<1>3. CASE TakeOver(o) \/ TakeOverToCancel(o)
  BY <1>1, <1>3 DEF TakeOver, TakeOverToCancel, Conclude
<1>4. CASE EmitEvent(o) \/ SaveProgress(o) \/ CompactInRun(o)
  BY <1>1, <1>4 DEF EmitEvent, SaveProgress, CompactInRun, Continue
<1>5. CASE Pause(o) \/ Complete(o)
  BY <1>1, <1>5 DEF Pause, Complete, Conclude
<1> QED BY <1>2, <1>3, <1>4, <1>5

LEMMA WhatChangesARun ==
  ASSUME WellFormed, NEW o \in Owners, Attempt(o), NEW r \in Runs, run'[r] # run[r]
  PROVE  \/ run[r].status = "absent"
         \/ /\ lease[r].owner = o /\ exec[o].run = r
            /\ \/ TakeOver(o) \/ TakeOverToCancel(o) \/ EmitEvent(o) \/ SaveProgress(o)
               \/ CompactInRun(o) \/ Pause(o) \/ Complete(o)
               \/ \E status \in {"failed", "cancelled"} : Abandon(o, status)
<1>1. CASE Create(o)
  <2>1. PICK expires :
          /\ run[exec[o].run].status = "absent"
          /\ CreateExecution(exec[o].run, exec[o].session, exec[o].snapshot, o, expires)
    BY <1>1 DEF Create, CreateAllowed, storeVars
  <2>2. PICK x : run' = [run EXCEPT ![exec[o].run] = x]
    BY <2>1 DEF CreateExecution
  <2> QED BY <2>1, <2>2 DEF WellFormed, TypeOK, StoreTypeOK
<1>2. CASE \/ \E q \in Runs, s \in Sessions :
                PrepareNewSession(o, q, s) \/ PrepareKnownSession(o, q, s)
           \/ \E s \in Sessions : ReadForCompaction(o, s)
           \/ SaveCompaction(o)
           \/ \E q \in Runs : Locate(o, q)
           \/ ReadCheckpoint(o) \/ ReadSession(o) \/ LocateToCancel(o)
           \/ Acquire(o) \/ ReadEvents(o)
           \/ IssueRenewal(o) \/ ApplyRenewal(o) \/ LoseLease(o)
           \/ Release(o) \/ Crash(o)
  BY <1>2 DEF PrepareNewSession, PrepareKnownSession, ReadForCompaction,
              SaveCompaction, SaveSession, Locate, ReadCheckpoint, ReadSession,
              LocateToCancel, Acquire, AcquireLease, ReadEvents, IssueRenewal,
              ApplyRenewal, RenewLease, LoseLease, Release, ReleaseLease, Crash,
              storeVars
<1> QED BY <1>1, <1>2, CommitsNeedTheLease DEF Attempt

(* From the acquisition of a lease to the commit that takes the run over,  *)
(* nobody else changes the run, the attempt that lost it included.         *)
THEOREM TakeoversReplaceWhatTheyRead == Spec => TakeoversAreNotOvertaken
<1>1. ASSUME ReservationInv, [Next]_vars, NEW o \in Owners, TakingOver(o), exec'[o] = exec[o]
      PROVE  run'[exec[o].run] = run[exec[o].run]
  <2> DEFINE e == exec[o]
  <2>1. /\ WellFormed /\ e.run \in Runs /\ e.phase \in {"leased", "caughtUp"}
        /\ lease[e.run].owner = o /\ run[e.run].status \in Active
    BY <1>1, FollowerIsWell DEF ReservationInv, TakingOver, Following, LeaseValid, ViewsAreAccurate
  <2>2. ASSUME NEW p \in Owners, Attempt(p), run'[e.run] # run[e.run] PROVE FALSE
    <3>1. /\ p = o
          /\ \/ TakeOver(o) \/ TakeOverToCancel(o) \/ EmitEvent(o) \/ SaveProgress(o)
             \/ CompactInRun(o) \/ Pause(o) \/ Complete(o)
             \/ \E status \in {"failed", "cancelled"} : Abandon(o, status)
      BY <2>1, <2>2, WhatChangesARun DEF Active
    <3>2. TakeOver(o) \/ TakeOverToCancel(o)
      BY <2>1, <3>1 DEF EmitEvent, SaveProgress, CompactInRun, Pause, Complete, Abandon, In
    <3>3. \A c : Answered(o, c).phase = "owning"
      <4>1. e \in ExecRecord
        BY <2>1, AttemptOfType
      <4> QED BY <4>1 DEF Answered, ExecRecord
    <3>4. \E f : Become(o, f) /\ (f = Token(e) \/ \E c : f = Answered(o, c))
      BY <3>2 DEF TakeOver, TakeOverToCancel, Conclude, CommitStep
    <3>5. exec'[o].phase \in {"owning", "releasing"}
      <4>1. Token(e).phase = "releasing"
        BY DEF Token, IdleExec
      <4> QED BY <2>1, <3>3, <3>4, <4>1, OthersStay
    <3> QED BY <1>1, <2>1, <3>5
  <2>3. ASSUME NEW R \in SUBSET Purgeable, Purge(R) PROVE run'[e.run] = run[e.run]
    BY <2>1, <2>3 DEF Purge, PurgeRuns, Purgeable, Active, Terminal
  <2> QED BY <1>1, <2>2, <2>3 DEF Next, Tick, vars, storeVars
<1>2. ReservationInv /\ [Next]_vars =>
        [\A o \in Owners : TakingOver(o) /\ exec'[o] = exec[o]
           => run'[exec[o].run] = run[exec[o].run]]_vars
  BY <1>1
<1> QED BY <1>2, ReservationIsInvariant, PTL DEF Spec, TakeoversAreNotOvertaken
=============================================================================
