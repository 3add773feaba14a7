------------------------------ MODULE MCStores -------------------------------
(* The stores, in instances small enough for TLC: the synchronous calls of  *)
(* SqliteRunStore, the statements of PostgreSQL transactions, with and      *)
(* without a purge, and artifacts in files and in objects under a catalog.  *)
(* A behaviour belongs to one of them.                                      *)
EXTENDS SqliteRunStore, TLC

CONSTANTS
  Parts,       \* who may take the steps of a behaviour
  r1, r2, r3,  \* runs of one session
  w1, w2, w3,  \* connections, and callers of an artifact store
  Nobody

VARIABLES
  part,  \* who takes them: chosen once
  x1, x2, x3, x4, x5, x6, x7, x8, x9, x10, x11  \* its variables

allVars == <<part, vars, x1, x2, x3, x4, x5, x6, x7, x8, x9, x10, x11>>

Pg == INSTANCE PgRunStore WITH
  Clients <- {w1, w2, w3}, Runs <- {r1, r2}, NoOne <- Nobody, Purgers <- {}, MaxCalls <- 4,
  session <- x1, run <- x2, lease <- x3, lock <- x4, at <- x5, tx <- x6, calls <- x7,
  content <- x8, writes <- x9
Purge == INSTANCE PgRunStore WITH
  Clients <- {w1, w3}, Runs <- {r1, r2}, NoOne <- Nobody, Purgers <- {w3}, MaxCalls <- 5,
  session <- x1, run <- x2, lease <- x3, lock <- x4, at <- x5, tx <- x6, calls <- x7,
  content <- x8, writes <- x9
Files == INSTANCE ArtifactStore WITH
  Workers <- {w1, w2}, Tenants <- {"t1"}, Runs <- {r1}, Ids <- {"a", "b"},
  Backend <- "files", Catalog <- "sqlite", Retention <- 1, Offsets <- {0}, Page <- 1,
  LostAnswers <- FALSE, MaxTime <- 0, MaxFaults <- 1, MaxCrashes <- 1, data <- x1,
  meta <- x2, index <- x3, worker <- x4, events <- x5, revision <- x6, now <- x7,
  faults <- x8, crashes <- x9, used <- x10, leftover <- x11
Objects == INSTANCE ArtifactStore WITH
  Workers <- {w1, w2}, Tenants <- {"t1", "t2"}, Runs <- {r1}, Ids <- {"a"},
  Backend <- "objects", Catalog <- "postgres", Retention <- 1, Offsets <- {0}, Page <- 1,
  LostAnswers <- FALSE, MaxTime <- 1, MaxFaults <- 2, MaxCrashes <- 1, data <- x1,
  meta <- x2, index <- x3, worker <- x4, events <- x5, revision <- x6, now <- x7,
  faults <- x8, crashes <- x9, used <- x10, leftover <- x11

ASSUME InstancesAreSound ==
  /\ Pg!PgAssumption /\ Purge!PgAssumption
  /\ Files!ArtifactAssumption /\ Objects!ArtifactAssumption

------------------------------------------------------------------------------
\* A part has the first variables for itself, as many as it has; it leaves the others.
Rest == "rest"
Rest11 == TRUE
Rest10 == x11 = Rest
Rest9 == x10 = Rest /\ Rest10
Rest8 == x9 = Rest /\ Rest9
Rest7 == x8 = Rest /\ Rest8
Rest6 == x7 = Rest /\ Rest7
Rest5 == x6 = Rest /\ Rest6
Rest4 == x5 = Rest /\ Rest5
Rest3 == x4 = Rest /\ Rest4
Rest2 == x3 = Rest /\ Rest3
Rest1 == x2 = Rest /\ Rest2
Rest0 == x1 = Rest /\ Rest1

Else11 == UNCHANGED <<part, vars>>
Else10 == UNCHANGED x11 /\ Else11
Else9 == UNCHANGED x10 /\ Else10
Else8 == UNCHANGED x9 /\ Else9
Else7 == UNCHANGED x8 /\ Else8
Else6 == UNCHANGED x7 /\ Else7
Else5 == UNCHANGED x6 /\ Else6
Else4 == UNCHANGED x5 /\ Else5
Else3 == UNCHANGED x4 /\ Else4
Else2 == UNCHANGED x3 /\ Else3
Else1 == UNCHANGED x2 /\ Else2
Else0 == UNCHANGED <<part, x1, x2, x3, x4, x5, x6, x7, x8, x9, x10, x11>>

AllInit ==
  /\ part \in Parts
  /\ Init
  /\ \/ part = "sqlite" /\ Rest0
     \/ part = "calls" /\ Pg!Init /\ Rest9
     \/ part = "purge" /\ Purge!Init /\ Rest9
     \/ part = "files" /\ Files!Init /\ Rest11
     \/ part = "objects" /\ Objects!Init /\ Rest11

AllNext ==
  \/ part = "sqlite" /\ Next /\ Else0
  \/ part = "calls" /\ Pg!Next /\ Else9
  \/ part = "purge" /\ Purge!Next /\ Else9
  \/ part = "files" /\ Files!Next /\ Else11
  \/ part = "objects" /\ Objects!Next /\ Else11

AllSpec == AllInit /\ [][AllNext]_allVars

\* Connections are interchangeable, but for the one that purges.
StoreSymmetry == Permutations({w1, w2})
------------------------------------------------------------------------------
(* Properties.                                                                *)

\* The transactions of the PostgreSQL store are as good as the single steps of
\* the SQLite store, and no call writes a session that it has not seen.
TransactionsAreAtomic ==
  /\ part = "calls" => Pg!Atomic!Init
  /\ [][part = "calls" => [Pg!Atomic!Next]_Pg!Atomic!vars /\ Pg!WritesWhatItSaw]_allVars

\* A run has its session and its lease, whatever is purged meanwhile; commits
\* are fenced and calls that do not purge never wait in a circle; an artifact
\* that is indexed has its bytes, no bytes are kept that no catalog finds, and a
\* purge finds all that the run had.
NothingIsLostOrStranded ==
  /\ part = "sqlite" => RunsHaveSessions
  /\ part = "calls" => Pg!TypeOK /\ Pg!OneActiveRun /\ Pg!CommitsAreFenced /\ Pg!NoDeadlock
  /\ part = "purge" => Purge!RunsHaveSessions
  /\ part = "files" => Files!TypeOK /\ Files!NothingIsStranded /\ Files!PurgeFindsAll
  /\ part = "objects" => Objects!IndexedIsWhole
==============================================================================
