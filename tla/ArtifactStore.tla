--------------------------- MODULE ArtifactStore ---------------------------
(***************************************************************************)
(* Artifacts: a byte store (files, objects or memory) that keeps the bytes *)
(* and a sidecar with the descriptor, and a catalog that indexes them.     *)
(* Tools of a run put artifacts, hosts get, delete and purge them; every   *)
(* call of a store is a step of its own, that may fail, and a worker may   *)
(* crash between two of them.  Bytes are abstracted to their presence.     *)
(***************************************************************************)
EXTENDS Naturals, FiniteSets

CONSTANTS
  Workers,      \* concurrent callers: tool executions and hosts
  Tenants, Runs, Ids,
  Backend,      \* "memory", "files" or "objects"
  Catalog,      \* "none", "memory", "sqlite" or "postgres"
  Retention,    \* the retention of the byte store, in ticks of the clock
  Offsets,      \* how far the text of an expiry may be from its instant in UTC
  Page,         \* rows of one catalog.list of deleteByRun (100 in the code)
  LostAnswers,  \* TRUE: a call that fails may have been applied
  MaxTime, MaxFaults, MaxCrashes

ArtifactAssumption ==
  /\ Backend \in {"memory", "files", "objects"}
  /\ Catalog \in {"none", "memory", "sqlite", "postgres"}
  /\ LostAnswers \in BOOLEAN
  /\ Retention \in Nat /\ Page \in Nat \ {0} /\ Offsets \subseteq Nat
  /\ MaxTime \in Nat /\ MaxFaults \in Nat /\ MaxCrashes \in Nat

VARIABLES
  data,       \* the keys <<tenant, id>> whose bytes the store holds
  meta,       \* key -> the descriptor of its sidecar
  index,      \* id -> the row of the catalog
  worker,     \* the call each worker is in
  events,     \* run -> the ids its artifact.created events name
  revision,   \* run -> the revision of its record
  now, faults, crashes,
  used,       \* the ids given so far
  leftover    \* history: ids whose removal failed or whose worker crashed

stores == <<data, meta, index>>
clock == <<now, crashes, used>>
ledger == <<events, revision>>
vars == <<stores, worker, ledger, clock, faults, leftover>>

Idle == [op |-> "none", at |-> "idle", out |-> "none", before |-> {}]
Call(op, at, tenant, id, run) ==
  [op |-> op, at |-> at, tenant |-> tenant, id |-> id, run |-> run,
   todo |-> {}, before |-> {}, seen |-> 0, out |-> "none"]

Init ==
  /\ data = {} /\ meta = <<>> /\ index = <<>>
  /\ worker = [w \in Workers |-> Idle]
  /\ events = [r \in Runs |-> {}] /\ revision = [r \in Runs |-> 0]
  /\ now = 0 /\ faults = 0 /\ crashes = 0 /\ used = {} /\ leftover = {}

Key(c) == <<c.tenant, c.id>>
Cataloged == Catalog # "none"
Without(f, x) == [y \in DOMAIN f \ {x} |-> f[y]]
With(f, x, v) == [y \in DOMAIN f \cup {x} |-> IF y = x THEN v ELSE f[y]]

At(w, where) == worker[w].at = where
Goto(c, where) == [c EXCEPT !.at = where]
Answer(c, out) == [op |-> c.op, at |-> "idle", out |-> out,
                   before |-> IF c.op = "purge" THEN c.before ELSE {}]

\* One call of a backend: it takes effect and goes on, or it fails.
Attempt(w, effect, next, failed) ==
  \/ /\ effect
     /\ worker' = [worker EXCEPT ![w] = next]
     /\ UNCHANGED faults
  \/ /\ faults < MaxFaults
     /\ faults' = faults + 1
     /\ worker' = [worker EXCEPT ![w] = failed]
     /\ \/ UNCHANGED stores
        \/ LostAnswers /\ effect

\* An expiry is an instant and the text that says it: with an offset the
\* digits of the text are not those of the instant in UTC.
Expiry == [at |-> now + Retention, text |-> now + Retention]
Given == {[at |-> t, text |-> t + o] : t \in now .. MaxTime, o \in Offsets}

IsExpired(d) == d.at <= now
\* SQLite compares texts, PostgreSQL and the catalog in memory instants.
ExpiredText(d) == d.text <= now
ExpiredInstant(d) == d.at <= now
RowExpired(d) == IF Catalog = "sqlite" THEN ExpiredText(d) ELSE ExpiredInstant(d)

\* Ids are random: a caller has one from a listing or from an event.
Known == DOMAIN index \cup UNION {events[r] : r \in Runs}

----------------------------------------------------------------------------
(* put                                                                     *)

StartPut(w) ==
  /\ At(w, "idle")
  /\ \E t \in Tenants, r \in Runs, id \in Ids :
       /\ id \notin used
       /\ used' = used \cup {id}
       /\ worker' = [worker EXCEPT ![w] = Call("put", "bytes", t, id, r)]
  /\ UNCHANGED <<stores, ledger, now, crashes, faults, leftover>>

Stored(c) == Goto(c, IF Cataloged THEN "save" ELSE "announce")

PutMemory(w) ==
  /\ At(w, "bytes") /\ Backend = "memory"
  /\ data' = data \cup {Key(worker[w])}
  /\ \E d \in Given \cup {Expiry} : meta' = With(meta, Key(worker[w]), d)
  /\ worker' = [worker EXCEPT ![w] = Stored(@)]
  /\ UNCHANGED <<index, ledger, clock, faults, leftover>>

\* The bytes first: a rename in the file system, an upload to the bucket.
WriteBytes(w) ==
  /\ At(w, "bytes") /\ Backend # "memory"
  /\ Attempt(w, data' = data \cup {Key(worker[w])} /\ UNCHANGED <<meta, index>>,
             Goto(worker[w], "sidecar"), Answer(worker[w], "error"))
  /\ leftover' = IF worker'[w].at = "idle" THEN leftover \cup {worker[w].id} ELSE leftover
  /\ UNCHANGED <<ledger, clock>>

WriteSidecar(w) ==
  /\ At(w, "sidecar")
  /\ \E d \in Given \cup {Expiry} :
       Attempt(w, meta' = With(meta, Key(worker[w]), d) /\ UNCHANGED <<data, index>>,
               Stored(worker[w]), Goto(worker[w], "undo"))
  /\ UNCHANGED <<ledger, clock, leftover>>

\* Mutant of UndoBytes: the bytes stay.
UndoNothing(w) ==
  /\ At(w, "undo")
  /\ worker' = [worker EXCEPT ![w] = Answer(@, "error")]
  /\ UNCHANGED <<stores, faults, leftover, ledger, clock>>

\* The sidecar could not be written: the bytes go.
UndoBytes(w) ==
  /\ At(w, "undo")
  /\ Attempt(w, data' = data \ {Key(worker[w])} /\ UNCHANGED <<meta, index>>,
             Answer(worker[w], "error"), Answer(worker[w], "failed"))
  /\ leftover' = IF worker'[w].out = "failed" THEN leftover \cup {worker[w].id} ELSE leftover
  /\ UNCHANGED <<ledger, clock>>

\* Mutant of Row: the tenant of the call is lost.
RowOfNobody(c) == [tenant |-> "default", run |-> c.run, expiry |-> meta[Key(c)]]

Row(c) == [tenant |-> c.tenant, run |-> c.run, expiry |-> meta[Key(c)]]

IndexWith(c) == With(index, c.id, Row(c))

\* An id is new, so its row is not another tenant's (ARTIFACT_CONFLICT).
Save(w) ==
  LET c == worker[w] IN
  /\ At(w, "save")
  /\ Attempt(w, index' = IndexWith(c) /\ UNCHANGED <<data, meta>>,
             Goto(c, "announce"), Goto(c, "drop"))
  /\ UNCHANGED <<ledger, clock, leftover>>

\* The run's artifact.created event: its commit names the revision it saw.
Announce(w) ==
  /\ At(w, "announce")
  /\ worker' = [worker EXCEPT ![w].at = "commit", ![w].seen = revision[worker[w].run]]
  /\ UNCHANGED <<stores, ledger, clock, faults, leftover>>

CommitEvent(w) ==
  LET c == worker[w] IN
  /\ At(w, "commit")
  /\ IF revision[c.run] = c.seen
     THEN /\ revision' = [revision EXCEPT ![c.run] = @ + 1]
          /\ events' = [events EXCEPT ![c.run] = @ \cup {c.id}]
          /\ worker' = [worker EXCEPT ![w] = Answer(c, "ok")]
     ELSE /\ worker' = [worker EXCEPT ![w] = Answer(c, "conflict")]
          /\ UNCHANGED ledger
  /\ UNCHANGED <<stores, clock, faults, leftover>>

----------------------------------------------------------------------------
(* get                                                                     *)

StartGet(w) ==
  /\ At(w, "idle")
  /\ \E t \in Tenants, id \in Known, r \in Runs :
       worker' = [worker EXCEPT ![w] =
                    Call("get", IF Cataloged THEN "lookup" ELSE "head", t, id, r)]
  /\ UNCHANGED <<stores, ledger, clock, faults, leftover>>

Visible(c) == /\ c.id \in DOMAIN index
              /\ index[c.id].tenant = c.tenant
              /\ ~RowExpired(index[c.id].expiry)

Lookup(w) ==
  LET c == worker[w] IN
  /\ At(w, "lookup")
  /\ Attempt(w, UNCHANGED stores,
             IF Visible(c) THEN Goto(c, "head") ELSE Answer(c, "null"), Answer(c, "error"))
  /\ UNCHANGED <<ledger, clock, leftover>>

\* A store that has nothing to give, behind a catalog that has it.
Missing(c) == Answer(c, IF Cataloged THEN "corrupt" ELSE "null")

ReadMemory(w) ==
  LET c == worker[w] IN
  /\ At(w, "head") /\ Backend = "memory"
  /\ worker' = [worker EXCEPT ![w] =
       IF Key(c) \in DOMAIN meta /\ ~IsExpired(meta[Key(c)]) THEN Answer(c, "content") ELSE Missing(c)]
  /\ UNCHANGED <<stores, ledger, clock, faults, leftover>>

ReadSidecar(w) ==
  LET c == worker[w] IN
  /\ At(w, "head") /\ Backend # "memory"
  /\ Attempt(w, UNCHANGED stores,
             IF Key(c) \in DOMAIN meta /\ ~IsExpired(meta[Key(c)]) THEN Goto(c, "read") ELSE Missing(c),
             Answer(c, "error"))
  /\ UNCHANGED <<ledger, clock, leftover>>

ReadFile(w) ==
  LET c == worker[w] IN
  /\ At(w, "read") /\ Backend = "files"
  /\ Attempt(w, UNCHANGED stores,
             IF Key(c) \in data THEN Answer(c, "content") ELSE Missing(c), Answer(c, "error"))
  /\ UNCHANGED <<ledger, clock, leftover>>

\* In a bucket a sidecar without bytes is an error of its own.
ReadObject(w) ==
  LET c == worker[w] IN
  /\ At(w, "read") /\ Backend = "objects"
  /\ Attempt(w, UNCHANGED stores,
             Answer(c, IF Key(c) \in data THEN "content" ELSE "corrupt"), Answer(c, "error"))
  /\ UNCHANGED <<ledger, clock, leftover>>

----------------------------------------------------------------------------
(* delete and deleteByRun                                                  *)

StartDelete(w) ==
  /\ At(w, "idle")
  /\ \E t \in Tenants, id \in Known, r \in Runs :
       worker' = [worker EXCEPT ![w] =
                    Call("delete", IF Cataloged THEN "find" ELSE "drop", t, id, r)]
  /\ UNCHANGED <<stores, ledger, clock, faults, leftover>>

\* What the caller of store.delete does when it returns.
Dropped(c) ==
  CASE c.op = "put" -> Answer(c, "error")
    [] c.op = "delete" -> Answer(c, "ok")
    [] c.op = "purge" -> Goto(c, "each")

\* Mutant of Find: an artifact the catalog does not show is not deleted.
FindVisible(w) ==
  /\ At(w, "find")
  /\ Attempt(w, UNCHANGED stores,
             IF Visible(worker[w]) THEN Goto(worker[w], "unindex") ELSE Dropped(worker[w]),
             Answer(worker[w], "error"))
  /\ UNCHANGED <<ledger, clock, leftover>>

\* Whether it existed is what delete answers, not what it does.
Find(w) ==
  /\ At(w, "find")
  /\ Attempt(w, UNCHANGED stores, Goto(worker[w], "unindex"), Answer(worker[w], "error"))
  /\ UNCHANGED <<ledger, clock, leftover>>

\* A tenant removes its own rows.
IndexWithout(c) ==
  IF c.id \in DOMAIN index /\ index[c.id].tenant = c.tenant THEN Without(index, c.id) ELSE index

\* Mutant of Unindex: the row stays until the bytes are gone.
UnindexLater(w) ==
  LET c == worker[w] IN
  /\ At(w, "unindex")
  /\ worker' = [worker EXCEPT ![w] = Goto(c, "drop")]
  /\ UNCHANGED <<stores, faults, leftover, ledger, clock>>

Unindex(w) ==
  LET c == worker[w] IN
  /\ At(w, "unindex")
  /\ Attempt(w, index' = IndexWithout(c) /\ UNCHANGED <<data, meta>>,
             Goto(c, "drop"), Answer(c, "error"))
  /\ leftover' = IF worker'[w].out = "error" /\ LostAnswers THEN leftover \cup {c.id} ELSE leftover
  /\ UNCHANGED <<ledger, clock>>

DropMemory(w) ==
  LET c == worker[w] IN
  /\ At(w, "drop") /\ Backend = "memory"
  /\ data' = data \ {Key(c)}
  /\ meta' = Without(meta, Key(c))
  /\ worker' = [worker EXCEPT ![w] = Dropped(c)]
  /\ UNCHANGED <<index, ledger, clock, faults, leftover>>

\* The sidecar is read, for the answer; then the bytes go, then the sidecar.
DropHead(w) ==
  LET c == worker[w] IN
  /\ At(w, "drop") /\ Backend # "memory"
  /\ Attempt(w, UNCHANGED stores, Goto(c, "dropBytes"), Answer(c, "failed"))
  /\ leftover' = IF worker'[w].out = "failed" THEN leftover \cup {c.id} ELSE leftover
  /\ UNCHANGED <<ledger, clock>>

DropBytes(w) ==
  LET c == worker[w] IN
  /\ At(w, "dropBytes")
  /\ Attempt(w, data' = data \ {Key(c)} /\ UNCHANGED <<meta, index>>,
             Goto(c, "dropSidecar"), Answer(c, "failed"))
  /\ leftover' = IF worker'[w].out = "failed" THEN leftover \cup {c.id} ELSE leftover
  /\ UNCHANGED <<ledger, clock>>

DropSidecar(w) ==
  LET c == worker[w] IN
  /\ At(w, "dropSidecar")
  /\ Attempt(w, meta' = Without(meta, Key(c)) /\ UNCHANGED <<data, index>>,
             Dropped(c), Answer(c, "failed"))
  /\ leftover' = IF worker'[w].out = "failed" THEN leftover \cup {c.id} ELSE leftover
  /\ UNCHANGED <<ledger, clock>>

\* Mutant of RowsOf: the rows that have not expired.
RowsShown(c) ==
  {id \in DOMAIN index : /\ index[id].tenant = c.tenant /\ index[id].run = c.run
                         /\ ~RowExpired(index[id].expiry)}

\* The rows of a run, with those whose artifact has expired.
RowsOf(c) == {id \in DOMAIN index : index[id].tenant = c.tenant /\ index[id].run = c.run}

StartPurge(w) ==
  /\ At(w, "idle") /\ Cataloged
  /\ \E t \in Tenants, r \in Runs :
       LET c == Call("purge", "list", t, "none", r) IN
       worker' = [worker EXCEPT ![w] = [c EXCEPT !.before = {i \in DOMAIN index : index[i].tenant = t /\ index[i].run = r}]]
  /\ UNCHANGED <<stores, ledger, clock, faults, leftover>>

Lists(c) == {s \in SUBSET RowsOf(c) :
               \/ s = RowsOf(c) /\ Cardinality(s) <= Page
               \/ Cardinality(s) = Page}

List(w) ==
  LET c == worker[w] IN
  /\ At(w, "list")
  /\ \E s \in Lists(c) :
       Attempt(w, UNCHANGED stores,
               IF s = {} THEN Answer(c, "ok") ELSE [c EXCEPT !.at = "each", !.todo = s],
               Answer(c, "error"))
  /\ UNCHANGED <<ledger, clock, leftover>>

PurgeEach(w) ==
  LET c == worker[w] IN
  /\ At(w, "each")
  /\ IF c.todo = {}
     THEN worker' = [worker EXCEPT ![w].at = "list"]
     ELSE \E id \in c.todo :
            worker' = [worker EXCEPT ![w] = [c EXCEPT !.at = "find", !.id = id, !.todo = @ \ {id}]]
  /\ UNCHANGED <<stores, ledger, clock, faults, leftover>>

----------------------------------------------------------------------------

Removing == {"bytes", "sidecar", "undo", "save", "unindex", "drop", "dropBytes", "dropSidecar"}

\* The process of a worker dies; its call is not made again.
Crash(w) ==
  /\ crashes < MaxCrashes /\ ~At(w, "idle")
  /\ crashes' = crashes + 1
  /\ leftover' = IF worker[w].at \in Removing THEN leftover \cup {worker[w].id} ELSE leftover
  /\ worker' = [worker EXCEPT ![w] = Idle]
  /\ UNCHANGED <<stores, ledger, now, used, faults>>

Tick ==
  /\ now < MaxTime
  /\ now' = now + 1
  /\ UNCHANGED <<stores, worker, ledger, crashes, used, faults, leftover>>

Start(w) == StartPut(w) \/ StartGet(w) \/ StartDelete(w) \/ StartPurge(w)
Step(w) ==
  \/ PutMemory(w) \/ WriteBytes(w) \/ WriteSidecar(w) \/ UndoBytes(w) \/ Save(w)
  \/ Announce(w) \/ CommitEvent(w)
  \/ Lookup(w) \/ ReadMemory(w) \/ ReadSidecar(w) \/ ReadFile(w) \/ ReadObject(w)
  \/ Find(w) \/ Unindex(w) \/ DropMemory(w) \/ DropHead(w) \/ DropBytes(w) \/ DropSidecar(w)
  \/ List(w) \/ PurgeEach(w)

Next == (\E w \in Workers : Start(w) \/ Step(w) \/ Crash(w)) \/ Tick

Spec == Init /\ [][Next]_vars
\* A call that was made is carried on.
FairSpec == Spec /\ \A w \in Workers : WF_vars(Step(w))

----------------------------------------------------------------------------

TypeOK ==
  /\ data \subseteq Tenants \X Ids
  /\ DOMAIN meta \subseteq Tenants \X Ids
  /\ DOMAIN index \subseteq Ids
  /\ \A id \in DOMAIN index : index[id].tenant \in Tenants /\ index[id].run \in Runs
  /\ \A r \in Runs : events[r] \subseteq Ids
  /\ leftover \subseteq used /\ used \subseteq Ids
  /\ now \in 0 .. MaxTime /\ faults \in 0 .. MaxFaults /\ crashes \in 0 .. MaxCrashes

\* The catalog never points at a half-written or half-deleted artifact:
\* put writes the row last, delete removes it first (CatalogedArtifactStore).
IndexedIsWhole ==
  \A id \in DOMAIN index :
    LET k == <<index[id].tenant, id>> IN k \in data /\ k \in DOMAIN meta

Busy(id) == \E w \in Workers : worker[w].at # "idle" /\ worker[w].id = id

\* Nothing is kept that no catalog finds, except what a failed removal or a
\* crash left: a put that fails takes its bytes and its sidecar back.
NothingIsStranded ==
  Cataloged => \A k \in data \cup DOMAIN meta :
                 k[2] \in DOMAIN index \/ k[2] \in leftover \/ Busy(k[2])

\* When deleteByRun answers, no artifact that the run had when it was called,
\* expired or not, is in the catalog, however many pages they filled.
PurgeFindsAll ==
  \A w \in Workers :
    worker[w].op = "purge" /\ worker[w].out = "ok" =>
      worker[w].before \cap DOMAIN index = {}

\* Every call ends: the loop of deleteByRun too, though it asks the catalog
\* again until nothing is left and other workers delete the same rows.
CallsEnd == \A w \in Workers : ~At(w, "idle") ~> At(w, "idle")

\* ARTIFACT_CORRUPT is answered for an artifact that is indexed.
CorruptMeansIndexed ==
  [][\A w \in Workers : worker'[w].out = "corrupt" /\ worker[w].out # "corrupt" =>
       worker[w].id \in DOMAIN index]_vars

\* What the catalog lists as not expired, the byte store gives.
ListedIsReadable ==
  \A id \in DOMAIN index :
    ~RowExpired(index[id].expiry) => ~IsExpired(meta[<<index[id].tenant, id>>])

\* Each put of a tool that stored its artifact has announced it.
PutsAreAnnounced ==
  \A id \in DOMAIN index : Busy(id) \/ \E r \in Runs : id \in events[r]
=============================================================================
