--------------------------- MODULE DockerSandbox ---------------------------
(***************************************************************************)
(* The Docker sandbox provider (docker-sandbox.ts): one container and one  *)
(* workspace for each run, made by the first call of the run, thrown away  *)
(* and made again when a call times out or is aborted, and removed by      *)
(* cleanupRun and dispose.                                                 *)
(*                                                                         *)
(* A call is cut at its awaits: every docker command is a process that the *)
(* call waits for, and between its start and its answer other calls, a     *)
(* cleanup or the end of the container may come.  A command that its timer *)
(* or the caller's signal ends sends `docker kill` without waiting for it, *)
(* so that the kill (kills) lands at any later time.  An inspection may    *)
(* be ended so and the next one find the container ready; the removal of a *)
(* container may fail, which nobody reads.                                 *)
(***************************************************************************)
EXTENDS Naturals, Sequences, FiniteSets, TLC

CONSTANTS Calls,            \* calls of sandbox.run
          Keys,             \* the keys of the calls: run ids and ids of lone calls
          RunKeys,          \* the keys that are run ids
          KeyOf,            \* the key of each call
          CallsOverlap,     \* whether a tool makes two calls of a run at once
          CleanupOverlaps,  \* whether cleanup may come while a call is under way
          SlowStart,        \* whether `docker run` may time out
          MaxDeaths,        \* how often a container ends by itself
          MaxFailures       \* inspections and removals that docker does not answer in time

SandboxAssumption ==
  /\ RunKeys \subseteq Keys
  /\ KeyOf \in [Calls -> Keys]
  /\ {CallsOverlap, CleanupOverlaps, SlowStart} \subseteq BOOLEAN
  /\ {MaxDeaths, MaxFailures} \subseteq Nat

VARIABLES objects,     \* the RunState objects, in the order they were made
          runs,        \* the map of keys to the index of an object, 0 for none
          names,       \* how many names were drawn for each key
          call,        \* where each call is
          outcome,     \* what each call answered
          aborted,     \* the calls whose signal has fired
          jobs,        \* removals under way for cleanupRun and dispose
          cleaned,     \* the runs that cleanupRun was called for
          disposed,    \* "no", "removing" the runs, "done"
          containers,  \* the containers that exist, by name
          kills,       \* docker kill commands that have not landed
          workspaces,  \* the directories that exist
          deaths,
          refused,     \* whether a docker run met a name in use
          failed       \* the inspections and removals that failed, with the name they had

docker == <<containers, kills, deaths, refused, failed>>
provider == <<objects, runs, names, jobs, cleaned, disposed, workspaces>>
vars == <<docker, provider, call, outcome, aborted>>

NoName == <<"none", 0>>
Idle == [phase |-> "idle", object |-> 0, name |-> NoName, retried |-> FALSE, cause |-> "none"]
Commands == {"starting", "created", "conflict", "waiting", "executing"}
Busy(c) == call[c].phase \notin {"idle", "ended"}
Unanswered(command) == {f[2] : f \in {g \in failed : g[1] = command}}
InUse(k) == \E c \in Calls : KeyOf[c] = k /\ Busy(c)

Object(c) == objects[call[c].object]
Directory(i) == IF objects[i].ephemeral THEN <<"call", i>> ELSE <<"run", objects[i].key>>

Init ==
  /\ objects = <<>> /\ runs = [k \in Keys |-> 0] /\ names = [k \in Keys |-> 0]
  /\ call = [c \in Calls |-> Idle] /\ outcome = [c \in Calls |-> "none"]
  /\ aborted = {} /\ jobs = {} /\ cleaned = {} /\ disposed = "no"
  /\ containers = {} /\ kills = {} /\ workspaces = {} /\ deaths = 0 /\ refused = FALSE
  /\ failed = {}

Put(c, changes) == call' = [call EXCEPT ![c] = changes @@ @]

\* `docker rm -f` answers.  Its failure is not read: the container may be there
\* yet, with a kill on the way if the timer ended the command.
Remove(n) ==
  \/ containers' = containers \ {n} /\ UNCHANGED <<kills, failed>>
  \/ /\ Cardinality(failed) < MaxFailures
     /\ failed' = failed \cup {<<"rm", n>>}
     /\ kills' \in {kills, kills \cup {n}}
     /\ UNCHANGED containers

----------------------------------------------------------------------------
(* The continuations of a call.                                            *)

\* MUTANT of Leave: the object is dropped before its clean-up.
LeaveEarly(c, ephemeral, name, answer) ==
  /\ outcome' = [outcome EXCEPT ![c] = answer]
  /\ Put(c, [phase |-> IF ephemeral THEN "cleaning" ELSE "ended", name |-> name, object |-> 0])

\* The call leaves the try block: an ephemeral state is cleaned up first.
Leave(c, ephemeral, name, answer) ==
  /\ outcome' = [outcome EXCEPT ![c] = answer]
  /\ Put(c, IF ephemeral
            THEN [phase |-> "cleaning", name |-> name]
            ELSE [phase |-> "ended", name |-> NoName])

\* resetContainer removes the container the object names now, then the call
\* goes on because of cause.
Reset(c, name, cause) ==
  /\ Put(c, [phase |-> "resetting", name |-> name, cause |-> cause])
  /\ UNCHANGED outcome

\* ensureContainer and execute up to their next docker command, for a call that
\* works with object i in the state o.
Proceed(c, i, o, again) ==
  IF c \in aborted
  THEN Reset(c, o.name, "aborted")
  ELSE /\ Put(c, [phase |-> IF o.started THEN "executing" ELSE "starting",
                  object |-> i, name |-> o.name, retried |-> again])
       /\ UNCHANGED outcome

\* A failed start throws; the container is reset only for an aborted call.
Throw(c) ==
  IF c \in aborted
  THEN Reset(c, Object(c).name, "aborted")
  ELSE Leave(c, Object(c).ephemeral, Object(c).name, "failed")

----------------------------------------------------------------------------
(* sandbox.run.                                                            *)

Begin(c) ==
  LET k == KeyOf[c]
      fresh == [key |-> k, name |-> <<k, names[k] + 1>>, started |-> FALSE,
                ephemeral |-> k \notin RunKeys]
  IN /\ call[c].phase = "idle"
     /\ CallsOverlap \/ ~InUse(k)
     /\ k \notin cleaned /\ disposed = "no"
     /\ \/ /\ runs[k] # 0
           /\ Put(c, [object |-> runs[k], name |-> objects[runs[k]].name,
                      phase |-> IF objects[runs[k]].started THEN "executing" ELSE "starting"])
           /\ UNCHANGED provider
        \/ /\ runs[k] = 0
           /\ objects' = Append(objects, fresh)
           /\ runs' = [runs EXCEPT ![k] = Len(objects) + 1]
           /\ names' = [names EXCEPT ![k] = @ + 1]
           /\ workspaces' = workspaces \cup {IF fresh.ephemeral THEN <<"call", Len(objects) + 1>>
                                                                ELSE <<"run", k>>}
           /\ Put(c, [phase |-> "starting", object |-> Len(objects) + 1, name |-> fresh.name])
           /\ UNCHANGED <<jobs, cleaned, disposed>>
     /\ UNCHANGED <<docker, outcome, aborted>>

\* `docker run` reaches the daemon, which refuses a name that is in use.
DaemonCreates(c) ==
  /\ call[c].phase = "starting"
  /\ IF call[c].name \in containers
     THEN Put(c, [phase |-> "conflict"]) /\ refused' = TRUE /\ UNCHANGED containers
     ELSE Put(c, [phase |-> "created"]) /\ containers' = containers \cup {call[c].name} /\ UNCHANGED refused
  /\ UNCHANGED <<kills, deaths, failed, provider, outcome, aborted>>

\* The id is stored whatever the object names by now, and the container is
\* inspected until it runs.
StartAnswers(c) ==
  /\ call[c].phase = "created"
  /\ objects' = [objects EXCEPT ![call[c].object].started = TRUE]
  /\ Put(c, [phase |-> "waiting", name |-> Object(c).name])
  /\ UNCHANGED <<docker, runs, names, jobs, cleaned, disposed, workspaces, outcome, aborted>>

StartRefused(c) ==
  /\ call[c].phase = "conflict"
  /\ Throw(c)
  /\ UNCHANGED <<docker, provider, aborted>>

StartTimesOut(c) ==
  /\ SlowStart /\ call[c].phase \in {"starting", "created"}
  /\ kills' = kills \cup {call[c].name}
  /\ Throw(c)
  /\ UNCHANGED <<containers, deaths, refused, failed, provider, aborted>>

Ready(c) ==
  /\ call[c].phase = "waiting" /\ Object(c).name \in containers
  /\ Put(c, [phase |-> "executing", name |-> Object(c).name])
  /\ UNCHANGED <<docker, provider, outcome, aborted>>

\* The timer of an inspection ends it: the container is killed, the next
\* inspection may still find it ready.
InspectTimesOut(c) ==
  /\ call[c].phase = "waiting" /\ Cardinality(failed) < MaxFailures
  /\ failed' = failed \cup {<<"inspect", Object(c).name>>}
  /\ kills' = kills \cup {Object(c).name}
  /\ UNCHANGED <<containers, deaths, refused, provider, call, outcome, aborted>>

\* The deadline of the inspections passes; the id stays.
NeverReady(c) ==
  /\ call[c].phase = "waiting"
  /\ Object(c).name \notin containers \/ Object(c).name \in Unanswered("inspect")
  /\ Throw(c)
  /\ UNCHANGED <<docker, provider, aborted>>

ExecReturns(c) ==
  /\ call[c].phase = "executing" /\ call[c].name \in containers
  /\ Leave(c, Object(c).ephemeral, Object(c).name, "ran")
  /\ UNCHANGED <<docker, provider, aborted>>

\* The container is gone: docker says so, which is tried once more with another
\* container, or the command that was running ends with it.
ExecFindsNone(c) ==
  /\ call[c].phase = "executing" /\ call[c].name \notin containers
  /\ \/ ~call[c].retried /\ Reset(c, Object(c).name, "missing")
     \/ Leave(c, Object(c).ephemeral, Object(c).name, "killed")
  /\ UNCHANGED <<docker, provider, aborted>>

\* MUTANT of ExecTimesOut: docker exec runs without a timer.
NoTimer(c) == FALSE /\ UNCHANGED vars

ExecTimesOut(c) ==
  /\ call[c].phase = "executing"
  /\ kills' = kills \cup {call[c].name}
  /\ Reset(c, Object(c).name, "timedOut")
  /\ UNCHANGED <<containers, deaths, refused, failed, provider, aborted>>

\* MUTANT of Abort: an aborted call leaves its container to the next one.
AbortOnly(c) ==
  /\ Busy(c) /\ c \notin aborted /\ call[c].phase \in Commands
  /\ aborted' = aborted \cup {c}
  /\ kills' = kills \cup {call[c].name}
  /\ Leave(c, Object(c).ephemeral, Object(c).name, "aborted")
  /\ UNCHANGED <<containers, deaths, refused, failed, provider>>

\* The signal of a call fires: the docker command it waits for is ended; between
\* two inspections there is none.
Abort(c) ==
  /\ Busy(c) /\ c \notin aborted
  /\ aborted' = aborted \cup {c}
  /\ IF call[c].phase \in Commands
     THEN /\ \/ kills' = kills \cup {call[c].name}
             \/ call[c].phase = "waiting" /\ UNCHANGED kills
          /\ Reset(c, Object(c).name, "aborted")
     ELSE UNCHANGED <<kills, call, outcome>>
  /\ UNCHANGED <<containers, deaths, refused, failed, provider>>


\* MUTANT of ResetEnds: the next container has the name of the last.
ResetKeepsName(c) ==
  LET i == call[c].object
      o == [objects[i] EXCEPT !.started = FALSE, !.name = @]
  IN /\ call[c].phase = "resetting"
     /\ Remove(call[c].name)
     /\ names' = [names EXCEPT ![o.key] = @ + 1]
     /\ objects' = [objects EXCEPT ![i] = o]
     /\ UNCHANGED workspaces
     /\ IF call[c].cause = "missing"
        THEN Proceed(c, i, o, TRUE)
        ELSE Leave(c, o.ephemeral, o.name, call[c].cause)
     /\ UNCHANGED <<deaths, refused, runs, jobs, cleaned, disposed, aborted>>

\* MUTANT of ResetEnds: the workspace goes with the container.
ResetWipes(c) ==
  LET i == call[c].object
      o == [objects[i] EXCEPT !.started = FALSE, !.name = <<objects[i].key, names[objects[i].key] + 1>>]
  IN /\ call[c].phase = "resetting"
     /\ Remove(call[c].name)
     /\ names' = [names EXCEPT ![o.key] = @ + 1]
     /\ objects' = [objects EXCEPT ![i] = o]
     /\ workspaces' = workspaces \ {Directory(i)}
     /\ IF call[c].cause = "missing"
        THEN Proceed(c, i, o, TRUE)
        ELSE Leave(c, o.ephemeral, o.name, call[c].cause)
     /\ UNCHANGED <<deaths, refused, runs, jobs, cleaned, disposed, aborted>>

\* The object forgets its container and draws a name.
ResetEnds(c) ==
  LET i == call[c].object
      o == [objects[i] EXCEPT !.started = FALSE, !.name = <<objects[i].key, names[objects[i].key] + 1>>]
  IN /\ call[c].phase = "resetting"
     /\ Remove(call[c].name)
     /\ names' = [names EXCEPT ![o.key] = @ + 1]
     /\ objects' = [objects EXCEPT ![i] = o]
     /\ IF call[c].cause = "missing"
        THEN Proceed(c, i, o, TRUE)
        ELSE Leave(c, o.ephemeral, o.name, call[c].cause)
     /\ UNCHANGED <<deaths, refused, runs, jobs, cleaned, disposed, workspaces, aborted>>

----------------------------------------------------------------------------
(* cleanupState, for a lone call, a run that ended and a runtime that is   *)
(* shut down.                                                              *)

Forget(k, i) == IF runs[k] = i THEN [runs EXCEPT ![k] = 0] ELSE runs

\* MUTANT of CleaningEnds: only the workspace of a lone call is removed.
CleaningLeaves(c) ==
  /\ call[c].phase = "cleaning"
  /\ runs' = Forget(KeyOf[c], call[c].object)
  /\ workspaces' = workspaces \ {Directory(call[c].object)}
  /\ Put(c, [phase |-> "ended", name |-> NoName])
  /\ UNCHANGED <<docker, objects, names, jobs, cleaned, disposed, outcome, aborted>>

CleaningEnds(c) ==
  /\ call[c].phase = "cleaning"
  /\ runs' = Forget(KeyOf[c], call[c].object)
  /\ Remove(call[c].name)
  /\ workspaces' = workspaces \ {Directory(call[c].object)}
  /\ Put(c, [phase |-> "ended", name |-> NoName])
  /\ UNCHANGED <<deaths, refused, objects, names, jobs, cleaned, disposed, outcome, aborted>>

\* cleanupRun(k), at the end of the run.
CleanupRun(k) ==
  /\ k \notin cleaned /\ runs[k] # 0
  /\ CleanupOverlaps \/ ~InUse(k)
  /\ cleaned' = cleaned \cup {k}
  /\ jobs' = jobs \cup {[object |-> runs[k], name |-> objects[runs[k]].name]}
  /\ runs' = [runs EXCEPT ![k] = 0]
  /\ UNCHANGED <<docker, objects, names, disposed, workspaces, call, outcome, aborted>>

Dispose ==
  /\ disposed = "no"
  /\ CleanupOverlaps \/ \A c \in Calls : ~Busy(c)
  /\ disposed' = "removing"
  /\ jobs' = jobs \cup {[object |-> runs[k], name |-> objects[runs[k]].name] : k \in {k \in Keys : runs[k] # 0}}
  /\ runs' = [k \in Keys |-> 0]
  /\ UNCHANGED <<docker, objects, names, cleaned, workspaces, call, outcome, aborted>>

\* MUTANT of RemovalEnds: a container that is gone fails the removal.
RemovalFails(j) ==
  /\ j \in jobs /\ j.name \in containers
  /\ jobs' = jobs \ {j}
  /\ Remove(j.name)
  /\ workspaces' = workspaces \ {Directory(j.object)}
  /\ UNCHANGED <<deaths, refused, objects, runs, names, cleaned, disposed, call, outcome, aborted>>

RemovalEnds(j) ==
  /\ j \in jobs
  /\ jobs' = jobs \ {j}
  /\ Remove(j.name)
  /\ workspaces' = workspaces \ {Directory(j.object)}
  /\ UNCHANGED <<deaths, refused, objects, runs, names, cleaned, disposed, call, outcome, aborted>>

\* The directory of the provider is removed after the last removal.
Disposed ==
  /\ disposed = "removing" /\ jobs = {}
  /\ disposed' = "done" /\ workspaces' = {}
  /\ UNCHANGED <<docker, objects, runs, names, jobs, cleaned, call, outcome, aborted>>

----------------------------------------------------------------------------
(* The daemon.  A container is removed when it ends (--rm).                *)

KillLands(n) ==
  /\ n \in kills
  /\ kills' = kills \ {n} /\ containers' = containers \ {n}
  /\ UNCHANGED <<deaths, refused, failed, provider, call, outcome, aborted>>

Dies(n) ==
  /\ n \in containers /\ deaths < MaxDeaths
  /\ deaths' = deaths + 1 /\ containers' = containers \ {n}
  /\ UNCHANGED <<kills, refused, failed, provider, call, outcome, aborted>>

----------------------------------------------------------------------------
Advance(c) ==
  \/ DaemonCreates(c) \/ StartAnswers(c) \/ StartRefused(c) \/ Ready(c) \/ NeverReady(c)
  \/ ExecFindsNone(c) \/ ExecTimesOut(c) \/ ResetEnds(c) \/ CleaningEnds(c)

Next ==
  \/ \E c \in Calls : Begin(c) \/ Advance(c) \/ ExecReturns(c) \/ StartTimesOut(c) \/ InspectTimesOut(c) \/ Abort(c)
  \/ \E k \in RunKeys : CleanupRun(k)
  \/ \E j \in jobs : RemovalEnds(j)
  \/ \E n \in kills : KillLands(n)
  \/ \E n \in containers : Dies(n)
  \/ Dispose \/ Disposed

Spec == Init /\ [][Next]_vars

\* Docker answers and every timer fires; a command that runs may never return.
FairSpec ==
  /\ Spec
  /\ \A c \in Calls : WF_vars(Advance(c))
  /\ WF_vars(\E j \in jobs : RemovalEnds(j))
  /\ WF_vars(Disposed)
----------------------------------------------------------------------------
(* Properties.                                                             *)

\* The variables have their types, and a call that is under way has an object.
TypeOK ==
  /\ runs \in [Keys -> 0..Len(objects)]
  /\ \A c \in Calls : Busy(c) => call[c].object \in 1..Len(objects)
  /\ kills \cup containers \subseteq Keys \X (Nat \ {0})
  /\ disposed \in {"no", "removing", "done"}

\* A run has one container (README, "one long-lived container per run"), besides
\* those whose removal failed.
OneContainerPerRun ==
  \A n, m \in containers \ Unanswered("rm") : n[1] = m[1] => n = m

\* A container that exists can be found, unless its removal failed: an object that
\* is in the map, or that is being removed, has its name.
ContainersAreFindable ==
  \A n \in containers \ Unanswered("rm") :
    \/ \E k \in Keys : runs[k] # 0 /\ objects[runs[k]].name = n
    \/ \E j \in jobs : j.name = n

\* The files of a run survive every container it loses, until the run is over.
FilesSurvive ==
  \A k \in RunKeys : names[k] > 0 /\ k \notin cleaned /\ disposed = "no" => <<"run", k>> \in workspaces

\* docker run never meets a container of the same name.
NamesAreFree == ~refused

\* A docker kill that was sent for one call never ends the command of a later
\* one, unless it was sent for an inspection of the container.
KillsAreSpent ==
  \A c \in Calls :
    call[c].phase \in {"created", "waiting", "executing"} /\ call[c].name \in kills
      => call[c].name \in Unanswered("inspect")

\* The claim of waitForContainer, which returns the container as ready for
\* commands; the code does not keep it.
ReadyContainersStay ==
  \A c \in Calls : call[c].phase = "executing" => call[c].name \notin kills

\* Once the provider is disposed and the last call has ended, no workspace is left
\* and no container but those whose removal failed.
NothingIsLeft ==
  disposed = "done" /\ (\A c \in Calls : ~Busy(c)) =>
    containers \subseteq Unanswered("rm") /\ workspaces = {}

\* The claim of the README, "Both remove containers and workspaces"; the code does
\* not keep it.
ContainersAreRemoved ==
  disposed = "done" /\ (\A c \in Calls : ~Busy(c)) => containers = {}

\* Every call ends although commands never return and containers die under it.
CallsEnd == \A c \in Calls : Busy(c) ~> ~Busy(c)

\* A disposal ends although calls go on and containers are gone already.
DisposalEnds == (disposed = "removing") ~> (disposed = "done")
============================================================================
