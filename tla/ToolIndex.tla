----------------------------- MODULE ToolIndex ------------------------------
(***************************************************************************)
(* The embeddings of an agent's tools (tool-index.ts): a build reads the   *)
(* vectors of its tools from a cache that other builds use at the same     *)
(* time, asks the model for those that are missing, a batch at a time, and *)
(* stores them.  The cache keeps the entries that were used last; every    *)
(* failure of it is passed over, a failure of the model ends the build.    *)
(*                                                                         *)
(* A key is the model and the text that are hashed in it.  A vector is the *)
(* key it stands for and its number of dimensions; an earlier version of a *)
(* model may have left vectors of other dimensions under its id.           *)
(***************************************************************************)
EXTENDS Naturals, Sequences, FiniteSets, SequencesExt

CONSTANTS Builds,
          TextsOf,      \* the texts of the tools of each build
          ModelOf,      \* the id of its embedding model
          Declared,     \* whether the model declares its dimensions
          Capacity,     \* maxEntries
          BatchSize,
          OldKeys,      \* keys whose vector of other dimensions may be cached
          Dimensions, OldDimensions

IndexAssumption ==
  /\ Capacity \in Nat \ {0} /\ BatchSize \in Nat \ {0}
  /\ Dimensions # OldDimensions /\ Declared \in BOOLEAN

VARIABLES cache,    \* [key, vector], the entry used last at the end
          build,    \* where each build is
          asked,    \* the keys each build sent to the model, in order
          touched   \* the keys the cache was used with, in order

vars == <<cache, build, asked, touched>>

Key(b, i) == <<ModelOf[b], TextsOf[b][i]>>
Keys(b) == {Key(b, i) : i \in 1..Len(TextsOf[b])}
AllKeys == UNION {Keys(b) : b \in Builds}

----------------------------------------------------------------------------
(* InMemoryToolEmbeddingCache.                                             *)

Entries(c, key) == {i \in 1..Len(c) : c[i].key = key}
Cached(c, key) == Entries(c, key) # {}
Entry(c, key) == c[CHOOSE i \in Entries(c, key) : TRUE]

Drop(c, key) == SelectSeq(c, LAMBDA e : e.key # key)

\* MUTANT of Use: a hit leaves the entry where it is.
UseInPlace(c, key) == c

\* get moves the entry to the end.
Use(c, key) == IF Cached(c, key) THEN Append(Drop(c, key), Entry(c, key)) ELSE c

\* MUTANT of Store: an entry that is there is not taken out.
StoreAgain(c, key, vector) ==
  LET d == Append(c, [key |-> key, vector |-> vector])
  IN SubSeq(d, 1 + (IF Len(d) > Capacity THEN Len(d) - Capacity ELSE 0), Len(d))

\* set puts the entry at the end and drops the first beyond the capacity.
Store(c, key, vector) ==
  LET d == Append(Drop(c, key), [key |-> key, vector |-> vector])
  IN SubSeq(d, 1 + (IF Len(d) > Capacity THEN Len(d) - Capacity ELSE 0), Len(d))

\* getMany and setMany do so for one key after the other.
UseMany(c, keys) == FoldLeft(LAMBDA d, key : Use(d, key), c, keys)
StoreMany(c, writes) == FoldLeft(LAMBDA d, w : Store(d, w.key, w.vector), c, writes)

----------------------------------------------------------------------------
(* buildToolEmbeddingIndex.                                                *)

Vector(key, d) == [of |-> key, dimensions |-> d]

Init ==
  /\ \E old \in SUBSET OldKeys :
       cache = SetToSeq({[key |-> k, vector |-> Vector(k, OldDimensions)] : k \in old})
  /\ touched = [i \in 1..Len(cache) |-> cache[i].key]
  /\ build = [b \in Builds |-> [phase |-> "idle", vectors |-> {}, pending |-> <<>>]]
  /\ asked = [b \in Builds |-> <<>>]

\* MUTANT of Usable: every cached vector is used.
UsableAlways(v) == TRUE

\* A cached vector that is not of the declared dimensions is not used.
Usable(v) == ~Declared \/ v.dimensions = Dimensions

\* MUTANT of Missing: a text that two tools have is asked for twice.
MissingEach(keys, vectors) == SelectSeq(keys, LAMBDA key : \A v \in vectors : v.of # key)

\* What is not in vectors is asked for, each key once.
Missing(keys, vectors) ==
  FoldLeft(LAMBDA found, key : IF key \in Range(found) \/ \E v \in vectors : v.of = key THEN found ELSE Append(found, key),
           <<>>, keys)

Read(b) ==
  LET keys == [i \in 1..Len(TextsOf[b]) |-> Key(b, i)]
      hits == {Entry(cache, k).vector : k \in {k \in Keys(b) : Cached(cache, k)}}
      vectors == {v \in hits : Usable(v)}
  IN /\ build[b].phase = "idle"
     /\ cache' = UseMany(cache, keys)
     /\ touched' = touched \o SelectSeq(keys, LAMBDA k : Cached(cache, k))
     /\ build' = [build EXCEPT ![b] = [phase |-> "asking", vectors |-> vectors, pending |-> Missing(keys, vectors)]]
     /\ UNCHANGED asked

\* The cache cannot be read: everything is asked for.
ReadFails(b) ==
  /\ build[b].phase = "idle"
  /\ build' = [build EXCEPT ![b] = [phase |-> "asking", vectors |-> {},
                                    pending |-> Missing([i \in 1..Len(TextsOf[b]) |-> Key(b, i)], {})]]
  /\ UNCHANGED <<cache, asked, touched>>

Batch(b) == SubSeq(build[b].pending, 1, IF Len(build[b].pending) < BatchSize THEN Len(build[b].pending) ELSE BatchSize)

\* The model answers a batch, which is stored.
Embed(b, storeWorks) ==
  LET batch == Batch(b)
      fresh == [i \in 1..Len(batch) |-> Vector(batch[i], Dimensions)]
      writes == [i \in 1..Len(batch) |-> [key |-> batch[i], vector |-> fresh[i]]]
  IN /\ build[b].phase = "asking" /\ batch # <<>>
     /\ asked' = [asked EXCEPT ![b] = @ \o batch]
     /\ build' = [build EXCEPT ![b].vectors = @ \cup Range(fresh),
                               ![b].pending = SubSeq(@, Len(batch) + 1, Len(@))]
     /\ IF storeWorks
        THEN cache' = StoreMany(cache, writes) /\ touched' = touched \o batch
        ELSE UNCHANGED <<cache, touched>>

\* The model fails, answers another number of vectors, or the signal fires.
EmbedFails(b) ==
  /\ build[b].phase = "asking" /\ build[b].pending # <<>>
  /\ build' = [build EXCEPT ![b].phase = "failed"]
  /\ UNCHANGED <<cache, asked, touched>>

\* MUTANT of Finish: the sizes are not compared.
FinishUneven(b) ==
  /\ build[b].phase = "asking" /\ build[b].pending = <<>>
  /\ build' = [build EXCEPT ![b].phase = "built"]
  /\ UNCHANGED <<cache, asked, touched>>

\* Vectors of more than one number of dimensions make no index.
Finish(b) ==
  /\ build[b].phase = "asking" /\ build[b].pending = <<>>
  /\ LET mixed == Declared /\ \E v \in build[b].vectors : v.dimensions # Dimensions
         uneven == Cardinality({v.dimensions : v \in build[b].vectors}) > 1
     IN build' = [build EXCEPT ![b].phase = IF mixed \/ uneven THEN "failed" ELSE "built"]
  /\ UNCHANGED <<cache, asked, touched>>

Next ==
  \E b \in Builds :
    \/ Read(b) \/ ReadFails(b) \/ EmbedFails(b) \/ Finish(b)
    \/ \E works \in BOOLEAN : Embed(b, works)

Spec == Init /\ [][Next]_vars
----------------------------------------------------------------------------
(* Properties.                                                             *)

\* The cache is bounded and has one entry for a key.
TypeOK ==
  /\ Len(cache) <= Capacity
  /\ \A i, j \in 1..Len(cache) : cache[i].key = cache[j].key => i = j
  /\ \A b \in Builds : build[b].phase \in {"idle", "asking", "built", "failed"}

\* The cache holds the keys that were used last and no others, in the order of
\* their last use, whichever builds used them in between.
LastUse(k) == IF k \in Range(touched) THEN CHOOSE i \in 1..Len(touched) : touched[i] = k /\ \A j \in i + 1..Len(touched) : touched[j] # k ELSE 0
KeepsTheLastUsed ==
  /\ \A i \in 1..Len(cache) : \A k \in AllKeys :
       LastUse(k) > LastUse(cache[i].key) => \E j \in i + 1..Len(cache) : cache[j].key = k
  /\ Len(cache) < Capacity => \A k \in Range(touched) : Cached(cache, k)

\* An index has one vector for every tool, made for its text and the id of its
\* model, and all of one size, whatever the cache did meanwhile.
IndexIsWhole ==
  \A b \in Builds : build[b].phase = "built" =>
    /\ \A k \in Keys(b) : Cardinality({v \in build[b].vectors : v.of = k}) = 1
    /\ {v.of : v \in build[b].vectors} = Keys(b)
    /\ Cardinality({v.dimensions : v \in build[b].vectors}) = 1

\* A build sends a text to the model once, and none that it read a vector for.
AsksOnce ==
  \A b \in Builds :
    /\ Cardinality(Range(asked[b])) = Len(asked[b])
    /\ Range(asked[b]) \cap Range(build[b].pending) = {}
    /\ \A k \in Range(build[b].pending) : \A v \in build[b].vectors : v.of # k

\* A cache that still has vectors of an earlier version of the model makes no
\* build fail that declares its dimensions: only a failure of the model does.
OldVectorsDoNoHarm ==
  [][\A b \in Builds : build[b].pending = <<>> /\ build[b].phase = "asking" => build'[b].phase # "failed"]_vars
============================================================================
