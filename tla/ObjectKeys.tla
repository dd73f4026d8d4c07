----------------------------- MODULE ObjectKeys -----------------------------
(***************************************************************************)
(* build_bronze_object_keys: where a bundle lives.  A key is the sequence  *)
(* of the segments between its slashes, so that two keys are one string if *)
(* and only if they are one sequence.  The three segments of a date, which *)
(* are one to one with it, are one segment here.                           *)
(***************************************************************************)
EXTENDS Integers, Sequences

CONSTANTS
    Names,        \* segments of prefixes, sources and run IDs
    Backslashed   \* those with a backslash in them

ASSUME NamesAssumption == Backslashed \subseteq Names

\* An instant is a wall clock and its offset from UTC, in seconds.
DayLength == 86400
Instants  == [local : Int, offset : Int]

\* BronzeArtifact, as far as the keys depend on it.
Artifacts ==
    [source : Names, ingestion_run_id : Names, retrieved_at : Instants, extension : Names]

\* bronze_prefix.strip("/"): only the slashes at its ends go.
Normalized(prefix) ==
    LET named == {i \in DOMAIN prefix : prefix[i] # ""}
        first == CHOOSE i \in named : \A j \in named : i <= j
        last  == CHOOSE i \in named : \A j \in named : i >= j
    IN  IF named = {} THEN <<>> ELSE SubSeq(prefix, first, last)

\* ValueError otherwise.
Usable(prefix) ==
    /\ Normalized(prefix) # <<>>
    /\ \A i \in DOMAIN Normalized(prefix) :
         Normalized(prefix)[i] \notin {"", ".", ".."} \cup Backslashed

\* astimezone(UTC), down to the day.
UtcDay(instant) == (instant.local - instant.offset) \div DayLength

\* Below a prefix that is normalized and usable.
BundlePrefix(prefix, artifact) ==
    prefix \o <<artifact.source, UtcDay(artifact.retrieved_at), artifact.ingestion_run_id>>

\* A file name, split at its first dot.
ObjectKey(prefix, artifact, file) == Append(BundlePrefix(prefix, artifact), file)

BronzeObjectKeys(prefix, artifact) ==
    [artifact            |-> ObjectKey(prefix, artifact, <<"source", artifact.extension>>),
     evidence_manifest   |-> ObjectKey(prefix, artifact, <<"records", "manifest.jsonl">>),
     completion_manifest |-> ObjectKey(prefix, artifact, <<"_SUCCESS", "json">>)]
=============================================================================
