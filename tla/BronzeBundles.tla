---------------------------- MODULE BronzeBundles ----------------------------
(***************************************************************************)
(* The vocabulary of one Bronze bundle prefix: the calls of store_bundle   *)
(* that derive it (same source, day and ingestion run), the keys below it, *)
(* and what the three objects of a bundle say.  Two bodies are equal when  *)
(* their bytes, hence their size and SHA-256, are.                         *)
(***************************************************************************)
EXTENDS Naturals, Sequences, FiniteSets

CONSTANTS
    Calls,        \* calls of store_bundle for the prefix
    Contents,     \* byte strings the acquisition file can hold
    Oversized,    \* those over MAX_SINGLE_PUT_SIZE_BYTES
    Checksum,     \* expected_sha256 of each call's artifact, or NoValue
    Extension,    \* extension of each call's artifact: it names the artifact key
    Version,      \* contract version of each call, standing for all that its
                  \* manifest copies from the artifact's description
    Outcomes,     \* ContractOutcome, as far as counting them apart needs
    MaxLines,     \* evidence lines that fit in one conditional PUT
    NoValue,      \* None
    NoObject      \* a key that holds nothing

\* The three objects, in the order they are probed and written.
Artifact == 1
Evidence == 2
Marker   == 3
Parts    == 1..3

Extensions == {Extension[w] : w \in Calls}
Keys       == Extensions \cup {"records.manifest.jsonl", "_SUCCESS.json"}

\* build_bronze_object_keys: only the artifact's key depends on the call.
Key(w, part) ==
    CASE part = Artifact -> Extension[w]
      [] part = Evidence -> "records.manifest.jsonl"
      [] part = Marker   -> "_SUCCESS.json"

\* One line of record evidence: the contract version of its provenance, and its
\* outcome.
Versions == {Version[w] : w \in Calls}
Lines    == [version : Versions, outcome : Outcomes]

\* How many lines of a sidecar have an outcome.
CountOf(lines, o) == Cardinality({i \in DOMAIN lines : lines[i].outcome = o})

\* BronzeCompletionManifest: references to the two other objects, and counts.
Manifests == [version  : Versions,
              artifact : [key : Extensions, body : Contents],
              evidence : Seq(Lines),
              total    : Nat,
              counts   : [Outcomes -> Nat]]

\* A stored object: its bytes, and (for the properties only) its creator.
Objects(bodies) == [body : bodies, by : Calls]

\* The digest the caller announced, if any, is that of the bytes.
Verified(w, content) ==
    content \notin Oversized /\ Checksum[w] \in {content, NoValue}

ASSUME BundleAssumption ==
    /\ Checksum  \in [Calls -> Contents \cup {NoValue}]
    /\ Oversized \subseteq Contents
    /\ MaxLines  \in Nat
    /\ NoValue   \notin Contents
    /\ NoObject \notin Objects(Contents)
    /\ NoObject \notin Objects(Seq(Lines))
    /\ NoObject \notin Objects(Manifests)
    /\ NoObject \notin [by : Calls, version : Versions,
                       artifact : [key : Extensions, body : Contents],
                       evidence : Seq(Lines), total : Nat, counts : [Outcomes -> Nat]]
    /\ Extensions \cap {"records.manifest.jsonl", "_SUCCESS.json"} = {}
=============================================================================
