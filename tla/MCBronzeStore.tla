---------------------------- MODULE MCBronzeStore ----------------------------
(***************************************************************************)
(* Instances of BronzeStore for TLC: two calls that derive one prefix.     *)
(* Their artifacts were retrieved on different dates of different clocks.  *)
(***************************************************************************)
EXTENDS BronzeStore, ObjectKeys

LOCAL INSTANCE SequencesExt

CONSTANTS a, b, good, bad

\* The calls agree on the extension: all three keys are contended.
SameKeys == [w \in Calls |-> "source.csv"]

\* They disagree: each has an artifact key of its own.
OwnArtifacts == [w \in Calls |-> IF w = a THEN "source.csv" ELSE "source.json"]

SameVersion  == [w \in Calls |-> "1.0.0"]
OwnVersion   == [w \in Calls |-> IF w = a THEN "1.0.0" ELSE "1.1.0"]

\* One call announces the digest of its artifact, the other does not.
OneChecked  == [w \in Calls |-> IF w = a THEN good ELSE NoValue]
BothChecked == [w \in Calls |-> good]
-----------------------------------------------------------------------------
(* The keys of these calls, and the normalization of prefixes.             *)

MCNames       == {"", "..", "raw", "back\\slash", "met", "run"}
MCBackslashed == {"back\\slash"}

\* 01:00 on the second day two hours east of Greenwich, and 20:00 on the first at
\* Greenwich.
ArtifactOf(w) ==
    [source |-> "met", ingestion_run_id |-> "run", extension |-> "csv",
     retrieved_at |-> IF w = a THEN [local |-> 90000, offset |-> 7200]
                      ELSE [local |-> 72000, offset |-> 0]]

\* The calls the runs let race do derive one prefix.
ASSUME ContendedPrefix ==
    \A v, w \in Calls :
        BundlePrefix(<<"raw">>, ArtifactOf(v)) = BundlePrefix(<<"raw">>, ArtifactOf(w))

Slashes(n) == [i \in 1..n |-> ""]

\* What is left of any prefix is the prefix without the slashes at its ends, and
\* with all others; normalizing it again changes nothing.
ASSUME NormalizationAssumption ==
    \A raw \in BoundedSeq({"", "..", "raw"}, 5) :
        LET kept == Normalized(raw) IN
        /\ \E m, n \in 0..Len(raw) : raw = Slashes(m) \o kept \o Slashes(n)
        /\ kept # <<>> => kept[1] # "" /\ kept[Len(kept)] # ""
        /\ Normalized(kept) = kept

\* test_rejects_unsafe_bronze_prefixes, and a backslash.
ASSUME RefusedPrefixes ==
    /\ \A prefix \in {<<"">>, <<"", "">>, <<"..", "raw">>, <<"raw", "", "met">>,
                      <<"back\\slash">>} : ~ Usable(prefix)
    /\ Usable(<<"", "raw", "">>) /\ Usable(<<"raw", "met">>)
=============================================================================
