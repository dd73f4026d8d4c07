---------------------------- MODULE BronzeLedger ----------------------------
(***************************************************************************)
(* What store_bundle promises of a bundle prefix: it is committed at most  *)
(* once, all three objects together, by a call whose artifact passed its   *)
(* checks; and a receipt references exactly what is committed.  A failure  *)
(* promises nothing more, except that only an object-store error can be    *)
(* followed, or have been preceded, by the call's commit.                  *)
(***************************************************************************)
EXTENDS BronzeBundles

VARIABLES
    bundle,     \* the committed bundle, or NoObject
    receipt,    \* the references each call has been given, or NoValue
    failure     \* the error each call has raised, or NoValue

Failures == {"not_found", "too_large", "integrity", "staging", "evidence_staging",
             "exists", "store", "serialization"}

\* What a receipt references of a bundle.
References(b) == [artifact |-> b.artifact, evidence |-> b.evidence]

Pending(w) == receipt[w] = NoValue /\ failure[w] = NoValue

Init ==
    /\ bundle  = NoObject
    /\ receipt = [w \in Calls |-> NoValue]
    /\ failure = [w \in Calls |-> NoValue]

\* The bundles call w may commit: verified bytes, and a sidecar of its own
\* contract version that fits one PUT and is counted right.
Bundles(w) ==
    {b \in [by       : {w},
            version  : {Version[w]},
            artifact : [key  : {Extension[w]},
                        body : {c \in Contents : Verified(w, c)}],
            evidence : UNION {[1..n -> [version : {Version[w]}, outcome : Outcomes]] :
                                n \in 0..MaxLines},
            total    : 0..MaxLines,
            counts   : [Outcomes -> 0..MaxLines]] :
       /\ b.total = Len(b.evidence)
       /\ \A o \in Outcomes : b.counts[o] = CountOf(b.evidence, o)}

Commit(w) ==
    /\ bundle = NoObject
    /\ Pending(w) \/ failure[w] = "store"
    /\ bundle' \in Bundles(w)
    /\ UNCHANGED <<receipt, failure>>

GiveReceipt(w) ==
    /\ Pending(w)
    /\ bundle # NoObject
    /\ bundle.version = Version[w]
    /\ bundle.artifact.key = Extension[w]
    /\ receipt' = [receipt EXCEPT ![w] = References(bundle)]
    /\ UNCHANGED <<bundle, failure>>

Fail(w) ==
    /\ Pending(w)
    /\ \E f \in Failures :
         /\ (bundle # NoObject => bundle.by # w) \/ f = "store"
         /\ failure' = [failure EXCEPT ![w] = f]
    /\ UNCHANGED <<bundle, receipt>>

Next == \E w \in Calls : Commit(w) \/ GiveReceipt(w) \/ Fail(w)

Spec == Init /\ [][Next]_<<bundle, receipt, failure>>
=============================================================================
