------------------------- MODULE ConditionalObjects -------------------------
(***************************************************************************)
(* The vocabulary that the conditional object client and the promise it    *)
(* keeps have in common: who uploads what under one object key, and what   *)
(* the object store shows of an object.  A payload is its size and its     *)
(* digest; two payloads with one digest are the same bytes.                *)
(***************************************************************************)
EXTENDS Naturals

CONSTANTS
    Writers,      \* concurrent calls of put_object_if_absent for one key
    Digests,      \* the SHA-256 values that can occur
    Payload,      \* what each call uploads: [Writers -> [size_bytes, sha256]]
    Strays,       \* metadata of objects another tool may put under the key
    MaxPutSize,   \* MAX_SINGLE_PUT_SIZE_BYTES
    NoObject,     \* the key holds nothing
    NoValue,      \* a metadata field that is absent (None)
    OtherTool     \* the creator of a stray object

\* ConditionalObjectMetadata: the actual size, and the two user-metadata fields.
Metadata == [size_bytes          : Nat,
             sha256              : Digests \cup {NoValue},
             declared_size_bytes : Nat \cup {NoValue}]

\* A stored object: what HEAD shows, and (for the properties only) its creator.
Objects == [meta : Metadata, by : Writers \cup {OtherTool}]

ASSUME PayloadAssumption ==
    /\ Payload \in [Writers -> [size_bytes : Nat, sha256 : Digests]]
    /\ MaxPutSize \in Nat

ASSUME StrayAssumption ==
    /\ Strays \subseteq Metadata
    /\ OtherTool \notin Writers
    /\ NoObject \notin Objects

\* What the key's metadata must be for the object to be the payload of w:
\* the headers _send_once declares, over a body of the declared length.
Expected(w) == [size_bytes          |-> Payload[w].size_bytes,
                sha256              |-> Payload[w].sha256,
                declared_size_bytes |-> Payload[w].size_bytes]

\* The object an applied PUT of w leaves behind.
Stored(w) == [meta |-> Expected(w), by |-> w]

\* put_object_if_absent refuses a payload over the single-PUT ceiling.
TooLarge(w) == Payload[w].size_bytes > MaxPutSize
=============================================================================
