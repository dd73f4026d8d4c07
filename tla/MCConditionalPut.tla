-------------------------- MODULE MCConditionalPut --------------------------
(***************************************************************************)
(* Instances of ConditionalPut for TLC: two callers of one key, whose      *)
(* payloads are the same bytes or different ones, beside a foreign tool.   *)
(***************************************************************************)
EXTENDS ConditionalPut

CONSTANTS a, b, c, same, other

Size == 7

\* Two callers upload the same bytes, exactly at the ceiling; any other call's payload is
\* one byte over it.
EqualPayloads ==
    [w \in Writers |-> [size_bytes |-> IF w \in {a, b} THEN Size ELSE Size + 1,
                        sha256     |-> IF w \in {a, b} THEN same ELSE other]]

\* Equally long payloads that differ: only the digest tells them apart.
DistinctPayloads ==
    [w \in Writers |-> [size_bytes |-> Size,
                        sha256     |-> IF w = a THEN same ELSE other]]

\* Nobody but this client writes under the key.
NoStrays == {}

\* Objects without this client's metadata, and a copy cut short that kept it.
ForeignObjects ==
    {[size_bytes |-> Size, sha256 |-> NoValue, declared_size_bytes |-> NoValue],
     [size_bytes |-> 1, sha256 |-> same, declared_size_bytes |-> Size]}
=============================================================================
