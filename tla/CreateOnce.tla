----------------------------- MODULE CreateOnce -----------------------------
(***************************************************************************)
(* What put_object_if_absent promises its callers, whatever the network    *)
(* does: a key is created at most once and never changes afterwards, and   *)
(* every result a call returns is true of the key.                         *)
(*                                                                         *)
(*   "ok"         the key holds this payload, size and digest;             *)
(*   "exists"     another creator holds the key, so this call's payload    *)
(*                is not there by its own hand and never will be;          *)
(*   "failed"     nothing is promised: the call's object may be there, or  *)
(*                may still appear;                                        *)
(*   "too_large"  the payload never reaches the key.                       *)
(***************************************************************************)
EXTENDS ConditionalObjects

VARIABLES
    object,   \* what the key holds
    result    \* what each call has returned so far

Results == {"none", "ok", "exists", "failed", "too_large"}

Init ==
    /\ object = NoObject
    /\ result = [w \in Writers |-> "none"]

\* The key is created, by a call that has not been told the key is taken or
\* its payload too large (a failed call's upload may still land), or by a stray.
Create ==
    /\ object = NoObject
    /\ \/ \E w \in Writers :
            /\ result[w] \in {"none", "failed"}
            /\ ~ TooLarge(w)
            /\ object' = Stored(w)
       \/ \E m \in Strays : object' = [meta |-> m, by |-> OtherTool]
    /\ UNCHANGED result

Return(w, r) ==
    /\ result[w] = "none"
    /\ result' = [result EXCEPT ![w] = r]
    /\ UNCHANGED object

ReturnOk(w) ==
    /\ object # NoObject
    /\ object.meta = Expected(w)
    /\ Return(w, "ok")

ReturnExists(w) ==
    /\ object # NoObject
    /\ object.by # w
    /\ Return(w, "exists")

ReturnFailed(w) ==
    /\ ~ TooLarge(w)
    /\ Return(w, "failed")

ReturnTooLarge(w) ==
    /\ TooLarge(w)
    /\ Return(w, "too_large")

Next ==
    \/ Create
    \/ \E w \in Writers : ReturnOk(w) \/ ReturnExists(w) \/ ReturnFailed(w)
                          \/ ReturnTooLarge(w)

Spec == Init /\ [][Next]_<<object, result>>
=============================================================================
