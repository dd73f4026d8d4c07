--------------------------- MODULE MCMetIngestion ---------------------------
(* Small files for MetIngestion. *)
EXTENDS MetIngestion, SequencesExt

CONSTANT MaxRows   \* the longest file

MCRequired == {"Object ID", "Title"}
MCKnown    == MCRequired \cup {"River"}

\* As the contract wants it, with a column more, and with each defect.
Headers ==
    {<<"Object ID", "Title">>, <<"Object ID", "Mood", "Title">>, <<>>,
     <<"Object ID", Blank, "Title">>, <<"Object ID", "Title", "Title">>,
     <<"Object ID", "River">>}

Row(text, value, padded, blank, public, date) ==
    [object_id |-> [text |-> text, value |-> value, padded |-> padded],
     blank |-> blank, public |-> public, date |-> date]

\* The same Object ID in two spellings and two rows, another one, and none.
SomeRows ==
    {Row("number", 7, FALSE, {}, "true", "iso"),
     Row("number", 7, TRUE, {"Metadata Date"}, "false", "other"),
     Row("number", 8, FALSE, {"Title"}, "other", "other"),
     Row("number", 0, FALSE, {}, "true", "iso"),
     Row("null", 0, FALSE, {}, "true", "iso")}

MCFiles ==
    [header : Headers, rows : BoundedSeq(SomeRows \cup {Unreadable}, MaxRows)]
=============================================================================
