----------------------------- MODULE MetContract -----------------------------
(***************************************************************************)
(* The Met snapshot contract: the check of the header, the Object ID cell, *)
(* and the judgement of one row.  Cells are reduced to what the contract   *)
(* tells apart in them; the columns it only copies are left out.           *)
(***************************************************************************)
EXTENDS Integers, Sequences, FiniteSets

CONSTANTS
    Required,   \* MET_V1_REQUIRED_COLUMNS
    Known,      \* MET_V1_KNOWN_COLUMNS
    Blank,      \* a column without a name
    NoId        \* an Object ID cell that holds no identifier

ASSUME ContractAssumption ==
    /\ Required \subseteq Known
    /\ Blank \notin Known
    /\ NoId \notin Int
-----------------------------------------------------------------------------
(* The header: a sequence of column names.                                 *)

ColumnsOf(header) == {header[i] : i \in DOMAIN header}

\* MetCsvSchemaError.
HeaderRefused(header) ==
    \/ header = <<>>
    \/ Blank \in ColumnsOf(header)
    \/ Cardinality(ColumnsOf(header)) # Len(header)
    \/ ~ Required \subseteq ColumnsOf(header)

\* The contract messages of the bundle: the columns nobody knows.
Unexpected(header) == ColumnsOf(header) \ Known
-----------------------------------------------------------------------------
(* A row.  Its Object ID is null or no number, or a number in one of its   *)
(* spellings ("7", " 007").                                                *)

IdCells == [text : {"null", "word", "number"}, value : Int, padded : BOOLEAN]

RecommendedValueFields ==
    {"Object Number", "Department", "Object Name", "Title", "Link Resource",
     "Metadata Date", "Repository"}

Rows == [object_id : IdCells,
         blank     : SUBSET RecommendedValueFields,
         public    : {"true", "false", "other"},
         date      : {"iso", "other"}]

\* parse_positive_object_id: int() takes every spelling of a number.
ObjectId(cell) ==
    IF cell.text = "number" /\ cell.value > 0 THEN cell.value ELSE NoId

Outcomes == {"accepted", "accepted_with_warnings", "quarantined", "rejected"}

Message(rule, field) == [rule |-> rule, field |-> field]

\* What MetRowContract.validate warns of in a row with an Object ID; a date is only
\* parsed when there is one.
Warnings(row) ==
    {Message("missing_recommended_value", field) : field \in row.blank}
    \cup {m \in {Message("invalid_public_domain_value", "Is Public Domain")} :
            row.public = "other"}
    \cup {m \in {Message("invalid_metadata_date", "Metadata Date")} :
            "Metadata Date" \notin row.blank /\ row.date = "other"}

Judgement(outcome, messages) == [outcome |-> outcome, messages |-> messages]

\* MetRowContract.validate.
Validate(row) ==
    IF ObjectId(row.object_id) = NoId
      THEN Judgement("quarantined", {Message("invalid_object_id", "Object ID")})
    ELSE IF Warnings(row) # {}
      THEN Judgement("accepted_with_warnings", Warnings(row))
      ELSE Judgement("accepted", {})

\* A row whose Object ID has been seen in the snapshot.
Duplicate == Judgement("rejected", {Message("duplicate_object_id", "Object ID")})
=============================================================================
