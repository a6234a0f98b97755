---------------------------- MODULE RecordGraph ----------------------------
(***************************************************************************)
(* The records of the game's DataCore and the references between them      *)
(* (extract/dataforge.py, DataForgeIndex).  A source is a function from    *)
(* record numbers, which stand for the paths in their order, to records;   *)
(* each has a GUID, which a damaged build may give to several, or Null.    *)
(* A scalar is [form, n]: its type as stored and the number it spells, or  *)
(* Unreadable.  Diagnostics are [code, severity].                          *)
(***************************************************************************)
EXTENDS Integers, Sequences, FiniteSetsExt, SequencesExt, Functions

CONSTANTS None,
          Null,        \* no GUID, NULL_UUID
          Unreadable   \* a scalar that spells no number

Diagnostic(code, severity) == [code |-> code, severity |-> severity]

Records(source, kind) == {r \in DOMAIN source : source[r].kind = kind}

ByGuid(source, guid) == {r \in DOMAIN source : source[r].guid = guid /\ guid # Null}

IsUnique(source, guid) == Cardinality(ByGuid(source, guid)) = 1

\* Mutant of Target: of several records the first one.
FirstTarget(source, reference) ==
  IF ByGuid(source, reference) = {} THEN None ELSE Min(ByGuid(source, reference))

\* resolve: the one record of that GUID.
Target(source, reference) ==
  IF IsUnique(source, reference) THEN CHOOSE r \in ByGuid(source, reference) : TRUE ELSE None

Complaints(source, reference) ==
  CASE reference = Null -> {Diagnostic("invalid-reference", "warning")}
    [] reference # Null /\ ByGuid(source, reference) = {} ->
         {Diagnostic("missing-reference-target", "warning")}
    [] Cardinality(ByGuid(source, reference)) > 1 -> {Diagnostic("ambiguous-reference", "error")}
    [] OTHER -> {}

\* _build: diagnostics of the index itself.
IndexDiagnostics(source) ==
  IF \E r, s \in DOMAIN source : r # s /\ source[r].guid = source[s].guid /\ source[r].guid # Null
  THEN {Diagnostic("duplicate-guid", "error")} ELSE {}

\* convert_scalar: without lossy coercions; numbers are thousandths.
Converted(scalar, kind) ==
  CASE kind = "string" -> IF scalar.form = "text" THEN scalar.n ELSE None
    [] kind = "boolean" ->
         IF scalar.form \in {"bool", "int", "text"} /\ scalar.n \in {0, 1000} THEN scalar.n ELSE None
    [] kind = "integer" ->
         IF scalar.form # "bool" /\ scalar.n # Unreadable /\ scalar.n % 1000 = 0 THEN scalar.n ELSE None
    [] kind = "float" ->
         IF scalar.form # "bool" /\ scalar.n # Unreadable THEN scalar.n ELSE None

\* DiagnosticCategory and degrades_capability
Degrades(diagnostic) ==
  diagnostic.code \in {"duplicate-guid", "ambiguous-reference"} \/ diagnostic.code \in
    {"schema-drift", "provider-missing"}
=============================================================================
