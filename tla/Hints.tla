--------------------------------- MODULE Hints ---------------------------------
(***************************************************************************)
(* From a row event of the WAL to the invalidations of document rooms:     *)
(* generate_invalidation_hints (src/wal/hint_generator.rs) and             *)
(* HintRouter::route (src/wal/router.rs), over the types of                *)
(* src/wal/types.rs.  A tuple is a function from column names to values.   *)
(* Hint lists are sets: they are collected in a HashSet and a room's list  *)
(* has no promised order.                                                  *)
(***************************************************************************)
CONSTANTS
  DocumentId,   \* document ids: the texts the invalidations are about
  OtherText,    \* the texts of other columns: only their being texts matters
  Null          \* Value::Null; no column is decoded to Value::Int

Text == DocumentId \cup {OtherText}

ASSUME HintsAssumption == Null \notin Text

Hint(table, column, value) == [table |-> table, column |-> column, value |-> value]

\* the Option<&str> of get_text_column, as a set of at most one text
TextColumn(tuple, column) ==
  IF column \in DOMAIN tuple THEN {tuple[column]} \cap Text ELSE {}

-----------------------------------------------------------------------------
(* The column that generate_invalidation_hints requires of an event; the   *)
(* result is Err(MissingColumn) when the event needs one and has none.     *)

NeedsColumn(event) ==
  event.table = "comments" \/ (event.table = "documents" /\ event.op = "delete")

Required(event) ==
  IF event.table = "documents" THEN TextColumn(event.old, "id")
  ELSE TextColumn(IF event.op = "delete" THEN event.old ELSE event.new, "document_id")

MissingColumn(event) == NeedsColumn(event) /\ Required(event) = {}

\* the document the row of an UPDATE was in before
Previous(event) ==
  IF event.op = "update" THEN TextColumn(event.old, "document_id") ELSE {}

\* the Ok hints of the event, none if it is an Err
GenerateHints(event) ==
  IF ~ NeedsColumn(event) \/ MissingColumn(event) THEN {}
  ELSE IF event.table = "documents" THEN {Hint("documents", "id", d) : d \in Required(event)}
  ELSE {Hint("comments", "document_id", d) : d \in Required(event) \cup Previous(event)}

-----------------------------------------------------------------------------
RouteKey(hint) ==
  IF <<hint.table, hint.column>> \in {<<"comments", "document_id">>, <<"documents", "id">>}
  THEN {hint.value} ELSE {}

Route_AllHints(hints) == [room \in UNION {RouteKey(h) : h \in hints} |-> hints]

\* the rooms a transaction's hints go to, each with the hints for it
Route(hints) ==
  [room \in UNION {RouteKey(h) : h \in hints} |-> {h \in hints : room \in RouteKey(h)}]
================================================================================
