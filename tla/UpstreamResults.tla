--------------------------- MODULE UpstreamResults ---------------------------
(* gateway/errors.py: what the gateway makes of an answer of the upstream  *)
(* server (normalize).  Pure.  A text is a shape: blank (no text, null or  *)
(* an empty string), plain, a list of so many items, or an object with the *)
(* lengths of its lists, whether it holds an object, and its scalars.      *)
EXTENDS Naturals, FiniteSets

IsText(text) ==
  \/ text.kind \in {"blank", "plain"}
  \/ text.kind = "list" /\ text.items \in Nat
  \/ text.kind = "object" /\ text.lists \subseteq Nat /\ text.nested \in BOOLEAN /\ text.scalars \in Nat

(* An answer is a text, or an error of one of the launcher's forms.        *)
IsAnswer(answer) ==
  /\ answer.isError \in BOOLEAN
  /\ IF answer.isError
     THEN answer.form \in {"validation", "http", "unknown_tool", "other"} /\ answer.code \in Nat
     ELSE IsText(answer.text)

(* Mutant: an object with a list that is empty holds nothing. *)
AnyEmptyList(text) == \E n \in text.lists : n = 0

(* _is_empty_wrapper: lists, all of them empty, and scalars at most.       *)
IsEmptyWrapper(text) ==
  text.lists # {} /\ (\A n \in text.lists : n = 0) /\ ~text.nested

IsEmptyPayload(text) ==
  \/ text.kind = "blank"
  \/ text.kind = "list" /\ text.items = 0
  \/ /\ text.kind = "object"
     /\ \/ text.lists = {} /\ ~text.nested /\ text.scalars = 0
        \/ IsEmptyWrapper(text)

(* _http_error.                                                            *)
HttpError(code) ==
  IF code = 422 THEN "invalid_arguments"
  ELSE IF code = 404 THEN "not_found"
  ELSE IF code >= 500 THEN "upstream_server_error"
  ELSE "upstream_http_error"

(* normalize; an error text is one of the forms of the launcher.           *)
Normalize(answer, readOnly) ==
  IF ~answer.isError
  THEN [status |-> IF readOnly /\ IsEmptyPayload(answer.text) THEN "empty" ELSE "ok", code |-> "none"]
  ELSE [status |-> "error",
        code   |-> CASE answer.form = "validation"   -> "invalid_arguments"
                     [] answer.form = "http"         -> HttpError(answer.code)
                     [] answer.form = "unknown_tool" -> "unknown_tool"
                     [] answer.form = "other"        -> "upstream_error"]

-----------------------------------------------------------------------------
(* Properties *)

Holds(text) == \/ text.kind = "plain"
               \/ text.kind = "list" /\ text.items > 0
               \/ text.kind = "object" /\ (text.nested \/ \E n \in text.lists : n > 0)

(* errors.py: "a successful call whose text is [] / {} / null / empty ->   *)
(* EMPTY, never an error", and "a successful call is always OK" for tools  *)
(* that write: nothing that holds a row is called empty, scalars that only *)
(* count do not make an empty answer full, and whoever sent bad arguments  *)
(* is told so whether the schema or the server found out.                  *)
ResultIsTold(answer, readOnly) ==
  LET out == Normalize(answer, readOnly)
  IN /\ answer.isError <=> out.status = "error"
     /\ out.status = "empty" => readOnly /\ ~Holds(answer.text)
     /\ out.status = "ok" /\ readOnly => \/ Holds(answer.text)
                                         \/ answer.text.kind = "object" /\ answer.text.lists = {}
     /\ out.code = "invalid_arguments" <=>
          answer.isError /\ (answer.form = "validation" \/ (answer.form = "http" /\ answer.code = 422))
=============================================================================
