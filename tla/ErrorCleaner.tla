---------------------------- MODULE ErrorCleaner ----------------------------
(***************************************************************************)
(* How a raw tool error becomes a hint (parser/error_cleaner.rs,           *)
(* parser/rules.rs).  A raw error is a sequence of lines.  Of a line only  *)
(* what the rules look for is kept: what it says, in one word, the HTTP    *)
(* status in it, and the key it names.                                     *)
(***************************************************************************)
EXTENDS Integers, Sequences
Seqs == INSTANCE SequencesExt

CONSTANTS NoKey,
          MaxLines       \* MAX_INPUT_BYTES, in lines

ASSUME CleanerAssumption == MaxLines \in Nat \ {0} /\ MaxLines % 4 = 0

Line(says, status, key) == [says |-> says, status |-> status, key |-> key]
Plain(says)             == Line(says, 0, NoKey)

(* A rule fires on a line that says one of a few things, with one of its    *)
(* statuses; keyed if it has groups for the offending key, and closing if   *)
(* its pattern is anchored to the end of the input.                        *)
Rule(name, says, statuses, keyed) ==
  [name |-> name, says |-> says, statuses |-> statuses, keyed |-> keyed]
Named(name, says)   == Rule(name, says, {0}, TRUE)
Unnamed(name, says) == Rule(name, says, {0}, FALSE)
Closing             == {"type_mismatch"}

ProtocolRules ==
  << Named("unresolved_reference", {"unresolved"}),
     Unnamed("unavailable_step_reference", {"points_to_a_step_that_has_not_completed"}),
     Unnamed("unknown_tool", {"unknown_tool"}) >>

SqlRules ==
  << Named("pg_foreign_key", {"is_not_present_in_table"}),
     Named("mysql_foreign_key", {"foreign_key_constraint_fails"}),
     Unnamed("sqlite_foreign_key", {"FOREIGN_KEY_constraint_failed"}),
     Named("pg_unique", {"Key_already_exists"}),
     Named("mysql_duplicate", {"Duplicate_entry"}),
     Named("sqlite_unique", {"UNIQUE_constraint_failed"}),
     Named("not_null", {"violates_not_null_constraint", "cannot_be_null", "NOT_NULL_constraint_failed"}),
     Named("missing_column", {"column_does_not_exist", "no_such_column", "Unknown_column"}),
     Unnamed("missing_table", {"relation_does_not_exist", "no_such_table", "Table_does_not_exist"}),
     Named("record_not_found", {"no_row_with"}) >>

PayloadRules ==
  << Named("missing_field", {"missing_field", "Field_required", "is_a_required_property"}),
     Named("python_key_error", {"KeyError"}),
     Named("python_missing_argument", {"missing_required_argument"}),
     Named("null_attribute", {"NoneType_has_no_attribute", "Cannot_read_properties_of_undefined"}),
     Named("java_npe", {"NullPointerException", "Cannot_invoke_because_is_null"}),
     Unnamed("invalid_integer", {"invalid_literal_for_int", "NumberFormatException"}),
     Unnamed("type_mismatch", {"invalid_type"}) >>

FileRules ==
  << Unnamed("path_escape", {"escapes_the_sandbox"}),
     Unnamed("file_not_found", {"No_such_file_or_directory", "ENOENT", "FileNotFoundException"}),
     Unnamed("permission_denied", {"Permission_denied", "EACCES"}) >>

ClientErrors == 400 .. 499
ServerErrors == 500 .. 599
NetworkRules ==
  << Rule("rate_limited", {"HTTP", "status"}, {429}, FALSE),
     Unnamed("rate_limited", {"too_many_requests", "rate_limited"}),
     Rule("http_auth", {"HTTP", "status", "returned"}, {401, 403}, FALSE),
     Rule("http_not_found", {"HTTP", "status", "returned"}, {404}, FALSE),
     Rule("http_client_error", {"HTTP", "status", "returned"}, ClientErrors, FALSE),
     Rule("http_server_error", {"HTTP", "status", "returned"}, ServerErrors, FALSE),
     Unnamed("timeout", {"timed_out", "deadline_exceeded"}),
     Unnamed("connection_failure", {"connection_refused", "connection_reset", "could_not_connect"}),
     Unnamed("malformed_json", {"JSONDecodeError", "invalid_arguments_JSON", "EOF_while_parsing"}) >>

GenericFirst == NetworkRules \o ProtocolRules \o SqlRules \o PayloadRules \o FileRules
RULES        == ProtocolRules \o SqlRules \o PayloadRules \o FileRules \o NetworkRules

(* The set of rules is matched against the whole input, and the first rule *)
(* listed wins, wherever in the input it matches; its key is that of the   *)
(* leftmost match.                                                         *)
Says(rule, text, i) == /\ text[i].says \in rule.says /\ text[i].status \in rule.statuses
                       /\ rule.name \in Closing => i = Len(text)
Matched(rule, text) == {i \in DOMAIN text : Says(rule, text, i)}
First(ns)           == CHOOSE n \in ns : \A m \in ns : n <= m
Firing(text)        == {i \in DOMAIN RULES : Matched(RULES[i], text) # {}}
Winner(text)        == IF Firing(text) = {} THEN 0 ELSE First(Firing(text))

(* bounded: the first quarter and the last three quarters of a long input, *)
(* with a line that stands for what was left out.                          *)
Elision == Plain("...")
BoundedTail(text) ==
  IF Len(text) <= MaxLines THEN text
  ELSE <<Elision>> \o SubSeq(text, Len(text) - MaxLines + 1, Len(text))
Bounded(text) ==
  IF Len(text) <= MaxLines THEN text
  ELSE SubSeq(text, 1, MaxLines \div 4) \o <<Elision>>
         \o SubSeq(text, Len(text) - 3 * (MaxLines \div 4) + 1, Len(text))

(* salient_line: the last "Caused by:", or the last exception, or the first *)
(* line that is no stack frame; none if there are only frames.             *)
Frames == {"at", "..."}
SalientLine(text) ==
  LET caused     == Seqs!SelectLastInSeq(text, LAMBDA l : l.says = "Caused_by")
      exceptions == Seqs!SelectLastInSeq(text, LAMBDA l : l.says = "exception")
      others     == Seqs!SelectInSeq(text, LAMBDA l : l.says \notin Frames)
  IN  IF caused # 0 THEN caused ELSE IF exceptions # 0 THEN exceptions ELSE others

(* clean: the hint's rule and key, or the line the fallback quotes.         *)
Unknown == Plain("unknown_error")
Clean(raw) ==
  LET text == Bounded(raw)
      win  == Winner(text)
      line == SalientLine(text)
  IN  IF win # 0
      THEN LET at == First(Matched(RULES[win], text))
           IN  [rule |-> RULES[win].name, line |-> text[at],
                key |-> IF RULES[win].keyed THEN text[at].key ELSE NoKey]
      ELSE [rule |-> "fallback", key |-> NoKey, line |-> IF line = 0 THEN Unknown ELSE text[line]]
=============================================================================
