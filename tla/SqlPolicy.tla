------------------------------ MODULE SqlPolicy ------------------------------
(***************************************************************************)
(* The policy that keeps statements of server-owned features away from the  *)
(* embedded server (reject_unsupported_sql_policy, database.cc) and the     *)
(* schema name it goes by.  The code does not parse SQL: it looks at the    *)
(* first tokens of the text.  Here a statement is a small syntax tree,      *)
(* Tokens is the text it is written as, and what the tree means is the      *)
(* reference the scan is compared with.                                     *)
(*                                                                          *)
(* Names stand for their class: V is any variable of the policy's lists     *)
(* (query logs, query cache, binary log, profiling, ...), T any table of    *)
(* the information schema it names, F any function; x is none of these.     *)
(***************************************************************************)
EXTENDS Integers, Sequences, SequencesExt, FiniteSetsExt

CONSTANTS
  Window,          \* k_sql_policy_token_count
  MaxAssignments   \* assignments of a SET statement

ASSUME PolicyAssumption == Window \in Nat \ {0} /\ MaxAssignments \in Nat

VARIABLES
  schema,          \* the default schema of the server's session
  current_schema,  \* mylite_db::current_schema
  prepared_use,    \* the last USE that succeeded was a prepared statement
  pending          \* the statement of the call in progress, and the policy's answer

vars == <<schema, current_schema, prepared_use, pending>>
-----------------------------------------------------------------------------
(* Tokens.  A word is an unquoted name, keyword or number, a mark any other  *)
(* single character; names may be quoted.                                    *)
Word(t)   == [kind |-> "word", text |-> t]
Mark(t)   == [kind |-> "mark", text |-> t]
Quoted(t) == [kind |-> "quoted", text |-> t]
Literal(t) == [kind |-> "string", text |-> t]

token_equals(token, keyword) == token.kind \in {"word", "mark"} /\ token.text = keyword
token_in(token, keywords) == token.kind \in {"word", "mark"} /\ token.text \in keywords
identifier_token_equals(token, keyword) ==
  token.kind \in {"word", "quoted"} /\ token.text = keyword

collect_sql_policy_tokens(sql) == SubSeq(sql, 1, Min({Len(sql), Window}))

(* identifier_token_at for every index: the words, the marks left out. *)
Words(tokens) ==
  LET words == SelectSeq(tokens, LAMBDA t : t.kind = "word")
  IN [i \in DOMAIN words |-> words[i].text]
StartsWith(words, head) == IsPrefix(head, words)
HasWordFrom(words, keyword, i) == \E k \in i..Len(words) : words[k] = keyword
-----------------------------------------------------------------------------
(* SET statements. *)
first_set_assignment_token_index(tokens) ==
  IF Len(tokens) > 2 /\ token_equals(tokens[2], "STATEMENT") /\ ~token_equals(tokens[3], "=")
  THEN 3 ELSE 2

(* The depth of parentheses in front of token i, counted from token first. *)
ParenDepth(tokens, first, i) ==
  LET depth[k \in first - 1..i - 1] ==
        IF k < first THEN 0
        ELSE LET d == depth[k - 1]
             IN CASE token_equals(tokens[k], "(") -> d + 1
                  [] token_equals(tokens[k], ")") -> Max({d - 1, 0})
                  [] OTHER -> d
  IN depth[i - 1]

(* Mutants: the parentheses are not counted; only the first assignment is    *)
(* looked at.                                                                *)
AssignmentStartFlat(tokens, i) ==
  \/ i = first_set_assignment_token_index(tokens)
  \/ token_equals(tokens[i - 1], ",")
AssignmentStartFirst(tokens, i) == i = first_set_assignment_token_index(tokens)

is_system_variable_assignment_start(tokens, i) ==
  LET first == first_set_assignment_token_index(tokens)
  IN \/ i = first
     \/ /\ i > first /\ token_equals(tokens[i - 1], ",")
        /\ ParenDepth(tokens, first, i) = 0
        /\ first = 3 => ~\E k \in first..i - 1 :
                            token_equals(tokens[k], "FOR") /\ ParenDepth(tokens, first, k) = 0

is_system_variable_qualified_token(tokens, i) ==
  LET scopes == {"GLOBAL", "SESSION", "LOCAL"}
  IN /\ i + 1 <= Len(tokens) /\ token_equals(tokens[i + 1], "=")
     /\ \/ is_system_variable_assignment_start(tokens, i)
        \/ token_in(tokens[i - 1], scopes) /\ is_system_variable_assignment_start(tokens, i - 1)
        \/ i > 2 /\ token_equals(tokens[i - 1], "@") /\ token_equals(tokens[i - 2], "@")
        \/ /\ i > 4 /\ token_equals(tokens[i - 1], ".") /\ token_in(tokens[i - 2], scopes)
           /\ token_equals(tokens[i - 3], "@") /\ token_equals(tokens[i - 4], "@")

sql_mode_assignment_mentions_oracle(tokens, i) ==
  \E k \in i + 2..Len(tokens) :
    /\ tokens[k].text = "ORACLE"
    /\ ~\E c \in i + 2..k - 1 : token_equals(tokens[c], ",") /\ ParenDepth(tokens, i + 2, c) = 0

is_unsupported_set_statement(tokens) ==
  /\ StartsWith(Words(tokens), <<"SET">>)
  /\ \E i \in 2..Len(tokens) :
       /\ is_system_variable_qualified_token(tokens, i)
       /\ \/ token_equals(tokens[i], "V")
          \/ token_equals(tokens[i], "SQL_MODE") /\ sql_mode_assignment_mentions_oracle(tokens, i)
-----------------------------------------------------------------------------
(* Statements known by their first words. *)
is_unsupported_account_or_event_statement(words) ==
  LET objects == {"USER", "ROLE", "EVENT", "SERVER"}
      Names(i, set) == i <= Len(words) /\ words[i] \in set
  IN \/ StartsWith(words, <<"CREATE", "DEFINER">>) /\ HasWordFrom(words, "EVENT", 3)
     \/ /\ StartsWith(words, <<"CREATE", "OR", "REPLACE">>)
        /\ IF Names(4, {"DEFINER"}) THEN HasWordFrom(words, "EVENT", 5) ELSE Names(4, objects)
     \/ StartsWith(words, <<"CREATE">>) /\ Names(2, objects)
     \/ StartsWith(words, <<"ALTER", "DEFINER">>) /\ HasWordFrom(words, "EVENT", 3)
     \/ StartsWith(words, <<"ALTER">>) /\ Names(2, objects \ {"ROLE"})
     \/ StartsWith(words, <<"DROP">>) /\ Names(2, objects)

is_unsupported_udf_statement(words) ==
  LET at == IF StartsWith(words, <<"CREATE", "OR", "REPLACE">>) THEN 4 ELSE 2
      function == IF at <= Len(words) /\ words[at] = "AGGREGATE" THEN at + 1 ELSE at
  IN /\ StartsWith(words, <<"CREATE">>)
     /\ function <= Len(words) /\ words[function] = "FUNCTION"
     /\ HasWordFrom(words, "SONAME", function + 1)

(* FLUSH: of the logs and of the diagnostics tables with or without LOCAL or *)
(* NO_WRITE_TO_BINLOG, of the binary logs and the query cache without.       *)
is_unsupported_flush_statement(words) ==
  LET at == IF Len(words) > 1 /\ words[2] \in {"LOCAL", "NO_WRITE_TO_BINLOG"} THEN 3 ELSE 2
      target == SubSeq(words, at, Len(words))
  IN /\ StartsWith(words, <<"FLUSH">>)
     /\ \/ StartsWith(words, <<"FLUSH", "BINARY", "LOGS">>)
        \/ StartsWith(words, <<"FLUSH", "QUERY", "CACHE">>)
        \/ StartsWith(target, <<"LOGS">>) \/ StartsWith(target, <<"T">>)
        \/ StartsWith(target, <<"GENERAL", "LOGS">>) \/ StartsWith(target, <<"SLOW", "LOGS">>)

(* Functions and tables. *)
is_unsupported_function_call(tokens) ==
  \E i \in 1..Len(tokens) - 1 :
    identifier_token_equals(tokens[i], "F") /\ token_equals(tokens[i + 1], "(")

has_information_schema_table(tokens) ==
  \E i \in 1..Len(tokens) - 2 :
    /\ identifier_token_equals(tokens[i], "INFORMATION_SCHEMA")
    /\ token_equals(tokens[i + 1], ".") /\ identifier_token_equals(tokens[i + 2], "T")

has_current_schema_table_reference(tokens) ==
  /\ current_schema = "INFORMATION_SCHEMA"
  /\ \E i \in 2..Len(tokens) :
       /\ identifier_token_equals(tokens[i], "T")
       /\ token_in(tokens[i - 1], {"FROM", "JOIN", "UPDATE", "INTO", "TABLE", "DESC", "DESCRIBE"})

Refused(sql) ==
  LET tokens == collect_sql_policy_tokens(sql)
      words == Words(tokens)
  IN \/ is_unsupported_set_statement(tokens)
     \/ is_unsupported_account_or_event_statement(words)
     \/ is_unsupported_udf_statement(words)
     \/ is_unsupported_flush_statement(words)
     \/ is_unsupported_function_call(tokens)
     \/ has_information_schema_table(tokens)
     \/ has_current_schema_table_reference(tokens)
-----------------------------------------------------------------------------
(* The syntax trees, and the tokens they are written as.  An assignment      *)
(* names a system variable, with its scope in one of four spellings, or a    *)
(* user variable; an assignment without a scope may be written with :=, two  *)
(* marks to the scan.  Its value may be an expression with a call or a       *)
(* comparison in it.                                                         *)
Assignments ==
  [scope : {"none", "colon", "global", "at", "at_global", "user"}, name : {"V", "SQL_MODE", "x"},
   value : {"plain", "oracle", "call", "compare"}]

SetStatements ==
  [kind : {"set"}, statement : {FALSE}, list : BoundedSeq(Assignments, MaxAssignments) \ {<<>>}]
    \cup
  [kind : {"set"}, statement : {TRUE},
   list : BoundedSeq({a \in Assignments : a.scope = "none"}, MaxAssignments) \ {<<>>}]

CreateStatements ==
  {s \in [kind : {"create"}, replace : BOOLEAN, definer : BOOLEAN, name : {"x", "EVENT"},
          object : {"USER", "ROLE", "SERVER", "EVENT", "TABLE", "PROCEDURE", "FUNCTION"},
          aggregate : BOOLEAN, soname : BOOLEAN] :
     /\ s.definer => s.object \in {"EVENT", "PROCEDURE", "FUNCTION"} /\ ~s.soname
     /\ s.aggregate \/ s.soname => s.object = "FUNCTION"}

FlushStatements ==
  [kind : {"flush"}, modifier : {<<>>, <<"LOCAL">>, <<"NO_WRITE_TO_BINLOG">>},
   target : {<<"BINARY", "LOGS">>, <<"QUERY", "CACHE">>, <<"LOGS">>, <<"GENERAL", "LOGS">>, <<"SLOW", "LOGS">>, <<"T">>,
             <<"TABLES">>, <<"ERROR", "LOGS">>}]

SelectStatements ==
  [kind : {"select"}, from : {"INFORMATION_SCHEMA", "app", ""}, table : {"T", "x"},
   quoted : BOOLEAN, function : {"F", "x"}]

Schemas == {"INFORMATION_SCHEMA", "app"}
UseStatements == [kind : {"use"}, to : Schemas, quoted : BOOLEAN]
Statements ==
  SetStatements \cup CreateStatements \cup FlushStatements \cup SelectStatements \cup UseStatements

Name(t, quoted) == IF quoted THEN Quoted(t) ELSE Word(t)
Each(words) == [i \in DOMAIN words |-> Word(words[i])]
When(condition, tokens) == IF condition THEN tokens ELSE <<>>

AssignmentTokens(a) ==
  LET at == Mark("@")
      target == CASE a.scope = "none"      -> <<Word(a.name)>>
                  [] a.scope = "colon"     -> <<Word(a.name), Mark(":")>>
                  [] a.scope = "global"    -> <<Word("GLOBAL"), Word(a.name)>>
                  [] a.scope = "at"        -> <<at, at, Word(a.name)>>
                  [] a.scope = "at_global" -> <<at, at, Word("GLOBAL"), Mark("."), Word(a.name)>>
                  [] a.scope = "user"      -> <<at, Word(a.name)>>
      value == CASE a.value = "plain"   -> <<Word("x")>>
                 [] a.value = "oracle"  -> <<Literal("ORACLE")>>
                 [] a.value = "call"    -> <<Word("x"), Mark("("), Word("x"), Mark(","), Word("V"),
                                             Mark("="), Word("x"), Mark(")")>>
                 [] a.value = "compare" -> <<at, at, Word("V"), Mark("="), Word("x")>>
  IN target \o <<Mark("=")>> \o value

SetTokens(s) ==
  LET parts == [i \in DOMAIN s.list |-> When(i > 1, <<Mark(",")>>) \o AssignmentTokens(s.list[i])]
  IN Each(<<"SET">> \o When(s.statement, <<"STATEMENT">>)) \o FlattenSeq(parts)
       \o When(s.statement, <<Word("FOR"), Word("SELECT"), Word("x"), Mark(","), Word("V"),
                              Mark("="), Word("x")>>)

CreateTokens(s) ==
  Each(<<"CREATE">> \o When(s.replace, <<"OR", "REPLACE">>))
    \o When(s.definer, <<Word("DEFINER"), Mark("="), Word("x"), Mark("@"), Word("x")>>)
    \o Each(When(s.aggregate, <<"AGGREGATE">>) \o <<s.object, s.name>>)
    \o When(s.soname, <<Word("RETURNS"), Word("x"), Word("SONAME"), Literal("x")>>)

Tokens(s) ==
  CASE s.kind = "set"    -> SetTokens(s)
    [] s.kind = "create" -> CreateTokens(s)
    [] s.kind = "flush"  -> Each(<<"FLUSH">> \o s.modifier \o s.target)
    [] s.kind = "select" ->
         <<Word("SELECT"), Name(s.function, s.quoted), Mark("("), Mark(")"), Word("FROM")>>
           \o When(s.from # "", <<Name(s.from, s.quoted), Mark(".")>>) \o <<Name(s.table, s.quoted)>>
    [] s.kind = "use"    -> <<Word("USE"), Name(s.to, s.quoted)>>

(* The reference: what statement s asks of the server whose default schema   *)
(* is in, and whether that belongs to a feature of the policy.               *)
UnsupportedAssignment(a) ==
  a.scope # "user" /\ (a.name = "V" \/ (a.name = "SQL_MODE" /\ a.value = "oracle"))

Unsupported(s, in) ==
  CASE s.kind = "set" -> \E i \in DOMAIN s.list : UnsupportedAssignment(s.list[i])
    [] s.kind = "create" -> s.object \in {"USER", "ROLE", "SERVER", "EVENT"} \/ s.soname
    [] s.kind = "flush"  -> s.target \notin {<<"TABLES">>, <<"ERROR", "LOGS">>}
    [] s.kind = "select" ->
         \/ s.function = "F"
         \/ s.table = "T" /\ (IF s.from = "" THEN in ELSE s.from) = "INFORMATION_SCHEMA"
    [] s.kind = "use" -> FALSE
-----------------------------------------------------------------------------
(* Mutant: the name is taken over before the server has answered. *)
UpdateSchemaEarly(s, ok) ==
  IF s.kind = "use" THEN current_schema' = s.to ELSE UNCHANGED current_schema

update_current_schema_after_successful_sql(s, ok) ==
  IF s.kind = "use" /\ ok THEN current_schema' = s.to ELSE UNCHANGED current_schema

(* The server runs statement s (external): it may have no such schema. *)
ServerRuns(s, ok) == schema' = IF s.kind = "use" /\ ok THEN s.to ELSE schema

NoStatement == [call |-> "none"]

Init ==
  /\ schema = "" /\ current_schema = "" /\ prepared_use = FALSE
  /\ pending = NoStatement

(* mylite_exec or mylite_prepare up to the policy's answer; and the end of a *)
(* call that was refused.                                                    *)
Submit(call, s) ==
  /\ pending = NoStatement
  /\ pending' = [call |-> call, stmt |-> s, refused |-> Refused(Tokens(s))]
  /\ UNCHANGED <<schema, current_schema, prepared_use>>

ReturnRefused ==
  /\ pending # NoStatement /\ pending.refused
  /\ pending' = NoStatement
  /\ UNCHANGED <<schema, current_schema, prepared_use>>

(* The rest of mylite_exec. *)
ExecRuns(ok) ==
  /\ pending.call = "exec" /\ ~pending.refused
  /\ ServerRuns(pending.stmt, ok)
  /\ update_current_schema_after_successful_sql(pending.stmt, ok)
  /\ prepared_use' = (prepared_use /\ ~(pending.stmt.kind = "use" /\ ok))
  /\ pending' = NoStatement

(* The mylite_step of a prepared statement, which does not look at its text. *)
StepRuns(ok) ==
  /\ pending.call = "prepare" /\ ~pending.refused
  /\ ServerRuns(pending.stmt, ok)
  /\ prepared_use' = (prepared_use \/ (pending.stmt.kind = "use" /\ ok))
  /\ pending' = NoStatement
  /\ UNCHANGED current_schema

Next ==
  \/ \E s \in Statements, call \in {"exec", "prepare"} : Submit(call, s)
  \/ ReturnRefused
  \/ \E ok \in BOOLEAN : ExecRuns(ok) \/ StepRuns(ok)

Spec == Init /\ [][Next]_vars
-----------------------------------------------------------------------------
(* A statement whose tokens all fit the window is refused when it uses a     *)
(* feature of the policy, in every spelling of Tokens: except assignments    *)
(* with :=, an unqualified table after a prepared USE, which current_schema  *)
(* does not follow, and a FLUSH with a modifier of the binary logs or the    *)
(* query cache.                                                              *)
RefusesUnsupported ==
  LET s == pending.stmt
  IN pending # NoStatement /\ Len(Tokens(s)) <= Window /\ Unsupported(s, schema) =>
       \/ pending.refused
       \/ /\ s.kind = "set"
          /\ \A i \in DOMAIN s.list : UnsupportedAssignment(s.list[i]) => s.list[i].scope = "colon"
       \/ s.kind = "select" /\ prepared_use
       \/ /\ s.kind = "flush" /\ s.modifier # <<>>
          /\ s.target \in {<<"BINARY", "LOGS">>, <<"QUERY", "CACHE">>}

(* Nothing else is refused, with three exceptions the scan cannot tell       *)
(* apart: a system variable of the policy compared with =, an object named   *)
(* EVENT behind a DEFINER, and a table after a prepared USE.                 *)
AcceptsSupported ==
  LET s == pending.stmt
  IN pending # NoStatement /\ pending.refused /\ ~Unsupported(s, schema) =>
       CASE s.kind = "set" -> \E i \in DOMAIN s.list : s.list[i].value = "compare"
         [] s.kind = "create" -> s.definer /\ s.name = "EVENT"
         [] s.kind = "select" -> prepared_use
         [] OTHER -> FALSE

(* The schema name the policy goes by is the one the session has, through    *)
(* every USE that succeeds or fails, unless the last one was prepared.       *)
SchemaFollowsUse == ~prepared_use => current_schema = schema
=============================================================================
