---------------------------- MODULE AnswerJudge ----------------------------
(***************************************************************************)
(* What the runner makes of an answer (executeStep, evaluateAssertions):   *)
(* a copy for the evidence in which what is sensitive is masked, the       *)
(* values that are extracted, and the judgement of every assertion.  One   *)
(* exchange of PlanExecutor, where these are chosen freely.                *)
(*                                                                         *)
(* A value is [kind] with n, is, text, items or fields; fields is a        *)
(* sequence of [key, value], in the order of the body.  A text is a        *)
(* sequence of characters; so is a path, of "$", ".", names and indexes    *)
(* such as "[0]", or the name of a header.  Bound: names are words, and    *)
(* none of them is "length".                                               *)
(***************************************************************************)
EXTENDS Integers, SequencesExt

LOCAL INSTANCE TLC

CONSTANTS
  Exchanges,        \* [assertions, extractions, status, headers, body, ms]
  SensitiveFields,  \* SENSITIVE_JSON_FIELDS
  SensitiveHeaders, \* SENSITIVE_HEADERS
  Lower,            \* a name -> the same in lower case
  None              \* undefined

VARIABLES
  exchange,  \* the step and the response
  stage,     \* "sent", "received", "extracted", "judged" or "error"
  body,      \* responseBody
  evidence,  \* events: [headers, preview, extracted]
  outcome    \* [store, results, status]

judgeVars == <<exchange, stage, body, evidence, outcome>>

Masked == [kind |-> "string", text |-> <<"***REDACTED***">>]
IsText(v) == v # None /\ v.kind = "string"
IsList(v) == v # None /\ v.kind = "array"
IsObject(v) == v # None /\ v.kind = "object"
IsNothing(v) == v = None \/ v.kind = "null"

\* A key of an object.
FieldOf(v, key) ==
  LET at == {i \in DOMAIN v.fields : v.fields[i].key = key}
  IN  IF at = {} THEN None ELSE v.fields[CHOOSE i \in at : TRUE].value

-----------------------------------------------------------------------------
(* The copy for the evidence.                                              *)

RedactHeaders(headers) ==
  [h \in DOMAIN headers |-> IF Lower[h] \in SensitiveHeaders THEN Masked ELSE headers[h]]

IsSensitive(key) == {key, Lower[key]} \cap SensitiveFields # {}

RECURSIVE RedactObject(_)
RedactObject(v) ==
  IF IsList(v) THEN [v EXCEPT !.items = [i \in DOMAIN @ |-> RedactObject(@[i])]]
  ELSE IF IsObject(v)
  THEN [v EXCEPT !.fields = [i \in DOMAIN @ |->
          [@[i] EXCEPT !.value = IF IsSensitive(v.fields[i].key) THEN Masked
                                 ELSE RedactObject(@)]]]
  ELSE v

\* Mutant of RedactBody: the fields are masked in the body itself.
RedactBodyInPlace(v) ==
  [preview |-> IF IsNothing(v) THEN None ELSE RedactObject(v), body |-> RedactObject(v)]

\* The body is shared with what comes after.  A preview is cut off after 4096
\* characters, which is left out here.
RedactBody(v) == [preview |-> IF IsNothing(v) THEN None ELSE RedactObject(v), body |-> v]

-----------------------------------------------------------------------------
(* Paths, and the text of values.                                          *)

IsIndex(ch) == ch \in {"[0]", "[1]", "[*]"}

\* The segments of a path, without $ and a point after it.  A point after a
\* bracket does not end a segment.
Segments(path) ==
  LET rest == IF path # <<>> /\ Head(path) = "$" THEN Tail(path) ELSE path
      expr == IF rest # <<>> /\ Head(rest) = "." THEN Tail(rest) ELSE rest
      Split(s, ch) ==
        IF ch = "." /\ ~\E i \in DOMAIN s.current : IsIndex(s.current[i])
        THEN [done |-> Append(s.done, s.current), current |-> <<>>]
        ELSE [s EXCEPT !.current = Append(@, ch)]
      end == FoldLeft(Split, [done |-> <<>>, current |-> <<>>], expr)
  IN  IF end.current = <<>> THEN end.done ELSE Append(end.done, end.current)

\* A list has no field, and a segment that is not a name, or a name with one
\* index, is the name of no field.
Into(v, segment) ==
  LET field == IF IsObject(v) THEN FieldOf(v, segment[1]) ELSE None
      i == CASE Last(segment) = "[0]" -> 1 [] Last(segment) = "[1]" -> 2 [] OTHER -> 0
  IN  CASE Len(segment) = 1 /\ ~IsIndex(segment[1]) -> field
        [] Len(segment) = 2 /\ ~IsIndex(segment[1]) /\ IsIndex(segment[2]) ->
             IF ~IsList(field) THEN None
             ELSE IF segment[2] = "[*]" THEN field
             ELSE IF i \in DOMAIN field.items THEN field.items[i] ELSE None
        [] OTHER -> None

JsonPathGet(v, path) == FoldLeft(Into, v, Segments(path))

\* JSON.stringify.
RECURSIVE Stringify(_)
Stringify(v) ==
  LET Join(parts) == FlattenSeq([i \in DOMAIN parts |->
                       IF i = 1 THEN parts[i] ELSE <<",">> \o parts[i]])
  IN  CASE v.kind = "null" -> <<"null">>
        [] v.kind = "boolean" -> <<IF v.is THEN "true" ELSE "false">>
        [] v.kind = "number" -> <<ToString(v.n)>>
        [] v.kind = "string" -> <<"quote">> \o v.text \o <<"quote">>
        [] v.kind = "array" ->
             <<"[">> \o Join([i \in DOMAIN v.items |-> Stringify(v.items[i])]) \o <<"]">>
        [] v.kind = "object" ->
             <<"{">> \o Join([i \in DOMAIN v.fields |->
                          <<v.fields[i].key, ":">> \o Stringify(v.fields[i].value)]) \o <<"}">>

\* String.  Bound: what is expected is a word, a number or a boolean there.
Plain(v) == IF v = None THEN <<>> ELSE IF IsText(v) THEN v.text ELSE Stringify(v)

\* Number; None is NaN.  Bound: no list is of one number, and no text is one, there.
AsNumber(v) ==
  IF v = None THEN None
  ELSE CASE v.kind = "null" -> 0
         [] v.kind = "boolean" -> IF v.is THEN 1 ELSE 0
         [] v.kind = "number" -> v.n
         [] v.kind = "string" -> IF v.text = <<>> THEN 0 ELSE None
         [] v.kind = "array" -> IF v.items = <<>> THEN 0 ELSE None
         [] OTHER -> None

Greater(a, b) == a # None /\ b # None /\ a > b

Includes(text, part) ==
  \E i \in 0..Len(text) - Len(part) : SubSeq(text, i + 1, i + Len(part)) = part

TypeOf(v) ==
  IF v = None THEN <<"undefined">>
  ELSE IF v.kind \in {"null", "array", "object"} THEN <<"object">> ELSE <<v.kind>>

-----------------------------------------------------------------------------
(* evaluateAssertions.                                                     *)

\* The operator is not looked at.
StatusHolds(a) ==
  exchange.status = IF a.expected = None THEN 200 ELSE AsNumber(a.expected)

TimeHolds(a) == a.expected = None \/ Greater(AsNumber(a.expected), exchange.ms)

HeaderHolds(a) ==
  LET name == Lower[Head(a.path)]
      there == name \in DOMAIN exchange.headers
  IN  CASE a.operator = "equals" ->
             IF there THEN a.expected # None /\ exchange.headers[name].text = Plain(a.expected)
             ELSE a.expected = None
        [] a.operator = "contains" ->
             there /\ Includes(exchange.headers[name].text, Plain(a.expected))
        [] OTHER -> there

\* An operator that is not listed holds.
ValueHolds(a) ==
  LET v == JsonPathGet(body, a.path)
      sizes == IF IsList(v) THEN Len(v.items) ELSE IF IsObject(v) THEN Len(v.fields) ELSE 1
  IN  CASE a.operator = "exists" -> v # None
        [] a.operator = "notExists" -> v = None
        [] a.operator = "equals" -> v = a.expected
        [] a.operator = "contains" -> Includes(Plain(v), Plain(a.expected))
        [] a.operator = "greaterThan" -> Greater(AsNumber(v), AsNumber(a.expected))
        [] a.operator = "lessThan" -> Greater(AsNumber(a.expected), AsNumber(v))
        [] a.operator = "type" -> TypeOf(v) = Plain(a.expected)
        [] a.operator = "hasItems" -> IsList(v) /\ v.items # <<>>
        [] a.operator = "isEmpty" ->
             IsNothing(v) \/ (IsText(v) /\ v.text = <<>>) \/ sizes = 0
        [] OTHER -> TRUE

BodyHolds(a) ==
  LET text == Stringify(body)
  IN  CASE a.operator = "contains" -> Includes(text, Plain(a.expected))
        [] a.operator = "equals" -> body = a.expected
        [] a.operator = "notContains" -> ~Includes(text, Plain(a.expected))
        [] OTHER -> TRUE

\* A schema is [kind, dialect, accepts] or a boolean; which bodies it accepts is
\* the validator's of its dialect.
SchemaHolds(a) ==
  /\ a.expected # None
  /\ \/ a.expected.kind = "boolean" /\ a.expected.is
     \/ /\ a.expected.kind = "schema" /\ body \in a.expected.accepts
        /\ a.expected.dialect \in {None, "draft-07", "2019-09", "2020-12"}

Holds(a) ==
  CASE a.target = "status" -> StatusHolds(a)
    [] a.target = "header" -> HeaderHolds(a)
    [] a.target = "jsonPath" -> ValueHolds(a)
    [] a.target = "body" -> BodyHolds(a)
    [] a.target = "responseTime" -> TimeHolds(a)
    [] a.target = "schema" -> SchemaHolds(a)

\* Text is looked for in a value that is not there.
Throws(a) ==
  a.target = "jsonPath" /\ a.operator = "contains" /\ JsonPathGet(body, a.path) = None

-----------------------------------------------------------------------------
Init ==
  /\ exchange \in Exchanges
  /\ stage = "sent" /\ body = None
  /\ evidence = [headers |-> None, preview |-> None, extracted |-> <<>>]
  /\ outcome = [store |-> <<>>, results |-> <<>>, status |-> "none"]

\* response.received.
Receive ==
  /\ stage = "sent"
  /\ LET redacted == RedactBody(exchange.body)
     IN  /\ body' = redacted.body
         /\ evidence' = [evidence EXCEPT !.headers = RedactHeaders(exchange.headers),
                                         !.preview = redacted.preview]
  /\ stage' = "received"
  /\ UNCHANGED <<exchange, outcome>>

Extracted(x) ==
  CASE x.source = "body" -> JsonPathGet(body, x.expression)
    [] x.source = "status" -> [kind |-> "number", n |-> exchange.status]
    [] OTHER -> LET name == IF x.source = "header" THEN Lower[Head(x.expression)] ELSE "set-cookie"
                IN  IF name \in DOMAIN exchange.headers THEN exchange.headers[name] ELSE None

\* variable.extracted: nothing is set to undefined, the last of a name counts,
\* and a sensitive one is named only.
Extract ==
  /\ stage = "received"
  /\ LET found == SelectSeq(exchange.extractions, LAMBDA x : Extracted(x) # None)
         Names == {found[i].name : i \in DOMAIN found}
         LastOne(name) == CHOOSE i \in DOMAIN found :
           found[i].name = name /\ \A j \in DOMAIN found : found[j].name = name => j <= i
     IN  /\ outcome' = [outcome EXCEPT !.store = [n \in Names |-> Extracted(found[LastOne(n)])]]
         /\ evidence' = [evidence EXCEPT !.extracted =
              [i \in DOMAIN found |->
                 [name |-> found[i].name,
                  preview |-> IF found[i].sensitive THEN None ELSE Extracted(found[i])]]]
  /\ stage' = "extracted"
  /\ UNCHANGED <<exchange, body>>

\* assertion.evaluated, step.finished: a warning does not fail the step.
Judge ==
  /\ stage = "extracted"
  /\ LET assertions == exchange.assertions IN
     IF \E i \in DOMAIN assertions : Throws(assertions[i])
     THEN stage' = "error" /\ outcome' = [outcome EXCEPT !.status = "error"]
     ELSE /\ stage' = "judged"
          /\ outcome' = [outcome EXCEPT
               !.results = [i \in DOMAIN assertions |-> Holds(assertions[i])],
               !.status = IF \E i \in DOMAIN assertions :
                               assertions[i].severity = "block" /\ ~Holds(assertions[i])
                          THEN "failed" ELSE "passed"]
  /\ UNCHANGED <<exchange, body, evidence>>

Next == Receive \/ Extract \/ Judge

Spec == Init /\ [][Next]_judgeVars

-----------------------------------------------------------------------------
(* What a path and an assertion mean.                                      *)

RECURSIVE Find(_, _)
Find(v, names) ==
  IF names = <<>> \/ v = None THEN v
  ELSE LET name == Head(names)
           i == CASE name = "[0]" -> 1 [] name = "[1]" -> 2 [] OTHER -> 0
           next == IF name = "[*]" THEN (IF IsList(v) THEN v ELSE None)
                   ELSE IF IsIndex(name)
                   THEN (IF IsList(v) /\ i \in DOMAIN v.items THEN v.items[i] ELSE None)
                   ELSE IF IsObject(v) THEN FieldOf(v, name) ELSE None
       IN  Find(next, Tail(names))

At(path) == Find(exchange.body, SelectSeq(path, LAMBDA ch : ch \notin {"$", "."}))

\* One index, at the end and after a name; other paths find nothing.
IsFollowed(path) ==
  \A i \in DOMAIN path : IsIndex(path[i]) => i = Len(path) /\ path[i - 1] \notin {"$", "."}

\* What is evaluated by the operator of the assertion; of what is compared, the
\* numbers, because null and what is empty count as 0 and TRUE as 1.
Known(a) ==
  \/ a.target = "responseTime"
  \/ a.target = "status" /\ a.operator = "equals"
  \/ a.target = "header" /\ a.operator \in {"exists", "contains"}
  \/ a.target = "header" /\ a.operator = "equals" /\ a.expected # None
  \/ a.target = "body" /\ a.operator \in {"contains", "notContains"}
  \/ /\ a.target = "jsonPath" /\ IsFollowed(a.path)
     /\ \/ a.operator \in {"exists", "notExists", "equals", "contains", "hasItems"}
        \/ /\ a.operator \in {"greaterThan", "lessThan"}
           /\ At(a.path) # None => At(a.path).kind = "number"

\* The assertion is true of the answer that was received.
Means(a) ==
  LET v == IF a.target = "jsonPath" THEN At(a.path) ELSE None
      Number(u) == u # None /\ u.kind = "number"
      header == {h \in DOMAIN exchange.headers : h = Lower[Head(a.path)]}
      text == IF a.target = "body" THEN Stringify(exchange.body) ELSE Plain(v)
  IN  CASE a.target = "status" ->
             exchange.status = (IF a.expected = None THEN 200 ELSE a.expected.n)
        [] a.target = "responseTime" -> a.expected = None \/ exchange.ms < a.expected.n
        [] a.target = "header" /\ a.operator = "exists" -> header # {}
        [] a.target = "header" /\ a.operator = "equals" ->
             \E h \in header : exchange.headers[h] = a.expected
        [] a.target = "header" ->
             \E h \in header : Includes(exchange.headers[h].text, Plain(a.expected))
        [] a.operator = "notContains" -> ~Includes(text, Plain(a.expected))
        [] a.operator = "contains" -> Includes(text, Plain(a.expected))
        [] a.operator = "exists" -> v # None
        [] a.operator = "notExists" -> v = None
        [] a.operator = "equals" -> v = a.expected
        [] a.operator = "greaterThan" -> Number(v) /\ v.n > a.expected.n
        [] a.operator = "lessThan" -> Number(v) /\ v.n < a.expected.n
        [] a.operator = "hasItems" -> IsList(v) /\ \E i \in DOMAIN v.items : TRUE

RECURSIVE IsMasked(_, _)
IsMasked(v, copy) ==
  IF ~IsList(v) /\ ~IsObject(v) THEN copy = v
  ELSE LET Parts(u) == IF IsList(u) THEN u.items ELSE u.fields IN
       /\ copy.kind = v.kind /\ Len(Parts(copy)) = Len(Parts(v))
       /\ \A i \in DOMAIN Parts(v) :
            IF IsList(v) THEN IsMasked(v.items[i], copy.items[i])
            ELSE /\ copy.fields[i].key = v.fields[i].key
                 /\ IF IsSensitive(v.fields[i].key) THEN copy.fields[i].value = Masked
                    ELSE IsMasked(v.fields[i].value, copy.fields[i].value)

\* However deep something sensitive is, the evidence says of an answer what was
\* received, without it; and what is judged and extracted afterwards is the
\* answer as it was received, not the copy: every assertion whose operator and
\* path are evaluated holds if and only if it is true of the answer, the step
\* fails by the blocking ones only, and only a text that is looked for in
\* nothing makes it an error (redactBody's copy "is shared with assertion code
\* downstream", evaluateAssertions, executeStep).
AnswerIsJudged ==
  LET assertions == exchange.assertions
      extractions == exchange.extractions
  IN  /\ stage # "sent" =>
           /\ IF IsNothing(exchange.body) THEN evidence.preview = None
              ELSE IsMasked(exchange.body, evidence.preview)
           /\ \A h \in DOMAIN exchange.headers :
                evidence.headers[h] = (IF h \in SensitiveHeaders THEN Masked
                                       ELSE exchange.headers[h])
           /\ \A shown \in ToSet(evidence.extracted) :
                (\A x \in ToSet(extractions) : x.name = shown.name => x.sensitive) =>
                  shown.preview = None
      /\ stage \notin {"sent", "received"} =>
           \A i \in DOMAIN extractions :
             LET x == extractions[i] IN
             /\ x.source = "body" /\ IsFollowed(x.expression)
             /\ \A j \in DOMAIN extractions : extractions[j].name = x.name => j = i
             => IF At(x.expression) = None THEN x.name \notin DOMAIN outcome.store
                ELSE x.name \in DOMAIN outcome.store /\ outcome.store[x.name] = At(x.expression)
      /\ stage = "judged" =>
           /\ \A i \in DOMAIN assertions :
                Known(assertions[i]) => (outcome.results[i] <=> Means(assertions[i]))
           /\ (\A i \in DOMAIN assertions : Known(assertions[i])) =>
                (outcome.status = "failed" <=>
                   \E i \in DOMAIN assertions :
                     assertions[i].severity = "block" /\ ~Means(assertions[i]))
      /\ stage = "error" =>
           \E a \in ToSet(assertions) :
             a.operator = "contains" /\ (IsFollowed(a.path) => At(a.path) = None)
=============================================================================
