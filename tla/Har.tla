-------------------------------- MODULE Har --------------------------------
(***************************************************************************)
(* Recorded requests read into the canonical model (packages/adapters/har): *)
(* every entry of the log with a request, a response and a method that is   *)
(* supported becomes an endpoint of its own.                                *)
(*                                                                         *)
(* A document is [log, entries]: log is FALSE when it is no log.  An entry  *)
(* is [whole, method, path, headers, query, body, status, content,          *)
(* answered]: whole when it has a request and a response, the method in     *)
(* capitals, the path without its query, a content the type it says, "" if  *)
(* it says none, and None without content.                                  *)
(***************************************************************************)
EXTENDS Integers, FiniteSetsExt, SequencesExt, TLC

CONSTANTS Recordings, None

VARIABLES
  document,   \* what is imported
  result      \* the answer of importHar, None before it

Methods == {"GET", "POST", "PUT", "PATCH", "DELETE", "HEAD", "OPTIONS"}

EndpointId(entry) == <<entry.method, entry.path>>

\* The content of one media type, of a schema that nothing registers.
Content(said, ref) ==
  IF said = None THEN <<>> ELSE (IF said = "" THEN "octet-stream" ELSE said) :> ref

\* The headers of the request and then the parts of its query, all optional.
Parameters(entry, i) ==
  LET Named(in, names) ==
        [n \in DOMAIN names |->
           [id |-> EndpointId(entry) \o <<in, names[n]>>, name |-> names[n], in |-> in,
            required |-> FALSE, entry |-> i]]
  IN Named("header", entry.headers) \o Named("query", entry.query)

\* The recorded answer; of two headers of one name the last is kept.
ResponseOf(entry, i) ==
  LET id == EndpointId(entry) IN
  [id |-> Append(id, entry.status), status |-> entry.status, entry |-> i,
   content |-> Content(entry.content, Append(id, entry.status)),
   headers |-> [h \in ToSet(entry.answered) |-> id \o <<"header", h>>]]

\* mapEntryToEndpoint; "entry" is the place in the log that is noted.
MapEntry(entry, i) ==
  [id |-> EndpointId(entry), method |-> entry.method, path |-> entry.path, entry |-> i,
   parameters |-> Parameters(entry, i),
   body |-> Content(entry.body, Append(EndpointId(entry), "body")),
   responses |-> <<ResponseOf(entry, i)>>]

IsMapped(entry) == entry.whole /\ entry.method \in Methods

Failed(code) == [success |-> FALSE, endpoints |-> <<>>, errors |-> {code}, warnings |-> {}]

\* The loop of importHar over the entries.
Visit(found, i) ==
  LET entry == document.entries[i] IN
  IF IsMapped(entry)
  THEN [found EXCEPT !.endpoints = Append(@, MapEntry(entry, i))]
  ELSE [found EXCEPT !.warnings = @ \cup
          {<<i, IF entry.whole THEN "UNSUPPORTED_HTTP_METHOD" ELSE "INVALID_HAR_ENTRY">>}]

ImportHar ==
  LET start == [success |-> TRUE, endpoints |-> <<>>, errors |-> {}, warnings |-> {}]
      found == FoldLeft(Visit, start, [i \in DOMAIN document.entries |-> i]) IN
  CASE ~document.log -> Failed("INVALID_HAR_STRUCTURE")
    [] document.log /\ document.entries = <<>> -> Failed("EMPTY_HAR")
    [] document.log /\ document.entries # <<>> /\ found.endpoints = <<>> ->
         [Failed("NO_VALID_ENDPOINTS") EXCEPT !.warnings = found.warnings]
    [] OTHER -> found

Init == document \in Recordings /\ result = None

Import == result = None /\ result' = ImportHar /\ UNCHANGED document

Next == Import

----------------------------------------------------------------------------

Usable == {i \in DOMAIN document.entries : IsMapped(document.entries[i])}
Made(i) == result.endpoints[Cardinality({j \in Usable : j <= i})]

\* The endpoint of an entry, found by its place, says what was recorded there.
EntryIsKept(i) ==
  LET entry == document.entries[i]  made == Made(i) IN
  /\ made.method = entry.method /\ made.path = entry.path
  /\ made.responses[1].status = entry.status
  /\ (entry.body # None) = (made.body # <<>>)
  /\ {<<p.in, p.name>> : p \in ToSet(made.parameters)} =
       ({"header"} \X ToSet(entry.headers)) \cup ({"query"} \X ToSet(entry.query))
  /\ {i} = {made.entry, made.responses[1].entry} \cup {p.entry : p \in ToSet(made.parameters)}
  /\ \A j \in Usable : made.id = Made(j).id <=>
       entry.method = document.entries[j].method /\ entry.path = document.entries[j].path
  /\ \A p, q \in ToSet(made.parameters) : p.id = q.id => p.in = q.in /\ p.name = q.name

\* A log gives one endpoint for every entry that is whole and supported, in the
\* order of the log and located in it, and a warning for every other entry, the
\* last of them included when nothing is left (importHar).
HarIsFaithful ==
  (result # None /\ document.log) =>
    /\ result.success <=> Usable # {}
    /\ Len(result.endpoints) = Cardinality(Usable)
    /\ \A i \in Usable : EntryIsKept(i)
    /\ {w[1] : w \in result.warnings} = (DOMAIN document.entries) \ Usable
=============================================================================
