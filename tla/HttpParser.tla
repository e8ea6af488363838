------------------------------ MODULE HttpParser ------------------------------
(***************************************************************************)
(* The response parser (src/http.cpp): the callbacks http-parser makes     *)
(* while it runs over a response, and the result they leave.               *)
(*                                                                         *)
(* The response is fixed at the start.  A text is a sequence of pieces,    *)
(* because the network may cut it anywhere: http-parser calls back for     *)
(* every part it has seen when a read ends, and once more, with nothing    *)
(* left to give, if a read ends just before the text does.  The calls of   *)
(* response_parse are therefore not steps: any number of callbacks may     *)
(* fall into one.                                                          *)
(*                                                                         *)
(* A definition with a suffix (stop_Run) is a mutated form of the          *)
(* definition after it: one of the properties fails with it.               *)
(***************************************************************************)
EXTENDS Naturals, Sequences

CONSTANTS Codes,      \* bound: status codes of the responses
          Pieces,     \* bound: what texts are made of
          Names,      \* bound: names of header fields, nonempty sequences of pieces
          Values,     \* bound: values of header fields
          MaxFields,  \* bound: header fields of a response
          MaxBody,    \* bound: chunks of the body
          Location    \* the name "Location"

ASSUME NamesAssumption == /\ Names \subseteq Seq(Pieces) \ {<<>>} /\ Values \subseteq Seq(Pieces)
                          /\ MaxFields \in Nat /\ MaxBody \in Nat

VARIABLES
  \* the response and how far http_parser_execute has got with it
  code, fields, trailer, \* trailer: the fields behind a chunked body
  body,
  at, off,               \* the element, and the pieces of its text already given
  http_errno,            \* "OK", "PAUSED" or "other"
  \* HttpParser
  state, redirect_uri,   \* of result
  redirect, mode_header, field_header, value_header,
  headers,               \* a function from names to values
  \* history
  given                  \* chunks of the body handed to cb_on_data

response == <<code, fields, trailer, body>>
position == <<at, off, http_errno>>
result   == <<state, redirect_uri>>
parsed   == <<redirect, mode_header, field_header, value_header, headers>>
vars     == <<response, position, result, parsed, given>>

Field == [name : Names, value : Values]

Init == /\ code \in Codes /\ body \in 0 .. MaxBody
        /\ \E n \in 0 .. MaxFields : fields \in [1 .. n -> Field]
        /\ \E n \in 0 .. 1 : trailer \in [1 .. n -> Field]
        /\ at = 1 /\ off = 0 /\ http_errno = "OK"
        /\ state = "InProgress" /\ redirect_uri = <<>>
        /\ redirect = FALSE /\ mode_header = "Field"
        /\ field_header = <<>> /\ value_header = <<>>
        /\ headers = <<>> /\ given = 0

-------------------------------------------------------------------------------
(* http-parser: the elements of the response in their order. *)

Block(fs) == [i \in 1 .. 2 * Len(fs) |->
                IF i % 2 = 1 THEN [kind |-> "field", text |-> fs[(i + 1) \div 2].name]
                ELSE [kind |-> "value", text |-> fs[i \div 2].value]]

Mark(k) == [kind |-> k, text |-> <<>>]

Elements == <<[kind |-> "status", text |-> <<"rea", "son">>]>> \o Block(fields)
            \o <<Mark("headers")>> \o [i \in 1 .. body |-> Mark("body")]
            \o Block(trailer) \o <<Mark("message")>>

HeadersAt == 2 + 2 * Len(fields)

\* the next callback's part of its text; an element is left when its end is seen
Part(n) ==
  LET e == Elements[at]
  IN  /\ n \in 0 .. Len(e.text) - off
      /\ \/ /\ off + n = Len(e.text) /\ at' = at + 1 /\ off' = 0
         \/ /\ n > 0 /\ at' = at /\ off' = off + n

Given(n) == SubSeq(Elements[at].text, off + 1, off + n)

-------------------------------------------------------------------------------
(* The callbacks. *)

\* the result is final, and http-parser goes no further
stop_Run(s) == state' = s /\ UNCHANGED http_errno
stop(s) == state' = s /\ http_errno' = "PAUSED"

GoOn == UNCHANGED <<state, http_errno>>

on_status_Through == /\ redirect' = (redirect \/ code \in {301, 302, 303}) /\ GoOn
                     /\ UNCHANGED <<redirect_uri, mode_header, field_header, value_header,
                                    headers, given>>
on_status == /\ redirect' = (redirect \/ code \in {301, 302, 303})
             /\ IF code \in {200, 202, 203, 301, 302, 303} THEN GoOn ELSE stop("Error")
             /\ UNCHANGED <<redirect_uri, mode_header, field_header, value_header,
                            headers, given>>

\* map::emplace: the first value of a name stays
Emplace_Last == [n \in DOMAIN headers \cup {field_header} |->
                   IF n = field_header THEN value_header ELSE headers[n]]
Emplace == [n \in DOMAIN headers \cup {field_header} |->
              IF n \in DOMAIN headers THEN headers[n] ELSE value_header]

on_header_field(part) ==
  /\ \/ /\ mode_header = "Field"
        /\ field_header' = field_header \o part
        /\ UNCHANGED <<mode_header, value_header, headers>>
     \/ /\ mode_header = "Value"
        /\ headers' = Emplace
        /\ field_header' = part /\ value_header' = <<>> /\ mode_header' = "Field"
  /\ GoOn /\ UNCHANGED <<redirect_uri, redirect, given>>

NewValue_Replace(part) == part
NewValue(part) == IF mode_header = "Value" THEN value_header \o part ELSE part

on_header_value(part) ==
  /\ value_header' = NewValue(part) /\ mode_header' = "Value"
  /\ GoOn /\ UNCHANGED <<redirect_uri, redirect, field_header, headers, given>>

\* the last field is still to be stored; a redirect ends the parse here
on_headers_complete ==
  LET all == IF field_header # <<>> THEN Emplace ELSE headers
  IN  /\ field_header' = <<>>
      /\ value_header' = IF field_header # <<>> THEN <<>> ELSE value_header
      /\ \/ /\ redirect /\ Location \in DOMAIN all
            /\ redirect_uri' = all[Location]
            /\ headers' = [all EXCEPT ![Location] = <<>>]
            /\ stop("Redirect")
         \/ /\ redirect /\ Location \notin DOMAIN all
            /\ headers' = all /\ stop("Error") /\ UNCHANGED redirect_uri
         \/ /\ ~redirect
            /\ headers' = all /\ GoOn /\ UNCHANGED redirect_uri
      /\ UNCHANGED <<redirect, mode_header, given>>

on_body == given' = given + 1 /\ GoOn /\ UNCHANGED <<redirect_uri, parsed>>

on_message_complete == stop("Done") /\ UNCHANGED <<redirect_uri, parsed, given>>

-------------------------------------------------------------------------------
\* one callback of http_parser_execute; a callback that pauses is the last one
Callback ==
  /\ http_errno = "OK" /\ at <= Len(Elements)
  /\ LET kind == Elements[at].kind
     IN  \E n \in 0 .. Len(Elements[at].text) :
           /\ Part(n)
           /\ \/ kind = "status"  /\ on_status
              \/ kind = "field"   /\ on_header_field(Given(n))
              \/ kind = "value"   /\ on_header_value(Given(n))
              \/ kind = "headers" /\ on_headers_complete
              \/ kind = "body"    /\ on_body
              \/ kind = "message" /\ on_message_complete
  /\ UNCHANGED response

\* the bytes are no response, or the stream ends inside it: response_parse reports it
Malformed == /\ http_errno = "OK" /\ at <= Len(Elements)
             /\ http_errno' = "other" /\ state' = "Error"
             /\ UNCHANGED <<response, at, off, redirect_uri, parsed, given>>

Next == Callback \/ Malformed
Spec == Init /\ [][Next]_vars

-------------------------------------------------------------------------------
(* Properties. *)

States == {"InProgress", "Done", "Redirect", "Error"}

(* What the server sent, read in one piece: the value of the first field of a name. *)
Sent(n) == LET first == CHOOSE i \in DOMAIN fields :
                          /\ fields[i].name = n
                          /\ \A j \in 1 .. i - 1 : fields[j].name # n
           IN  fields[first].value
SentNames == { fields[i].name : i \in DOMAIN fields }

(* Every variable keeps its type; the parser is paused exactly when the result is final
   without an error of its own, so that what comes behind the response is not parsed. *)
TypeOK == /\ state \in States /\ redirect \in BOOLEAN /\ mode_header \in {"Field", "Value"}
          /\ http_errno \in {"OK", "PAUSED", "other"}
          /\ at \in 1 .. Len(Elements) + 1 /\ given \in 0 .. body
          /\ (http_errno = "OK") = (state = "InProgress")

(* Wherever the reads cut the names and values of the header, the map holds what the
   server sent from the end of the header to the end of the body, empty values and
   repeated names included. *)
HeadersAsSent ==
  at \in HeadersAt + 1 .. HeadersAt + 1 + body /\ off = 0 /\ state = "InProgress"
  => headers = [n \in SentNames |-> Sent(n)]

(* The result of a response that arrives whole is what its status and header say: the
   body of a success, all of it; the address of a redirect, if there is one; an error. *)
Verdict == IF code \in {200, 202, 203} THEN "Done"
           ELSE IF code \in {301, 302, 303} /\ Location \in SentNames THEN "Redirect"
           ELSE "Error"

ResultIsVerdict ==
  state # "InProgress" /\ http_errno # "other" =>
    /\ state = Verdict
    /\ state = "Redirect" => redirect_uri = Sent(Location)
    /\ given = IF state = "Done" THEN body ELSE 0

(* The result is not late either: the parse goes on behind the header only for a success,
   whose body is to be stored, and a response that has arrived whole has its result, so
   that the downloader does not wait for bytes that will not come. *)
ResultInTime == /\ at > HeadersAt /\ state = "InProgress" => Verdict = "Done"
                /\ at > Len(Elements) => state # "InProgress"

(* A final result stays, and no byte of the body follows it, whatever http-parser is
   still given: the downloader closes its handles on it (downloader_simple.h:277-298). *)
ResultIsFinal == [][state # "InProgress" => UNCHANGED <<result, given>>]_vars
===============================================================================
