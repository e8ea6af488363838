--------------------------- MODULE HttpParserProofs ---------------------------
(***************************************************************************)
(* What the response parser promises for every response, of any number of  *)
(* fields and chunks, and every way to cut it.                             *)
(***************************************************************************)
EXTENDS HttpParser, SequenceTheorems, TLAPS

\* http-parser is stopped, by a pause or by an error of its own, once there is a result
StoppedByResult == http_errno = "OK" <=> state = "InProgress"

LEMMA StoppedNext == StoppedByResult /\ [Next]_vars => StoppedByResult'
<1> SUFFICES ASSUME StoppedByResult, [Next]_vars PROVE StoppedByResult'
  OBVIOUS
<1>1. ASSUME NEW s \in {"Error", "Redirect", "Done"}, stop(s) PROVE StoppedByResult'
  BY <1>1 DEF stop, StoppedByResult
<1>2. ASSUME GoOn PROVE StoppedByResult'
  BY <1>2 DEF GoOn, StoppedByResult
<1>3. CASE Callback
  <2>1. CASE on_status
    BY <1>1, <1>2, <2>1 DEF on_status
  <2>2. ASSUME NEW part, on_header_field(part) PROVE StoppedByResult'
    BY <1>2, <2>2 DEF on_header_field
  <2>3. ASSUME NEW part, on_header_value(part) PROVE StoppedByResult'
    BY <1>2, <2>3 DEF on_header_value
  <2>4. CASE on_headers_complete
    BY <1>1, <1>2, <2>4 DEF on_headers_complete
  <2>5. CASE on_body
    BY <1>2, <2>5 DEF on_body
  <2>6. CASE on_message_complete
    BY <1>1, <2>6 DEF on_message_complete
  <2> QED
    BY <1>3, <2>1, <2>2, <2>3, <2>4, <2>5, <2>6 DEF Callback
<1>4. CASE Malformed
  BY <1>4 DEF Malformed, StoppedByResult
<1>5. CASE UNCHANGED vars
  BY <1>5 DEF vars, position, result, StoppedByResult
<1> QED
  BY <1>3, <1>4, <1>5 DEF Next

(* A final result stays, and no byte of the body follows it: each callback that sets one
   pauses http-parser, and every other one finds the parse in progress. *)
THEOREM ResultStays == Spec => ResultIsFinal
<1>1. Init => StoppedByResult
  BY DEF Init, StoppedByResult
<1>2. StoppedByResult /\ [Next]_vars => [state # "InProgress" => UNCHANGED <<result, given>>]_vars
  BY DEF StoppedByResult, Next, Callback, Malformed
<1> QED
  BY <1>1, <1>2, StoppedNext, PTL DEF Spec, ResultIsFinal

-------------------------------------------------------------------------------
(* The elements of a response. *)

Kinds == {"status", "field", "value", "headers", "body", "message"}
Element == [kind : Kinds, text : Seq(Pieces \cup {"rea", "son"})]

\* the response, which no callback changes
ResponseInv == /\ fields \in Seq(Field) /\ trailer \in Seq(Field)
               /\ code \in Codes /\ body \in Nat

LEMMA TextType ==
  ASSUME NEW f \in Field
  PROVE  /\ f.name \in Seq(Pieces) /\ f.value \in Seq(Pieces) /\ Len(f.name) > 0
         /\ f.name \in Seq(Pieces \cup {"rea", "son"})
         /\ f.value \in Seq(Pieces \cup {"rea", "son"})
<1>1. f.name \in Seq(Pieces) /\ f.name # <<>> /\ f.value \in Seq(Pieces)
  BY NamesAssumption DEF Field
<1>2. Len(f.name) > 0
  BY <1>1, EmptySeq
<1> QED
  BY <1>1, <1>2, SeqMonotonic

LEMMA MarkType == \A k \in Kinds : Mark(k) \in Element
<1>1. <<>> \in Seq(Pieces \cup {"rea", "son"})
  BY EmptySeq
<1> QED
  BY <1>1 DEF Mark, Element

(* A block of fields is their names and values by turns. *)
LEMMA BlockSeq ==
  ASSUME NEW fs \in Seq(Field)
  PROVE  /\ Block(fs) \in Seq(Element) /\ Len(Block(fs)) = 2 * Len(fs)
         /\ \A i \in 1 .. 2 * Len(fs) : Block(fs)[i].kind \in {"field", "value"}
         /\ \A k \in 1 .. Len(fs) :
              /\ Block(fs)[2 * k - 1] = [kind |-> "field", text |-> fs[k].name]
              /\ Block(fs)[2 * k] = [kind |-> "value", text |-> fs[k].value]
<1> DEFINE n == 2 * Len(fs)
<1>1. Len(fs) \in Nat /\ n \in Nat /\ DOMAIN fs = 1 .. Len(fs)
  BY LenProperties
<1>2. ASSUME NEW i \in 1 .. n, i % 2 = 1 PROVE (i + 1) \div 2 \in 1 .. Len(fs)
  BY <1>1, <1>2
<1>3. ASSUME NEW i \in 1 .. n, i % 2 # 1 PROVE i \div 2 \in 1 .. Len(fs)
  BY <1>1, <1>3
<1>4. \A k \in 1 .. Len(fs) : /\ fs[k].name \in Seq(Pieces \cup {"rea", "son"})
                              /\ fs[k].value \in Seq(Pieces \cup {"rea", "son"})
  BY <1>1, ElementOfSeq, TextType
<1>5. Block(fs) = [i \in 1 .. n |-> IF i % 2 = 1
                                    THEN [kind |-> "field", text |-> fs[(i + 1) \div 2].name]
                                    ELSE [kind |-> "value", text |-> fs[i \div 2].value]]
  BY DEF Block
<1>6. \A i \in 1 .. n : Block(fs)[i] \in Element /\ Block(fs)[i].kind \in {"field", "value"}
  <2> TAKE i \in 1 .. n
  <2>1. CASE i % 2 = 1
    BY <1>2, <1>4, <1>5, <2>1 DEF Element, Kinds
  <2>2. CASE i % 2 # 1
    BY <1>3, <1>4, <1>5, <2>2 DEF Element, Kinds
  <2> QED
    BY <2>1, <2>2
<1>7. Block(fs) \in [1 .. n -> Element]
  BY <1>5, <1>6
<1>8. Block(fs) \in Seq(Element) /\ Len(Block(fs)) = n
  BY <1>1, <1>7
<1>9. ASSUME NEW k \in 1 .. Len(fs)
      PROVE  /\ Block(fs)[2 * k - 1] = [kind |-> "field", text |-> fs[k].name]
             /\ Block(fs)[2 * k] = [kind |-> "value", text |-> fs[k].value]
  <2>1. /\ 2 * k - 1 \in 1 .. n /\ (2 * k - 1) % 2 = 1 /\ (2 * k - 1 + 1) \div 2 = k
        /\ 2 * k \in 1 .. n /\ (2 * k) % 2 # 1 /\ (2 * k) \div 2 = k
    BY <1>1
  <2> QED
    BY <1>5, <2>1
<1> QED
  BY <1>6, <1>8, <1>9


LEMMA ElementsSeq ==
  ASSUME ResponseInv
  PROVE  /\ Elements \in Seq(Element)
         /\ Len(Elements) = 2 * Len(fields) + body + 2 * Len(trailer) + 3
         /\ Elements[1] = [kind |-> "status", text |-> <<"rea", "son">>]
         /\ \A k \in 1 .. Len(fields) :
              /\ Elements[2 * k] = [kind |-> "field", text |-> fields[k].name]
              /\ Elements[2 * k + 1] = [kind |-> "value", text |-> fields[k].value]
         /\ Elements[HeadersAt] = Mark("headers")
         /\ \A i \in HeadersAt + 1 .. HeadersAt + body : Elements[i] = Mark("body")
         /\ \A i \in HeadersAt + body + 1 .. HeadersAt + body + 2 * Len(trailer) :
              Elements[i].kind \in {"field", "value"}
         /\ Elements[Len(Elements)] = Mark("message")
<1> DEFINE F == 2 * Len(fields)
           T == 2 * Len(trailer)
           status == [kind |-> "status", text |-> <<"rea", "son">>]
           a == <<status>> \o Block(fields)
           b == a \o <<Mark("headers")>>
           bodies == [i \in 1 .. body |-> Mark("body")]
           c == b \o bodies
           d == c \o Block(trailer)
<1>1. F \in Nat /\ T \in Nat /\ body \in Nat /\ Len(fields) \in Nat
  BY LenProperties DEF ResponseInv
<1>2. status \in Element
  BY DEF Element, Kinds
<1>3. <<status>> \in Seq(Element) /\ Len(<<status>>) = 1 /\ <<status>>[1] = status
  BY <1>2
<1>4. /\ Block(fields) \in Seq(Element) /\ Len(Block(fields)) = F
      /\ Block(trailer) \in Seq(Element) /\ Len(Block(trailer)) = T
  BY BlockSeq DEF ResponseInv
<1>5. \A k \in Kinds : /\ Mark(k) \in Element
                       /\ <<Mark(k)>> \in Seq(Element) /\ Len(<<Mark(k)>>) = 1
                       /\ <<Mark(k)>>[1] = Mark(k)
  BY MarkType
<1>6. bodies \in Seq(Element) /\ Len(bodies) = body /\ \A i \in 1 .. body : bodies[i] = Mark("body")
  <2>1. bodies \in [1 .. body -> Element]
    BY MarkType DEF Kinds
  <2> QED
    BY <1>1, <2>1
<1> HIDE DEF F, T, status, bodies
<1>7. /\ a \in Seq(Element) /\ Len(a) = F + 1
      /\ \A i \in 1 .. F + 1 : a[i] = IF i <= 1 THEN <<status>>[i] ELSE Block(fields)[i - 1]
  <2>1. /\ a \in Seq(Element) /\ Len(a) = 1 + F
        /\ \A i \in 1 .. 1 + F : a[i] = IF i <= 1 THEN <<status>>[i] ELSE Block(fields)[i - 1]
    BY <1>3, <1>4, ConcatProperties
  <2> QED
    BY <1>1, <2>1
<1> HIDE DEF a
<1>8. /\ b \in Seq(Element) /\ Len(b) = F + 2
      /\ \A i \in 1 .. F + 2 : b[i] = IF i <= F + 1 THEN a[i] ELSE Mark("headers")
  <2>1. /\ b \in Seq(Element) /\ Len(b) = F + 1 + 1
        /\ \A i \in 1 .. F + 1 + 1 : b[i] = IF i <= F + 1 THEN a[i] ELSE <<Mark("headers")>>[i - (F + 1)]
    BY <1>5, <1>7, ConcatProperties DEF Kinds
  <2>2. \A i \in 1 .. F + 1 + 1 : ~(i <= F + 1) => i - (F + 1) = 1
    BY <1>1
  <2> QED
    BY <1>1, <1>5, <2>1, <2>2 DEF Kinds
<1> HIDE DEF b
<1>9. /\ c \in Seq(Element) /\ Len(c) = F + 2 + body
      /\ \A i \in 1 .. F + 2 + body : c[i] = IF i <= F + 2 THEN b[i] ELSE Mark("body")
  <2>1. /\ c \in Seq(Element) /\ Len(c) = F + 2 + body
        /\ \A i \in 1 .. F + 2 + body : c[i] = IF i <= F + 2 THEN b[i] ELSE bodies[i - (F + 2)]
    BY <1>6, <1>8, ConcatProperties
  <2>2. \A i \in 1 .. F + 2 + body : ~(i <= F + 2) => i - (F + 2) \in 1 .. body
    BY <1>1
  <2> QED
    BY <1>6, <2>1, <2>2
<1> HIDE DEF c
<1>10. /\ d \in Seq(Element) /\ Len(d) = F + 2 + body + T
       /\ \A i \in 1 .. F + 2 + body + T :
            d[i] = IF i <= F + 2 + body THEN c[i] ELSE Block(trailer)[i - (F + 2 + body)]
  <2> DEFINE n == F + 2 + body
             e == Block(trailer)
  <2>1. c \in Seq(Element) /\ Len(c) = n /\ e \in Seq(Element) /\ Len(e) = T
    BY <1>4, <1>9
  <2> HIDE DEF n, e
  <2>2. /\ c \o e \in Seq(Element) /\ Len(c \o e) = n + T
        /\ \A i \in 1 .. n + T : (c \o e)[i] = IF i <= n THEN c[i] ELSE e[i - n]
    BY <2>1, ConcatProperties
  <2> QED
    BY <2>2 DEF n, e, d
<1> HIDE DEF d
<1>11. Elements = d \o <<Mark("message")>>
  BY DEF Elements, a, b, c, d, bodies, status
<1>12. /\ Elements \in Seq(Element) /\ Len(Elements) = F + 3 + body + T
       /\ \A i \in 1 .. F + 3 + body + T :
            Elements[i] = IF i <= F + 2 + body + T THEN d[i] ELSE Mark("message")
  <2> DEFINE m == F + 2 + body + T
  <2>1. /\ Elements \in Seq(Element) /\ Len(Elements) = m + 1
        /\ \A i \in 1 .. m + 1 : Elements[i] = IF i <= m THEN d[i] ELSE <<Mark("message")>>[i - m]
    BY <1>5, <1>10, <1>11, ConcatProperties DEF Kinds
  <2>2. m \in Nat /\ m + 1 = F + 3 + body + T /\ \A i \in 1 .. m + 1 : ~(i <= m) => i - m = 1
    BY <1>1
  <2> QED
    BY <1>5, <2>1, <2>2 DEF Kinds
<1>13. HeadersAt = F + 2 /\ F = 2 * Len(fields) /\ T = 2 * Len(trailer)
  BY DEF HeadersAt, F, T
<1>14. Len(Elements) = 2 * Len(fields) + body + 2 * Len(trailer) + 3
  BY <1>1, <1>12, <1>13
<1>15. Elements[1] = status
  BY <1>1, <1>3, <1>7, <1>8, <1>9, <1>10, <1>12
<1>16. ASSUME NEW k \in 1 .. Len(fields)
       PROVE  /\ Elements[2 * k] = [kind |-> "field", text |-> fields[k].name]
              /\ Elements[2 * k + 1] = [kind |-> "value", text |-> fields[k].value]
  <2>1. /\ 2 * k \in 2 .. F + 1 /\ 2 * k + 1 \in 2 .. F + 1 /\ (2 * k + 1) - 1 = 2 * k
    BY <1>1, <1>13
  <2>2. \A i \in 2 .. F + 1 : Elements[i] = Block(fields)[i - 1]
    BY <1>1, <1>7, <1>8, <1>9, <1>10, <1>12
  <2>3. Elements[2 * k] = Block(fields)[2 * k - 1] /\ Elements[2 * k + 1] = Block(fields)[2 * k]
    BY <2>1, <2>2
  <2>4. fields \in Seq(Field)
    BY DEF ResponseInv
  <2>5. /\ Block(fields)[2 * k - 1] = [kind |-> "field", text |-> fields[k].name]
        /\ Block(fields)[2 * k] = [kind |-> "value", text |-> fields[k].value]
    BY <2>4, BlockSeq
  <2> QED
    BY <2>3, <2>5
<1>17. Elements[HeadersAt] = Mark("headers")
  <2>1. b[F + 2] = Mark("headers")
    BY <1>1, <1>8
  <2>2. d[F + 2] = b[F + 2]
    BY <1>1, <1>9, <1>10
  <2>3. Elements[F + 2] = d[F + 2]
    BY <1>1, <1>12
  <2> QED
    BY <1>13, <2>1, <2>2, <2>3
<1>18. \A i \in HeadersAt + 1 .. HeadersAt + body : Elements[i] = Mark("body")
  BY <1>1, <1>9, <1>10, <1>12, <1>13
<1>19. ASSUME NEW i \in HeadersAt + body + 1 .. HeadersAt + body + 2 * Len(trailer)
       PROVE  Elements[i].kind \in {"field", "value"}
  <2>1. /\ i \in 1 .. F + 3 + body + T /\ i <= F + 2 + body + T /\ ~(i <= F + 2 + body)
        /\ i \in 1 .. F + 2 + body + T /\ i - (F + 2 + body) \in 1 .. T
    BY <1>1, <1>13
  <2>2. Elements[i] = Block(trailer)[i - (F + 2 + body)]
    BY <1>10, <1>12, <2>1
  <2> QED
    BY <1>13, <2>1, <2>2, BlockSeq DEF ResponseInv
<1>20. Elements[Len(Elements)] = Mark("message")
  BY <1>1, <1>12
<1> QED
  BY <1>12, <1>14, <1>15, <1>16, <1>17, <1>18, <1>19, <1>20 DEF status

(* Which element a callback belongs to. *)
LEMMA Located ==
  ASSUME ResponseInv, at \in 1 .. Len(Elements)
  PROVE  /\ Elements[at].kind = "status" => at = 1
         /\ Elements[at].kind = "field" =>
              (\E k \in 1 .. Len(fields) : at = 2 * k) \/ at > HeadersAt + body
         /\ Elements[at].kind = "value" =>
              (\E k \in 1 .. Len(fields) : at = 2 * k + 1) \/ at > HeadersAt + body
         /\ Elements[at].kind = "headers" => at = HeadersAt
         /\ Elements[at].kind = "body" => at \in HeadersAt + 1 .. HeadersAt + body
         /\ Elements[at].kind = "message" => at = Len(Elements)
<1> DEFINE F == Len(fields)
           T == Len(trailer)
<1>1. F \in Nat /\ T \in Nat /\ body \in Nat /\ HeadersAt = 2 + 2 * F
  BY LenProperties DEF ResponseInv, HeadersAt
<1>2. Len(Elements) = HeadersAt + body + 2 * T + 1
  BY <1>1, ElementsSeq
<1> HIDE DEF F, T
<1>3. CASE at = 1
  BY <1>3, ElementsSeq
<1>4. CASE at \in 2 .. 2 * F + 1
  <2>1. PICK k \in 1 .. F : at = 2 * k \/ at = 2 * k + 1
    <3>1. at \div 2 \in 1 .. F /\ (at = 2 * (at \div 2) \/ at = 2 * (at \div 2) + 1)
      BY <1>1, <1>4
    <3> QED
      BY <3>1
  <2>2. CASE at = 2 * k
    <3>1. Elements[2 * k] = [kind |-> "field", text |-> fields[k].name]
      BY ElementsSeq DEF F
    <3> QED
      BY <2>2, <3>1 DEF F
  <2>3. CASE at = 2 * k + 1
    <3>1. Elements[2 * k + 1] = [kind |-> "value", text |-> fields[k].value]
      BY ElementsSeq DEF F
    <3> QED
      BY <2>3, <3>1 DEF F
  <2> QED
    BY <2>1, <2>2, <2>3
<1>5. CASE at = HeadersAt
  BY <1>5, ElementsSeq DEF Mark
<1>6. CASE at \in HeadersAt + 1 .. HeadersAt + body
  BY <1>6, ElementsSeq DEF Mark
<1>7. CASE at \in HeadersAt + body + 1 .. HeadersAt + body + 2 * T
  <2>1. Elements[at].kind \in {"field", "value"} /\ at > HeadersAt + body
    BY <1>1, <1>7, ElementsSeq DEF T
  <2> QED
    BY <2>1
<1>8. CASE at = Len(Elements)
  BY <1>8, ElementsSeq DEF Mark
<1> QED
  BY <1>1, <1>2, <1>3, <1>4, <1>5, <1>6, <1>7, <1>8

\* at the end of the response nothing is left of a text
OffsetInv == off \in IF at <= Len(Elements) THEN 0 .. Len(Elements[at].text) ELSE {0}

(* A callback gives a part of a text, and leaves the element with its last part only. *)
LEMMA PartStep ==
  ASSUME ResponseInv, at \in 1 .. Len(Elements), OffsetInv, UNCHANGED response,
         NEW n \in 0 .. Len(Elements[at].text), Part(n)
  PROVE  /\ Elements' = Elements /\ at' \in 1 .. Len(Elements) + 1 /\ OffsetInv'
         /\ off \in Nat /\ Elements[at].text \in Seq(Pieces \cup {"rea", "son"})
         /\ \/ at' = at + 1 /\ off' = 0 /\ off + n = Len(Elements[at].text)
            \/ at' = at /\ off' = off + n /\ n > 0 /\ off + n <= Len(Elements[at].text)
<1>1. Elements' = Elements
  BY DEF response, Elements, Block, Mark
<1>2. Len(Elements) \in Nat /\ \A i \in 1 .. Len(Elements) : Elements[i] \in Element
  BY ElementsSeq, LenProperties, ElementOfSeq
<1>3. \A i \in 1 .. Len(Elements) : Len(Elements[i].text) \in Nat
  BY <1>2, LenProperties DEF Element
<1>4. off \in 0 .. Len(Elements[at].text)
  BY <1>2 DEF OffsetInv
<1>5. Elements[at].text \in Seq(Pieces \cup {"rea", "son"})
  BY <1>2 DEF Element
<1>6. CASE off + n = Len(Elements[at].text) /\ at' = at + 1 /\ off' = 0
  <2>1. CASE at + 1 <= Len(Elements)
    BY <1>1, <1>2, <1>3, <1>4, <1>5, <1>6, <2>1 DEF OffsetInv
  <2>2. CASE ~(at + 1 <= Len(Elements))
    BY <1>1, <1>2, <1>3, <1>4, <1>5, <1>6, <2>2 DEF OffsetInv
  <2> QED
    BY <2>1, <2>2
<1>7. CASE n > 0 /\ at' = at /\ off' = off + n
  <2>1. off + n \in 0 .. Len(Elements[at].text) /\ off \in Nat
    BY <1>3, <1>4, <1>7 DEF Part
  <2> QED
    BY <1>1, <1>2, <1>5, <1>7, <2>1 DEF OffsetInv
<1> QED
  BY <1>6, <1>7 DEF Part

-------------------------------------------------------------------------------
(* The header. *)

\* the fields up to the k-th, as they are stored
Stored(k) == [n \in { fields[i].name : i \in 1 .. k } |-> Sent(n)]

(* Storing a field adds its value to its name, if no field before it has the name. *)
LEMMA StoreField ==
  ASSUME ResponseInv, NEW k \in 1 .. Len(fields), headers = Stored(k - 1),
         field_header = fields[k].name, value_header = fields[k].value
  PROVE  Emplace = Stored(k)
<1> DEFINE before == { fields[i].name : i \in 1 .. k - 1 }
           name   == fields[k].name
<1>1. Len(fields) \in Nat /\ DOMAIN fields = 1 .. Len(fields)
  BY LenProperties DEF ResponseInv
<1>2. { fields[i].name : i \in 1 .. k } = before \cup {name}
  <2>1. 1 .. k = (1 .. k - 1) \cup {k}
    BY <1>1
  <2> QED
    BY <2>1
<1>3. DOMAIN headers = before
  BY DEF Stored
<1>4. name \notin before => Sent(name) = fields[k].value
  <2> SUFFICES ASSUME name \notin before PROVE Sent(name) = fields[k].value
    OBVIOUS
  <2> DEFINE First(i) == fields[i].name = name /\ \A j \in 1 .. i - 1 : fields[j].name # name
  <2>1. First(k)
    OBVIOUS
  <2>2. \A i \in DOMAIN fields : First(i) => i = k
    <3> SUFFICES ASSUME NEW i \in 1 .. Len(fields), First(i) PROVE i = k
      BY <1>1
    <3>1. ~(i < k)
      <4> SUFFICES ASSUME i < k PROVE FALSE
        OBVIOUS
      <4>1. i \in 1 .. k - 1
        BY <1>1
      <4> QED
        BY <4>1
    <3>2. ~(k < i)
      <4> SUFFICES ASSUME k < i PROVE FALSE
        OBVIOUS
      <4>1. k \in 1 .. i - 1
        BY <1>1
      <4> QED
        BY <4>1
    <3> QED
      BY <1>1, <3>1, <3>2
  <2>3. k \in DOMAIN fields
    BY <1>1
  <2>4. (CHOOSE i \in DOMAIN fields : First(i)) = k
    BY <2>1, <2>2, <2>3
  <2> QED
    BY <2>4 DEF Sent
<1>5. \A n \in before : headers[n] = Sent(n)
  BY DEF Stored
<1>6. Emplace = [n \in before \cup {name} |->
                   IF n \in before THEN headers[n] ELSE fields[k].value]
  BY <1>3 DEF Emplace
<1>7. \A n \in before \cup {name} :
        (IF n \in before THEN headers[n] ELSE fields[k].value) = Sent(n)
  BY <1>4, <1>5
<1>8. Stored(k) = [n \in before \cup {name} |-> Sent(n)]
  BY <1>2 DEF Stored
<1> QED
  BY <1>6, <1>7, <1>8

LEMMA NothingStored == Stored(0) = <<>>
<1>1. { fields[i].name : i \in 1 .. 0 } = {}
  OBVIOUS
<1>2. <<>> = [n \in {} |-> Sent(n)]
  OBVIOUS
<1> QED
  BY <1>1, <1>2 DEF Stored

-------------------------------------------------------------------------------
(* The inductive invariant. *)

SuccessCodes  == {200, 202, 203}
RedirectCodes == {301, 302, 303}

\* k fields are seen whole, and the last one is not yet stored
Pending(k) == IF k = 0 THEN mode_header = "Field" /\ field_header = <<>> /\ headers = Stored(0)
              ELSE /\ mode_header = "Value" /\ headers = Stored(k - 1)
                   /\ field_header = fields[k].name /\ value_header = fields[k].value

\* a part of the k-th name is given, or all of it
InName(k) == /\ mode_header = "Field" /\ headers = Stored(k - 1)
             /\ field_header = SubSeq(fields[k].name, 1, off)

\* the k-th name is given, and the value up to `off`; the mode changes with its first part
InValue(k) == /\ field_header = fields[k].name /\ headers = Stored(k - 1)
              /\ IF off = 0 THEN mode_header = "Field"
                 ELSE mode_header = "Value" /\ value_header = SubSeq(fields[k].value, 1, off)

(* What the callbacks have left of the header, at each place they may have got to. *)
HeaderInv ==
  /\ at = 1 => Pending(0)
  /\ \A k \in 1 .. Len(fields) :
       /\ at = 2 * k => IF off = 0 THEN Pending(k - 1) ELSE InName(k)
       /\ at = 2 * k + 1 => InValue(k)
  /\ at = HeadersAt => Pending(Len(fields))
  /\ at \in HeadersAt + 1 .. HeadersAt + 1 + body /\ off = 0 => headers = Stored(Len(fields))

StatusInv ==
  /\ redirect => code \in RedirectCodes
  /\ at > 1 \/ off > 0 => /\ code \in SuccessCodes \cup RedirectCodes
                          /\ redirect <=> code \in RedirectCodes
  /\ at > HeadersAt => ~redirect

\* chunks of the body before the element at hand
Handed == IF at <= HeadersAt THEN 0
          ELSE IF at <= HeadersAt + body THEN at - HeadersAt - 1 ELSE body

ProgressInv == HeaderInv /\ StatusInv /\ given = Handed

ParserInv == /\ ResponseInv /\ TypeOK /\ OffsetInv
             /\ state = "InProgress" => ProgressInv
             /\ ResultIsVerdict

(* What is said of the response does not change with the parser. *)
LEMMA SameResponse ==
  ASSUME UNCHANGED response, ResponseInv
  PROVE  /\ ResponseInv' /\ HeadersAt' = HeadersAt /\ Elements' = Elements
         /\ \A k : Stored(k)' = Stored(k)
         /\ \A n : Sent(n)' = Sent(n)
         /\ SentNames' = SentNames /\ Verdict' = Verdict
<1>1. UNCHANGED <<code, fields, trailer, body>>
  BY DEF response
<1>2. ResponseInv' /\ HeadersAt' = HeadersAt /\ SentNames' = SentNames
  BY <1>1 DEF ResponseInv, HeadersAt, SentNames
<1>3. Elements' = Elements
  BY <1>1 DEF Elements, Block, Mark
<1>4. \A n : Sent(n)' = Sent(n)
  BY <1>1 DEF Sent
<1>5. \A k : Stored(k)' = Stored(k)
  BY <1>1 DEF Stored, Sent
<1>6. Verdict' = Verdict
  BY <1>1 DEF Verdict, SentNames
<1> QED
  BY <1>2, <1>3, <1>4, <1>5, <1>6

\* a callback made while the parse is in progress, with the n pieces it gives
Giving(n) == /\ ParserInv /\ http_errno = "OK" /\ at \in 1 .. Len(Elements)
             /\ n \in 0 .. Len(Elements[at].text) /\ Part(n) /\ UNCHANGED response

LEMMA GivingFacts ==
  ASSUME NEW n, Giving(n)
  PROVE  /\ ResponseInv /\ state = "InProgress" /\ ProgressInv /\ TypeOK
         /\ at \in 1 .. Len(Elements)
         /\ Len(fields) \in Nat /\ body \in Nat /\ HeadersAt = 2 + 2 * Len(fields)
         /\ Len(Elements) \in Nat /\ Len(Elements) > HeadersAt + body
         /\ ResponseInv' /\ OffsetInv' /\ at' \in 1 .. Len(Elements) + 1 /\ n \in Nat
         /\ Elements' = Elements /\ off \in Nat /\ given \in 0 .. body
         /\ \/ at' = at + 1 /\ off' = 0 /\ off + n = Len(Elements[at].text)
            \/ at' = at /\ off' = off + n /\ n > 0 /\ off + n <= Len(Elements[at].text)
<1>1. ResponseInv /\ state = "InProgress" /\ TypeOK /\ OffsetInv
  BY DEF Giving, ParserInv, TypeOK
<1>2. ProgressInv
  BY <1>1 DEF Giving, ParserInv
<1>3. Len(fields) \in Nat /\ Len(trailer) \in Nat /\ body \in Nat
  BY <1>1, LenProperties DEF ResponseInv
<1>4. Len(Elements) = 2 * Len(fields) + body + 2 * Len(trailer) + 3
  BY <1>1, ElementsSeq
<1>5. UNCHANGED response /\ n \in Nat /\ at \in 1 .. Len(Elements)
  BY DEF Giving
<1>6. /\ OffsetInv' /\ at' \in 1 .. Len(Elements) + 1 /\ off \in Nat /\ Elements' = Elements
      /\ \/ at' = at + 1 /\ off' = 0 /\ off + n = Len(Elements[at].text)
         \/ at' = at /\ off' = off + n /\ n > 0 /\ off + n <= Len(Elements[at].text)
  BY <1>1, PartStep DEF Giving
<1>7. given \in 0 .. body
  BY <1>1 DEF TypeOK
<1>8. ResponseInv'
  BY <1>1, <1>5, SameResponse
<1> QED
  BY <1>1, <1>2, <1>3, <1>4, <1>5, <1>6, <1>7, <1>8 DEF HeadersAt

(* A callback that lets http-parser go on keeps the invariant if it keeps what is said of
   the parse in progress. *)
LEMMA GoingOn ==
  ASSUME NEW n, Giving(n), GoOn, redirect' \in BOOLEAN, mode_header' \in {"Field", "Value"},
         given' \in 0 .. body, ProgressInv'
  PROVE  ParserInv'
<1>1. state' = "InProgress" /\ http_errno' = "OK"
  BY GivingFacts DEF GoOn, Giving
<1>2. UNCHANGED body
  BY DEF Giving, response
<1>3. TypeOK'
  <2>1. at' \in 1 .. Len(Elements') + 1
    BY GivingFacts
  <2> QED
    BY <1>1, <1>2, <2>1 DEF TypeOK, States
<1>4. ResultIsVerdict'
  BY <1>1 DEF ResultIsVerdict
<1> QED
  BY <1>3, <1>4, GivingFacts DEF ParserInv

(* A callback that pauses http-parser keeps it if the result is right. *)
LEMMA Stopping ==
  ASSUME NEW n, Giving(n), NEW s \in {"Done", "Redirect", "Error"}, stop(s),
         redirect' \in BOOLEAN, mode_header' \in {"Field", "Value"}, UNCHANGED given,
         s = Verdict, s = "Redirect" => redirect_uri' = Sent(Location),
         given = IF s = "Done" THEN body ELSE 0
  PROVE  ParserInv'
<1>1. state' = s /\ http_errno' = "PAUSED"
  BY DEF stop
<1>2. UNCHANGED body
  BY DEF Giving, response
<1>3. TypeOK'
  <2>1. at' \in 1 .. Len(Elements') + 1 /\ given \in 0 .. body
    BY GivingFacts
  <2> QED
    BY <1>1, <1>2, <2>1 DEF TypeOK, States
<1>4. ResultIsVerdict'
  <2>1. Verdict' = Verdict /\ Sent(Location)' = Sent(Location)
    BY SameResponse, GivingFacts DEF Giving
  <2> QED
    BY <1>1, <1>2, <2>1 DEF ResultIsVerdict
<1> QED
  BY <1>1, <1>3, <1>4, GivingFacts DEF ParserInv

-------------------------------------------------------------------------------
(* The callbacks. *)

LEMMA StatusStep ==
  ASSUME NEW n, Giving(n), at = 1, on_status
  PROVE  ParserInv'
<1> USE GivingFacts
<1>1. /\ redirect' = (redirect \/ code \in RedirectCodes) /\ redirect' \in BOOLEAN
      /\ UNCHANGED <<redirect_uri, mode_header, field_header, value_header, headers, given>>
      /\ mode_header \in {"Field", "Value"} /\ UNCHANGED <<code, fields, body>>
      /\ given = 0
  BY DEF on_status, RedirectCodes, TypeOK, Giving, response, ProgressInv, Handed
<1>2. Pending(0) /\ (redirect => code \in RedirectCodes)
  BY DEF ProgressInv, HeaderInv, StatusInv
<1>3. CASE code \in SuccessCodes \cup RedirectCodes
  <2>1. GoOn
    BY <1>3 DEF on_status, SuccessCodes, RedirectCodes
  <2>2. StatusInv'
    <3>0. HeadersAt' = HeadersAt
      BY ONLY GivingFacts, Giving(n), SameResponse DEF Giving
    <3>1. ~(at' > HeadersAt')
      BY ONLY <3>0, at = 1, GivingFacts, Giving(n)
    <3>2. redirect' <=> code \in RedirectCodes
      BY <1>1, <1>2
    <3> QED
      BY <1>1, <1>3, <3>1, <3>2 DEF StatusInv
  <2>3. Pending(0)'
    BY <1>1, <1>2, SameResponse DEF Pending, Giving
  <2>4. HeaderInv'
    <3>1. at' = 1 \/ at' = 2
      OBVIOUS
    <3>2. HeadersAt' = HeadersAt /\ UNCHANGED <<fields, body>>
      BY <1>1, SameResponse DEF Giving
    <3>3. ASSUME NEW k \in 1 .. Len(fields)
          PROVE  /\ at' = 2 * k => k - 1 = 0 /\ off' = 0
                 /\ at' # 2 * k + 1
      BY <3>1
    <3>4. at' = HeadersAt => Len(fields) = 0
      BY <3>1
    <3>5. at' \notin HeadersAt + 1 .. HeadersAt + 1 + body
      BY <3>1
    <3> QED
      BY <2>3, <3>2, <3>3, <3>4, <3>5 DEF HeaderInv
  <2>5. (given = Handed)'
    BY <1>1, SameResponse DEF Handed, Giving
  <2> QED
    BY <1>1, <2>1, <2>2, <2>4, <2>5, GoingOn DEF ProgressInv
<1>4. CASE code \notin SuccessCodes \cup RedirectCodes
  <2>1. stop("Error")
    BY <1>4 DEF on_status, SuccessCodes, RedirectCodes
  <2>2. Verdict = "Error"
    BY <1>4 DEF Verdict, SuccessCodes, RedirectCodes
  <2> QED
    BY <1>1, <2>1, <2>2, Stopping
<1> QED
  BY <1>3, <1>4

(* A callback of the k-th name gives its next part, and stores the field before it. *)
LEMMA NameStep ==
  ASSUME NEW n, Giving(n), NEW k \in 1 .. Len(fields), at = 2 * k, on_header_field(Given(n))
  PROVE  ParserInv'
<1> DEFINE name == fields[k].name
<1> USE GivingFacts
<1>1. /\ GoOn /\ UNCHANGED <<redirect, given, fields, body, code>>
      /\ redirect \in BOOLEAN
  BY DEF on_header_field, Giving, response, TypeOK
<1>2. /\ Elements[at].text = name /\ name \in Seq(Pieces) /\ Len(name) > 0
      /\ Len(name) \in Nat /\ fields[k] \in Field
  <2>1. fields[k] \in Field
    BY ElementOfSeq DEF ResponseInv
  <2>2. Elements[2 * k] = [kind |-> "field", text |-> name]
    BY ElementsSeq
  <2> QED
    BY <2>1, <2>2, TextType, LenProperties
<1>3. n > 0 \/ off > 0
  BY <1>2
<1>4. Given(n) = SubSeq(name, off + 1, off + n)
  BY <1>2 DEF Given
<1>5. /\ mode_header' = "Field" /\ headers' = Stored(k - 1)
      /\ field_header' = SubSeq(name, 1, off + n)
  <2>1. CASE off = 0
    <3>1. Pending(k - 1)
      BY <2>1 DEF ProgressInv, HeaderInv
    <3>2. Given(n) = SubSeq(name, 1, off + n) /\ Given(n) \in Seq(Pieces)
      <4>1. \A i \in off + 1 .. off + n : name[i] \in Pieces
        BY <1>2, <2>1, ElementOfSeq
      <4> QED
        BY <1>4, <2>1, <4>1, SubSeqProperties
    <3>3. CASE k = 1
      <4>1. mode_header = "Field" /\ field_header = <<>> /\ headers = Stored(k - 1)
        BY <3>1, <3>3 DEF Pending
      <4>2. mode_header' = "Field" /\ field_header' = <<>> \o Given(n) /\ headers' = headers
        BY <4>1 DEF on_header_field
      <4> QED
        BY <3>2, <4>1, <4>2, ConcatEmptySeq
    <3>4. CASE k # 1
      <4>1. /\ k - 1 \in 1 .. Len(fields) /\ k - 1 # 0 /\ (k - 1) - 1 = k - 2
        BY <3>4
      <4>2. /\ mode_header = "Value" /\ headers = Stored((k - 1) - 1)
            /\ field_header = fields[k - 1].name /\ value_header = fields[k - 1].value
        BY <3>1, <4>1 DEF Pending
      <4>3. Emplace = Stored(k - 1)
        BY <4>1, <4>2, StoreField
      <4> QED
        BY <3>2, <4>2, <4>3 DEF on_header_field
    <3> QED
      BY <3>3, <3>4
  <2>2. CASE off > 0
    <3>1. mode_header = "Field" /\ headers = Stored(k - 1) /\ field_header = SubSeq(name, 1, off)
      BY <2>2 DEF ProgressInv, HeaderInv, InName
    <3>2. mode_header' = "Field" /\ headers' = headers /\ field_header' = field_header \o Given(n)
      BY <3>1 DEF on_header_field
    <3>3. SubSeq(name, 1, off) \o SubSeq(name, off + 1, off + n) = SubSeq(name, 1, off + n)
      <4>1. 1 \in 1 .. Len(name) + 1 /\ off \in 1 - 1 .. Len(name) /\ off + n \in off .. Len(name)
        <5>1. off + n <= Len(name) /\ off \in Nat /\ n \in Nat
          BY <1>2
        <5> QED
          BY ONLY <1>2, <5>1
      <4> QED
        BY <1>2, <4>1, ConcatAdjacentSubSeq
    <3> QED
      BY <1>4, <3>1, <3>2, <3>3
  <2> QED
    BY <2>1, <2>2
<1>6. StatusInv' /\ (given = Handed)'
  <2>1. HeadersAt' = HeadersAt
    BY ONLY GivingFacts, SameResponse, Giving(n) DEF Giving
  <2>2. k \in 1 .. Len(fields) /\ at = 2 * k /\ at' \in {at, at + 1}
    OBVIOUS
  <2>3. at' <= HeadersAt /\ at' > 1 /\ at > 1 /\ at <= HeadersAt
    BY ONLY <2>2, GivingFacts, Giving(n)
  <2> QED
    BY <1>1, <2>1, <2>3 DEF StatusInv, ProgressInv, Handed
<1>7. HeaderInv'
  <2>1. HeadersAt' = HeadersAt /\ \A j : Stored(j)' = Stored(j)
    BY ONLY GivingFacts, Giving(n), SameResponse DEF Giving
  <2>2. CASE at' = at /\ off' = off + n /\ n > 0
    <3>1. InName(k)'
      BY <1>1, <1>5, <2>1, <2>2 DEF InName
    <3>2. /\ \A j \in 1 .. Len(fields) : (at' = 2 * j => j = k) /\ at' # 2 * j + 1
          /\ at' < HeadersAt /\ at' # 1 /\ off' # 0
      BY <2>2
    <3> QED
      BY <1>1, <2>1, <3>1, <3>2 DEF HeaderInv
  <2>3. CASE at' = at + 1 /\ off' = 0 /\ off + n = Len(name)
    <3>1. SubSeq(name, 1, off + n) = name
      BY <1>2, <2>3, SubSeqFull
    <3>2. InValue(k)'
      BY <1>1, <1>5, <2>1, <2>3, <3>1 DEF InValue
    <3>3. /\ \A j \in 1 .. Len(fields) : (at' = 2 * j + 1 => j = k) /\ at' # 2 * j
          /\ at' < HeadersAt /\ at' # 1
      BY <2>3
    <3> QED
      BY <1>1, <2>1, <3>2, <3>3 DEF HeaderInv
  <2> QED
    BY <1>2, <2>2, <2>3
<1> QED
  BY <1>1, <1>5, <1>6, <1>7, GoingOn DEF ProgressInv

LEMMA ValueStep ==
  ASSUME NEW n, Giving(n), NEW k \in 1 .. Len(fields), at = 2 * k + 1,
         on_header_value(Given(n))
  PROVE  ParserInv'
<1> DEFINE value == fields[k].value
<1> USE GivingFacts
<1>1. /\ GoOn /\ UNCHANGED <<redirect, given, fields, body, code, field_header, headers>>
      /\ mode_header' = "Value" /\ value_header' = NewValue(Given(n)) /\ redirect \in BOOLEAN
  BY DEF on_header_value, Giving, response, TypeOK
<1>2. /\ Elements[at].text = value /\ value \in Seq(Pieces) /\ Len(value) \in Nat
  <2>1. fields[k] \in Field
    BY ElementOfSeq DEF ResponseInv
  <2>2. Elements[2 * k + 1] = [kind |-> "value", text |-> value]
    BY ElementsSeq
  <2> QED
    BY <2>1, <2>2, TextType, LenProperties
<1>3. Given(n) = SubSeq(value, off + 1, off + n)
  BY <1>2 DEF Given
<1>4. InValue(k)
  BY DEF ProgressInv, HeaderInv
<1>5. value_header' = SubSeq(value, 1, off + n)
  <2>1. CASE off = 0
    <3>1. mode_header = "Field" /\ off + 1 = 1
      BY <1>4, <2>1 DEF InValue
    <3>2. Given(n) = SubSeq(value, 1, off + n)
      BY <1>3, <3>1
    <3> QED
      BY <1>1, <3>1, <3>2 DEF NewValue
  <2>2. CASE off # 0
    <3>1. 1 \in 1 .. Len(value) + 1 /\ off \in 1 - 1 .. Len(value) /\ off + n \in off .. Len(value)
      <4>1. off + n <= Len(value) /\ off \in Nat /\ n \in Nat
        BY <1>2
      <4> QED
        BY ONLY <1>2, <4>1
    <3>2. SubSeq(value, 1, off) \o SubSeq(value, off + 1, off + n) = SubSeq(value, 1, off + n)
      BY <1>2, <3>1, ConcatAdjacentSubSeq
    <3> QED
      BY <1>1, <1>3, <1>4, <2>2, <3>2 DEF InValue, NewValue
  <2> QED
    BY <2>1, <2>2
<1>6. StatusInv' /\ (given = Handed)'
  <2>1. HeadersAt' = HeadersAt
    BY ONLY GivingFacts, SameResponse, Giving(n) DEF Giving
  <2>2. k \in 1 .. Len(fields) /\ at = 2 * k + 1 /\ at' \in {at, at + 1}
    OBVIOUS
  <2>3. at' <= HeadersAt /\ at' > 1 /\ at > 1 /\ at <= HeadersAt
    BY ONLY <2>2, GivingFacts, Giving(n)
  <2> QED
    BY <1>1, <2>1, <2>3 DEF StatusInv, ProgressInv, Handed
<1>7. HeaderInv'
  <2>1. HeadersAt' = HeadersAt /\ \A j : Stored(j)' = Stored(j)
    BY ONLY GivingFacts, Giving(n), SameResponse DEF Giving
  <2>2. CASE at' = at /\ off' = off + n /\ n > 0
    <3>1. InValue(k)'
      BY <1>1, <1>4, <1>5, <2>1, <2>2 DEF InValue
    <3>2. /\ \A j \in 1 .. Len(fields) : (at' = 2 * j + 1 => j = k) /\ at' # 2 * j
          /\ at' < HeadersAt /\ at' # 1
      BY <2>2
    <3> QED
      BY <1>1, <2>1, <3>1, <3>2 DEF HeaderInv
  <2>3. CASE at' = at + 1 /\ off' = 0 /\ off + n = Len(value)
    <3>1. SubSeq(value, 1, off + n) = value
      BY <1>2, <2>3, SubSeqFull
    <3>2. Pending(k)'
      BY <1>1, <1>4, <1>5, <2>1, <3>1 DEF Pending, InValue
    <3>3. /\ \A j \in 1 .. Len(fields) : (at' = 2 * j => j - 1 = k) /\ at' # 2 * j + 1
          /\ at' = HeadersAt => k = Len(fields)
          /\ at' <= HeadersAt /\ at' # 1
      <4>1. /\ HeadersAt = 2 + 2 * Len(fields) /\ Len(fields) \in Nat
            /\ k \in 1 .. Len(fields) /\ at = 2 * k + 1
        BY ONLY k \in 1 .. Len(fields), at = 2 * k + 1, GivingFacts, Giving(n)
      <4> QED
        BY ONLY <2>3, <4>1
    <3> QED
      BY <1>1, <2>1, <2>3, <3>2, <3>3 DEF HeaderInv
  <2> QED
    BY <1>2, <2>2, <2>3
<1> QED
  BY <1>1, <1>6, <1>7, GoingOn DEF ProgressInv

(* Fields behind the body are parsed like those of the header, but nobody asks for them. *)
LEMMA TrailerStep ==
  ASSUME NEW n, Giving(n), at > HeadersAt + body, at' > HeadersAt + 1 + body \/ off' > 0,
         on_header_field(Given(n)) \/ on_header_value(Given(n))
  PROVE  ParserInv'
<1> USE GivingFacts
<1>1. /\ GoOn /\ UNCHANGED <<redirect, given, fields, body, code>>
      /\ redirect \in BOOLEAN /\ mode_header' \in {"Field", "Value"}
  BY DEF on_header_field, on_header_value, Giving, response, TypeOK
<1>2. HeadersAt' = HeadersAt
  BY ONLY GivingFacts, Giving(n), SameResponse DEF Giving
<1>3. StatusInv' /\ (given = Handed)'
  <2>1. at > HeadersAt /\ at > 1 /\ at' > HeadersAt + body /\ at' > HeadersAt /\ at' > 1
    OBVIOUS
  <2>2. StatusInv'
    BY <1>1, <1>2, <2>1 DEF StatusInv, ProgressInv
  <2>3. given = body
    BY <2>1 DEF ProgressInv, Handed
  <2> QED
    BY <1>1, <1>2, <2>1, <2>2, <2>3 DEF Handed
<1>4. HeaderInv'
  <2>1. at' > HeadersAt
    OBVIOUS
  <2>2. \A j \in 1 .. Len(fields) : at' # 2 * j /\ at' # 2 * j + 1
    BY <2>1
  <2>3. at' # 1 /\ at' # HeadersAt
    BY <2>1
  <2> QED
    BY <1>1, <1>2, <2>2, <2>3 DEF HeaderInv
<1> QED
  BY <1>1, <1>3, <1>4, GoingOn DEF ProgressInv

(* At the end of the header the last field is stored, and a redirect has its address. *)
LEMMA HeadersStep ==
  ASSUME NEW n, Giving(n), at = HeadersAt, on_headers_complete
  PROVE  ParserInv'
<1> DEFINE all == IF field_header # <<>> THEN Emplace ELSE headers
           F == Len(fields)
<1> USE GivingFacts
<1>1. /\ UNCHANGED <<redirect, mode_header, given, fields, body, code>> /\ given = 0
      /\ redirect \in BOOLEAN /\ mode_header \in {"Field", "Value"}
  BY DEF on_headers_complete, Giving, response, TypeOK, ProgressInv, Handed
<1>2. at' = at + 1 /\ off' = 0
  <2>1. Elements[at].text = <<>>
    <3>1. Elements[HeadersAt] = Mark("headers")
      BY ONLY GivingFacts, Giving(n), ElementsSeq
    <3> QED
      BY ONLY <3>1, at = HeadersAt DEF Mark
  <2>2. Len(Elements[at].text) = 0
    BY ONLY <2>1
  <2> QED
    BY <2>2
<1>3. all = Stored(F)
  <2>1. Pending(F)
    BY DEF ProgressInv, HeaderInv
  <2>2. CASE F = 0
    BY <2>1, <2>2 DEF Pending
  <2>3. CASE F # 0
    <3>1. F \in 1 .. F
      BY <2>3
    <3>2. headers = Stored(F - 1) /\ field_header = fields[F].name /\ value_header = fields[F].value
      BY <2>1, <2>3 DEF Pending
    <3>3. field_header # <<>>
      <4>1. fields[F] \in Field
        BY <3>1, ElementOfSeq DEF ResponseInv
      <4>2. Len(fields[F].name) > 0
        BY <4>1, TextType
      <4> QED
        BY <3>2, <4>2, EmptySeq
    <3> QED
      BY <3>1, <3>2, <3>3, StoreField
  <2> QED
    BY <2>2, <2>3
<1>4. Stored(F) = [m \in SentNames |-> Sent(m)]
  <2>1. DOMAIN fields = 1 .. F
    BY LenProperties DEF ResponseInv
  <2> QED
    BY <2>1 DEF Stored, SentNames
<1>5. redirect <=> code \in RedirectCodes
  BY DEF ProgressInv, StatusInv
<1> HIDE DEF all
<1>6. CASE redirect /\ Location \in DOMAIN all
  <2>1. redirect_uri' = all[Location] /\ stop("Redirect")
    BY <1>6 DEF on_headers_complete, all
  <2>2. Location \in SentNames /\ redirect_uri' = Sent(Location)
    BY <1>3, <1>4, <1>6, <2>1
  <2>3. Verdict = "Redirect" /\ Sent(Location)' = Sent(Location)
    <3>1. Sent(Location)' = Sent(Location)
      BY ONLY GivingFacts, Giving(n), SameResponse DEF Giving
    <3>2. Verdict = "Redirect"
      BY ONLY <1>5, <1>6, <2>2 DEF Verdict, RedirectCodes
    <3> QED
      BY ONLY <3>1, <3>2
  <2> QED
    BY <1>1, <2>1, <2>2, <2>3, Stopping
<1>7. CASE redirect /\ Location \notin DOMAIN all
  <2>1. stop("Error")
    BY <1>7 DEF on_headers_complete, all
  <2>2. Location \notin SentNames
    BY <1>3, <1>4, <1>7
  <2>3. Verdict = "Error"
    BY ONLY <1>5, <1>7, <2>2 DEF Verdict, RedirectCodes
  <2> QED
    BY <1>1, <2>1, <2>3, Stopping
<1>8. CASE ~redirect
  <2>1. headers' = all /\ GoOn
    BY <1>8 DEF on_headers_complete, all
  <2>2. HeadersAt' = HeadersAt /\ \A j : Stored(j)' = Stored(j)
    BY ONLY GivingFacts, Giving(n), SameResponse DEF Giving
  <2>3. StatusInv' /\ (given = Handed)'
    <3>1. ~redirect' /\ code' \in SuccessCodes \cup RedirectCodes /\ code' \notin RedirectCodes
      BY <1>1, <1>5, <1>8 DEF ProgressInv, StatusInv
    <3>2. StatusInv'
      BY ONLY <3>1 DEF StatusInv
    <3>3. at' = HeadersAt' + 1 /\ given' = 0 /\ body' = body
      BY <1>1, <1>2, <2>2
    <3>4. (given = Handed)'
      BY <3>3, <2>2 DEF Handed
    <3> QED
      BY <3>2, <3>4
  <2>4. HeaderInv'
    <3>1. /\ \A j \in 1 .. F : at' # 2 * j /\ at' # 2 * j + 1
          /\ at' # 1 /\ at' # HeadersAt
      BY ONLY <1>2, at = HeadersAt, GivingFacts, Giving(n)
    <3>2. headers' = Stored(F)'
      BY <1>1, <1>3, <2>1, <2>2
    <3> QED
      BY <1>1, <2>2, <3>1, <3>2 DEF HeaderInv
  <2> QED
    BY <1>1, <2>1, <2>3, <2>4, GoingOn DEF ProgressInv
<1> QED
  BY <1>6, <1>7, <1>8

LEMMA BodyStep ==
  ASSUME NEW n, Giving(n), at \in HeadersAt + 1 .. HeadersAt + body, on_body
  PROVE  ParserInv'
<1> USE GivingFacts
<1>1. /\ GoOn /\ UNCHANGED <<redirect, mode_header, headers, fields, body, code>>
      /\ redirect \in BOOLEAN /\ mode_header \in {"Field", "Value"} /\ given' = given + 1
      /\ given = at - HeadersAt - 1
  BY DEF on_body, parsed, Giving, response, TypeOK, ProgressInv, Handed
<1>2. at' = at + 1 /\ off' = 0 /\ off = 0
  <2>1. Elements[at].text = <<>>
    <3>1. Elements[at] = Mark("body")
      BY ElementsSeq
    <3> QED
      BY ONLY <3>1 DEF Mark
  <2>2. Len(Elements[at].text) = 0
    BY ONLY <2>1
  <2> QED
    BY <2>2
<1>3. HeadersAt' = HeadersAt /\ \A j : Stored(j)' = Stored(j)
  BY ONLY GivingFacts, Giving(n), SameResponse DEF Giving
<1>4. StatusInv' /\ (given = Handed)' /\ given' \in 0 .. body
  <2>1. given' \in 0 .. body
    <3>1. HeadersAt \in Nat /\ body \in Nat
      BY ONLY GivingFacts, Giving(n)
    <3> QED
      BY ONLY <1>1, <3>1, at \in HeadersAt + 1 .. HeadersAt + body
  <2>2. (given = Handed)'
    <3>1. HeadersAt \in Nat /\ body \in Nat
      BY ONLY GivingFacts, Giving(n)
    <3>2. /\ given' = at - HeadersAt /\ at' = at + 1 /\ HeadersAt' = HeadersAt /\ body' = body
          /\ at \in HeadersAt + 1 .. HeadersAt + body
      BY ONLY <1>1, <1>2, <1>3, <3>1, at \in HeadersAt + 1 .. HeadersAt + body
    <3> QED
      BY ONLY <3>1, <3>2 DEF Handed
  <2> QED
    <3>1. StatusInv /\ at > HeadersAt /\ at' > HeadersAt' /\ at > 1
      BY <1>2, <1>3 DEF ProgressInv
    <3>2. StatusInv'
      BY ONLY <1>1, <3>1 DEF StatusInv
    <3> QED
      BY ONLY <2>1, <2>2, <3>2
<1>5. HeaderInv'
  <2>1. /\ \A j \in 1 .. Len(fields) : at' # 2 * j /\ at' # 2 * j + 1
        /\ at' # 1 /\ at' # HeadersAt
    BY <1>2
  <2>2. headers' = Stored(Len(fields))'
    <3>1. HeaderInv /\ at \in HeadersAt + 1 .. HeadersAt + 1 + body /\ off = 0
      BY <1>2 DEF ProgressInv
    <3>2. headers = Stored(Len(fields))
      BY ONLY <3>1 DEF HeaderInv
    <3> QED
      BY <1>1, <1>3, <3>2
  <2> QED
    BY <1>1, <1>3, <2>1, <2>2 DEF HeaderInv
<1> QED
  BY <1>1, <1>4, <1>5, GoingOn DEF ProgressInv

LEMMA MessageStep ==
  ASSUME NEW n, Giving(n), at = Len(Elements), on_message_complete
  PROVE  ParserInv'
<1> USE GivingFacts
<1>1. /\ stop("Done") /\ UNCHANGED <<redirect, mode_header, given>>
      /\ redirect \in BOOLEAN /\ mode_header \in {"Field", "Value"}
  BY DEF on_message_complete, parsed, TypeOK
<1>2. given = body /\ code \in SuccessCodes
  BY DEF ProgressInv, StatusInv, Handed
<1>3. Verdict = "Done"
  BY <1>2 DEF Verdict, SuccessCodes
<1> QED
  BY <1>1, <1>2, <1>3, Stopping

LEMMA ParserNext == ParserInv /\ [Next]_vars => ParserInv'
<1> SUFFICES ASSUME ParserInv, [Next]_vars PROVE ParserInv'
  OBVIOUS
<1>1. CASE Callback
  <2>1. at \in 1 .. Len(Elements)
    <3>1. Len(Elements) \in Nat
      BY ElementsSeq, LenProperties DEF ParserInv
    <3> QED
      BY <1>1, <3>1 DEF Callback, ParserInv, TypeOK
  <2>2. PICK n \in 0 .. Len(Elements[at].text) :
          /\ Part(n)
          /\ \/ Elements[at].kind = "status"  /\ on_status
             \/ Elements[at].kind = "field"   /\ on_header_field(Given(n))
             \/ Elements[at].kind = "value"   /\ on_header_value(Given(n))
             \/ Elements[at].kind = "headers" /\ on_headers_complete
             \/ Elements[at].kind = "body"    /\ on_body
             \/ Elements[at].kind = "message" /\ on_message_complete
    BY <1>1 DEF Callback
  <2>3. Giving(n)
    BY <1>1, <2>1, <2>2 DEF Giving, Callback
  <2>4. ResponseInv
    BY DEF ParserInv
  <2>5. ASSUME at > HeadersAt + body PROVE at' > HeadersAt + 1 + body \/ off' > 0
    <3>1. /\ at \in Nat /\ HeadersAt \in Nat /\ body \in Nat /\ off \in Nat /\ n \in Nat
          /\ \/ at' = at + 1
             \/ off' = off + n /\ n > 0
      BY ONLY <2>3, GivingFacts
    <3> QED
      BY ONLY <2>5, <3>1
  <2>6. CASE Elements[at].kind = "status"
    BY <2>1, <2>2, <2>3, <2>4, <2>6, Located, StatusStep
  <2>7. CASE Elements[at].kind = "field"
    <3>1. (\E k \in 1 .. Len(fields) : at = 2 * k) \/ at > HeadersAt + body
      BY <2>1, <2>4, <2>7, Located
    <3> QED
      BY <2>2, <2>3, <2>5, <2>7, <3>1, NameStep, TrailerStep
  <2>8. CASE Elements[at].kind = "value"
    <3>1. (\E k \in 1 .. Len(fields) : at = 2 * k + 1) \/ at > HeadersAt + body
      BY <2>1, <2>4, <2>8, Located
    <3> QED
      BY <2>2, <2>3, <2>5, <2>8, <3>1, ValueStep, TrailerStep
  <2>9. CASE Elements[at].kind = "headers"
    BY <2>1, <2>2, <2>3, <2>4, <2>9, Located, HeadersStep
  <2>10. CASE Elements[at].kind = "body"
    BY <2>1, <2>2, <2>3, <2>4, <2>10, Located, BodyStep
  <2>11. CASE Elements[at].kind = "message"
    BY <2>1, <2>2, <2>3, <2>4, <2>11, Located, MessageStep
  <2> QED
    BY <2>2, <2>6, <2>7, <2>8, <2>9, <2>10, <2>11
<1>2. CASE Malformed
  <2>1. ResponseInv /\ TypeOK /\ OffsetInv
    BY DEF ParserInv
  <2>2. /\ UNCHANGED <<response, at, off, redirect, mode_header, given>>
        /\ http_errno' = "other" /\ state' = "Error"
    BY <1>2 DEF Malformed, parsed
  <2>3. ResponseInv' /\ Elements' = Elements /\ UNCHANGED body
    BY <2>1, <2>2, SameResponse DEF response
  <2>4. TypeOK' /\ OffsetInv'
    BY <2>1, <2>2, <2>3 DEF TypeOK, OffsetInv, States
  <2> QED
    BY <2>2, <2>3, <2>4 DEF ParserInv, ResultIsVerdict
<1>3. CASE UNCHANGED vars
  <2>1. ResponseInv /\ TypeOK /\ OffsetInv /\ ResultIsVerdict
    BY DEF ParserInv
  <2>2. UNCHANGED <<response, at, off, http_errno, state, redirect_uri, redirect, mode_header,
                    field_header, value_header, headers, given>>
    BY <1>3 DEF vars, position, result, parsed
  <2>3. /\ ResponseInv' /\ Elements' = Elements /\ HeadersAt' = HeadersAt
        /\ UNCHANGED <<code, fields, body>>
        /\ \A k : Stored(k)' = Stored(k)
        /\ Sent(Location)' = Sent(Location) /\ Verdict' = Verdict
    BY <2>1, <2>2, SameResponse DEF response
  <2>4. TypeOK' /\ OffsetInv'
    BY <2>1, <2>2, <2>3 DEF TypeOK, OffsetInv
  <2>5. ResultIsVerdict'
    BY <2>1, <2>2, <2>3 DEF ResultIsVerdict
  <2>6. ProgressInv => ProgressInv'
    BY <2>2, <2>3 DEF ProgressInv, HeaderInv, StatusInv, Handed, Pending, InName, InValue
  <2> QED
    BY <2>2, <2>3, <2>4, <2>5, <2>6 DEF ParserInv
<1> QED
  BY <1>1, <1>2, <1>3 DEF Next

LEMMA ParserInit == Init => ParserInv
<1> SUFFICES ASSUME Init PROVE ParserInv
  OBVIOUS
<1>1. ResponseInv
  <2>1. code \in Codes /\ body \in 0 .. MaxBody /\ body \in Nat
    BY NamesAssumption DEF Init
  <2>2. PICK n \in 0 .. MaxFields : fields \in [1 .. n -> Field]
    BY DEF Init
  <2>3. PICK m \in 0 .. 1 : trailer \in [1 .. m -> Field]
    BY DEF Init
  <2>4. n \in Nat /\ m \in Nat
    BY NamesAssumption
  <2> QED
    BY <2>1, <2>2, <2>3, <2>4 DEF ResponseInv
<1>2. Len(fields) \in Nat /\ body \in Nat /\ HeadersAt = 2 + 2 * Len(fields)
  BY <1>1, LenProperties DEF ResponseInv, HeadersAt
<1>3. Len(Elements) \in Nat /\ 1 <= Len(Elements) /\ Len(Elements[1].text) \in Nat
  <2>1. Len(trailer) \in Nat
    BY <1>1, LenProperties DEF ResponseInv
  <2>2. Elements \in Seq(Element) /\ Len(Elements) \in Nat /\ 1 \in 1 .. Len(Elements)
    BY <1>1, <1>2, <2>1, ElementsSeq
  <2>3. Elements[1] \in Element
    BY <2>2, ElementOfSeq
  <2> QED
    BY <2>2, <2>3, LenProperties DEF Element
<1>4. TypeOK
  <2>1. http_errno = "OK" /\ state = "InProgress"
    BY DEF Init
  <2>2. (http_errno = "OK") = (state = "InProgress")
    BY <2>1
  <2>3. at \in 1 .. Len(Elements) + 1 /\ given \in 0 .. body
    BY <1>2, <1>3 DEF Init
  <2>4. redirect \in BOOLEAN /\ mode_header \in {"Field", "Value"}
    BY DEF Init
  <2> QED
    BY <2>1, <2>2, <2>3, <2>4 DEF TypeOK, States
<1>5. OffsetInv
  BY <1>3 DEF Init, OffsetInv
<1>6. ResultIsVerdict
  BY DEF Init, ResultIsVerdict
<1>7. HeaderInv
  <2>1. Pending(0)
    BY NothingStored DEF Init, Pending
  <2>2. at = 1
    BY DEF Init
  <2>3. /\ \A j \in 1 .. Len(fields) : at # 2 * j /\ at # 2 * j + 1
        /\ at # HeadersAt /\ at \notin HeadersAt + 1 .. HeadersAt + 1 + body
    BY <1>2, <2>2
  <2> QED
    BY <2>1, <2>3 DEF HeaderInv
<1>8. StatusInv /\ given = Handed
  BY <1>2 DEF Init, StatusInv, Handed
<1> QED
  BY <1>1, <1>4, <1>5, <1>6, <1>7, <1>8 DEF ParserInv, ProgressInv

LEMMA ParserCorrect == Spec => []ParserInv
<1> QED
  BY ParserInit, ParserNext, PTL DEF Spec

(* Every variable keeps its type, and http-parser is stopped exactly by a final result. *)
THEOREM TypeCorrect == Spec => []TypeOK
<1>1. ParserInv => TypeOK
  BY DEF ParserInv
<1> QED
  BY <1>1, ParserCorrect, PTL

(* The map of on_header_field and on_headers_complete holds the header as it was sent, for
   every number of fields, wherever the reads cut their names and values. *)
THEOREM HeadersCorrect == Spec => []HeadersAsSent
<1>1. ParserInv => HeadersAsSent
  <2> SUFFICES ASSUME ParserInv, at \in HeadersAt + 1 .. HeadersAt + 1 + body, off = 0,
                      state = "InProgress"
               PROVE  headers = [n \in SentNames |-> Sent(n)]
    BY DEF HeadersAsSent
  <2>1. headers = Stored(Len(fields))
    BY DEF ParserInv, ProgressInv, HeaderInv
  <2>2. DOMAIN fields = 1 .. Len(fields)
    BY LenProperties DEF ParserInv, ResponseInv
  <2> QED
    BY <2>1, <2>2 DEF Stored, SentNames
<1> QED
  BY <1>1, ParserCorrect, PTL

(* A result is what the status and the header of the response say: the whole body of a
   success, the address of a redirect, an error otherwise. *)
THEOREM ResultCorrect == Spec => []ResultIsVerdict
<1>1. ParserInv => ResultIsVerdict
  BY DEF ParserInv
<1> QED
  BY <1>1, ParserCorrect, PTL

-------------------------------------------------------------------------------
(* The end of the response. *)

EndsWithResult == at > Len(Elements) => state # "InProgress"

(* Only the last callback leaves the response behind, and it stops the parse. *)
LEMMA EndNext == ParserInv /\ EndsWithResult /\ [Next]_vars => EndsWithResult'
<1> SUFFICES ASSUME ParserInv, EndsWithResult, [Next]_vars PROVE EndsWithResult'
  OBVIOUS
<1>1. ResponseInv /\ at \in 1 .. Len(Elements) + 1 /\ OffsetInv /\ Len(Elements) \in Nat \ {0}
  <2>1. ResponseInv /\ OffsetInv /\ TypeOK
    BY DEF ParserInv
  <2>2. Len(trailer) \in Nat /\ Len(fields) \in Nat /\ body \in Nat
    BY <2>1, LenProperties DEF ResponseInv
  <2>3. Len(Elements) = 2 * Len(fields) + body + 2 * Len(trailer) + 3
    BY <2>1, ElementsSeq
  <2> QED
    BY <2>1, <2>2, <2>3 DEF TypeOK
<1>2. CASE Callback
  <2>1. at \in 1 .. Len(Elements)
    BY <1>1, <1>2 DEF Callback
  <2>2. PICK n \in 0 .. Len(Elements[at].text) :
          /\ Part(n)
          /\ Elements[at].kind = "message" => on_message_complete
    BY <1>2 DEF Callback
  <2>3. Elements' = Elements /\ (at' = at \/ at' = at + 1)
    BY <1>1, <1>2, <2>1, <2>2, PartStep DEF Callback
  <2>4. CASE at = Len(Elements)
    <3>1. Elements[at] = Mark("message")
      BY <1>1, <2>4, ElementsSeq
    <3>2. on_message_complete
      BY <2>2, <3>1 DEF Mark
    <3> QED
      BY <3>2 DEF on_message_complete, stop, EndsWithResult
  <2>5. CASE at # Len(Elements)
    BY <1>1, <2>1, <2>3, <2>5 DEF EndsWithResult
  <2> QED
    BY <2>4, <2>5
<1>3. CASE Malformed
  BY <1>3 DEF Malformed, EndsWithResult
<1>4. CASE UNCHANGED vars
  <2>1. Elements' = Elements /\ UNCHANGED <<at, state>>
    BY <1>1, <1>4, SameResponse DEF vars, position, result
  <2> QED
    BY <2>1 DEF EndsWithResult
<1> QED
  BY <1>2, <1>3, <1>4 DEF Next

(* The result is not late: behind the header only a success is read on, and the end of a
   response gives it its result. *)
THEOREM ResultNotLate == Spec => []ResultInTime
<1>1. Init => EndsWithResult
  <2> SUFFICES ASSUME Init PROVE EndsWithResult
    OBVIOUS
  <2>1. ResponseInv /\ at = 1
    BY ParserInit DEF ParserInv, Init
  <2>2. Len(trailer) \in Nat /\ Len(fields) \in Nat /\ body \in Nat
    BY <2>1, LenProperties DEF ResponseInv
  <2>3. Len(Elements) = 2 * Len(fields) + body + 2 * Len(trailer) + 3
    BY <2>1, ElementsSeq
  <2> QED
    BY <2>1, <2>2, <2>3 DEF EndsWithResult
<1>2. ParserInv /\ EndsWithResult => ResultInTime
  <2> SUFFICES ASSUME ParserInv, at > HeadersAt, state = "InProgress"
               PROVE  Verdict = "Done"
    BY DEF ResultInTime, EndsWithResult
  <2>1. StatusInv /\ HeadersAt \in Nat /\ at \in Nat
    <3>1. ResponseInv /\ TypeOK
      BY DEF ParserInv
    <3>2. Len(fields) \in Nat /\ Len(Elements) \in Nat
      BY <3>1, LenProperties, ElementsSeq DEF ResponseInv
    <3> QED
      BY <3>1, <3>2 DEF ParserInv, ProgressInv, TypeOK, HeadersAt
  <2>2. at > 1 /\ ~redirect
    <3>1. ResponseInv
      BY DEF ParserInv
    <3>2. Len(fields) \in Nat
      BY <3>1, LenProperties DEF ResponseInv
    <3> QED
      BY <2>1, <3>2 DEF StatusInv, HeadersAt
  <2>3. code \in SuccessCodes
    BY <2>1, <2>2 DEF StatusInv
  <2> QED
    BY <2>3 DEF SuccessCodes, Verdict
<1>3. ParserInv /\ EndsWithResult /\ [Next]_vars => EndsWithResult'
  BY EndNext
<1> QED
  BY <1>1, <1>2, <1>3, ParserCorrect, PTL DEF Spec
===============================================================================
