----------------------------- MODULE HttpStream -----------------------------
(***************************************************************************)
(* The HTTP side of a server connection: requests that arrive in pieces,   *)
(* HttpPacketStreamer::getPacketInfo that cuts them, the decode() of an    *)
(* HttpRequestPacket, and the HttpResponsePacket that a handler fills in.  *)
(* The unit of the stream is a token; of "GET " and of the line ends the   *)
(* parts are units, because a read may end between them.                   *)
(***************************************************************************)
EXTENDS Integers, Sequences, FiniteSets, SequencesExt

CONSTANTS
  Requests,    \* what a client can send: records of method, path and headers
  MaxRequests, \* bound of the requests on a connection
  MaxPiece,    \* the most units that one read gets, if it does not get all
  HeaderNames, \* what a handler can give to setHeader()
  MaxHeaders   \* bound of the calls of setHeader()

VARIABLES
  requests,    \* ghost: the requests that were sent
  onTheWay,    \* the units of them that have not been read
  httpInput,   \* _input
  taken,       \* ghost: the packets given to the handler
  isBroken,    \* the connection was closed for what it sent
  response     \* the packet that a handler fills in

httpVars == <<requests, onTheWay, httpInput, taken, isBroken, response>>

CRLF == <<"\r", "\n">>
NoName == <<>>

\* The members as the constructor leaves them.
newResponse == [status |-> TRUE, statusMessage |-> "", isKeepAlive |-> FALSE, headers |-> <<>>, body |-> <<>>]

HttpTypeOK ==
  /\ requests \in Seq(Requests) /\ isBroken \in BOOLEAN
  /\ \A r \in ToSet(taken) : DOMAIN r = {"query", "isKeepAlive", "headers"}
  /\ DOMAIN response = DOMAIN newResponse

HttpInit ==
  /\ requests = <<>> /\ onTheWay = <<>> /\ httpInput = <<>> /\ taken = <<>>
  /\ isBroken = FALSE /\ response = newResponse

-----------------------------------------------------------------------------
(* The client and the read *)

headerLines(hs) == FlattenSeq([i \in 1..Len(hs) |-> <<hs[i][1], ":", " ">> \o hs[i][2] \o CRLF])
written(r) == <<r.method, " ">> \o r.path \o <<" ", "HTTP/1.1">> \o CRLF \o headerLines(r.headers) \o CRLF

sendRequest(r) ==
  /\ Len(requests) < MaxRequests /\ requests' = Append(requests, r) /\ onTheWay' = onTheWay \o written(r)
  /\ UNCHANGED <<httpInput, taken, isBroken, response>>

\* getPacketInfo(): broken, or the length of the request, or 0 for more input. The
\* prefix is compared as far as it has arrived.
isGet(input) == IsPrefix(SubSeq(input, 1, IF Len(input) < 2 THEN Len(input) ELSE 2), <<"GET", " ">>)
endings(input) == {i \in 1..Len(input) - 3 : SubSeq(input, i, i + 3) = CRLF \o CRLF}
\* Seeded fault: the search finds the last end in the input.
requestLenLast(input) == IF endings(input) = {} THEN 0 ELSE (CHOOSE i \in endings(input) : \A j \in endings(input) : j <= i) + 3
requestLen(input) == IF endings(input) = {} THEN 0 ELSE (CHOOSE i \in endings(input) : \A j \in endings(input) : i <= j) + 3
httpBroken == httpInput # <<>> /\ ~isGet(httpInput)
httpReady == ~httpBroken /\ requestLen(httpInput) > 0

readHttp(n) ==
  /\ ~isBroken /\ ~httpBroken /\ ~httpReady /\ n <= Len(onTheWay)
  /\ httpInput' = httpInput \o SubSeq(onTheWay, 1, n) /\ onTheWay' = SubSeq(onTheWay, n + 1, Len(onTheWay))
  /\ UNCHANGED <<requests, taken, isBroken, response>>

-----------------------------------------------------------------------------
(* decode() of a request *)

\* A C string: what is in front of the first NUL.
cString(str) == IF Contains(str, "NUL") THEN SubSeq(str, 1, SelectInSeq(str, LAMBDA c : c = "NUL") - 1) ELSE str
withoutBlanks(str) ==
  LET starts == {i \in 1..Len(str) : str[i] # " "}
  IN IF starts = {} THEN <<>> ELSE SubSeq(str, CHOOSE i \in starts : \A j \in starts : i <= j, Len(str))

\* The end of a line: the query, or a header below the name that was found last.
lineEnds(d) ==
  LET value == withoutBlanks(cString(d.value))
      next == [d EXCEPT !.value = <<>>, !.line = @ + 1, !.first = TRUE, !.skip = TRUE]
  IN IF d.line > 0 /\ d.value = <<>> THEN [d EXCEPT !.over = TRUE]
     ELSE IF d.line = 0 THEN [next EXCEPT !.query = value]
     ELSE IF d.name = <<"Connection">> /\ value = <<"Keep-Alive">> THEN [next EXCEPT !.isKeepAlive = TRUE]
     ELSE [next EXCEPT !.headers = [n \in DOMAIN @ \cup {d.name} |-> IF n = d.name THEN value ELSE @[n]]]

\* One round of the loop over the input; the "\n" of a line end is passed over.
decodeOne(d, c) ==
  CASE d.over -> d
    [] d.skip -> [d EXCEPT !.skip = FALSE]
    [] c = "\r" -> lineEnds(d)
    [] c = " " /\ d.line = 0 /\ d.method -> [d EXCEPT !.value = Append(@, "NUL")]
    [] c = " " /\ d.line = 0 /\ d.value = <<"GET">> -> [d EXCEPT !.method = TRUE, !.value = <<>>]
    [] c = ":" /\ d.first -> [d EXCEPT !.name = d.value, !.value = <<>>, !.first = FALSE]
    [] OTHER -> [d EXCEPT !.value = Append(@, c)]

decodeHttp(input) ==
  LET start == [value |-> <<>>, line |-> 0, first |-> TRUE, skip |-> FALSE, over |-> FALSE, method |-> FALSE,
                name |-> NoName, query |-> <<>>, isKeepAlive |-> FALSE, headers |-> [n \in {} |-> <<>>]]
      d == FoldLeft(decodeOne, start, input)
  IN [query |-> d.query, isKeepAlive |-> d.isKeepAlive, headers |-> d.headers]

\* One round of the loop of readData(): a request is cut off and handled, or the
\* connection is closed.
takeRequest ==
  /\ ~isBroken /\ httpReady
  /\ taken' = Append(taken, decodeHttp(SubSeq(httpInput, 1, requestLen(httpInput))))
  /\ httpInput' = SubSeq(httpInput, requestLen(httpInput) + 1, Len(httpInput))
  /\ UNCHANGED <<requests, onTheWay, isBroken, response>>
closeHttp ==
  /\ ~isBroken /\ httpBroken /\ isBroken' = TRUE
  /\ UNCHANGED <<requests, onTheWay, httpInput, taken, response>>

-----------------------------------------------------------------------------
(* The response *)

\* setHeader() passes over what encode() writes itself.
ownHeaders == {"Connection", "Content-Length"}
setHeader(name) ==
  /\ Len(response.headers) < MaxHeaders
  /\ response' = IF name \in ownHeaders \/ name \in ToSet(response.headers) THEN response
                 ELSE [response EXCEPT !.headers = Append(@, name)]
setResponse(r) ==
  \/ \E ok \in BOOLEAN, message \in {"", "message"} : response' = [r EXCEPT !.status = ok, !.statusMessage = message]
  \/ \E bodyLen \in {1, 2} : response' = [r EXCEPT !.body = [i \in 1..bodyLen |-> "byte"]]
  \/ \E keepAlive \in BOOLEAN : response' = [r EXCEPT !.isKeepAlive = keepAlive]
fillIn ==
  /\ (\E name \in HeaderNames : setHeader(name)) \/ setResponse(response)
  /\ UNCHANGED <<requests, onTheWay, httpInput, taken, isBroken>>

\* encode(): the status line, the headers by name, the empty line and the body.
encodeResponse(r) ==
  << <<"status", IF r.statusMessage # "" THEN r.statusMessage ELSE IF r.status THEN "200" ELSE "404">>,
     <<"Connection", IF r.isKeepAlive THEN "Keep-Alive" ELSE "close">> >>
    \o (IF "Content-Type" \in ToSet(r.headers) THEN <<>> ELSE << <<"Content-Type", "text/html">> >>)
    \o << <<"Content-Length", Len(r.body)>> >>
    \o [i \in 1..Len(r.headers) |-> <<r.headers[i], "value">>]
    \o << <<>> >> \o [i \in 1..Len(r.body) |-> <<r.body[i]>>]

HttpNext ==
  \/ \E r \in Requests : sendRequest(r)
  \/ \E n \in ((1..MaxPiece) \cup {Len(onTheWay)}) \ {0} : readHttp(n)
  \/ takeRequest \/ closeHttp \/ fillIn

-----------------------------------------------------------------------------
(* Properties *)

isKeep(h) == h[1] = "Connection" /\ h[2] = <<"Keep-Alive">>
\* A request as its client meant it.
meant(r) ==
  LET others == {i \in 1..Len(r.headers) : ~isKeep(r.headers[i])}
      names == {<<r.headers[i][1]>> : i \in others}
      lastOf(n) == CHOOSE i \in others : <<r.headers[i][1]>> = n /\ \A j \in others : <<r.headers[j][1]>> = n => j <= i
  IN [query |-> r.path, isKeepAlive |-> \E i \in 1..Len(r.headers) : isKeep(r.headers[i]),
      headers |-> [n \in names |-> r.headers[lastOf(n)][2]]]

\* However a stream of requests is cut up, the handler gets them one by one, in their
\* order and as they were meant, up to the first that is no GET, which closes the
\* connection. A ":" in the path is taken for that of a header, so that such a query
\* loses what is in front of it (httppacketstreamer.cpp:38-58, httprequestpacket.cpp:49-96).
RequestsAreCut ==
  /\ Len(taken) <= Len(requests)
  /\ \A i \in 1..Len(taken) : ":" \in ToSet(requests[i].path) \/ taken[i] = meant(requests[i])
  /\ isBroken => requests[Len(taken) + 1].method # "GET"
  /\ onTheWay = <<>> /\ httpInput = <<>> => Len(taken) = Len(requests)

\* Whatever a handler sets, a response has one header of each kind that tells the client
\* how to go on, and its Content-Length is that of the body behind the empty line
\* (httpresponsepacket.cpp:47-84, :96-103).
ResponseIsFramed ==
  LET encoded == encodeResponse(response)
      named(n) == {i \in 2..Len(encoded) : encoded[i] # <<>> /\ encoded[i][1] = n}
      empty == CHOOSE i \in 1..Len(encoded) : encoded[i] = <<>>
  IN \A n \in {"Connection", "Content-Type", "Content-Length"} :
       /\ Cardinality(named(n)) = 1
       /\ \A i \in named(n) : i < empty /\ (n = "Content-Length" => encoded[i][2] = Len(encoded) - empty)
=============================================================================
