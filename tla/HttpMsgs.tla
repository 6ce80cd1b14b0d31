------------------------------ MODULE HttpMsgs ------------------------------
(***************************************************************************)
(* URLs, header fields, requests and responses as the wrappers of Traffic  *)
(* Server's messages change them.                                          *)
(* Source: ts_util.cc, ts_util.h.                                          *)
(*                                                                         *)
(* A message is a record with "valid" false while the transaction has no   *)
(* such message.  Every part of a URL but the port is a text.              *)
(***************************************************************************)
EXTENDS Queries

CONSTANT UrlText   \* the texts that are URLs, each with the URL it is parsed to

\* in_port_t is 16 bits wide.
MaxPort == 65535
AsPort(n) == n % (MaxPort + 1)

Url == [valid : {TRUE}, scheme : Text, host : Text, port : 0 .. MaxPort, path : Text,
        query : Text, fragment : Text]
Field == [name : Token, value : Text]
Request == [valid : {TRUE}, method : Text, url : Url, fields : Seq(Field)]

NoUrl == [valid |-> FALSE]
NoMessage == [valid |-> FALSE, url |-> NoUrl, fields |-> <<>>]
Response == [valid : {TRUE}, url : {NoUrl}, fields : Seq(Field), status : Nat, reason : Text]

ASSUME UrlAssumption == \A text \in DOMAIN UrlText : UrlText[text] \in Url

-----------------------------------------------------------------------------
(* Locations: "host:port".                                                 *)

Colon(text) == SelectInSeq(text, LAMBDA token : token = ":")
Head0(text) == IF Colon(text) = 0 THEN text ELSE SubSeq(text, 1, Colon(text) - 1)
Tail0(text) == IF Colon(text) = 0 THEN <<>> ELSE SubSeq(text, Colon(text) + 1, Len(text))

\* swoc::IPEndpoint::tokenize: the host, the digits after the colon, and if that is all.
HostToken(text) == Head0(text)
PortToken(text) == IF IsNumber(Tail0(text)) THEN Tail0(text) ELSE <<>>
Tokenizes(text) == HostToken(text) # <<>>
AllTokens(text) == Tokenizes(text) /\ (Colon(text) = 0 \/ IsNumber(Tail0(text)))
PortOfToken(digits) == IF digits = <<>> THEN 0 ELSE Numeral[digits[1]]

WithPort(host, digits) == IF digits = <<>> THEN host ELSE host \o <<":">> \o digits

-----------------------------------------------------------------------------
(* URLs.                                                                   *)

\* Without a port of its own a URL has the one of its scheme.
CanonicalPort(scheme) == IF scheme = <<"https">> THEN 443 ELSE 80

UrlPort(url) ==
  IF ~ url.valid THEN 0 ELSE IF url.port # 0 THEN url.port ELSE CanonicalPort(url.scheme)

is_port_canonical(scheme, port) ==
  (scheme = <<"http">> /\ port = 80) \/ (scheme = <<"https">> /\ port = 443)

host_set(url, host) == [url EXCEPT !.host = host]
port_set(url, port) == [url EXCEPT !.port = AsPort(port)]

write_full(url) ==
  (IF url.scheme = <<>> THEN <<>> ELSE url.scheme \o <<"://">>)
    \o WithPort(url.host, IF url.port = 0 THEN <<>> ELSE Digits(url.port))
    \o <<"/">> \o url.path
    \o (IF url.query = <<>> THEN <<>> ELSE <<"?">> \o url.query)
    \o (IF url.fragment = <<>> THEN <<>> ELSE <<"#">> \o url.fragment)

\* What URLLocation prints.
UrlLocation(url) ==
  IF url.host = <<>> THEN <<>>
  ELSE IF is_port_canonical(url.scheme, UrlPort(url)) THEN url.host
  ELSE WithPort(url.host, Digits(UrlPort(url)))

-----------------------------------------------------------------------------
(* Fields: a sequence in which a name can occur more than once.            *)

Named(fields, name) == {i \in DOMAIN fields : fields[i].name = name}
HasField(fields, name) == Named(fields, name) # {}
FirstField(fields, name) == Min(Named(fields, name))
FieldValue(fields, name) == fields[FirstField(fields, name)].value

\* The elements of a sequence at some positions, in their order.
Picked(seq, at) ==
  [i \in 1 .. Cardinality(at) |-> seq[CHOOSE p \in at : Cardinality({q \in at : q <= p}) = i]]

FieldValues(fields, name) ==
  LET named == Picked(fields, Named(fields, name)) IN [i \in DOMAIN named |-> named[i].value]

field_create(fields, name, text) == Append(fields, [name |-> name, value |-> text])
assign(fields, i, text) == [fields EXCEPT ![i].value = text]

field_obtain(fields, name, text) ==
  IF HasField(fields, name) THEN assign(fields, FirstField(fields, name), text)
  ELSE field_create(fields, name, text)

-----------------------------------------------------------------------------
(* Requests.                                                               *)

\* The host of the URL, if it has none that of the Host field.
RequestHost(req) ==
  IF req.url.host # <<>> THEN req.url.host
  ELSE IF HasField(req.fields, "Host") /\ Tokenizes(FieldValue(req.fields, "Host"))
  THEN HostToken(FieldValue(req.fields, "Host")) ELSE <<>>

\* HttpRequest::host_set: the URL if it has a host, and the Host field, keeping its port.
HostFieldFor(text, host) == IF Tokenizes(text) THEN WithPort(host, PortToken(text)) ELSE host

RequestHostSet_UrlOnly(req, host) ==
  IF req.url.host # <<>> THEN [req EXCEPT !.url = host_set(@, host)]
  ELSE [req EXCEPT !.fields = field_obtain(@, "Host", host)]

RequestHostSet(req, host) ==
  LET fields == IF HasField(req.fields, "Host")
                THEN field_obtain(req.fields, "Host", HostFieldFor(FieldValue(req.fields, "Host"), host))
                ELSE IF req.url.host = <<>> THEN field_create(req.fields, "Host", host)
                ELSE req.fields
  IN [req EXCEPT !.url = IF @.host # <<>> THEN host_set(@, host) ELSE @, !.fields = fields]

\* HttpRequest::port_set: the buffer for the Host field has no room for digits,
\* max_digits10 of an integral type is 0.
RequestPortSet(req, port) ==
  LET text == FieldValue(req.fields, "Host")
  IN [req EXCEPT !.url = IF @.host # <<>> THEN port_set(@, port) ELSE @,
                 !.fields = IF HasField(@, "Host") /\ Tokenizes(text)
                            THEN field_obtain(@, "Host",
                                   HostToken(text) \o (IF AsPort(port) > 0 THEN <<":">> ELSE <<>>))
                            ELSE @]

url_set(req, text) == IF text \in DOMAIN UrlText THEN [req EXCEPT !.url = UrlText[text]] ELSE req

=============================================================================
