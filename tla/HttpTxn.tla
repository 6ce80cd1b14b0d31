------------------------------- MODULE HttpTxn -------------------------------
(***************************************************************************)
(* A transaction from the request of the user agent to the response to it: *)
(* what Traffic Server does between the hooks, any directives at them, and *)
(* what the directives promise.                                            *)
(***************************************************************************)
EXTENDS HttpDirectives

CONSTANTS
  Requests,      \* the requests a user agent can send
  Responses,     \* what upstream can answer
  DefaultAddr, LocalAddr

ASSUME TrafficAssumption ==
  /\ Requests \subseteq Request /\ Responses \subseteq Response
  /\ DefaultAddr \in Nat /\ LocalAddr \in Nat

Answer(status, reason) ==
  [valid |-> TRUE, url |-> NoUrl, fields |-> <<>>, status |-> status, reason |-> reason]

Init ==
  /\ hook = "CREQ"
  /\ \E req \in Requests : msgs = [ua |-> req, preq |-> NoMessage, ursp |-> NoMessage, prsp |-> NoMessage]
  /\ pristine = NoUrl /\ conn = [count |-> 0]
  /\ out = NoSettings /\ reply = NoReply /\ asked = NothingAsked
  /\ did = NothingDone /\ end = "none" /\ count = 0

-----------------------------------------------------------------------------
(* Traffic Server.                                                         *)

Advance(from, to) ==
  /\ Running /\ hook = from /\ hook' = to
  /\ end' = "none" /\ did' = NothingDone
  /\ UNCHANGED <<out, reply, asked, count>>

ToPreRemap == Advance("CREQ", "PRE_REMAP") /\ UNCHANGED <<msgs, pristine, conn>>

\* The URL is kept before it is remapped.
ToRemap == Advance("PRE_REMAP", "REMAP") /\ pristine' = UaUrl /\ UNCHANGED <<msgs, conn>>

ToPostRemap == Advance("REMAP", "POST_REMAP") /\ UNCHANGED <<msgs, pristine, conn>>

\* The request to upstream is a copy; the host of its URL can move to the Host field.
Moved(req) == [req EXCEPT !.url.host = <<>>, !.url.port = 0]

ToUpstream ==
  /\ reply.status = 0
  /\ Advance("POST_REMAP", "PREQ")
  /\ \E req \in {msgs.ua, Moved(msgs.ua)} : msgs' = [msgs EXCEPT !.preq = req]
  /\ conn' = [count |-> 1, local |-> LocalAddr,
              remote |-> IF out.addr = NO_VALUE THEN DefaultAddr ELSE Val(out.addr)]
  /\ UNCHANGED pristine

ToResponse ==
  /\ Advance("PREQ", "URSP")
  /\ \E rsp \in Responses : msgs' = [msgs EXCEPT !.ursp = rsp]
  /\ UNCHANGED <<pristine, conn>>

ToUserAgent ==
  /\ Advance("URSP", "PRSP")
  /\ msgs' = [msgs EXCEPT !.prsp = msgs.ursp]
  /\ UNCHANGED <<pristine, conn>>

\* A status that was set is answered without upstream.
ToReply ==
  /\ reply.status # 0
  /\ Advance("POST_REMAP", "PRSP")
  /\ msgs' = [msgs EXCEPT !.prsp = Answer(reply.status, <<"standard">>)]
  /\ UNCHANGED <<pristine, conn>>

\* The callbacks of a hook run after its directives.
ToFixups == Advance("PRSP", "FIXUP") /\ UNCHANGED <<msgs, pristine, conn>>
ToDone == reply.fixups = <<>> /\ Advance("FIXUP", "DONE") /\ UNCHANGED <<msgs, pristine, conn>>

TrafficServer ==
  \/ ToPreRemap \/ ToRemap \/ ToPostRemap \/ ToUpstream \/ ToResponse
  \/ ToUserAgent \/ ToReply \/ ToFixups \/ RunFixup \/ ToDone

-----------------------------------------------------------------------------
(* The directives a configuration can have.                                *)

OnHosts ==
  \/ \E v \in HostArg :
       \/ Do_ua_req_url_host(v) \/ Do_proxy_req_url_host(v)
       \/ Do_ua_req_host(v) \/ Do_proxy_req_host(v)
  \/ \E v \in PortArg :
       \/ Do_ua_req_url_port(v) \/ Do_proxy_req_url_port(v)
       \/ Do_ua_req_port(v) \/ Do_proxy_req_port(v)
  \/ \E v \in LocArg :
       \/ Do_ua_req_url_loc(v) \/ Do_proxy_req_url_loc(v)
       \/ Do_ua_req_loc(v) \/ Do_proxy_req_loc(v)

OnUrls ==
  \/ \E v \in TextArg :
       \/ Do_ua_req_scheme(v) \/ Do_proxy_req_scheme(v)
       \/ Do_ua_req_path(v) \/ Do_proxy_req_path(v)
       \/ Do_ua_req_fragment(v) \/ Do_proxy_req_fragment(v)
  \/ \E v \in UrlArg : Do_ua_req_url(v) \/ Do_proxy_req_url(v)
  \/ \E v \in QueryArg : Do_ua_req_query(v) \/ Do_proxy_req_query(v)
  \/ \E name \in QueryName, v \in ValueArg :
       Do_ua_req_query_value(name, v) \/ Do_proxy_req_query_value(name, v)
  \/ Do_apply_remap_rule \/ Do_remap_redirect
  \/ \E v \in FlagArg : Do_did_remap(v)

OnFields ==
  \E name \in FieldName, v \in FieldArg :
    \/ Do_ua_req_field(name, v) \/ Do_proxy_req_field(name, v)
    \/ Do_proxy_rsp_field(name, v) \/ Do_upstream_rsp_field(name, v)

OnResponses ==
  \/ \E v \in StatusArg : Do_upstream_rsp_status(v) \/ Do_proxy_rsp_status(v)
  \/ \E v \in TextArg : Do_upstream_reason(v) \/ Do_proxy_rsp_reason(v)
  \/ \E v \in BodyArg : Do_proxy_rsp_body(v) \/ Do_upstream_rsp_body(v)

Replies ==
  \/ \E r \in ReplyArg : Do_proxy_reply(r[1], r[2], r[3])
  \/ \E r \in RedirectArg : Do_redirect(r[1], r[2], r[3], r[4])

Settings ==
  \/ \E v \in FlagArg : Do_txn_debug(v) \/ Do_txn_error(v)
  \/ \E v \in TextArg :
       Do_debug(v) \/ Do_error(v) \/ Do_note(v) \/ Do_warning(v) \/ Do_cache_key(v) \/ Do_var(v)
  \/ \E type \in {"INTEGER", "STRING"}, v \in FlagArg \union TextArg : Do_txn_conf(type, v)
  \/ Do_upstream_addr(Addr(LocalAddr))

Next == TrafficServer \/ OnHosts \/ OnUrls \/ OnFields \/ OnResponses \/ Replies \/ Settings

Spec == Init /\ [][Next]_httpVars

-----------------------------------------------------------------------------
(* Properties.                                                             *)

Done(names) == did' # NothingDone /\ count' = count + 1 /\ did'.name \in names

\* The message a directive is about, if it is about one.
OfUa ==
  {"ua-req-url-host", "ua-req-url-port", "ua-req-url-loc", "ua-req-host", "ua-req-port", "ua-req-loc", "ua-req-scheme",
   "ua-req-url", "ua-req-path", "ua-req-fragment", "ua-req-query", "ua-req-query-value", "ua-req-field",
   "apply-remap-rule", "proxy-req-query"}
OfPreq ==
  {"proxy-req-url-host", "proxy-req-url-port", "proxy-req-url-loc", "proxy-req-host", "proxy-req-port",
   "proxy-req-loc", "proxy-req-scheme", "proxy-req-url", "proxy-req-path", "proxy-req-fragment",
   "proxy-req-query-value", "proxy-req-field"}
OfUrsp == {"upstream-rsp-field", "upstream-rsp-status", "upstream-reason", "upstream-rsp-body"}
OfPrsp == {"proxy-rsp-field", "proxy-rsp-status", "proxy-rsp-reason"}

About(name) ==
  CASE name \in OfUa -> "ua"
    [] name \in OfPreq -> "preq"
    [] name \in OfUrsp -> "ursp"
    [] name \in OfPrsp -> "prsp"
    [] OTHER -> "none"

\* What the extractors of each message give, those of the URL before the remap, of the
\* remap rule and of the connection.  proxy-req-loc is one of the user agent's, and so
\* are the three of query values.
Seen(what) ==
  CASE what = "ua" ->
         <<Ex_ua_req_method, Ex_ua_req_url, Ex_ua_req_scheme, Ex_ua_req_loc, Ex_proxy_req_loc, Ex_ua_req_host,
           Ex_ua_req_port, Ex_ua_req_path, Ex_ua_req_fragment, Ex_ua_req_url_loc, Ex_ua_req_url_host,
           Ex_ua_req_url_port, Ex_ua_req_query, [name \in FieldName |-> Ex_ua_req_field(name)],
           [name \in QueryName |-> <<Ex_ua_req_query_value(name), Ex_pre_remap_req_query_value(name),
                                    Ex_proxy_req_query_value(name)>>]>>
    [] what = "preq" ->
         <<Ex_proxy_req_method, Ex_proxy_req_url, Ex_proxy_req_scheme, Ex_proxy_req_host, Ex_proxy_req_port,
           Ex_proxy_req_path, Ex_proxy_req_fragment, Ex_proxy_req_url_loc, Ex_proxy_req_url_host,
           Ex_proxy_req_url_port, Ex_proxy_req_query, [name \in FieldName |-> Ex_proxy_req_field(name)]>>
    [] what = "ursp" ->
         <<Ex_upstream_rsp_status, Ex_upstream_rsp_status_reason,
           [name \in FieldName |-> Ex_upstream_rsp_field(name)]>>
    [] what = "prsp" ->
         <<Ex_proxy_rsp_status, Ex_proxy_rsp_status_reason, [name \in FieldName |-> Ex_proxy_rsp_field(name)]>>
    [] what = "pre-remap" ->
         <<Ex_pre_remap_url, Ex_pre_remap_scheme, Ex_pre_remap_host, Ex_pre_remap_path, Ex_pre_remap_fragment,
           Ex_pre_remap_loc, Ex_pre_remap_port, Ex_pre_remap_query>>
    [] what = "rule" ->
         <<Ex_remap_target_url, Ex_remap_target_scheme, Ex_remap_target_host, Ex_remap_target_path,
           Ex_remap_target_loc, Ex_remap_target_port, Ex_remap_replacement_url, Ex_remap_replacement_scheme,
           Ex_remap_replacement_host, Ex_remap_replacement_path, Ex_remap_replacement_loc,
           Ex_remap_replacement_port>>
    [] what = "conn" -> <<Ex_outbound_txn_count, Ex_outbound_addr_remote, Ex_outbound_addr_local>>

\* The extractor of the name of a directive; proxy-req-query has its own message.
ReadBack(name) ==
  CASE name = "ua-req-scheme" -> Ex_ua_req_scheme
    [] name = "ua-req-host" -> Ex_ua_req_host
    [] name = "ua-req-path" -> Ex_ua_req_path
    [] name = "ua-req-fragment" -> Ex_ua_req_fragment
    [] name = "ua-req-query" -> Ex_ua_req_query
    [] name = "ua-req-url-host" -> Ex_ua_req_url_host
    [] name = "proxy-req-scheme" -> Ex_proxy_req_scheme
    [] name = "proxy-req-host" -> Ex_proxy_req_host
    [] name = "proxy-req-path" -> Ex_proxy_req_path
    [] name = "proxy-req-fragment" -> Ex_proxy_req_fragment
    [] name = "proxy-req-url-host" -> Ex_proxy_req_url_host
    [] name = "upstream-reason" -> Ex_upstream_rsp_status_reason
    [] name = "proxy-rsp-reason" -> Ex_proxy_rsp_status_reason

ReadNames ==
  {"ua-req-scheme", "ua-req-host", "ua-req-path", "ua-req-fragment", "ua-req-query", "ua-req-url-host",
   "proxy-req-scheme", "proxy-req-host", "proxy-req-path", "proxy-req-fragment", "proxy-req-url-host",
   "upstream-reason", "proxy-rsp-reason"}

\* Assumed by theorems, and true in the instances: the hosts that are given have no port
\* with them, nor has the host of a tuple for a location.  A host "a:80" put in the Host
\* field would be read as the host a.
PlainHosts == \A v \in HostArg : Is(v, "STRING") => Colon(Val(v)) = 0
PlainLocs ==
  \A v \in LocArg : Is(v, "TUPLE") /\ Val(v) # <<>> /\ Is(Val(v)[1], "STRING") => Colon(Val(Val(v)[1])) = 0

\* What a directive sets in a message is what the extractor of its name gives after it,
\* and no extractor of another message, of the URL before the remap once that is kept,
\* of the remap rule or of the connection gives anything else than before: each of the
\* four messages has its own directives and extractors, made from one pattern.
\* (proxy-req-query, which sets the query of the user agent, counts as the latter's, and
\* so do pre-remap-req-query-value and proxy-req-query-value, which read it.)
OwnMessage ==
  [][Done(OfUa \union OfPreq \union OfUrsp \union OfPrsp) /\ msgs' # msgs =>
       /\ \A what \in {"ua", "preq", "ursp", "prsp", "pre-remap", "rule", "conn"} \ {About(did'.name)} :
            (what = "pre-remap" => pristine.valid) => Seen(what)' = Seen(what)
       /\ \A name \in ReadNames :
            did'.name = name /\ msgs[About(name)].valid /\ Is(did'.value, "STRING") /\ end' = "ok"
              => ReadBack(name)' = did'.value]_httpVars

\* The host that a value gives to a request, <<>> if it is none.
HostGiven(name, v) ==
  CASE name \in {"ua-req-host", "proxy-req-host"} /\ Is(v, "STRING") -> Val(v)
    [] name \in {"ua-req-loc", "proxy-req-loc"} /\ Is(v, "STRING") -> Loc_String_Parse(Val(v)).host
    [] name \in {"ua-req-loc", "proxy-req-loc"} /\ Is(v, "TUPLE") ->
         IF LocOfTuple(Val(v), 0).port >= 0 THEN LocOfTuple(Val(v), 0).host ELSE <<>>
    [] OTHER -> <<>>

HostsAgree(req) ==
  req.url.host # <<>> /\ HasField(req.fields, "Host") =>
    Tokenizes(FieldValue(req.fields, "Host")) /\ HostToken(FieldValue(req.fields, "Host")) = req.url.host

\* A request has its host in two places.  A directive on the host, the port or the
\* location of a request leaves both with the same host if they had that before, the
\* request then has the host that was given, and the port has no effect on the host.
\* (HttpRequest::host_set, port_set and Req_Loc_Set; the port that is lost on the
\* way to the Host field, and a tuple whose port is no number, are not in this.)
RequestWhole ==
  [][Done({"ua-req-host", "proxy-req-host", "ua-req-port", "proxy-req-port", "ua-req-loc", "proxy-req-loc"})
       /\ end' = "ok" /\ msgs[About(did'.name)].valid =>
     LET before == msgs[About(did'.name)]
         after == msgs'[About(did'.name)]
         host == HostGiven(did'.name, did'.value)
     IN /\ host # <<>> => RequestHost(after) = host
        /\ did'.name \in {"ua-req-port", "proxy-req-port"} => RequestHost(after) = RequestHost(before)
        /\ HostsAgree(before) /\ (host # <<>> \/ did'.name \in {"ua-req-port", "proxy-req-port"}) =>
             HostsAgree(after)]_httpVars

CountName(q, name) == Cardinality({p \in Elements(q) : NoCase(q[p]) = NoCase(name)})

\* What QueryValueExtractor makes of the query of a message.  For the user agent's that is
\* what each of the three extractors gives; no name of an extractor is for the query of the
\* proxy request.
ValueSeen(which, name) == query_value(Query(msgs[which].url), name)

\* Assumed by a theorem, and true in the instances: names and values of queries are texts
\* without separators.  The code does not look at that: a value "1&k=2" would be two elements.
PlainQuery ==
  /\ QueryName \intersect Separators = {}
  /\ \A v \in ValueArg : is_nil(v) \/ (Is(v, "STRING") /\ \A i \in DOMAIN Val(v) : Val(v)[i] \notin Separators)

\* To set a value of a query gives the name that value, to remove one that is there
\* takes its first element away and no other, and either leaves the values of other
\* names as they were: QueryValueExtractor finds just that in the query of the message,
\* though for the proxy request upstream can read it, but no extractor
\* (query_value_update with its separators, and ts::query_value_for).
QueryKept ==
  [][\A which \in {"ua", "preq"} :
       Done({"ua-req-query-value", "proxy-req-query-value"}) /\ About(did'.name) = which /\ end' = "error"
         /\ msgs[which].valid =>
       LET name == did'.value[1]
           v == did'.value[2]
           before == msgs[which].url.query
       IN (is_nil(v) => FindName(before, name, TRUE) # 0) =>
          /\ IF is_nil(v) THEN CountName(msgs'[which].url.query, name) = CountName(before, name) - 1
             ELSE \A n \in QueryName :
                    n = name => ValueSeen(which, n)' \in {v, IF v = Str(<<>>) THEN NIL_FEATURE ELSE v}
          /\ \A n \in QueryName :
               NoCase(n) # NoCase(name) => ValueSeen(which, n)' = ValueSeen(which, n)]_httpVars

Wanted(v) ==
  IF Is(v, "TUPLE") THEN [i \in DOMAIN Val(v) |-> join(Val(v)[i], <<",">>)]
  ELSE IF is_nil(v) THEN <<>> ELSE <<Format(v)>>

\* The fields of other names, in their order.
Others(fields, name) == Picked(fields, DOMAIN fields \ Named(fields, name))

Times(values, text) == Cardinality({i \in DOMAIN values : values[i] = text})

\* A field directive that ends leaves the field with the values it was given, as
\* many times as they were given, whatever duplicates there were; and no other field
\* is changed (FieldDirective::apply with its search for the duplicates to keep).
FieldsAsAsked ==
  [][Done({"ua-req-field", "proxy-req-field", "proxy-rsp-field", "upstream-rsp-field"}) /\ end' = "ok" =>
     LET name == did'.value[1]
         wanted == Wanted(did'.value[2])
         before == msgs[About(did'.name)].fields
         after == msgs'[About(did'.name)].fields
         values == FieldValues(after, name)
     IN /\ Len(values) = Len(wanted)
        /\ \A i \in DOMAIN wanted : Times(values, wanted[i]) = Times(wanted, wanted[i])
        /\ Others(after, name) = Others(before, name)]_httpVars

\* The response a user agent gets has the location of the last redirect and the last
\* reason that was given, although both are put in the response by a callback that is
\* scheduled only once, and a reply and a redirect each have their own (Do_proxy_reply,
\* Do_redirect, Context::on_hook_do; two reasons of both kinds are not in this).
ReplyTogether ==
  hook = "DONE" =>
    /\ asked.location # <<>> =>
         HasField(msgs.prsp.fields, "Location") /\ FieldValue(msgs.prsp.fields, "Location") = asked.location
    /\ asked.reason # <<>> /\ (reply.reason = <<>> \/ reply.moved = <<>>) => msgs.prsp.reason = asked.reason

\* Every directive ends.
NeverHung == end # "hangs"
=============================================================================
