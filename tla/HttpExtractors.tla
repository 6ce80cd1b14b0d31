--------------------------- MODULE HttpExtractors ---------------------------
(***************************************************************************)
(* The extractors of HTTP data: one definition for each, over the messages *)
(* of the transaction.  Source: Ex_HTTP.cc, the extractors of query.cc.    *)
(*                                                                         *)
(* extract and format of an extractor give the same value here.            *)
(***************************************************************************)
EXTENDS HttpMsgs

CONSTANTS
  Target, Replacement     \* the URLs of the remap rule: mapFromUrl, mapToUrl

ASSUME RuleAssumption == Target \in Url /\ Replacement \in Url

VARIABLES
  hook,       \* where the transaction is
  msgs,       \* the messages: of the user agent, to and from upstream, and back
  pristine,   \* the URL before remap; not valid before that is kept
  conn        \* the connection to upstream

\* _remap_info is there while a remap rule is run.
InRule == hook = "REMAP"

UaUrl == msgs.ua.url
ProxyUrl == msgs.preq.url
PristineUrl == IF pristine.valid THEN pristine ELSE UaUrl
TargetUrl == IF InRule THEN Target ELSE NoUrl
ReplacementUrl == IF InRule THEN Replacement ELSE NoUrl

\* NIL without a URL; or NO_VALUE, as a Feature that was not assigned is.
UrlPart(url, part) == IF url.valid THEN Str(url[part]) ELSE NIL_FEATURE
UrlFull(url) == IF url.valid THEN Str(write_full(url)) ELSE NIL_FEATURE
UrlPortNum(url) == IF url.valid THEN Num(UrlPort(url)) ELSE NO_VALUE
UrlLoc(url) == IF url.valid THEN Str(UrlLocation(url)) ELSE Str(<<>>)
HostInUrlPort(url) == IF url.valid THEN Str(url.host) ELSE Str(<<>>)

Method(m) == IF m.valid THEN Str(m.method) ELSE NIL_FEATURE
HostOf(m) == IF m.valid THEN Str(RequestHost(m)) ELSE NIL_FEATURE
LocOf(m) ==
  IF m.valid /\ HasField(m.fields, "Host") THEN Str(FieldValue(m.fields, "Host"))
  ELSE UrlLoc(m.url)

Ex_ua_req_method == Method(msgs.ua)
Ex_proxy_req_method == Method(msgs.preq)

Ex_ua_req_url == UrlFull(UaUrl)
Ex_pre_remap_url == UrlFull(PristineUrl)
Ex_remap_target_url == UrlFull(TargetUrl)
Ex_remap_replacement_url == UrlFull(ReplacementUrl)
Ex_proxy_req_url == UrlFull(ProxyUrl)

Ex_ua_req_scheme == UrlPart(UaUrl, "scheme")
Ex_pre_remap_scheme == UrlPart(PristineUrl, "scheme")
Ex_remap_target_scheme == UrlPart(TargetUrl, "scheme")
Ex_remap_replacement_scheme == UrlPart(ReplacementUrl, "scheme")
Ex_proxy_req_scheme == UrlPart(ProxyUrl, "scheme")

\* Both read the request of the user agent.
Ex_ua_req_loc == LocOf(msgs.ua)
Ex_proxy_req_loc == LocOf(msgs.ua)

Ex_ua_req_host == HostOf(msgs.ua)
Ex_proxy_req_host == HostOf(msgs.preq)
Ex_pre_remap_host == UrlPart(PristineUrl, "host")
Ex_remap_target_host == UrlPart(TargetUrl, "host")
Ex_remap_replacement_host == UrlPart(ReplacementUrl, "host")

\* The port of the URL, also if the location is in the Host field.
Ex_ua_req_port == UrlPortNum(UaUrl)
Ex_proxy_req_port == UrlPortNum(ProxyUrl)

Ex_ua_req_path == UrlPart(UaUrl, "path")
Ex_pre_remap_path == UrlPart(PristineUrl, "path")
Ex_remap_target_path == UrlPart(TargetUrl, "path")
Ex_remap_replacement_path == UrlPart(ReplacementUrl, "path")
Ex_proxy_req_path == UrlPart(ProxyUrl, "path")

Ex_ua_req_fragment == UrlPart(UaUrl, "fragment")
Ex_pre_remap_fragment == UrlPart(PristineUrl, "fragment")
Ex_proxy_req_fragment == UrlPart(ProxyUrl, "fragment")

Ex_ua_req_url_loc == UrlLoc(UaUrl)
Ex_proxy_req_url_loc == UrlLoc(ProxyUrl)
Ex_pre_remap_loc == UrlLoc(PristineUrl)
Ex_remap_target_loc == UrlLoc(TargetUrl)
Ex_remap_replacement_loc == UrlLoc(ReplacementUrl)

Ex_ua_req_url_host == UrlPart(UaUrl, "host")
Ex_proxy_req_url_host == UrlPart(ProxyUrl, "host")

\* These give the host, not the port.
Ex_ua_req_url_port == HostInUrlPort(UaUrl)
Ex_proxy_req_url_port == HostInUrlPort(ProxyUrl)
Ex_pre_remap_port == UrlPortNum(PristineUrl)
Ex_remap_target_port == UrlPortNum(TargetUrl)
Ex_remap_replacement_port == UrlPortNum(ReplacementUrl)

\* A field that occurs more than once is a tuple.  (With the extensions by-field and
\* by-value, which are left out, it is nil.)
ExHttpField(m, name) ==
  LET values == FieldValues(m.fields, name)
  IN IF ~ m.valid \/ values = <<>> THEN NIL_FEATURE
     ELSE IF Len(values) = 1 THEN Str(values[1])
     ELSE Tup([i \in DOMAIN values |-> Str(values[i])])

Ex_ua_req_field(name) == ExHttpField(msgs.ua, name)
Ex_proxy_req_field(name) == ExHttpField(msgs.preq, name)
Ex_proxy_rsp_field(name) == ExHttpField(msgs.prsp, name)
Ex_upstream_rsp_field(name) == ExHttpField(msgs.ursp, name)

Status(m) == IF m.valid THEN Num(m.status) ELSE Num(0)
Reason(m) == IF m.valid THEN Str(m.reason) ELSE Str(<<>>)

Ex_upstream_rsp_status == Status(msgs.ursp)
Ex_upstream_rsp_status_reason == Reason(msgs.ursp)
Ex_proxy_rsp_status == Status(msgs.prsp)
Ex_proxy_rsp_status_reason == Reason(msgs.prsp)

Ex_outbound_txn_count == Num(conn.count)
Ex_outbound_addr_remote == IF conn.count = 0 THEN NIL_FEATURE ELSE Addr(conn.remote)
Ex_outbound_addr_local == IF conn.count = 0 THEN NIL_FEATURE ELSE Addr(conn.local)

Ex_ua_req_query == UrlPart(UaUrl, "query")
Ex_pre_remap_query == UrlPart(PristineUrl, "query")
Ex_proxy_req_query == UrlPart(ProxyUrl, "query")

\* The three names of query values are bound to one object, of the class for the query of
\* the user agent: those for the URL before the remap and for the proxy request are not used.
Query(url) == IF url.valid THEN url.query ELSE <<>>
Ex_ua_req_query_value(name) == query_value(Query(UaUrl), name)
Ex_pre_remap_req_query_value(name) == Ex_ua_req_query_value(name)
Ex_proxy_req_query_value(name) == Ex_ua_req_query_value(name)
=============================================================================
