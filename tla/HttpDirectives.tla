--------------------------- MODULE HttpDirectives ---------------------------
(***************************************************************************)
(* The directives that change the HTTP data of a transaction: an action    *)
(* for each, with the hooks it is allowed in and the values it accepts.    *)
(* Source: Machinery.cc, the directives of query.cc.                       *)
(*                                                                         *)
(* What an expression yields is chosen from the ...Arg constants.  When a  *)
(* directive loads, its expression only has to be able to give a value of  *)
(* the type needed; it can still give another one in a transaction.        *)
(***************************************************************************)
EXTENDS HttpExtractors

CONSTANTS
  HostArg, LocArg, PortArg, TextArg, UrlArg, FieldArg, StatusArg, FlagArg,
  BodyArg, QueryArg, ValueArg,   \* what expressions yield, by what it is for
  ReplyArg, RedirectArg,         \* tuples of status, reason, body; and of location
  FieldName, QueryName,          \* the arguments of directives on fields and queries
  MaxDo                          \* bound: the directives in a transaction; one more
                                 \* can follow a reply if it is one itself

\* What an expression can yield: a tuple has tuples one level down.
Plain ==
  {NO_VALUE, NIL_FEATURE} \union {"STRING"} \X Text \union {"INTEGER", "DURATION"} \X Int
    \union {"BOOLEAN"} \X BOOLEAN \union {"IP_ADDR"} \X Nat
Flat == Plain \union {"TUPLE"} \X Seq(Plain)
Feature == Flat \union {"TUPLE"} \X Seq(Flat)

ASSUME ArgAssumption ==
  /\ HostArg \union LocArg \union PortArg \union TextArg \union UrlArg \union FieldArg \subseteq Feature
  /\ StatusArg \union FlagArg \union BodyArg \union QueryArg \union ValueArg \subseteq Feature
  /\ ReplyArg \subseteq Feature \X Feature \X Feature
  /\ RedirectArg \subseteq Feature \X Feature \X Feature \X Feature
  /\ FieldName \subseteq Token /\ QueryName \subseteq Token /\ MaxDo \in Nat

VARIABLES
  out,        \* what was set in Traffic Server: see NoSettings
  reply,      \* the status set, and the state of proxy-reply and redirect
  asked,      \* history: what the replies asked for last
  did, end,   \* history: the last directive with its value, and how it ended
  count       \* the number of directives

httpVars == <<hook, msgs, pristine, conn, out, reply, asked, did, end, count>>

NoSettings ==
  [remap |-> FALSE, redirect |-> FALSE, cacheKey |-> NO_VALUE, addr |-> NO_VALUE,
   debug |-> FALSE, error |-> FALSE, log |-> "none", body |-> NO_VALUE,
   transform |-> NO_VALUE, conf |-> [type \in {"INTEGER", "STRING"} |-> NO_VALUE], var |-> NIL_FEATURE]

NoReply == [status |-> 0, reason |-> <<>>, location |-> <<>>, moved |-> <<>>, fixups |-> <<>>]

NothingDone == [name |-> "none"]
NothingAsked == [reason |-> <<>>, location |-> <<>>]

\* The hooks of directives on the request of the user agent, and of others.
UaHooks == {"CREQ", "PRE_REMAP", "REMAP", "POST_REMAP"}
LocHooks == {"PRE_REMAP", "REMAP", "POST_REMAP", "PREQ"}
TxnHook == UaHooks \union {"PREQ", "URSP", "PRSP"}

-----------------------------------------------------------------------------
(* A directive is invoked, and ends: normally, with an error that is only  *)
(* noted, with an exception that nothing catches, or not at all.           *)

Running == end \in {"none", "ok", "error"}

Enter(name, hooks, value) ==
  /\ Running /\ hook \in hooks
  /\ count' = count + 1
  /\ did' = [name |-> name, value |-> value]
  /\ UNCHANGED <<hook, pristine, conn>>

At(name, hooks, value) == count < MaxDo /\ Enter(name, hooks, value)

AtReply(name, hooks, value) ==
  /\ count < MaxDo \/ (count = MaxDo /\ reply.status # 0)
  /\ Enter(name, hooks, value)

Leave(how, m, settings) ==
  /\ end' = how /\ msgs' = m /\ out' = settings
  /\ UNCHANGED <<reply, asked>>

Skip == Leave("ok", msgs, out)
Fail == Leave("error", msgs, out)
Throw == Leave("throws", msgs, out)
Hang == Leave("hangs", msgs, out)
Change(which, m) == IF msgs[which].valid THEN Leave("ok", [msgs EXCEPT ![which] = m], out) ELSE Skip
Set(setting, value) == Leave("ok", msgs, [out EXCEPT ![setting] = value])

SetUrl(which, url) == Change(which, [msgs[which] EXCEPT !.url = url])
SetPart(which, part, text) == Change(which, [msgs[which] EXCEPT !.url[part] = text])

\* A directive that takes the text of its value without a look at the type.
SetPartOf(which, part, value) == IF Is(value, "STRING") THEN SetPart(which, part, Val(value)) ELSE Throw

-----------------------------------------------------------------------------
(* Host, port and location of a URL, and of a request.                     *)

Do_ua_req_url_host(v) ==
  /\ At("ua-req-url-host", LocHooks, v)
  /\ IF Is(v, "STRING") THEN SetPart("ua", "host", Val(v)) ELSE Skip

Do_proxy_req_url_host(v) ==
  /\ At("proxy-req-url-host", {"PREQ"}, v)
  /\ IF Is(v, "STRING") THEN SetPart("preq", "host", Val(v)) ELSE Skip

SetUrlPort(which, v) ==
  IF as_integer(v, -1) \in 1 .. MaxPort - 1
  THEN SetUrl(which, port_set(msgs[which].url, as_integer(v, -1))) ELSE Skip

Do_ua_req_url_port(v) ==
  At("ua-req-url-port", UaHooks \union {"PREQ"}, v) /\ SetUrlPort("ua", v)

Do_proxy_req_url_port(v) ==
  At("proxy-req-url-port", {"PREQ"}, v) /\ SetUrlPort("preq", v)

\* Host and port from "host:port"; port -1 if it is not of that form.
NoLoc == [host |-> <<>>, port |-> -1]

Loc_String_Parse(text) ==
  LET port == PortOfToken(PortToken(text))
  IN IF ~ AllTokens(text) \/ (PortToken(text) # <<>> /\ port \notin 1 .. MaxPort) THEN NoLoc
     ELSE [host |-> HostToken(text), port |-> port]

\* From a tuple; lone is the port if there is only a host.
LocOfTuple(t, lone) ==
  IF t = <<>> \/ ~ Is(t[1], "STRING") THEN NoLoc
  ELSE [host |-> Val(t[1]),
        port |-> IF Len(t) = 1 THEN lone ELSE IF is_empty(t[2]) THEN 0 ELSE as_integer(t[2], -1)]

URL_Loc(v) ==
  IF Is(v, "STRING") THEN Loc_String_Parse(Val(v))
  ELSE IF Is(v, "TUPLE") THEN LocOfTuple(Val(v), -1) ELSE NoLoc

URL_Loc_Set(which, v) ==
  IF URL_Loc(v).port \in 0 .. MaxPort - 1
  THEN SetUrl(which, port_set(host_set(msgs[which].url, URL_Loc(v).host), URL_Loc(v).port)) ELSE Skip

Do_ua_req_url_loc(v) == At("ua-req-url-loc", LocHooks, v) /\ URL_Loc_Set("ua", v)
Do_proxy_req_url_loc(v) == At("proxy-req-url-loc", LocHooks, v) /\ URL_Loc_Set("preq", v)

\* The texts the Host field can get: one digit of a port of five is lost if the
\* transient buffer is no longer than what is asked for.
HostTexts(loc) ==
  IF loc.port <= 0 THEN {loc.host}
  ELSE {WithPort(loc.host, Digits(loc.port))}
         \union IF loc.port > 9999 THEN {WithPort(loc.host, Digits(loc.port \div 10))} ELSE {}

Req_Loc_Set(which, v) ==
  LET isText == Is(v, "STRING") /\ Loc_String_Parse(Val(v)).port >= 0
      isTuple == Is(v, "TUPLE") /\ Val(v) # <<>> /\ Is(Val(v)[1], "STRING")
      loc == IF isText THEN Loc_String_Parse(Val(v)) ELSE LocOfTuple(Val(v), 0)
      req == msgs[which]
  IN IF ~ isText /\ ~ isTuple THEN Skip
     ELSE \E text \in IF isText THEN {Val(v)} ELSE HostTexts(loc) :
            Change(which,
              [req EXCEPT !.fields = field_obtain(@, "Host", text),
                          !.url = IF loc.port >= 0 /\ @.host # <<>>
                                  THEN port_set(host_set(@, loc.host), loc.port) ELSE @])

Do_ua_req_loc(v) == At("ua-req-loc", UaHooks, v) /\ Req_Loc_Set("ua", v)
Do_proxy_req_loc(v) == At("proxy-req-loc", {"PREQ"}, v) /\ Req_Loc_Set("preq", v)

Do_ua_req_host(v) ==
  /\ At("ua-req-host", UaHooks, v)
  /\ IF Is(v, "STRING") THEN Change("ua", RequestHostSet(msgs.ua, Val(v))) ELSE Skip

Do_proxy_req_host(v) ==
  /\ At("proxy-req-host", {"PREQ"}, v)
  /\ IF Is(v, "STRING") THEN Change("preq", RequestHostSet(msgs.preq, Val(v))) ELSE Throw

SetRequestPort(which, v) ==
  IF as_integer(v, -1) >= 0 THEN Change(which, RequestPortSet(msgs[which], as_integer(v, -1))) ELSE Skip

\* proxy-req-port is allowed only where there is no request to upstream yet.
Do_ua_req_port(v) == At("ua-req-port", UaHooks, v) /\ SetRequestPort("ua", v)
Do_proxy_req_port(v) == At("proxy-req-port", UaHooks, v) /\ SetRequestPort("preq", v)

-----------------------------------------------------------------------------
(* Other parts of a URL.                                                   *)

Do_ua_req_scheme(v) == At("ua-req-scheme", UaHooks, v) /\ SetPartOf("ua", "scheme", v)
Do_proxy_req_scheme(v) == At("proxy-req-scheme", {"PREQ"}, v) /\ SetPartOf("preq", "scheme", v)

SetWholeUrl(which, v) ==
  IF Is(v, "STRING") THEN Change(which, url_set(msgs[which], Val(v))) ELSE Throw

Do_ua_req_url(v) == At("ua-req-url", UaHooks, v) /\ SetWholeUrl("ua", v)
Do_proxy_req_url(v) == At("proxy-req-url", {"PREQ"}, v) /\ SetWholeUrl("preq", v)

Do_ua_req_path(v) ==
  /\ At("ua-req-path", UaHooks, v)
  /\ IF Is(v, "STRING") THEN SetPart("ua", "path", Val(v)) ELSE Skip

Do_proxy_req_path(v) == At("proxy-req-path", {"PREQ"}, v) /\ SetPartOf("preq", "path", v)

Do_ua_req_fragment(v) == At("ua-req-fragment", UaHooks, v) /\ SetPartOf("ua", "fragment", v)
Do_proxy_req_fragment_OfUa(v) == At("proxy-req-fragment", {"PREQ"}, v) /\ SetPartOf("ua", "fragment", v)
Do_proxy_req_fragment(v) == At("proxy-req-fragment", {"PREQ"}, v) /\ SetPartOf("preq", "fragment", v)

\* proxy-req-query changes the request of the user agent.
Do_ua_req_query(v) == At("ua-req-query", UaHooks, v) /\ SetPartOf("ua", "query", v)
Do_proxy_req_query(v) == At("proxy-req-query", {"PREQ"}, v) /\ SetPartOf("ua", "query", v)

\* The query is updated, and then an error is returned in any case.
UpdateQuery(which, name, v) ==
  IF ~ msgs[which].valid THEN Fail
  ELSE IF msgs[which].url.query = <<>> /\ Type(v) \notin {"NIL", "STRING"} THEN Throw
  ELSE Leave("error", [msgs EXCEPT ![which].url.query = query_value_update(@, name, v)], out)

Do_ua_req_query_value(name, v) ==
  At("ua-req-query-value", UaHooks, <<name, v>>) /\ UpdateQuery("ua", name, v)

Do_proxy_req_query_value(name, v) ==
  At("proxy-req-query-value", {"PREQ"}, <<name, v>>) /\ UpdateQuery("preq", name, v)

-----------------------------------------------------------------------------
(* Remap.                                                                  *)

Do_did_remap(v) ==
  /\ At("did-remap", {"REMAP"}, v)
  /\ Leave("ok", msgs, [out EXCEPT !.remap = as_bool(v)])

\* TextView::ltrim of slashes.
Slashless(path) ==
  SubSeq(path, Min({Len(path) + 1} \union {i \in DOMAIN path : path[i] # "/"}), Len(path))

\* The path of the replacement, and what the request's has beyond the target's.
MappedPath(path) ==
  Slashless(
    IF Len(path) <= Len(Target.path) THEN Replacement.path
    ELSE Replacement.path
           \o (IF Replacement.path # <<>> /\ Replacement.path[Len(Replacement.path)] # "/" THEN <<"/">> ELSE <<>>)
           \o Slashless(SubSeq(path, Len(Target.path) + 1, Len(path))))

Do_apply_remap_rule ==
  /\ At("apply-remap-rule", {"REMAP"}, NIL_FEATURE)
  /\ LET port == UrlPort(Replacement)
         mapped == msgs.ua.method # <<"CONNECT">>
         url == [msgs.ua.url EXCEPT
                   !.port = IF is_port_canonical(Replacement.scheme, port) THEN 0 ELSE port,
                   !.host = Replacement.host,
                   !.scheme = IF mapped THEN Replacement.scheme ELSE @,
                   !.path = IF mapped THEN MappedPath(@) ELSE @]
     IN Leave("ok", [msgs EXCEPT !.ua.url = url], [out EXCEPT !.remap = TRUE])

Do_remap_redirect ==
  /\ At("remap-redirect", {"REMAP"}, NIL_FEATURE)
  /\ Leave("ok", msgs, [out EXCEPT !.redirect = TRUE, !.remap = TRUE])

-----------------------------------------------------------------------------
(* Fields.  Duplicates of a field are its values, in their order.          *)

\* A tuple keeps the duplicates that match its elements in turn, creates what is
\* left of it, and drops the others.
MatchDup_Stays(values, match, text) ==
  LET found == {i \in match.at .. Len(values) : values[i] = text}
      next == IF found = {} THEN Len(values) + 1 ELSE CHOOSE i \in found : \A j \in found : i <= j
  IN IF found = {} THEN [match EXCEPT !.at = next, !.new = Append(@, text)]
     ELSE [match EXCEPT !.at = next, !.kept = @ \union {next}]

MatchDup(values, match, text) ==
  LET found == {i \in match.at .. Len(values) : values[i] = text}
      next == IF found = {} THEN Len(values) + 1 ELSE CHOOSE i \in found : \A j \in found : i <= j
  IN IF found = {} THEN [match EXCEPT !.at = next, !.new = Append(@, text)]
     ELSE [match EXCEPT !.at = next + 1, !.kept = @ \union {next}]

MatchDups(values, texts) ==
  Carry(LAMBDA match, text : MatchDup(values, match, text), [at |-> 1, kept |-> {}, new |-> <<>>], texts)

KeepOnly(fields, name, kept) ==
  LET nth(i) == Cardinality({j \in Named(fields, name) : j <= i})
  IN Picked(fields, {i \in DOMAIN fields : fields[i].name # name \/ nth(i) \in kept})

AddAll(fields, name, texts) == fields \o [i \in DOMAIN texts |-> [name |-> name, value |-> texts[i]]]

\* clear_dups never gets to the next duplicate of the one it destroys.
FieldDirective(which, name, v) ==
  LET fields == msgs[which].fields
      values == FieldValues(fields, name)
      texts == IF Is(v, "TUPLE") THEN [i \in DOMAIN Val(v) |-> join(Val(v)[i], <<",">>)] ELSE <<>>
      match == MatchDups(values, texts)
      left == Len(values) - match.at + 1
      Now(fs) == Change(which, [msgs[which] EXCEPT !.fields = fs])
  IN IF ~ msgs[which].valid THEN Fail
     ELSE IF Is(v, "TUPLE")
     THEN IF left > 1 THEN Hang ELSE Now(AddAll(KeepOnly(fields, name, match.kept), name, match.new))
     ELSE IF Len(values) > 1 THEN Hang
     ELSE Now(IF is_nil(v) THEN KeepOnly(fields, name, {}) ELSE field_obtain(fields, name, Format(v)))

Do_ua_req_field(name, v) == At("ua-req-field", UaHooks, <<name, v>>) /\ FieldDirective("ua", name, v)
Do_proxy_req_field(name, v) == At("proxy-req-field", {"PREQ"}, <<name, v>>) /\ FieldDirective("preq", name, v)
Do_proxy_rsp_field(name, v) == At("proxy-rsp-field", {"PRSP"}, <<name, v>>) /\ FieldDirective("prsp", name, v)
Do_upstream_rsp_field(name, v) ==
  At("upstream-rsp-field", {"URSP"}, <<name, v>>) /\ FieldDirective("ursp", name, v)

-----------------------------------------------------------------------------
(* Status, reason and body of responses.                                   *)

ValidStatus(n) == n \in 100 .. 599

\* A tuple sets the reason before the status is looked at.
StatusTuple(t) ==
  /\ Len(t) \in 1 .. 2 /\ Is(t[1], "INTEGER")
  /\ Len(t) = 2 => Is(t[2], "STRING")

SetStatus(which, v) ==
  LET n == IF Is(v, "INTEGER") THEN Val(v) ELSE IF Is(v, "TUPLE") THEN Val(Val(v)[1]) ELSE 0
      rsp == IF Is(v, "TUPLE") /\ Len(Val(v)) = 2
             THEN [msgs[which] EXCEPT !.reason = Val(Val(v)[2])] ELSE msgs[which]
  IN IF Is(v, "TUPLE") /\ ~ StatusTuple(Val(v)) THEN Fail
     ELSE IF ValidStatus(n) THEN Change(which, [rsp EXCEPT !.status = n])
     ELSE Leave("error", [msgs EXCEPT ![which] = rsp], out)

Do_upstream_rsp_status(v) == At("upstream-rsp-status", {"URSP"}, v) /\ SetStatus("ursp", v)
Do_proxy_rsp_status(v) == At("proxy-rsp-status", {"PRSP"}, v) /\ SetStatus("prsp", v)

SetReason(which, v) ==
  IF Is(v, "STRING") THEN Change(which, [msgs[which] EXCEPT !.reason = Val(v)]) ELSE Fail

Do_upstream_reason(v) == At("upstream-reason", {"URSP"}, v) /\ SetReason("ursp", v)
Do_proxy_rsp_reason(v) == At("proxy-rsp-reason", {"PRSP"}, v) /\ SetReason("prsp", v)

Do_proxy_rsp_body(v) ==
  /\ At("proxy-rsp-body", {"PRSP"}, v)
  /\ CASE Is(v, "STRING") -> Set("body", <<Val(v), <<"text/html">>>>)
       [] Is(v, "TUPLE") /\ Len(Val(v)) = 2 ->
            Set("body", <<IF Is(Val(v)[1], "STRING") THEN Val(Val(v)[1]) ELSE <<>>,
                          IF Is(Val(v)[2], "STRING") THEN Val(Val(v)[2]) ELSE <<"text/html">>>>)
       [] OTHER -> Fail

\* A transform replaces the body; the last one added has the say.
Do_upstream_rsp_body(v) ==
  /\ At("upstream-rsp-body", {"URSP"}, v)
  /\ LET parts == IF Is(v, "TUPLE") THEN Val(v) ELSE <<v>>
         type == IF Len(parts) > 1 /\ Is(parts[2], "STRING") THEN Val(parts[2]) ELSE <<"text/html">>
     IN IF parts = <<>> \/ ~ Is(parts[1], "STRING") THEN Skip
        ELSE Leave("ok", [msgs EXCEPT !.ursp.fields = field_obtain(@, "Content-Type", type)],
                   [out EXCEPT !.transform = Val(parts[1])])

-----------------------------------------------------------------------------
(* Replies.  The status is set at once, the rest is done by a fixup that   *)
(* is scheduled for the response to the user agent the first time.         *)

Fixup(which, first) == IF first THEN Append(reply.fixups, which) ELSE reply.fixups

\* The body is an error body; the expression has to give a text.
BodyThrows(body) == body # NO_VALUE /\ ~ Is(body, "STRING")
BodySet(body) == IF body = NO_VALUE THEN out ELSE [out EXCEPT !.body = <<Val(body), <<"text/html">>>>]

Reply(state, wanted, body) ==
  /\ reply' = state
  /\ asked' = wanted
  /\ end' = IF BodyThrows(body) THEN "throws" ELSE "ok"
  /\ out' = IF BodyThrows(body) THEN out ELSE BodySet(body)
  /\ UNCHANGED msgs

Do_proxy_reply(status, reason, body) ==
  /\ AtReply("proxy-reply", UaHooks \ {"POST_REMAP"}, <<status, reason, body>>)
  /\ LET n == as_integer(status, -1)
         given(old) == IF Is(reason, "STRING") THEN Val(reason) ELSE old
     IN Reply([reply EXCEPT !.status = IF ValidStatus(n) THEN n ELSE @,
                            !.reason = given(@),
                            !.fixups = Fixup("proxy-reply", Is(reason, "STRING") /\ reply.reason = <<>>)],
              [asked EXCEPT !.reason = given(@)], body)

Do_redirect_FirstLocation(status, reason, body, location) ==
  /\ AtReply("redirect", {"PRE_REMAP", "REMAP"}, <<status, reason, body>>)
  /\ LET n == as_integer(status, 301)
         given(old) == IF Is(reason, "STRING") THEN Val(reason) ELSE old
     IN IF ~ Is(location, "STRING") THEN Fail
        ELSE Reply([reply EXCEPT !.status = IF ValidStatus(n) THEN n ELSE 301,
                                 !.location = IF @ = <<>> THEN Val(location) ELSE @,
                                 !.moved = given(@),
                                 !.fixups = Fixup("redirect", reply.location = <<>>)],
                   [reason |-> given(asked.reason), location |-> Val(location)], body)

Do_redirect(status, reason, body, location) ==
  /\ AtReply("redirect", {"PRE_REMAP", "REMAP"}, <<status, reason, body>>)
  /\ LET n == as_integer(status, 301)
         given(old) == IF Is(reason, "STRING") THEN Val(reason) ELSE old
     IN IF ~ Is(location, "STRING") THEN Fail
        ELSE Reply([reply EXCEPT !.status = IF ValidStatus(n) THEN n ELSE 301,
                                 !.location = Val(location),
                                 !.moved = given(@),
                                 !.fixups = Fixup("redirect", reply.location = <<>>)],
                   [reason |-> given(asked.reason), location |-> Val(location)], body)

\* proxy-reply's fixup sets a reason, redirect's the location and a reason.
ReasonOf(given) == IF given = <<>> THEN msgs.prsp.reason ELSE given

Fixup_proxy_reply == [msgs.prsp EXCEPT !.reason = ReasonOf(reply.reason)]

Fixup_redirect ==
  [msgs.prsp EXCEPT !.fields = field_obtain(@, "Location", reply.location),
                    !.reason = ReasonOf(reply.moved)]

RunFixup ==
  /\ hook = "FIXUP" /\ Running /\ reply.fixups # <<>>
  /\ msgs' = [msgs EXCEPT !.prsp = IF Head(reply.fixups) = "redirect" THEN Fixup_redirect ELSE Fixup_proxy_reply]
  /\ reply' = [reply EXCEPT !.fixups = Tail(@)]
  /\ end' = "none" /\ did' = NothingDone
  /\ UNCHANGED <<hook, pristine, conn, out, asked, count>>

-----------------------------------------------------------------------------
(* Settings of the transaction.                                            *)

Do_txn_debug(v) ==
  At("txn-debug", TxnHook, v) /\ Set("debug", as_bool(v))

Do_debug(v) == At("debug", TxnHook, v) /\ Set("log", "debug")
Do_error(v) == At("error", TxnHook, v) /\ Set("log", "error")
Do_note(v) == At("note", TxnHook, v) /\ Set("log", "note")
Do_warning(v) == At("warning", TxnHook, v) /\ Set("log", "warning")

Do_cache_key(v) ==
  /\ At("cache-key", UaHooks, v)
  /\ IF Is(v, "STRING") THEN Set("cacheKey", v) ELSE Throw

\* A variable takes only values of its type; that it does not is not reported.
AsConf(v) == IF Is(v, "BOOLEAN") THEN Num(as_integer(v, 0)) ELSE v

Do_txn_conf(type, v) ==
  /\ At("txn-conf", UaHooks \union {"PREQ"}, <<type, v>>)
  /\ IF Is(AsConf(v), type) THEN Set("conf", [out.conf EXCEPT ![type] = AsConf(v)]) ELSE Skip

Do_upstream_addr(v) ==
  /\ At("upstream-addr", UaHooks \union {"PREQ"}, v)
  /\ IF Is(v, "IP_ADDR") THEN Set("addr", v) ELSE Skip

Do_var(v) == At("var", TxnHook, v) /\ Set("var", v)

Do_txn_error(v) == At("txn-error", TxnHook, v) /\ Set("error", as_bool(v))
=============================================================================
