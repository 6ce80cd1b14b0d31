------------------------------ MODULE MCHttpTxn ------------------------------
(***************************************************************************)
(* Instances of HttpTxn for TLC.  A request with a host in its URL, one    *)
(* with the host in its Host field only, and one with both and fields that *)
(* occur more than once.                                                   *)
(***************************************************************************)
EXTENDS HttpTxn

MCNumber == {80, 443, 8080, 12345}

UrlOf(host, port, path, query) ==
  [valid |-> TRUE, scheme |-> <<"http">>, host |-> host, port |-> port, path |-> path,
   query |-> query, fragment |-> <<>>]

FieldOf(name, text) == [name |-> name, value |-> text]

Get(url, fields) == [valid |-> TRUE, method |-> <<"GET">>, url |-> url, fields |-> fields]

MCRequests ==
  {Get(UrlOf(<<"a">>, 0, <<"x">>, <<"k", "=", "1", "&", "m", ";", "K", "=", "2">>), <<>>),
   Get(UrlOf(<<>>, 0, <<>>, <<>>), <<FieldOf("Host", <<"a", ":", "8080">>), FieldOf("F", <<"1">>)>>),
   Get(UrlOf(<<"a">>, 8080, <<"x", "/", "y">>, <<"m", "=", "1", "&", "k">>),
           <<FieldOf("Host", <<"a">>), FieldOf("F", <<"1">>), FieldOf("G", <<"1">>), FieldOf("F", <<"2">>)>>)}

MCResponses ==
  {[valid |-> TRUE, url |-> NoUrl, fields |-> <<FieldOf("F", <<"2">>), FieldOf("F", <<"1">>)>>,
    status |-> 200, reason |-> <<"OK">>]}

MCTarget == UrlOf(<<"a">>, 0, <<"x">>, <<>>)
MCReplacement == UrlOf(<<"b">>, 8080, <<"z">>, <<>>)

MCHostArg == {Str(<<"h">>), NIL_FEATURE}
MCLocArg ==
  {Str(<<"h", ":", "443">>), Str(<<"h", ":", "x">>), Tup(<<Str(<<"g">>), Num(12345)>>),
   Tup(<<Str(<<"g">>), Str(<<"x">>)>>)}
MCPortArg == {Num(443), Num(70000)}
MCTextArg == {Str(<<"/", "t">>)}
MCUrlText == <<"http://h/u">> :> UrlOf(<<"h">>, 0, <<"u">>, <<>>)
MCUrlArg == {Str(<<"http://h/u">>)}
MCFieldArg ==
  {NIL_FEATURE, Str(<<"2">>), Tup(<<Str(<<"2">>)>>), Tup(<<Str(<<"1">>), Num(80), Str(<<"2">>)>>),
   Tup(<<Str(<<"1">>), Str(<<"1">>)>>)}
MCStatusArg == {Num(404), Num(0), Tup(<<Num(0), Str(<<"r">>)>>)}
MCFlagArg == {Bool(TRUE)}
MCBodyArg == {Str(<<"b">>), Tup(<<Str(<<"b">>), Str(<<"text/plain">>)>>)}
MCQueryArg == {Str(<<"k", "=", "2">>)}
MCValueArg == {NIL_FEATURE, Str(<<"2">>), Str(<<>>)}
MCReplyArg ==
  {<<Num(404), Str(<<"r1">>), NO_VALUE>>, <<Num(503), Str(<<"r2">>), NO_VALUE>>,
   <<Num(404), NIL_FEATURE, Str(<<"b">>)>>}
MCRedirectArg ==
  {<<Num(302), Str(<<"r1">>), NO_VALUE, Str(<<"l1">>)>>, <<NIL_FEATURE, NIL_FEATURE, NO_VALUE, Str(<<"l2">>)>>,
   <<Num(302), NIL_FEATURE, NO_VALUE, NIL_FEATURE>>}
MCFieldName == {"F", "Location"}
MCQueryName == {"k", "K", "z"}

ASSUME PlainHosts /\ PlainLocs /\ PlainQuery
=============================================================================
