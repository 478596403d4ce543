-------------------------- MODULE MCHttpConnection --------------------------
(***************************************************************************)
(* The connection with scripts of one or two requests, one for every way   *)
(* through the parser, the router and the handlers.                        *)
(***************************************************************************)
EXTENDS HttpConnection, HttpRouter

Get(url) ==
  [method |-> "Get", url |-> url, query |-> FALSE, minor |-> "1",
   host |-> TRUE, connection |-> "none", upgrade |-> <<>>,
   expect |-> FALSE, body |-> "none"]

Root == Get(<<"/">>)
Config == Get(<<"/", "config.json">>)
Missing == Get(<<"/", "x">>)
Index == Get(<<"/", "index.html">>)
WebSocket == [Root EXCEPT !.upgrade = <<"websocket">>]

Web(requests) == [app |-> "web", requests |-> requests, busy |-> FALSE]
Proxy(requests) == [app |-> "proxy", requests |-> requests, busy |-> FALSE]
Busy(s) == [s EXCEPT !.busy = TRUE]

McScripts ==
  { Web(<<[Root EXCEPT !.query = TRUE], Config>>),
    Web(<<[Config EXCEPT !.method = "Head"], Index>>),
    Web(<<[Root EXCEPT !.method = "Head", !.host = FALSE], Config>>),
    Web(<<[Missing EXCEPT !.connection = "close"], Root>>),
    Web(<<[Config EXCEPT !.method = "Post", !.body = "length"]>>),
    Web(<<[Root EXCEPT !.upgrade = <<"h", "2c">>], Config>>),
    Web(<<WebSocket>>),
    Web(<<[WebSocket EXCEPT !.method = "Head"]>>),
    Web(<<Get(<<"http", ":", "/", "/", "x", "/">>)>>),
    Web(<<[Root EXCEPT !.expect = TRUE, !.body = "length"], Config>>),
    Web(<<[Root EXCEPT !.minor = "0", !.connection = "keep-alive"],
          [Config EXCEPT !.minor = "0"]>>),
    Web(<<[Config EXCEPT !.body = "chunked"], Root>>),
    Busy(Web(<<Root>>)), Busy(Proxy(<<WebSocket>>)),
    Proxy(<<[Root EXCEPT !.upgrade = <<"x">>]>>),
    Proxy(<<Root, [WebSocket EXCEPT !.query = TRUE]>>),
    Proxy(<<[Missing EXCEPT !.method = "Options"]>>),
    Web(<<[Root EXCEPT !.method = "Options"], Root>>),
    Proxy(<<[Root EXCEPT !.method = "Put"]>>) }
=============================================================================
