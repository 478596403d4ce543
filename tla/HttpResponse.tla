---------------------------- MODULE HttpResponse ----------------------------
(***************************************************************************)
(* What Crow's router makes of the rule of a request: the response of a    *)
(* request that has none, before it is read, and what the handlers of the  *)
(* program's rules answer.  How the rule is looked up is a parameter,      *)
(* which HttpRouter gives.                                                 *)
(***************************************************************************)
EXTENDS HttpMessage

CONSTANT Found(_, _, _)   \* the rule of an app for a method and a URL,
                          \* with what its parameter stands for

SomeMethod(app, url) ==
  \E m \in DOMAIN Method : Found(app, m, url).rule # 0

-----------------------------------------------------------------------------
(* A response.  Bodies and the values of Content-Length are sequences of   *)
(* pieces: the length is the body whose size it is.                        *)
NoHeader == <<"no header">>

response(code, body) ==
  [code |-> code, body |-> body, length |-> NoHeader, completed |-> FALSE,
   file |-> <<>>, skip_body |-> FALSE, manual_length_header |-> FALSE]

(* The connection's response after an assignment: what concerns HEAD       *)
(* stays.                                                                  *)
Assigned(res, r) ==
  [r EXCEPT !.skip_body = res.skip_body,
            !.manual_length_header = res.manual_length_header]

clear_response(res) == Assigned(res, response(200, <<>>))

(* response::end, as far as the response goes.                             *)
Ended(res) ==
  IF res.completed THEN res
  ELSE IF res.skip_body
  THEN [res EXCEPT !.completed = TRUE, !.length = res.body, !.body = <<>>,
                   !.manual_length_header = TRUE]
  ELSE [res EXCEPT !.completed = TRUE]

(* get_error and the end of the response.                                  *)
Refused(k, code) ==
  [k EXCEPT !.routing = NoRule, !.res = Ended([@ EXCEPT !.code = code])]

(* Router::handle_initial: the rule of the request, or the response of a   *)
(* request that has none.  HEAD takes the rule of GET; OPTIONS is answered *)
(* at once.                                                                *)
handle_initial(k) ==
  LET method == k.p.req.method
      url == k.p.req.url
      own == Found(k.app, method, url)
      get == Found(k.app, "Get", url)
      ended(code) ==
        [k EXCEPT !.routing = NoRule,
                  !.res = Ended(Assigned(@, response(code, <<>>)))]
  IN
  CASE method = "Head" ->
         IF own.rule # 0 \/ get.rule # 0
         THEN [k EXCEPT !.routing = IF own.rule # 0 THEN own ELSE get,
                        !.res.skip_body = TRUE]
         ELSE ended(404)
    [] method = "Options" ->
         IF url = <<"/", "*">> \/ SomeMethod(k.app, url) THEN ended(204)
         ELSE ended(404)
    [] OTHER ->
         IF own.rule # 0 THEN [k EXCEPT !.routing = own]
         ELSE Refused(k, IF SomeMethod(k.app, url) THEN 405 ELSE 404)

-----------------------------------------------------------------------------
(* The files of the static web server.                                     *)
Files == {<<"index.html">>}

(* set_static_file_info                                                    *)
set_static_file_info(path) ==
  IF path \in Files
  THEN [response(200, <<>>) EXCEPT !.file = path, !.length = path]
  ELSE response(404, <<>>)

(* What the handlers of the web server answer, and a WebSocket's rule when *)
(* no upgrade is asked for.                                                *)
Handler(app, found) ==
  CASE app = "proxy"                     -> response(404, <<>>)
    [] app = "web" /\ found.rule = 2     -> response(200, <<"config">>)
    [] app = "web" /\ found.rule = 3     ->
         set_static_file_info(<<"index.html">>)
    [] OTHER                             -> set_static_file_info(found.path)
=============================================================================
