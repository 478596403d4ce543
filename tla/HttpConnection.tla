--------------------------- MODULE HttpConnection ---------------------------
(***************************************************************************)
(* One HTTP connection of Crow's server from its acceptance to its end:    *)
(* the reads, the parser they feed, the router, the responses and the      *)
(* deadline, which the connections of one io_context share a timer for.    *)
(* All handlers of an io_context run on one thread, so each is one action; *)
(* between them come reads, ticks of the timer and other connections.      *)
(*                                                                         *)
(* The client sends the requests of a script, one after the other or       *)
(* without waiting for responses, and the socket delivers the bytes in     *)
(* chunks of any length.  Other connections are seen only through the      *)
(* timer.                                                                  *)
(***************************************************************************)
EXTENDS HttpResponse, FiniteSets, SequencesExt

CONSTANTS
  Scripts,        \* of the client: its app and requests, and whether
                  \* there are other connections
  Timeout,        \* the ticks until a deadline's task runs
  MaxId,          \* a bound: at this id other connections rest
  MaxCutId        \* a bound: beyond this id all that is left of the
                  \* stream comes in one read

(* A request as its client writes it.                                      *)
Request ==
  [method : DOMAIN Method, url : Seq(STRING), query : BOOLEAN,
   minor : {"0", "1"}, host : BOOLEAN,
   connection : {"none", "close", "keep-alive"}, upgrade : Seq(STRING),
   expect : BOOLEAN, body : {"none", "length", "chunked"}]

ASSUME HttpAssumption ==
  /\ Timeout \in Nat \ {0} /\ MaxId \in Nat /\ MaxCutId \in Nat
  /\ Scripts \subseteq [app : {"web", "proxy"}, requests : Seq(Request),
                        busy : BOOLEAN]

VARIABLES
  script,         \* what the client sends
  stream,         \* what of it has not been read
  peer,           \* "open", "closed" or "reset": the client's socket
  chunk,          \* a read whose handler has not run in time
  k,              \* the connection, and the task_timer of its io_context
  other,          \* another connection of that io_context
  torn,           \* requests cut within their URL or an upgrade's name
  robbed          \* connections whose task another one has cancelled

httpVars == <<script, stream, peer, chunk, k, other, torn, robbed>>

-----------------------------------------------------------------------------
(* task_timer: the tasks by id, with their connection and the ticks left.  *)
NewTimer == [tasks |-> <<>>, highest_id |-> 0]

cancel(t, id) ==
  [t EXCEPT !.tasks = [i \in DOMAIN @ \ {id} |-> @[i]]]

schedule(t, owner) ==
  LET id == t.highest_id + 1 IN
    [tasks |-> [i \in DOMAIN t.tasks \union {id} |->
                  IF i = id THEN [owner |-> owner, left |-> Timeout]
                  ELSE t.tasks[i]],
     highest_id |-> id]

Due(t) == {i \in DOMAIN t.tasks : t.tasks[i].left = 0}
Owners(t) == {t.tasks[i].owner : i \in DOMAIN t.tasks}

(* Mutant: ids begin anew although there are tasks.                        *)
process_tasksAnew(t) ==
  [tasks |-> [i \in DOMAIN t.tasks \ Due(t) |->
                [t.tasks[i] EXCEPT !.left = @ - 1]],
   highest_id |-> 0]

(* A tick runs the tasks that are due; without tasks ids begin anew.       *)
process_tasks(t) ==
  LET left == DOMAIN t.tasks \ Due(t) IN
    [tasks |-> [i \in left |-> [t.tasks[i] EXCEPT !.left = @ - 1]],
     highest_id |-> IF left = {} THEN 0 ELSE t.highest_id]

cancel_deadline_timer(c) == [c EXCEPT !.timer = cancel(@, c.task_id)]

(* Mutant: the id of the task is not kept.                                 *)
start_deadlineForgetting(c) ==
  [cancel_deadline_timer(c) EXCEPT !.timer = schedule(@, "k")]

start_deadline(c) ==
  LET t == schedule(cancel_deadline_timer(c).timer, "k") IN
    [c EXCEPT !.timer = t, !.task_id = t.highest_id]

-----------------------------------------------------------------------------
NewConnection(app) ==
  [app |-> app, p |-> NewParser, open |-> TRUE, reset |-> "no",
   phase |-> "accepted", task_id |-> 0, close_connection |-> FALSE,
   continue_requested |-> FALSE,
   routing |-> NoRule, res |-> response(200, <<>>), handler |-> FALSE,
   thrown |-> FALSE, out |-> <<>>, timer |-> NewTimer]

(* What goes to a socket that is closed or reset goes nowhere; a reset may *)
(* come while a request is handled.                                        *)
Written(c, r) ==
  IF c.open /\ c.reset = "no" THEN [c EXCEPT !.out = Append(@, r)]
  ELSE [c EXCEPT !.reset = IF @ = "late" THEN "yes" ELSE @]

(* Mutant: the parser is not ready for the next request.                   *)
AfterWriteNoClear(c) ==
  [c EXCEPT !.res = clear_response(@), !.continue_requested = FALSE]

(* The end of do_write_sync.                                               *)
AfterWrite(c) ==
  LET d == [c EXCEPT !.res = clear_response(@), !.continue_requested = FALSE]
  IN  IF c.continue_requested THEN d ELSE clear(d)

(* prepare_buffers: the handler is no longer called, and an error without  *)
(* a body says what it is.                                                 *)
prepare_buffers(c) ==
  [c EXCEPT !.handler = FALSE,
            !.res.body = IF c.open /\ c.res.code >= 400 /\ @ = <<>>
                         THEN <<"status">> ELSE @]

Declared(res) ==
  IF ~res.manual_length_header /\ res.length = NoHeader THEN res.body
  ELSE res.length

(* The write of the header throws when the socket is reset.  A HEAD        *)
(* request gets the file, too.                                             *)
do_write_static(c) ==
  LET r == [code |-> c.res.code, length |-> Declared(c.res),
            body |-> c.res.file]
      d == AfterWrite(Written(c, r))
      e == [d EXCEPT !.open = @ /\ ~c.close_connection,
                     !.res = clear_response(Ended(@))]
  IN  IF c.reset = "no" THEN clear(e)
      ELSE [c EXCEPT !.thrown = TRUE, !.reset = "yes"]

do_write_general(c) ==
  AfterWrite(Written(c, [code |-> c.res.code, length |-> Declared(c.res),
                         body |-> c.res.body]))

complete_request(c) ==
  LET d == prepare_buffers(c) IN
    IF d.res.file # <<>> THEN do_write_static(d) ELSE do_write_general(d)

(* response::end of the connection's response.                             *)
end(c) ==
  LET d == [c EXCEPT !.res = Ended(@)]
      r == complete_request(d)
  IN
  CASE c.res.completed -> c
    [] ~c.res.completed /\ ~c.handler -> d
    [] OTHER -> IF r.thrown THEN r
                ELSE [r EXCEPT !.res.manual_length_header = FALSE,
                               !.res.skip_body = FALSE]

-----------------------------------------------------------------------------
(* handle_url: a request without a rule is answered before it is read.     *)
handle_url(c) ==
  LET d == handle_initial(c) IN
    IF d.routing.rule # 0 THEN d ELSE complete_request(done(d))

Header(req, name) ==
  LET named == {i \in DOMAIN req.headers : req.headers[i][1] = name} IN
    IF named = {} THEN <<>>
    ELSE req.headers[CHOOSE i \in named : \A j \in named : i <= j][2]

handle_header(c) ==
  IF /\ c.p.req.version = <<1, 1>>
     /\ Header(c.p.req, <<"e", "xpect">>) = <<"1", "00-continue">>
  THEN AfterWrite(Written([c EXCEPT !.continue_requested = TRUE],
                          [code |-> 100, length |-> <<>>, body |-> <<>>]))
  ELSE c

(* A throw out of a rule's handler becomes a response nobody sends.        *)
RunRule(c) ==
  LET d == end([c EXCEPT !.res = Assigned(@, Handler(c.app, c.routing))]) IN
    IF ~d.thrown THEN d
    ELSE end([d EXCEPT !.thrown = FALSE,
                       !.res = Assigned(@, response(500, <<>>))])

(* handle_upgrade: the socket goes to the WebSocket if there is one for    *)
(* the URL, and the WebSocket closes it if another protocol was asked for. *)
(* Otherwise there is a response that nobody sends.                        *)
handle_upgrade(c) ==
  LET f == Found(c.app, c.p.req.method, c.p.req.url)
      websocket == Header(c.p.req, <<"u", "pgrade">>) = <<"websocket">>
      code == IF f.rule = 0 /\ SomeMethod(c.app, c.p.req.url) THEN 405
              ELSE 404
  IN  IF f.rule # 0 /\ c.app = "proxy"
      THEN [c EXCEPT !.open = FALSE,
                     !.phase = IF websocket THEN "upgraded" ELSE @]
      ELSE end([c EXCEPT !.res = Assigned(@, response(code, <<>>))])

(* handle: the whole request is there.  A socket that is closed or reset   *)
(* has no remote endpoint, which throws.                                   *)
handle(c) ==
  LET req == c.p.req
      d == [cancel_deadline_timer(c) EXCEPT
              !.close_connection = req.close_connection]
      connected == c.open /\ c.reset # "yes"
      since11 == connected /\ req.version = <<1, 1>>
      host == Header(req, <<"h", "ost">>) # <<>>
      h2 == Header(req, <<"u", "pgrade">>) = <<"h", "2c">>
  IN
  CASE ~connected -> [cancel_deadline_timer(c) EXCEPT !.thrown = TRUE]
    [] since11 /\ ~host ->
         complete_request([d EXCEPT !.res = Assigned(@, response(400, <<>>))])
    [] since11 /\ host /\ req.upgrade /\ ~h2 ->
         handle_upgrade([d EXCEPT !.close_connection = TRUE])
    [] OTHER -> RunRule([d EXCEPT !.handler = TRUE])

Parser == INSTANCE HttpParser WITH
  MaxHeaderSize <- 80 * 1024, MaxLength <- 1000000

-----------------------------------------------------------------------------
End(c) == [c EXCEPT !.phase = IF @ = "upgraded" THEN @ ELSE "ended"]

(* A read that fails, or whose bytes the parser does not like, closes.     *)
ReadError(c) ==
  End([done(cancel_deadline_timer(c)) EXCEPT !.open = FALSE])

(* Mutant: the deadline is not set again after a read.                     *)
ReadDoneNoDeadline(c, ok) ==
  CASE c.thrown \/ ~ok \/ ~c.open -> ReadError(c)
    [] ~c.thrown /\ ok /\ c.open /\ c.close_connection ->
         [End(done(cancel_deadline_timer(c))) EXCEPT !.open = FALSE]
    [] OTHER -> c

(* What follows the parser in the handler of do_read.  The connection that *)
(* is not read again goes with its handler, and its socket is closed.      *)
ReadDone(c, ok) ==
  CASE c.thrown -> [End(c) EXCEPT !.open = FALSE]
    [] ~c.thrown /\ (~ok \/ ~c.open) -> ReadError(c)
    [] ~c.thrown /\ ok /\ c.open /\ c.close_connection ->
         [End(done(cancel_deadline_timer(c))) EXCEPT !.open = FALSE]
    [] OTHER -> start_deadline(c)

-----------------------------------------------------------------------------
(* What a client sends for a request.                                      *)
Target(r) == r.url \o (IF r.query THEN <<"?", "q">> ELSE <<>>)

Field(name, value) == name \o <<":", SP>> \o value \o <<CR, LF>>

Bytes(r) ==
  Method[r.method] \o <<SP>> \o Target(r)
  \o <<SP, "H", "TTP", "/", "1", ".", r.minor, CR, LF>>
  \o (IF r.host THEN Field(<<"h", "ost">>, <<"x">>) ELSE <<>>)
  \o (CASE r.connection = "none" -> <<>>
        [] r.connection = "close" ->
             Field(<<"c", "onnection">>, <<"c", "lose">>)
        [] r.connection = "keep-alive" ->
             Field(<<"c", "onnection">>, <<"k", "eep-alive">>))
  \o (IF r.upgrade = <<>> THEN <<>> ELSE Field(<<"u", "pgrade">>, r.upgrade))
  \o (IF r.expect THEN Field(<<"e", "xpect">>, <<"1", "00-continue">>)
      ELSE <<>>)
  \o (CASE r.body = "none" -> <<CR, LF>>
        [] r.body = "length" ->
             Field(<<"c", "ontent-length">>, <<"2">>)
             \o <<CR, LF, "x", "x">>
        [] r.body = "chunked" ->
             Field(<<"t", "ransfer-encoding">>, <<"c", "hunked">>)
             \o <<CR, LF, "1", CR, LF, "x", CR, LF, "0", CR, LF, CR, LF>>)

AllBytes(requests) == FlattenSeq([i \in DOMAIN requests |->
                                    Bytes(requests[i])])

(* The requests that a cut after n bytes divides within their URL.         *)
CutWithin(requests, n) ==
  {i \in DOMAIN requests :
     LET begin == Len(AllBytes(SubSeq(requests, 1, i - 1))) + 3 IN
       n > begin /\ n < begin + Len(Target(requests[i]))}

-----------------------------------------------------------------------------
HttpInit ==
  /\ script \in Scripts
  /\ stream = AllBytes(script.requests)
  /\ peer = "open"
  /\ chunk = <<>>
  /\ k = NewConnection(script.app)
  /\ other = [phase |-> "none", open |-> FALSE, task_id |-> 0]
  /\ torn = {}
  /\ robbed = {}

(* Whose task another connection has cancelled, until there is a new one.  *)
Robbed(by, before, after) ==
  (robbed \union (Owners(before) \ {by})) \ Owners(after)

(* start                                                                   *)
Start ==
  /\ k.phase = "accepted"
  /\ k' = clear([start_deadline(k) EXCEPT !.phase = "reading"])
  /\ robbed' = Robbed("k", k.timer, k'.timer)
  /\ UNCHANGED <<script, stream, peer, chunk, other, torn>>

(* The handler of do_read with some bytes.  A reset may come while it      *)
(* runs.                                                                   *)
Handled(bytes) ==
  /\ \E late \in {FALSE} \union {peer = "reset"} :
       LET fed == Parser!feed([k EXCEPT !.reset =
                    CASE late -> "late"
                      [] ~late /\ peer = "reset" -> "yes"
                      [] OTHER -> "no"], bytes)
       IN  k' = [ReadDone(fed.k, fed.ok) EXCEPT !.reset = "no"]
  /\ robbed' = Robbed("k", k.timer, k'.timer)

(* A read that has completed and its handler.                              *)
Read ==
  /\ k.phase = "reading" /\ k.open /\ peer # "reset"
  /\ \E n \in 1 .. Len(stream) :
       /\ k.timer.highest_id <= MaxCutId \/ n = Len(stream)
       /\ Handled(SubSeq(stream, 1, n))
       /\ stream' = SubSeq(stream, n + 1, Len(stream))
       /\ torn' = torn \union
            CutWithin(script.requests,
                      Len(AllBytes(script.requests)) - Len(stream) + n)
  /\ UNCHANGED <<script, peer, chunk, other>>

(* A handler that the deadline or a reset has come before.                 *)
LateRead ==
  /\ chunk # <<>>
  /\ Handled(chunk)
  /\ chunk' = <<>>
  /\ UNCHANGED <<script, stream, peer, other, torn>>

(* What may have been read before a reset or the deadline, while the       *)
(* handler still waits its turn: nothing or what there is.                 *)
InFlight(waits) ==
  IF waits /\ k.phase = "reading" /\ k.open /\ chunk = <<>>
  THEN {<<>>, stream}
  ELSE {chunk}

(* The handler of do_read when the socket has been closed, here or there.  *)
ReadFails ==
  /\ k.phase = "reading" /\ chunk = <<>>
  /\ ~k.open \/ peer = "reset" \/ (peer = "closed" /\ stream = <<>>)
  /\ k' = ReadError(k)
  /\ robbed' = Robbed("k", k.timer, k'.timer)
  /\ UNCHANGED <<script, stream, peer, chunk, other, torn>>

(* The client closes its socket when it has sent everything, or resets it, *)
(* which loses what has not been read.                                     *)
ClientEnds ==
  /\ peer = "open" /\ k.phase = "reading"
  /\ \/ stream = <<>> /\ peer' = "closed" /\ UNCHANGED <<stream, chunk>>
     \/ peer' = "reset" /\ stream' = <<>> /\ chunk' \in InFlight(TRUE)
  /\ UNCHANGED <<script, k, other, torn, robbed>>

(* tick_handler: the tasks that are due close their connections.           *)
Tick ==
  LET due == {k.timer.tasks[i].owner : i \in Due(k.timer)} IN
  /\ k' = [k EXCEPT !.timer = process_tasks(@),
                    !.open = @ /\ "k" \notin due]
  /\ other' = [other EXCEPT !.open = @ /\ "other" \notin due]
  /\ chunk' \in InFlight("k" \in due)
  /\ stream' = IF "k" \in due THEN <<>> ELSE stream
  /\ UNCHANGED <<script, peer, torn, robbed>>

-----------------------------------------------------------------------------
(* The other connection: it begins, is read and answered, and ends.        *)
OtherStart ==
  LET t == schedule(k.timer, "other") IN
  /\ script.busy /\ other.phase = "none"
  /\ t.highest_id <= MaxId
  /\ other' = [phase |-> "reading", open |-> TRUE, task_id |-> t.highest_id]
  /\ k' = [k EXCEPT !.timer = t]
  /\ robbed' = Robbed("other", k.timer, t)
  /\ UNCHANGED <<script, stream, peer, chunk, torn>>

OtherRequest ==
  LET t == schedule(cancel(k.timer, other.task_id), "other") IN
  /\ other.phase = "reading" /\ other.open /\ t.highest_id <= MaxId
  /\ other' = [other EXCEPT !.task_id = t.highest_id]
  /\ k' = [k EXCEPT !.timer = t]
  /\ robbed' = Robbed("other", k.timer, t)
  /\ UNCHANGED <<script, stream, peer, chunk, torn>>

OtherEnds ==
  /\ other.phase = "reading"
  /\ other' = [other EXCEPT !.phase = "none", !.open = FALSE]
  /\ k' = [k EXCEPT !.timer = cancel(@, other.task_id)]
  /\ robbed' = Robbed("other", k.timer, k'.timer)
  /\ UNCHANGED <<script, stream, peer, chunk, torn>>

HttpNext ==
  \/ Start \/ Read \/ LateRead \/ ReadFails \/ ClientEnds \/ Tick
  \/ OtherStart \/ OtherRequest \/ OtherEnds

(* The io_context runs the handlers that are queued, and time goes on.     *)
(* Only LateRead empties chunk.                                            *)
HttpFairness ==
  /\ WF_httpVars(Start) /\ WF_httpVars(ReadFails) /\ WF_httpVars(Tick)
  /\ WF_chunk(chunk # <<>> /\ chunk' = <<>>)

HttpSpec == HttpInit /\ [][HttpNext]_httpVars /\ HttpFairness

-----------------------------------------------------------------------------
(* What a request should be answered.                                      *)
Page(code, body) == [code |-> code, length |-> body, body |-> body]
Failure(code) == Page(code, <<"status">>)

Content(app, url) ==
  CASE app = "web" /\ url = <<"/", "config.json">> -> Page(200, <<"config">>)
    [] app = "web" /\ url \in {<<"/">>, <<"/", "index.html">>} ->
         Page(200, <<"index.html">>)
    [] OTHER -> Failure(404)

Answer(app, r) ==
  LET routed == r.url[1] = "/" /\ (app = "proxy" => r.url = <<"/">>) IN
  CASE ~routed -> Failure(404)
    [] routed /\ r.method = "Options" -> Page(204, <<>>)
    [] routed /\ r.method \notin {"Get", "Head", "Options"} -> Failure(405)
    [] routed /\ r.method \in {"Get", "Head"} ->
         LET page == IF r.minor = "1" /\ ~r.host THEN Failure(400)
                     ELSE Content(app, r.url)
         IN  IF r.method = "Head" THEN [page EXCEPT !.body = <<>>] ELSE page

Requests == script.requests
Answers == SelectSeq(k.out, LAMBDA r : r.code # 100)

(* What the code answers otherwise: a query whose "?" comes in a later     *)
(* read is part of the URL, OPTIONS is answered for the first piece of a   *)
(* URL; a HEAD request is answered with a body unless it asks for one that *)
(* is no file, and one without a host leaves skip_body to the next.        *)
Excused(i) ==
  LET r == Requests[i] IN
  \/ i \in torn /\ (r.query \/ r.method = "Options")
  \/ r.method = "Head" /\ Answer(script.app, r).length # <<"config">>
  \/ \E j \in 1 .. i - 1 : Requests[j].method = "Head" /\ ~Requests[j].host

(* However the bytes are cut, the responses are those of the requests, in  *)
(* the order of the requests, with the body that Content-Length declares.  *)
AnswersInOrder ==
  /\ Len(Answers) <= Len(Requests)
  /\ \A i \in DOMAIN Answers :
       Excused(i) \/ Answers[i] = Answer(script.app, Requests[i])

(* A connection that is read again has answered all that it was sent: no   *)
(* request waits for bytes of the next one.                                *)
AllAnswered ==
  (k.phase = "reading" /\ k.open /\ peer # "reset"
   /\ stream = <<>> /\ chunk = <<>>)
  => Len(Answers) = Len(Requests)

(* A connection that is read has a deadline, and only it: otherwise the    *)
(* client keeps the connection, or the task keeps its object, for ever.    *)
(* One whose task another connection has cancelled is the exception.       *)
Guarded ==
  LET own == {i \in DOMAIN k.timer.tasks : k.timer.tasks[i].owner = "k"} IN
  own = IF k.phase = "reading" /\ k.open /\ "k" \notin robbed
        THEN {k.task_id} ELSE {}

(* A connection loses its task to another one only if that one's own has   *)
(* run, or been lost so before: its id has been given away.                *)
OnlyStaleIdsRob ==
  [][/\ "other" \in robbed' \ robbed => ~k.open \/ "k" \in robbed
     /\ "k" \in robbed' \ robbed => ~other.open \/ "other" \in robbed]_httpVars

(* A connection comes to its end, whatever the client does, unless its     *)
(* deadline has been cancelled.                                            *)
Ends == <>(k.phase \in {"ended", "upgraded"} \/ "k" \in robbed)
=============================================================================
