----------------------------- MODULE HttpParser -----------------------------
(***************************************************************************)
(* The HTTP parser of Crow: http_parser_execute, one byte after the other, *)
(* and HTTPParser, which puts a request together from its callbacks and    *)
(* tells the connection of it.  The bytes come in chunks as the socket     *)
(* delivers them, and a callback gets the part of a URL, a header or a     *)
(* body that lies in one chunk.                                            *)
(***************************************************************************)
EXTENDS HttpMessage

CONSTANTS
  handle_url(_),      \* what the connection does when a URL,
  handle_header(_),   \* the headers
  handle(_),          \* or the message is there
  MaxHeaderSize,      \* CROW_HTTP_MAX_HEADER_SIZE
  MaxLength           \* CROW_ULLONG_MAX

-----------------------------------------------------------------------------
(* The callbacks.                                                          *)
on_url(k, at) ==
  LET raw == k.p.req.raw_url \o at
      qs  == k.p.qs_point
  IN  handle_url([k EXCEPT
        !.p.req.raw_url = raw,
        !.p.req.url = IF qs = 0 \/ qs > Len(raw) THEN raw
                      ELSE SubSeq(raw, 1, qs)])

(* A header whose value is empty is dropped when another one follows.      *)
on_header_field(k, at) ==
  IF k.p.header_building_state = 0
  THEN [k EXCEPT !.p = [@ EXCEPT
          !.req.headers = IF k.p.header_value = <<>> THEN @
                          ELSE @ \o <<<<k.p.header_field,
                                        k.p.header_value>>>>,
          !.header_value = <<>>,
          !.header_field = at, !.header_building_state = 1]]
  ELSE [k EXCEPT !.p.header_field = @ \o at]

on_header_value(k, at) ==
  IF k.p.header_building_state = 0
  THEN [k EXCEPT !.p.header_value = @ \o at]
  ELSE [k EXCEPT !.p.header_value = at, !.p.header_building_state = 0]

(* keep_alive, close_connection and upgrade of the request.                *)
set_connection_parameters(k) ==
  LET v == k.p.version
      has(f) == f \in k.p.flags
  IN  [k EXCEPT !.p.req = [@ EXCEPT
         !.version = v, !.upgrade = k.p.upgrade,
         !.keep_alive = (v = <<1, 1>>)
                        \/ (v = <<1, 0>> /\ has("F_CONNECTION_KEEP_ALIVE")),
         !.close_connection =
           \/ v = <<1, 0>> /\ ~has("F_CONNECTION_KEEP_ALIVE")
           \/ v = <<1, 1>> /\ has("F_CONNECTION_CLOSE")]]

on_headers_complete(k) ==
  LET p == k.p
      last == IF p.header_field = <<>> THEN k
              ELSE [k EXCEPT !.p = [@ EXCEPT
                      !.req.headers = @ \o <<<<p.header_field,
                                               p.header_value>>>>,
                      !.header_field = <<>>, !.header_value = <<>>]]
  IN  handle_header(set_connection_parameters(last))

on_body(k, at) == [k EXCEPT !.p.req.body = @ \o at]

on_message_complete(k) == handle([k EXCEPT !.p.message_complete = TRUE])

-----------------------------------------------------------------------------
(* The locals of http_parser_execute beside the connection k: which of the *)
(* marks is set and what lies behind it, whether the URL began in this     *)
(* chunk, and what has been returned.                                      *)
Locals(k) ==
  [k |-> k, piece |-> <<>>, began |-> FALSE, returned |-> "no",
   mark |-> CASE k.p.state = "s_header_field" -> "header_field"
              [] k.p.state = "s_header_value" -> "header_value"
              [] k.p.state \in {"s_req_path", "s_req_schema",
                   "s_req_schema_slash", "s_req_schema_slash_slash",
                   "s_req_server_start", "s_req_server",
                   "s_req_server_with_at", "s_req_query_string_start",
                   "s_req_query_string"} -> "url"
              [] OTHER -> "none"]

To(l, s) == [l EXCEPT !.k.p.state = s]
Error(l, e) == [l EXCEPT !.k.p.http_errno = e, !.returned = "error"]
Mark(l, m, ch) == IF l.mark = m THEN [l EXCEPT !.piece = Append(@, ch)]
                  ELSE [l EXCEPT !.mark = m, !.piece = <<ch>>]

(* A callback may stop the parser by an error or an exception.             *)
Notified(l, k) ==
  [l EXCEPT !.k = k,
            !.returned = IF k.p.http_errno # "OK" \/ k.thrown THEN "error"
                         ELSE @]

(* CROW_CALLBACK_DATA of the mark that is set.                             *)
Data(l) ==
  LET k == CASE l.mark = "url"          -> on_url(l.k, l.piece)
             [] l.mark = "header_field" -> on_header_field(l.k, l.piece)
             [] l.mark = "header_value" -> on_header_value(l.k, l.piece)
             [] l.mark = "body"         -> on_body(l.k, l.piece)
             [] OTHER                   -> l.k
  IN  Notified([l EXCEPT !.mark = "none", !.piece = <<>>], k)

MessageComplete(l) == Notified(l, on_message_complete(l.k))

-----------------------------------------------------------------------------
(* Where a URL goes on after ch; s_dead if it cannot.                      *)
Authority(ch) ==
  CASE ch = "/" -> "s_req_path"
    [] ch = "?" -> "s_req_query_string_start"
    [] ch = "@" -> "s_req_server_with_at"
    [] UrlChar(ch) /\ ch # "*" -> "s_req_server"
    [] OTHER -> "s_dead"

parse_url_char(s, ch) ==
  CASE ch \in Control -> "s_dead"
    [] s = "s_req_spaces_before_url" ->
         IF ch \in {"/", "*"} THEN "s_req_path"
         ELSE IF Alpha(ch) THEN "s_req_schema" ELSE "s_dead"
    [] s = "s_req_schema" ->
         IF Alpha(ch) THEN s
         ELSE IF ch = ":" THEN "s_req_schema_slash" ELSE "s_dead"
    [] s = "s_req_schema_slash" ->
         IF ch = "/" THEN "s_req_schema_slash_slash" ELSE "s_dead"
    [] s = "s_req_schema_slash_slash" ->
         IF ch = "/" THEN "s_req_server_start" ELSE "s_dead"
    [] s = "s_req_server_with_at" ->
         IF ch = "@" THEN "s_dead" ELSE Authority(ch)
    [] s \in {"s_req_server_start", "s_req_server"} -> Authority(ch)
    [] s = "s_req_path" ->
         IF UrlChar(ch) THEN s
         ELSE IF ch = "?" THEN "s_req_query_string_start" ELSE "s_dead"
    [] s \in {"s_req_query_string_start", "s_req_query_string"} ->
         IF UrlChar(ch) \/ ch = "?" THEN "s_req_query_string" ELSE "s_dead"
    [] OTHER -> "s_dead"

Far == 1000000   \* the difference of a pointer and NULL

(* A byte of the URL.  qs_point counts from the mark of this chunk, and    *)
(* from NULL if the URL began in an earlier one.                           *)
UrlByte(l, s, ch) ==
  LET to == parse_url_char(s, ch)
      at == IF l.began THEN Len(l.piece) ELSE Far
      query == to = "s_req_query_string_start"
  IN  IF to = "s_dead" THEN Error(To(l, to), "INVALID_URL")
      ELSE [Mark(To(l, to), "url", ch) EXCEPT
              !.k.p.qs_point = IF query THEN at ELSE @]

-----------------------------------------------------------------------------
StartReq(l, ch) ==
  CASE ch \in {CR, LF} -> l
    [] \E m \in DOMAIN Method : Method[m][1] = ch ->
         [l EXCEPT !.k.p = [@ EXCEPT
            !.flags = {}, !.uses_transfer_encoding = FALSE,
            !.content_length = NoLength, !.method = ch,
            !.state = "s_req_method"]]
    [] OTHER -> Error(l, "INVALID_METHOD")

(* The letters decide between the methods that begin alike; on_method      *)
(* follows them.                                                           *)
ReqMethod(l, ch) ==
  LET fits == {m \in DOMAIN Method : Method[m] = <<l.k.p.method, ch>>} IN
  CASE ch = SP /\ l.k.p.method \in DOMAIN Method ->
         To(l, "s_req_spaces_before_url")
    [] fits # {} ->
         LET m == CHOOSE m \in fits : TRUE IN
           [l EXCEPT !.k.p.method = m, !.k.p.req.method = m]
    [] OTHER -> Error(l, "INVALID_METHOD")

SpacesBeforeUrl(l, ch) ==
  IF ch = SP THEN l
  ELSE UrlByte([l EXCEPT !.began = TRUE],
               IF l.k.p.method = "Connect" THEN "s_req_server_start"
               ELSE "s_req_spaces_before_url", ch)

Schema(l, ch) ==
  IF ch \in {SP, CR, LF} THEN Error(l, "INVALID_URL")
  ELSE UrlByte(l, l.k.p.state, ch)

(* The URL ends with a space, or with the line in HTTP/0.9.                *)
Url(l, ch) ==
  CASE ch = SP -> Data(To(l, "s_req_http_start"))
    [] ch \in {CR, LF} ->
         IF l.k.p.method # "Get"
         THEN Error(To(l, "s_dead"), "INVALID_VERSION")
         ELSE Data(To([l EXCEPT !.k.p.version = <<0, 9>>],
                      IF ch = CR THEN "s_req_line_almost_done"
                      ELSE "s_header_field_start"))
    [] OTHER -> UrlByte(l, l.k.p.state, ch)

Expect(l, good, to, e) == IF good THEN To(l, to) ELSE Error(l, e)

Version(l, ch) ==
  LET s == l.k.p.state
      digit == ch \in DOMAIN Digit
  IN
  CASE s = "s_req_http_start" ->
         IF ch = SP THEN l
         ELSE IF ch = "I" /\ l.k.p.method = "Source"
         THEN To(l, "s_req_http_I")
         ELSE Expect(l, ch = "H", "s_req_http_H", "INVALID_CONSTANT")
    [] s = "s_req_http_H" ->
         Expect(l, ch = "TTP", "s_req_http_HTTP", "STRICT")
    [] s = "s_req_http_I" ->
         Expect(l, ch = "CE", "s_req_http_HTTP", "STRICT")
    [] s = "s_req_http_HTTP" ->
         Expect(l, ch = "/", "s_req_http_major", "STRICT")
    [] s = "s_req_http_major" ->
         Expect([l EXCEPT !.k.p.version[1] = IF digit THEN Digit[ch] ELSE @],
                digit, "s_req_http_dot", "INVALID_VERSION")
    [] s = "s_req_http_dot" ->
         Expect(l, ch = ".", "s_req_http_minor", "INVALID_VERSION")
    [] s = "s_req_http_minor" ->
         Expect([l EXCEPT !.k.p.version[2] = IF digit THEN Digit[ch] ELSE @],
                digit, "s_req_http_end", "INVALID_VERSION")
    [] s = "s_req_http_end" ->
         IF ch = CR THEN To(l, "s_req_line_almost_done")
         ELSE Expect(l, ch = LF, "s_header_field_start", "INVALID_VERSION")
    [] OTHER ->
         Expect(l, ch = LF, "s_header_field_start", "LF_EXPECTED")

-----------------------------------------------------------------------------
(* After the headers: nothing, a body of known length, chunks, or another  *)
(* protocol, with which the parser has nothing to do.                      *)
HeadersDone(l, ch) ==
  LET r == [l EXCEPT !.k.p.nread = 0]
      p == l.k.p
  IN
  CASE ch # LF -> Error(l, "STRICT")
    [] p.upgrade ->
         LET m == MessageComplete(r) IN
           IF m.returned = "no" THEN [m EXCEPT !.returned = "upgrade"]
           ELSE m
    [] ~p.upgrade /\ "F_CHUNKED" \in p.flags -> To(r, "s_chunk_size_start")
    [] ~p.upgrade /\ "F_CHUNKED" \notin p.flags
         /\ p.uses_transfer_encoding ->
         Error(r, "INVALID_TRANSFER_ENCODING")
    [] OTHER -> IF p.content_length \in {0, NoLength}
                THEN MessageComplete(r)
                ELSE To(r, "s_body_identity")

HeadersAlmostDone(l, ch) ==
  LET p == l.k.p
      upgrade == "F_UPGRADE" \in p.flags \/ p.method = "Connect"
  IN
  CASE ch # LF -> Error(l, "STRICT")
    [] "F_TRAILING" \in p.flags -> MessageComplete(l)
    [] "F_TRAILING" \notin p.flags /\ p.uses_transfer_encoding
         /\ "F_CONTENTLENGTH" \in p.flags ->
         Error(l, "UNEXPECTED_CONTENT_LENGTH")
    [] OTHER ->
         LET m == Notified(l, on_headers_complete(
                    [l.k EXCEPT !.p.state = "s_headers_done",
                                !.p.upgrade = upgrade]))
         IN  IF m.returned = "no" THEN HeadersDone(m, ch) ELSE m

FieldStart(l, ch) ==
  CASE ch = CR -> To(l, "s_headers_almost_done")
    [] ch = LF -> HeadersAlmostDone(To(l, "s_headers_almost_done"), ch)
    [] Token(ch) ->
         [Mark(To(l, "s_header_field"), "header_field", ch) EXCEPT
            !.k.p.header_state =
               CASE ch = "c" -> "h_CO"
                 [] ch = "p" -> "h_matching_proxy_connection"
                 [] ch = "t" -> "h_matching_transfer_encoding"
                 [] ch = "u" -> "h_matching_upgrade"
                 [] OTHER -> "h_general"]
    [] OTHER -> Error(l, "INVALID_HEADER_TOKEN")

(* The names that mean something to the parser.                            *)
FieldState(h, ch) ==
  CASE h = "h_CO" /\ ch = "onnection" -> "h_connection"
    [] h = "h_CO" /\ ch = "ontent-length" -> "h_content_length"
    [] h = "h_matching_proxy_connection" /\ ch = "roxy-connection" ->
         "h_connection"
    [] h = "h_matching_transfer_encoding" /\ ch = "ransfer-encoding" ->
         "h_transfer_encoding"
    [] h = "h_matching_upgrade" /\ ch = "pgrade" -> "h_upgrade"
    [] OTHER -> "h_general"

Field(l, ch) ==
  LET h == FieldState(l.k.p.header_state, ch) IN
  CASE Token(ch) ->
         [Mark(l, "header_field", ch) EXCEPT
            !.k.p.header_state = h,
            !.k.p.uses_transfer_encoding = @ \/ h = "h_transfer_encoding"]
    [] ch = ":" -> Data(To(l, "s_header_value_discard_ws"))
    [] OTHER -> Error(l, "INVALID_HEADER_TOKEN")

(* The first byte of a value.  Whether the name of a protocol begins with  *)
(* h2 is not known if the chunk ends after the h.                          *)
ValueStart(l, ch, next) ==
  LET h == l.k.p.header_state
      v == Mark(To(l, "s_header_value"), "header_value", ch)
      With(to) == [v EXCEPT !.k.p.header_state = to]
  IN
  CASE h = "h_upgrade" ->
         IF ch # "h" \/ next # "2c"
         THEN [With("h_general") EXCEPT !.k.p.flags = @ \union {"F_UPGRADE"}]
         ELSE With("h_general")
    [] h = "h_transfer_encoding" ->
         With(IF ch = "c" THEN "h_matching_transfer_encoding_chunked"
              ELSE "h_matching_transfer_encoding_token")
    [] h \in {"h_matching_transfer_encoding_token_start",
              "h_content_length_ws"} -> v
    [] h = "h_content_length" ->
         IF ch \notin DOMAIN Digit THEN Error(v, "INVALID_CONTENT_LENGTH")
         ELSE IF "F_CONTENTLENGTH" \in l.k.p.flags
         THEN Error(v, "UNEXPECTED_CONTENT_LENGTH")
         ELSE [With("h_content_length_num") EXCEPT
                 !.k.p.flags = @ \union {"F_CONTENTLENGTH"},
                 !.k.p.content_length = Digit[ch]]
    [] h = "h_connection" ->
         With(CASE ch = "k" -> "h_matching_connection_keep_alive"
                [] ch = "c" -> "h_matching_connection_close"
                [] ch \in {SP, "\t"} -> h
                [] OTHER -> "h_general")
    [] OTHER -> With("h_general")

DiscardWs(l, ch, next) ==
  CASE ch \in {SP, "\t"} -> l
    [] ch = CR -> To(l, "s_header_value_discard_ws_almost_done")
    [] ch = LF -> To(l, "s_header_value_discard_lws")
    [] OTHER -> ValueStart(l, ch, next)

-----------------------------------------------------------------------------
(* What the value of a header that matters has come to.                    *)
ValueState(h, ch) ==
  CASE h \in {"h_content_length", "h_content_length_num"} ->
         IF ch = SP THEN "h_content_length_ws" ELSE "h_content_length_num"
    [] h = "h_content_length_ws" -> h
    [] h = "h_matching_transfer_encoding_token_start" ->
         CASE ch = "c" -> "h_matching_transfer_encoding_chunked"
           [] ch # "c" /\ Token(ch) -> "h_matching_transfer_encoding_token"
           [] ch \in {SP, "\t"} -> h
           [] OTHER -> "h_general"
    [] h = "h_matching_transfer_encoding_chunked" ->
         IF ch = "hunked" THEN "h_transfer_encoding_chunked"
         ELSE "h_matching_transfer_encoding_token"
    [] h = "h_matching_transfer_encoding_token" ->
         IF ch = "," THEN "h_matching_transfer_encoding_token_start" ELSE h
    [] h = "h_transfer_encoding_chunked" ->
         IF ch = SP THEN h ELSE "h_matching_transfer_encoding_token"
    [] h = "h_matching_connection_keep_alive" /\ ch = "eep-alive" ->
         "h_connection_keep_alive"
    [] h = "h_matching_connection_close" /\ ch = "lose" ->
         "h_connection_close"
    [] h \in {"h_connection_keep_alive", "h_connection_close"} ->
         IF ch = SP THEN h ELSE "h_general"
    [] OTHER -> "h_general"

(* A length grows by a digit to some base, unless it is near the limit.    *)
LongerLength(l, base, digit) ==
  IF (MaxLength - base) \div base < l.k.p.content_length
  THEN Error(l, "INVALID_CONTENT_LENGTH")
  ELSE [l EXCEPT !.k.p.content_length = @ * base + digit]

HeaderAlmostDone(l, ch) ==
  Expect(l, ch = LF, "s_header_value_lws", "LF_EXPECTED")

Value(l, ch) ==
  LET h == l.k.p.header_state
      v == [Mark(l, "header_value", ch) EXCEPT
              !.k.p.header_state = ValueState(h, ch)]
      length == v.k.p.header_state = "h_content_length_num"
  IN
  CASE ch = CR -> Data(To(l, "s_header_almost_done"))
    [] ch = LF -> HeaderAlmostDone(Data(To(l, "s_header_almost_done")), ch)
    [] ~HeaderChar(ch) -> Error(l, "INVALID_HEADER_TOKEN")
    [] length /\ ch \notin DOMAIN Digit ->
         Error(v, "INVALID_CONTENT_LENGTH")
    [] length /\ ch \in DOMAIN Digit -> LongerLength(v, 10, Digit[ch])
    [] h = "h_content_length_ws" /\ ch # SP ->
         Error(v, "INVALID_CONTENT_LENGTH")
    [] OTHER -> v

(* A line that begins with a space goes on with the value of the last one. *)
ValueLws(l, ch, next) ==
  LET h == l.k.p.header_state
      flag == CASE h = "h_connection_keep_alive" ->
                     {"F_CONNECTION_KEEP_ALIVE"}
                [] h = "h_connection_close" -> {"F_CONNECTION_CLOSE"}
                [] h = "h_transfer_encoding_chunked" -> {"F_CHUNKED"}
                [] OTHER -> {}
  IN  IF ch \in {SP, "\t"}
      THEN ValueStart([l EXCEPT !.k.p.header_state =
                         IF h = "h_content_length_num"
                         THEN "h_content_length_ws" ELSE h], ch, next)
      ELSE FieldStart(To([l EXCEPT !.k.p.flags = @ \union flag],
                         "s_header_field_start"), ch)

(* The value was empty, if the next line does not go on with it.           *)
DiscardLws(l, ch) ==
  IF ch \in {SP, "\t"} THEN To(l, "s_header_value_discard_ws")
  ELSE FieldStart(Data(To([l EXCEPT !.mark = "header_value", !.piece = <<>>],
                          "s_header_field_start")), ch)

-----------------------------------------------------------------------------
BodyIdentity(l, ch) ==
  LET b == [Mark(l, "body", ch) EXCEPT !.k.p.content_length = @ - 1] IN
    IF b.k.p.content_length = 0
    THEN MessageComplete(Data(To(b, "s_message_done")))
    ELSE b

ChunkSize(l, ch) ==
  CASE l.k.p.state = "s_chunk_size_start" ->
         IF Hex(ch) = -1 THEN Error(l, "INVALID_CHUNK_SIZE")
         ELSE To([l EXCEPT !.k.p.content_length = Hex(ch)], "s_chunk_size")
    [] l.k.p.state = "s_chunk_parameters" ->
         IF ch = CR THEN To(l, "s_chunk_size_almost_done") ELSE l
    [] OTHER ->
         CASE ch = CR -> To(l, "s_chunk_size_almost_done")
           [] ch \in {";", SP} -> To(l, "s_chunk_parameters")
           [] Hex(ch) # -1 -> LongerLength(l, 16, Hex(ch))
           [] OTHER -> Error(l, "INVALID_CHUNK_SIZE")

(* After a chunk of no length come headers again.                          *)
ChunkSizeDone(l, ch) ==
  IF ch # LF THEN Error(l, "STRICT")
  ELSE IF l.k.p.content_length = 0
  THEN To([l EXCEPT !.k.p.nread = 0,
                    !.k.p.flags = @ \union {"F_TRAILING"}],
          "s_header_field_start")
  ELSE To([l EXCEPT !.k.p.nread = 0], "s_chunk_data")

ChunkData(l, ch) ==
  LET b == [Mark(l, "body", ch) EXCEPT !.k.p.content_length = @ - 1] IN
  CASE l.k.p.state = "s_chunk_data" ->
         IF b.k.p.content_length = 0 THEN To(b, "s_chunk_data_almost_done")
         ELSE b
    [] l.k.p.state = "s_chunk_data_almost_done" ->
         IF ch = CR THEN Data(To(l, "s_chunk_data_done"))
         ELSE Error(l, "STRICT")
    [] OTHER ->
         IF ch = LF
         THEN To([l EXCEPT !.k.p.nread = 0], "s_chunk_size_start")
         ELSE Error(l, "STRICT")

-----------------------------------------------------------------------------
BodyStates == {"s_chunk_data", "s_chunk_data_almost_done",
               "s_chunk_data_done", "s_body_identity", "s_message_done"}

(* One byte.                                                               *)
Byte(l, ch, next) ==
  LET s == l.k.p.state IN
  CASE s = "s_dead" ->
         IF ch \in {CR, LF} THEN l ELSE Error(l, "CLOSED_CONNECTION")
    [] s = "s_start_req"             -> StartReq(l, ch)
    [] s = "s_req_method"            -> ReqMethod(l, ch)
    [] s = "s_req_spaces_before_url" -> SpacesBeforeUrl(l, ch)
    [] s \in {"s_req_schema", "s_req_schema_slash",
              "s_req_schema_slash_slash", "s_req_server_start"} ->
         Schema(l, ch)
    [] s \in {"s_req_server", "s_req_server_with_at", "s_req_path",
              "s_req_query_string_start", "s_req_query_string"} -> Url(l, ch)
    [] s = "s_header_field_start"      -> FieldStart(l, ch)
    [] s = "s_header_field"            -> Field(l, ch)
    [] s = "s_header_value_discard_ws" -> DiscardWs(l, ch, next)
    [] s = "s_header_value_discard_ws_almost_done" ->
         Expect(l, ch = LF, "s_header_value_discard_lws", "STRICT")
    [] s = "s_header_value_discard_lws" -> DiscardLws(l, ch)
    [] s = "s_header_value"        -> Value(l, ch)
    [] s = "s_header_almost_done"  -> HeaderAlmostDone(l, ch)
    [] s = "s_header_value_lws"    -> ValueLws(l, ch, next)
    [] s = "s_headers_almost_done" -> HeadersAlmostDone(l, ch)
    [] s = "s_headers_done"        -> HeadersDone(l, ch)
    [] s = "s_body_identity"       -> BodyIdentity(l, ch)
    [] s = "s_message_done"        -> MessageComplete(l)
    [] s \in {"s_chunk_size_start", "s_chunk_size", "s_chunk_parameters"} ->
         ChunkSize(l, ch)
    [] s = "s_chunk_size_almost_done" -> ChunkSizeDone(l, ch)
    [] s \in {"s_chunk_data", "s_chunk_data_almost_done",
              "s_chunk_data_done"} -> ChunkData(l, ch)
    [] OTHER -> Version(l, ch)

(* The bytes of the headers are counted.                                   *)
Counted(l) ==
  LET c == IF l.k.p.state \in BodyStates THEN l
           ELSE [l EXCEPT !.k.p.nread = @ + 1]
  IN  IF c.k.p.nread > MaxHeaderSize THEN Error(c, "HEADER_OVERFLOW") ELSE c

(* Byte i of a chunk, unless the parser has returned before it.            *)
Parsed(e, chunk, i) ==
  LET c == Counted(e.l)
      next == IF i = Len(chunk) THEN "" ELSE chunk[i + 1]
  IN  IF e.l.returned # "no" THEN e
      ELSE [l |-> IF c.returned # "no" THEN c ELSE Byte(c, chunk[i], next),
            nparsed |-> i]

(* The whole chunk, byte after byte.                                       *)
Execute(l, chunk) ==
  LET after[i \in 0 .. Len(chunk)] ==
        IF i = 0 THEN [l |-> l, nparsed |-> 0]
        ELSE Parsed(after[i - 1], chunk, i)
  IN  after[Len(chunk)]

(* feed: the connection afterwards, and whether the parser is content.     *)
feed(k, chunk) ==
  IF k.p.message_complete THEN [k |-> k, ok |-> TRUE]
  ELSE IF k.p.http_errno # "OK" THEN [k |-> k, ok |-> FALSE]
  ELSE LET e == Execute(Locals(k), chunk)
           l == IF e.l.returned = "no" THEN Data(e.l) ELSE e.l
       IN  [k  |-> l.k,
            ok |-> l.k.p.http_errno = "OK" /\ e.nparsed = Len(chunk)]
=============================================================================
