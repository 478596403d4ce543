---------------------------- MODULE HttpMessage -----------------------------
(***************************************************************************)
(* The bytes of an HTTP request and the record of a parser.                *)
(*                                                                         *)
(* A byte stands for itself (the separators, the digits) or for a part of  *)
(* a word: words come in two parts, <<"G", "ET">>, so that a chunk may     *)
(* begin within them.  A parser is a record with the members of            *)
(* http_parser and HTTPParser; it is a member of the record of its         *)
(* connection, which the connection's handlers return changed.             *)
(***************************************************************************)
EXTENDS Integers, Sequences

CR == "\r"
LF == "\n"
SP == " "

Method ==
  [Get |-> <<"G", "ET">>, Head |-> <<"H", "EAD">>, Put |-> <<"P", "UT">>,
   Post |-> <<"P", "OST">>, Options |-> <<"O", "PTIONS">>,
   Connect |-> <<"C", "ONNECT">>, Source |-> <<"S", "OURCE">>]

Digit == [d \in {"0", "1", "2", "9"} |->
            CASE d = "0" -> 0 [] d = "1" -> 1 [] d = "2" -> 2 [] d = "9" -> 9]
Hex(ch) == IF ch \in DOMAIN Digit THEN Digit[ch]
           ELSE IF ch = "c" THEN 12 ELSE -1

Control == {"\t", "nul"}
Token(ch) == ch \notin Control \union {SP, CR, LF, ":", "/", "?", "@", ","}
UrlChar(ch) == ch \notin Control \union {SP, CR, LF, "?", "#"}
HeaderChar(ch) == ch # "nul"
Alpha(ch) == Token(ch) /\ ch \notin DOMAIN Digit \union {"*", ".", "-", "#"}

(* No rule of the router.                                                  *)
NoRule == [rule |-> 0, path |-> <<>>]

-----------------------------------------------------------------------------
NoLength == -1

NoRequest == [method |-> "none", raw_url |-> <<>>, url |-> <<>>,
              headers |-> <<>>, body |-> <<>>, version |-> <<0, 0>>,
              keep_alive |-> FALSE, close_connection |-> FALSE,
              upgrade |-> FALSE]

(* http_parser_init and the constructor of HTTPParser.                     *)
NewParser ==
  [state |-> "s_start_req", header_state |-> "h_general", flags |-> {},
   uses_transfer_encoding |-> FALSE, nread |-> 0, content_length |-> 0,
   qs_point |-> 0, version |-> <<0, 0>>, method |-> "none",
   http_errno |-> "OK", upgrade |-> FALSE,
   header_building_state |-> 0, message_complete |-> FALSE,
   header_field |-> <<>>, header_value |-> <<>>, req |-> NoRequest]

(* Mutant: where the query begins in the last URL is kept.                 *)
clearKeepingQuery(k) ==
  [k EXCEPT !.p = [@ EXCEPT
     !.req = NoRequest, !.header_field = <<>>, !.header_value = <<>>,
     !.header_building_state = 0, !.message_complete = FALSE,
     !.state = "s_start_req"]]

(* HTTPParser::clear.  http_errno and nread stay.                          *)
clear(k) ==
  [k EXCEPT !.p = [@ EXCEPT
     !.req = NoRequest, !.header_field = <<>>, !.header_value = <<>>,
     !.header_building_state = 0, !.qs_point = 0,
     !.message_complete = FALSE, !.state = "s_start_req"]]

(* The end of the data: fine between two messages.                         *)
ExecuteEof(k) ==
  IF k.p.http_errno # "OK" \/ k.p.state \in {"s_dead", "s_start_req"} THEN k
  ELSE [k EXCEPT !.p.http_errno = "INVALID_EOF_STATE"]

done(k) == IF k.p.message_complete THEN k ELSE ExecuteEof(k)
=============================================================================
