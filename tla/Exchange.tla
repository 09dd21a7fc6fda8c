-------------------------------- MODULE Exchange --------------------------------
(***************************************************************************)
(* One connection of the HTTP server: what its client sends, what the      *)
(* socket delivers and when, and the handler thread that reads requests    *)
(* off it, dispatches and answers them (pine-cpp/src/server/server.cpp,    *)
(* routes.cpp and http_metrics.cpp).  Server.tla has the life of the       *)
(* server around it: here the engine is there from before the connection   *)
(* until after it, and "engine not loaded" is not answered.                *)
(*                                                                         *)
(* A byte is a token: the first line of a request, the rest of its head    *)
(* up to the empty line, or one of as many units of body as its            *)
(* Content-Length says.  A request is a record; its content is what the    *)
(* body holds when it is read as a whole.                                  *)
(***************************************************************************)
EXTENDS Integers, Sequences, SequencesExt, FiniteSetsExt

CONSTANTS
    Scripts,    \* the sequences of requests a client may send
    Routes,     \* the custom routes: a function from paths to methods or "" for any
    MaxHead,    \* max_header_size, 1 MB
    MaxBody,    \* max_request_body_size
    Pipelined   \* clients may send a request before the previous one is answered

VARIABLES
    script,    \* what the client will send
    unsent,    \* the first byte it has not sent yet: which one, of which request
    inbox,     \* what the socket has received and nobody has read
    shut,      \* the client has closed its side
    phase,     \* where the handler thread is
    buffer,    \* buffer of read_http_request, then body_so_far
    request,   \* req, as the head was understood
    answers,   \* the responses sent
    counted,   \* HttpStats: requests by class of status
    handed,    \* the bodies given to the engine or an ingress (history)
    late       \* a body was not there in time (history)

clientVars == <<script, unsent, shut>>
logVars    == <<answers, counted, handed>>
vars == <<clientVars, logVars, inbox, phase, buffer, request, late>>

Phases == {"head", "body", "executing", "closed"}

Builtins == {"/health", "/execute", "/stats", "/dag"}

(* A Content-Length that is no number, or a negative one: content_length   *)
(* is then -2.                                                             *)
Malformed == -2

(* The bytes of the k-th request: its first line, its head, its body.      *)
Byte(k, i) == [of |-> k, at |-> IF i = 1 THEN "line" ELSE IF i = 2 THEN "end" ELSE "body", nr |-> i]

Length(k) == IF script[k].length = Malformed THEN 0 ELSE script[k].length

BodyOf(k) == [i \in 1 .. Length(k) |-> Byte(k, i + 2)]

(* HttpRequest; id says which request of the client's it is.               *)
Requests == [method : STRING, path : STRING, query : STRING, version : STRING, connection : STRING,
             length : Nat \cup {Malformed}, content : STRING, id : Nat]

NoRequest == [method |-> "", path |-> "", query |-> "", version |-> "1.1", connection |-> "",
              length |-> 0, content |-> "", id |-> 0]

Classes == {"2xx", "4xx", "5xx"}
StatusClass(status) ==
    IF status >= 500 THEN "5xx" ELSE IF status >= 400 THEN "4xx" ELSE "2xx"

Init ==
    /\ script \in Scripts
    /\ unsent = [of |-> 1, nr |-> 1]
    /\ inbox = <<>> /\ shut = FALSE
    /\ phase = "head" /\ buffer = <<>> /\ request = NoRequest
    /\ answers = <<>> /\ counted = [c \in Classes |-> 0] /\ handed = <<>>
    /\ late = FALSE

---------------------------------------------------------------------------
(* The client and the network.                                             *)

Send ==
    /\ unsent.of <= Len(script) /\ ~shut /\ phase # "closed"
    /\ Pipelined \/ unsent.of <= Len(answers) + 1
    /\ inbox' = Append(inbox, Byte(unsent.of, unsent.nr))
    /\ unsent' = IF unsent.nr < Length(unsent.of) + 2 THEN [unsent EXCEPT !.nr = @ + 1]
                 ELSE [of |-> unsent.of + 1, nr |-> 1]
    /\ UNCHANGED <<script, shut, logVars, phase, buffer, request, late>>

Shut ==
    /\ ~shut /\ phase # "closed"
    /\ shut' = TRUE
    /\ UNCHANGED <<script, unsent, logVars, inbox, phase, buffer, request, late>>

---------------------------------------------------------------------------
(* Answers.                                                                *)

(* Whether the connection is kept: 1.1 unless told to close, 1.0 only if   *)
(* told to keep it.                                                        *)
KeepAlive(r) ==
    IF r.version = "1.0" THEN r.connection = "keep-alive" ELSE r.connection # "close"

Log(r, status, result) ==
    answers' = Append(answers, [to |-> r.id, status |-> status, result |-> result])

(* A refusal before the dispatch: no middleware sees it, and the           *)
(* connection is closed.                                                   *)
Refuse(r, status) ==
    /\ Log(r, status, "none")
    /\ phase' = "closed"
    /\ UNCHANGED <<counted, handed>>

(* send_response below the middlewares, the innermost of which counts the  *)
(* class of the status; then the next request or the end.  buffer is local *)
(* to the call that read this request.                                     *)
Respond(r, status, result) ==
    /\ Log(r, status, result)
    /\ counted' = [counted EXCEPT ![StatusClass(status)] = @ + 1]
    /\ phase' = IF KeepAlive(r) THEN "head" ELSE "closed"
    /\ buffer' = <<>> /\ request' = NoRequest

---------------------------------------------------------------------------
(* read_http_request.                                                      *)

Close ==
    /\ phase' = "closed"
    /\ UNCHANGED <<clientVars, logVars, inbox, buffer, request, late>>

(* recv fails before the head is complete: the client is gone, or the      *)
(* time for the head or between two requests is over.                      *)
HeadFails ==
    /\ phase = "head" /\ inbox = <<>>
    /\ Close

(* What is read when the buffer does not begin with a request line: a line *)
(* without two blanks, a path nobody knows or a method nobody allows.      *)
Garbled(r) == {[r EXCEPT !.path = "/garbled"], [r EXCEPT !.method = "GARBLED"]}

Understood(b, e) ==
    LET k == b[e].of
        r == [script[k] EXCEPT !.id = k]
    IN  IF b[1].of = k /\ b[1].at = "line" THEN {r} ELSE Garbled(r)

(* Mutated form: the body is what comes after this read.                   *)
BodyAfresh(b, e) == <<>>

(* The body begins with what has come along with the head, however much    *)
(* that is.                                                                *)
BodyStart(b, e) == SubSeq(b, e + 1, Len(b))

(* The limit on the head is on all that has been read, body included.      *)
RecvHead ==
    /\ phase = "head"
    /\ \E n \in 1 .. Len(inbox) :
          LET b    == buffer \o SubSeq(inbox, 1, n)
              ends == {i \in DOMAIN b : b[i].at = "end"}
          IN  /\ inbox' = SubSeq(inbox, n + 1, Len(inbox))
              /\ \/ /\ Len(b) > MaxHead
                    /\ phase' = "closed" /\ UNCHANGED <<logVars, buffer, request>>
                 \/ /\ Len(b) <= MaxHead /\ ends = {}
                    /\ buffer' = b /\ UNCHANGED <<logVars, phase, request>>
                 \/ /\ Len(b) <= MaxHead /\ ends # {} /\ b[1].at # "line"
                    /\ phase' = "closed" /\ UNCHANGED <<logVars, buffer, request>>
                 \/ /\ Len(b) <= MaxHead /\ ends # {}
                    /\ \E r \in Understood(b, Min(ends)) :
                          /\ request' = r
                          /\ buffer' = BodyStart(b, Min(ends))
                          /\ CASE r.length = Malformed -> Refuse(r, 400)
                               [] r.length > MaxBody   -> Refuse(r, 413)
                               [] OTHER -> phase' = "body" /\ UNCHANGED logVars
    /\ UNCHANGED <<clientVars, late>>

Need == request.length - Len(buffer)

(* The loop over the body reads what is wanting, within the hard cap.      *)
Wanting == Need > 0 /\ Len(buffer) < MaxBody + 1

RecvBody ==
    /\ phase = "body" /\ Wanting
    /\ \E n \in 1 .. Len(inbox) :
          /\ n <= Need /\ n <= MaxBody + 1 - Len(buffer)
          /\ buffer' = buffer \o SubSeq(inbox, 1, n)
          /\ inbox' = SubSeq(inbox, n + 1, Len(inbox))
    /\ UNCHANGED <<clientVars, logVars, phase, request, late>>

---------------------------------------------------------------------------
(* The dispatch.                                                           *)

(* What parse_json and the checks of handle_execute make of a body.        *)
Content(r, body) == IF r.id # 0 /\ body = BodyOf(r.id) THEN r.content ELSE "garbage"

(* Answers that need no engine, the handler's early returns first.         *)
Immediate(r, body) ==
    IF r.path \in Builtins THEN
        IF r.method # (IF r.path = "/execute" THEN "POST" ELSE "GET") THEN 405
        ELSE IF r.path = "/execute" THEN
            IF r.length > MaxBody THEN 413
            ELSE IF Content(r, body) \in {"garbage", "array", "nil"} THEN 400 ELSE 0
        ELSE IF r.path = "/dag" /\ r.query \in {"format=?", "collapse=?"} THEN 400 ELSE 200
    ELSE IF r.path \in DOMAIN Routes THEN
        IF Routes[r.path] \notin {"", r.method} THEN 405 ELSE 0
    ELSE 404

(* The body is read, in full or as far as it came; one that is too large   *)
(* after all is refused.                                                   *)
Dispatch ==
    /\ IF Len(buffer) > MaxBody
       THEN Refuse(request, 413) /\ UNCHANGED <<buffer, request>>
       ELSE LET status == Immediate(request, buffer)
            IN  IF status # 0
                THEN Respond(request, status, "none") /\ UNCHANGED handed
                ELSE /\ phase' = "executing"
                     /\ handed' = Append(handed, [id |-> request.id, body |-> buffer])
                     /\ UNCHANGED <<answers, counted, buffer, request>>
    /\ UNCHANGED <<clientVars, inbox>>

BodyComplete == phase = "body" /\ ~Wanting /\ Dispatch /\ UNCHANGED late

(* recv fails within the body: the request is handled with what has come.  *)
BodyFails ==
    /\ phase = "body" /\ Wanting /\ inbox = <<>>
    /\ late' = (late \/ (~shut /\ unsent.of = request.id))
    /\ Dispatch

(* execute_with_trace: a request the engine rejects has no result, one     *)
(* that fails halfway what it had written; the client's going ends it.     *)
Outcomes(content) ==
    IF content = "invalid" THEN {<<400, "null">>}
    ELSE {IF content = "failing" THEN <<500, "partial">> ELSE <<200, "whole">>}
         \cup (IF shut THEN {<<500, "partial">>} ELSE {})

EndExecute ==
    /\ phase = "executing" /\ request.path = "/execute"
    /\ \E o \in Outcomes(Content(request, buffer)) : Respond(request, o[1], o[2])
    /\ UNCHANGED <<clientVars, inbox, handed, late>>

(* handle_custom_route: ingress may refuse the body, and egress turns an   *)
(* error into a status of its choice and gets no result then.              *)
EndRoute ==
    /\ phase = "executing" /\ request.path \in DOMAIN Routes
    /\ \/ /\ Content(request, buffer) \in {"garbage", "array", "nil"}
          /\ Respond(request, 500, "null")
       \/ /\ Content(request, buffer) \notin {"garbage", "array", "nil"}
          /\ \E o \in Outcomes(Content(request, buffer)) :
                IF o[1] = 200 THEN Respond(request, 200, "whole") ELSE Respond(request, 500, "null")
    /\ UNCHANGED <<clientVars, inbox, handed, late>>

Next ==
    \/ Send \/ Shut
    \/ HeadFails \/ RecvHead \/ RecvBody \/ BodyComplete \/ BodyFails \/ EndExecute \/ EndRoute

Spec == Init /\ [][Next]_vars

---------------------------------------------------------------------------
(* Properties.                                                             *)

TypeOK ==
    /\ script \in Scripts /\ shut \in BOOLEAN /\ late \in BOOLEAN
    /\ phase \in Phases
    /\ counted \in [Classes -> Nat]
    /\ Len(buffer) <= MaxHead

(* A request for which the answer can only be 200.                         *)
Servable(r) ==
    /\ r.content = "good" /\ r.length \in 0 .. MaxBody
    /\ r.method = "POST"
    /\ r.path = "/execute" \/ (r.path \in DOMAIN Routes /\ Routes[r.path] \in {"", "POST"})

(* However the stream is cut up: a client that waits for each answer and   *)
(* sends each body in time gets one answer per request, in the order of    *)
(* its requests, until the connection ends; what the engine or an ingress  *)
(* is given is that request's body, cut short only by the client's going;  *)
(* no servable request is refused; and every answer is counted, but for a  *)
(* refusal that ends the connection (server.cpp:126-291, 1402-1501).       *)
AnsweredInOrder ==
    ~Pipelined /\ ~late =>
        /\ \A k \in DOMAIN answers :
              /\ answers[k].to = k
              /\ Servable(script[k]) /\ ~shut => answers[k].status = 200
              /\ answers[k].result = "whole" => script[k].content \notin {"failing", "invalid"}
        /\ \A h \in ToSet(handed) :
              IsPrefix(h.body, BodyOf(h.id)) /\ (h.body = BodyOf(h.id) \/ shut)
        /\ phase = "head" /\ buffer = <<>> /\ inbox = <<>> =>
              \A k \in DOMAIN script : k \in DOMAIN answers \/ k >= unsent.of
        /\ phase # "closed" => Len(answers) = counted["2xx"] + counted["4xx"] + counted["5xx"]

(* The comment at server.cpp:265-266: the body is "bounded by both         *)
(* Content-Length and max_body_size + 1".  It is not: what has come along  *)
(* with the head of this request belongs to its body, the next request     *)
(* included.                                                               *)
BodyWithinLength == \A h \in ToSet(handed) : Len(h.body) <= script[h.id].length
=============================================================================
