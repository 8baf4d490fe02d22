----------------------------- MODULE RequestPath -----------------------------
(***************************************************************************)
(* One HTTP request on its way through the chain NewService built, the mux *)
(* and the guards and adapters an application puts around its handlers:    *)
(* otel.Middleware, security.OriginCheck and BodyLimit, errorpages.Mount   *)
(* and Wrap, security.RateLimit, CSRF, APIKeyCSRFBypass and APIKeyAuth,    *)
(* httpx.ResultHandler and ResultHandlerWithValidation.                    *)
(*                                                                         *)
(* A layer either passes the request on or answers it; todo holds the      *)
(* layers still to enter.  net/http, the mux, the limiter, nosurf and the  *)
(* recovery middleware are external: the first status is the one sent, a   *)
(* mux cleans paths before it matches, a panic is a 500 unless a status is *)
(* out already.                                                            *)
(***************************************************************************)
EXTENDS PresetBoot

CONSTANT Traffic(_)   \* the requests an assembled service receives

VARIABLES
  req,      \* the request
  todo,     \* layers it has not entered yet, outermost first
  resp,     \* what was written: status, documents, Allow header
  fn,       \* what the application's function did, or NotRun
  traced    \* a server span covers the request

pathVars == <<req, todo, resp, fn, traced>>

NotRun == [own |-> "nothing", out |-> "none"]
Unwritten == [status |-> 0, docs |-> <<>>, allow |-> FALSE]
NoRequest == [target |-> "none"]

ASSUME TrafficAssumption ==
  \A i \in Inputs : NoRequest \notin Traffic(i) /\ \A r \in Traffic(i) : r.size \in Nat

PathInit ==
  /\ req = NoRequest
  /\ todo = <<>>
  /\ resp = Unwritten
  /\ fn = NotRun
  /\ traced = FALSE

Answered == req # NoRequest /\ todo = <<>>

\* A document goes out under the status, unless one was sent before.
Written(r, status, doc) ==
  [r EXCEPT !.status = IF @ = 0 THEN status ELSE @, !.docs = Append(@, doc)]

Receive ==
  /\ boot = "built" /\ req = NoRequest
  /\ req' \in Traffic(in)
  /\ todo' = IF in.server = "custom" THEN <<"Wrap">> ELSE stack \o <<"Mux">>
  /\ UNCHANGED <<resp, fn, traced>>

\* The response is out; no layer keeps anything of the request.
Close ==
  /\ Answered
  /\ req' = NoRequest /\ todo' = <<>> /\ resp' = Unwritten /\ fn' = NotRun /\ traced' = FALSE

\* The request is inside a layer.
In(layer) == todo # <<>> /\ Head(todo) = layer

Pass == todo' = Tail(todo) /\ UNCHANGED <<req, resp, fn, traced>>

\* A layer answers by itself; next is never called.
Refuse(status) ==
  /\ todo' = <<>>
  /\ resp' = Written(resp, status, "refusal")
  /\ UNCHANGED <<req, fn, traced>>

-----------------------------------------------------------------------------
\* Middleware.

PassThrough ==
  /\ \E l \in {"ServerTiming", "Recovery", "RequestID", "Logging", "Timeout", "SecurityHeaders",
               "Headers", "BodyLimit", "Collector"} : In(l)
  /\ Pass

\* Health endpoints are never instrumented; the middleware reports to the
\* process-global provider.
Trace ==
  /\ In("Otel")
  /\ traced' = (req.target # "health" /\ ~in.otel.isolated)
  /\ todo' = Tail(todo)
  /\ UNCHANGED <<req, resp, fn>>

Lower(origin) == IF origin = "Listed" THEN "listed" ELSE origin

\* extractRequestOrigin: the Origin header, else the origin of the Referer.
RequestOrigin == IF req.origin # "" THEN req.origin ELSE req.referer

\* Unparseable origins and those without a host never equal it.
SameOrigin == RequestOrigin = "self"

OriginCheck ==
  /\ In("OriginCheck")
  /\ IF \/ in.sec.origins = {} \/ "*" \in in.sec.origins
        \/ RequestOrigin = ""
        \/ Lower(RequestOrigin) \in {Lower(o) : o \in in.sec.origins}
        \/ SameOrigin
     THEN Pass ELSE Refuse(403)

-----------------------------------------------------------------------------
\* Routing and error pages.

CatchAll == "pages" \in mounts

\* What the mux does with a request that reaches no application route: a path
\* that is not canonical is redirected, a catch-all takes everything else.
MuxStatus == CASE req.target = "unclean" -> 301
               [] req.target = "method"  -> 405
               [] OTHER                  -> 404

\* writeNotFound, writeMethodNotAllowed: a page, or the JSON contract when the
\* client asks for it.
Page == IF req.json THEN "json" ELSE "page"

Guarded == {"result", "validated"}
Guards == <<"RateLimit", "CSRF", "APIKeyAuth", "Handler">>

Reply(status, doc, allow) ==
  /\ todo' = <<>>
  /\ resp' = [Written(resp, status, doc) EXCEPT !.allow = allow]
  /\ UNCHANGED <<req, fn, traced>>

\* The mux: application routes, the health surface, the pretty catch-all
\* (errorpages.Mount), which takes wrong methods too, or the mux's bare answer.
Mux ==
  /\ In("Mux")
  /\ CASE req.target \in Guarded -> todo' = Guards /\ UNCHANGED <<req, resp, fn, traced>>
       [] req.target = "health" -> Reply(200, "health", FALSE)
       [] req.target \in {"method", "missing"} /\ CatchAll -> Reply(404, Page, FALSE)
       [] OTHER -> Reply(MuxStatus, "bare", MuxStatus = 405)

\* Mutant of Wrap: a redirect is recorded like any other bare answer.
WrapWithoutClean ==
  /\ In("Wrap")
  /\ CASE req.target \in Guarded -> todo' = Guards /\ UNCHANGED <<req, resp, fn, traced>>
       [] req.target = "health" -> Reply(200, "health", FALSE)
       [] OTHER -> IF MuxStatus = 405 THEN Reply(405, Page, TRUE) ELSE Reply(404, Page, FALSE)

\* errorpages.Wrap: a matched pattern and a path that is not clean go to the
\* mux; otherwise its bare answer is recorded and rendered, 405 with the Allow
\* header of the recording, everything else as 404.
Wrap ==
  /\ In("Wrap")
  /\ CASE req.target \in Guarded -> todo' = Guards /\ UNCHANGED <<req, resp, fn, traced>>
       [] req.target = "health" -> Reply(200, "health", FALSE)
       [] req.target = "unclean" -> Reply(MuxStatus, "bare", FALSE)
       [] OTHER -> IF MuxStatus = 405 THEN Reply(405, Page, TRUE) ELSE Reply(404, Page, FALSE)

-----------------------------------------------------------------------------
\* Guards of a route, composed as the documentation of the bypass says:
\* APIKeyCSRFBypass(CSRF)(APIKeyAuth(key)(handler)) behind a limiter.

\* The limiter's buckets are external: it admits the request or not.
RateLimit == In("RateLimit") /\ (Pass \/ Refuse(429))

\* security.CSRF strips "*" from the trusted origins; nosurf lets safe methods
\* pass and wants a token, and a trusted origin when the request is cross-site.
Trusted == in.app.trusted \ {"*"}
CSRFPasses ==
  \/ req.safe
  \/ req.token /\ (RequestOrigin \in {"", "self"} \/ RequestOrigin \in Trusted)

\* A request with the X-Api-Key header, right or wrong, skips the CSRF layer.
CSRF == In("CSRF") /\ (IF req.header # "" \/ CSRFPasses THEN Pass ELSE Refuse(400))

\* Mutant of APIKeyAuth: the key in the URL is honoured on every method.
APIKeyAuthAnyMethod ==
  /\ In("APIKeyAuth")
  /\ IF ~in.app.key \/ (IF req.header = "" THEN req.query ELSE req.header) = "right"
     THEN Pass ELSE Refuse(401)

\* An empty key disables the guard.  The query is looked at on safe methods and
\* only without the header.
APIKeyAuth ==
  /\ In("APIKeyAuth")
  /\ IF ~in.app.key \/ (IF req.header = "" /\ req.safe THEN req.query ELSE req.header) = "right"
     THEN Pass ELSE Refuse(401)

-----------------------------------------------------------------------------
\* The adapters of httpx.  An error has a family, may vouch for its text
\* (Public) and may hold internals (leaky).

ClientFamilies == {"rejection", "conflict"}
HTTPStatus == [rejection |-> 400, conflict |-> 409, transient |-> 503, infrastructure |-> 503,
               unclassified |-> 500]
Errors == [family : DOMAIN HTTPStatus, public : BOOLEAN, leaky : BOOLEAN]
BindError == [family |-> "rejection", public |-> FALSE, leaky |-> FALSE]

\* The text a client sees.
SanitizeErrorMessage(e) ==
  CASE e.public                     -> "public"
    [] e.family \in ClientFamilies  -> IF e.leaky THEN "redacted" ELSE "own text"
    [] OTHER                        -> "default"

WriteError(r, e) == Written(r, HTTPStatus[e.family], SanitizeErrorMessage(e))

\* writeResult: no content for a nil pointer, else the value.
WriteResult(r, out) == IF out = "nil" THEN [r EXCEPT !.status = IF @ = 0 THEN 204 ELSE @]
                       ELSE Written(r, 200, "value")

Recovered == "Recovery" \in {stack[i] : i \in DOMAIN stack}

\* What the function leaves behind: its own writes, a flush through
\* http.ResponseController that sends the header of an empty response, and a
\* panic the recovery middleware turns into a 500.
OwnWrites(own) == CASE own = "written" -> Written(resp, 200, "own")
                    [] own = "flushed" -> [resp EXCEPT !.status = IF @ = 0 THEN 200 ELSE @]
                    [] OTHER           -> resp
Panicked(r) == IF Recovered /\ r.status = 0 THEN Written(r, 500, "default") ELSE r

\* A call of the application's function, and what the adapter makes of it.
Call(Finish(_, _)) ==
  \E own \in {"nothing", "flushed", "written"} :
    \/ /\ fn' = [own |-> own, out |-> "panic"]
       /\ resp' = Panicked(OwnWrites(own))
    \/ \E e \in Errors : /\ fn' = [own |-> own, out |-> "error"]
                         /\ resp' = WriteError(OwnWrites(own), e)
    \/ \E out \in {"value", "nil"} : /\ fn' = [own |-> own, out |-> out]
                                     /\ resp' = Finish(own, out)

\* resultWriter.didWrite: a function that wrote owns the response.  A flush goes
\* past the recording writer (Unwrap).
ResultHandler ==
  /\ In("Handler") /\ req.target = "result"
  /\ LET Finish(own, out) == IF own = "written" THEN OwnWrites(own) ELSE WriteResult(OwnWrites(own), out)
     IN Call(Finish)
  /\ todo' = <<>>
  /\ UNCHANGED <<req, traced>>

\* Sizes are in units of half the bind limit.
MaxBindBody == 2
BodyLimited == "BodyLimit" \in {stack[i] : i \in DOMAIN stack}
BodyLimit == IF in.code.security # "nil" /\ in.sec.limit > 0 THEN in.sec.limit ELSE MaxBindBody
ReadSize == IF req.size > MaxBindBody THEN MaxBindBody + 1 ELSE req.size

\* bindJSON: one byte more than the limit is read, which MaxBytesReader may
\* refuse; then too large, empty and undecodable bodies are told apart.
BindJSON == CASE BodyLimited /\ ReadSize > BodyLimit -> "unreadable"
              [] ReadSize > MaxBindBody              -> "too large"
              [] ReadSize = 0                        -> "empty"
              [] ~req.decodes                        -> "invalid"
              [] OTHER                               -> "ok"

\* ResultHandlerWithValidation: the body is bound, validated, and the function
\* called with the plain writer.
ResultHandlerWithValidation ==
  /\ In("Handler") /\ req.target = "validated"
  /\ todo' = <<>>
  /\ UNCHANGED <<req, traced>>
  /\ \/ BindJSON # "ok" /\ resp' = WriteError(resp, BindError) /\ fn' = fn
     \/ BindJSON = "ok" /\ \E e \in Errors : resp' = WriteError(resp, e) /\ fn' = fn
     \/ /\ BindJSON = "ok"
        /\ LET Finish(own, out) == WriteResult(OwnWrites(own), out) IN Call(Finish)

PathStep ==
  \/ Receive \/ Close \/ PassThrough \/ Trace \/ OriginCheck \/ Mux \/ Wrap
  \/ RateLimit \/ CSRF \/ APIKeyAuth \/ ResultHandler \/ ResultHandlerWithValidation

=============================================================================
