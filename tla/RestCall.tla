-------------------------------- MODULE RestCall -------------------------------
(***************************************************************************)
(* nr.databind.rest: a call of an interface's method through the client of *)
(* requests_client.py and the resource bound by flask.py.  A value has the *)
(* kind of its type and its text as JSON; a string is its own text, which  *)
(* may be the JSON of something else.                                      *)
(***************************************************************************)
EXTENDS Naturals, Sequences, SequencesExt, FiniteSets, Functions, TLC

CONSTANTS
  Interfaces,    \* sequences of routes
  Annotations,   \* the RouteParam objects in signatures: <<"ann", name>> -> object
  Literals,      \* texts that are JSON, and the kind of value they are
  Unroutable,    \* texts for which a path matches no route
  Values, Exceptions, None

\* Methods and parameters have names of their own, annotations are query parameters, headers
\* or bodies, and what is no string is written as JSON, in which only null is None.
Sound(interface) ==
  /\ interface \in Seq(ToSet(interface))
  /\ \A k, l \in DOMAIN interface : interface[k].name = interface[l].name => k = l
  /\ \A r \in ToSet(interface) :
       /\ r.params \in Seq(ToSet(r.params))
       /\ \A i \in DOMAIN r.params :
            /\ r.params[i].name # None /\ <<r.name, r.params[i].name>> \notin DOMAIN Annotations
            /\ r.params[i].ann \in {None} \cup DOMAIN Annotations
            /\ r.params[i].default # None => r.params[i].default.kind # "error"
            /\ \A j \in DOMAIN r.params : r.params[i].name = r.params[j].name => i = j
InterfacesAreSound == \A interface \in Interfaces : Sound(interface)
AnnotationsAreSound ==
  /\ Annotations = [ann \in DOMAIN Annotations |-> Annotations[ann]]
  /\ \A ann \in DOMAIN Annotations : LET a == Annotations[ann] IN
    /\ a.in \in {"query", "header", "body"} /\ a.optional \in BOOLEAN
    /\ IF a.in = "body" THEN a.default = None ELSE a.default # None => a.default.kind # "error"
    /\ a = [in |-> a.in, type |-> a.type, optional |-> a.optional, name |-> a.name, default |-> a.default]
ValuesAreJson ==
  /\ \A v \in Values :
       /\ v = [kind |-> v.kind, text |-> v.text] /\ v.kind # "error"
       /\ v.kind # "str" => v.text \in DOMAIN Literals /\ Literals[v.text] = v.kind
  /\ \A t \in DOMAIN Literals : Literals[t] # "error" /\ (Literals[t] = "none" => t = "null")
ExceptionsAreTheirs ==
  /\ DOMAIN Exceptions \cap {"ServiceException", "ConnectionError"} = {}
  /\ \A e \in DOMAIN Exceptions : [raises |-> e] # None

VARIABLES
  routes,
  heap,     \* id -> [in, type, optional, name, default]
  resolved, \* per method, None before get_routes(), then its parameters in order
  stage, call, request, response,
  ran,      \* history: how the implementation was called, and what came of it
  outcome

vars == <<routes, heap, resolved, stage, call, request, response, ran, outcome>>

Value(kind, text) == [kind |-> kind, text |-> text]
Method(name) == routes[CHOOSE i \in DOMAIN routes : routes[i].name = name]
MethodNames == {routes[i].name : i \in DOMAIN routes}
ParamNames(r) == {r.params[i].name : i \in DOMAIN r.params}
IndexOf(r, n) == CHOOSE i \in DOMAIN r.params : r.params[i].name = n

Init ==
  /\ routes \in Interfaces /\ heap = Annotations /\ stage = "resolve"
  /\ resolved = [m \in MethodNames |-> None]
  /\ call = None /\ request = None /\ response = None /\ ran = None /\ outcome = None

-------------------------------------------------------------------------------
\* ParametrizedRoute.from_function(): the parameters of the path, then the others; what a
\* RouteParam object lacks is filled in, in the object that is the annotation.
InPath(r) == {i \in DOMAIN r.params : r.params[i].name \in ToSet(r.path)}
IsOwn(r, i) == i \in InPath(r) \/ r.params[i].ann = None
Id(r, i) == IF IsOwn(r, i) THEN <<r.name, r.params[i].name>> ELSE r.params[i].ann
Own(r, i) ==
  [in |-> IF i \in InPath(r) THEN "path" ELSE "body", type |-> r.params[i].type,
   optional |-> FALSE, name |-> r.params[i].name, default |-> None]
Defaults(object, p) == object.in \in {"query", "header"} /\ p.default # None
FillIn(object, p) ==
  [in |-> object.in, type |-> object.type,
   optional |-> object.optional \/ (Defaults(object, p) /\ p.default.kind = "none"),
   name |-> IF object.name = None THEN p.name ELSE object.name,
   default |-> IF Defaults(object, p) THEN p.default ELSE object.default]
Fill(h, r, i) ==
  [id \in DOMAIN h \cup {Id(r, i)} |->
     IF id # Id(r, i) THEN h[id]
     ELSE IF IsOwn(r, i) THEN Own(r, i) ELSE FillIn(h[id], r.params[i])]

\* The objects after each parameter of a route, and after each of the routes.
Resolving(h, r) ==
  LET f[i \in 0 .. Len(r.params)] == IF i = 0 THEN h ELSE Fill(f[i - 1], r, i) IN f
ResolvingAll(h) ==
  LET f[k \in 0 .. Len(routes)] ==
        IF k = 0 THEN h ELSE Resolving(f[k - 1], routes[k])[Len(routes[k].params)]
  IN  f
Bodies(h, r) == {i \in DOMAIN r.params : h[Id(r, i)].in = "body"}

\* get_routes(), which both sides call: on an object the other may have filled in.
GetRoutes ==
  /\ stage = "resolve"
  /\ LET heaps == ResolvingAll(heap)
     IN  /\ stage' = IF \E k \in DOMAIN routes : Cardinality(Bodies(heaps[k], routes[k])) > 1
                     THEN "TypeError" ELSE "idle"
         /\ heap' = heaps[Len(routes)]
  /\ resolved' = [m \in MethodNames |-> [i \in DOMAIN Method(m).params |-> Id(Method(m), i)]]
  /\ UNCHANGED <<routes, call, request, response, ran, outcome>>

GetRoutesAgain ==
  /\ stage = "idle" /\ ran = None /\ stage' = "resolve"
  /\ UNCHANGED <<routes, heap, resolved, call, request, response, ran, outcome>>

-------------------------------------------------------------------------------
\* MimeTypeMapper: the texts of parameters are not JSON if they are strings; and what was
\* a string is read as JSON if it can be.
Fits(object, value) == value.kind = object.type \/ (object.optional /\ value.kind = "none")
Decode(text) == IF text \in DOMAIN Literals THEN Value(Literals[text], text) ELSE Value("str", text)

Objects(m) == [i \in DOMAIN resolved[m] |-> heap[resolved[m][i]]]
ParamName(m, i) == Method(m).params[i].name
Ended(result) == stage' = "done" /\ outcome' = result

\* __route_dispatcher(): headers and query parameters are dicts by name, of which the last
\* stays.
Given(m, args) == {i \in DOMAIN Objects(m) : ParamName(m, i) \in DOMAIN args}
Lacking(m, args) ==      \* for signature.bind(), or what is no query or header
  {i \in DOMAIN Objects(m) \ Given(m, args) :
     Method(m).params[i].default = None \/ Objects(m)[i].default = None}
At(m, args, in, n) == {i \in Given(m, args) : Objects(m)[i].in = in /\ Objects(m)[i].name = n}
Dict(m, args, in) ==
  [n \in {Objects(m)[i].name : i \in {i \in Given(m, args) : Objects(m)[i].in = in}} |->
     args[ParamName(m, Max(At(m, args, in, n)))]]
Sent(m, args) ==
  [method |-> m, path |-> Dict(m, args, "path"), query |-> Dict(m, args, "query"),
   header |-> Dict(m, args, "header"),
   body |-> {args[ParamName(m, i)] : i \in {i \in Given(m, args) : Objects(m)[i].in = "body"}}]
Accepts(m, args) ==
  /\ Lacking(m, args) = {}
  /\ \A i \in Given(m, args) : Fits(Objects(m)[i], args[ParamName(m, i)])
Dispatch(m, args) ==
  /\ stage = "idle" /\ call' = [method |-> m, args |-> args]
  /\ IF Accepts(m, args)
     THEN request' = Sent(m, args) /\ stage' = "sent" /\ UNCHANGED outcome
     ELSE Ended([raises |-> "client"]) /\ UNCHANGED request
  /\ UNCHANGED <<routes, heap, resolved, response, ran>>

-------------------------------------------------------------------------------
\* Mutant: what does not fit the type is passed on.
VisitAnything(object) ==
  IF object.in = "body" THEN CHOOSE v \in request.body : TRUE
  ELSE IF object.name \in DOMAIN request[object.in] THEN Decode(request[object.in][object.name].text)
  ELSE object.default

\* FlaskParamVisitor: what a parameter is given, or the status of the error.
Taken(object, value) == IF Fits(object, value) THEN value ELSE Value("error", "500")
Visit(object) ==
  IF object.in = "body" THEN Taken(object, CHOOSE v \in request.body : TRUE)
  ELSE IF object.name \notin DOMAIN request[object.in]
  THEN IF object.default # None THEN object.default ELSE Value("error", "400")
  ELSE IF object.in = "query" /\ object.type = "list" /\ ~object.optional
  THEN Value("error", "500")                  \* decode() of a list of texts
  ELSE Taken(object, Decode(request[object.in][object.name].text))

Response(status, body) == [status |-> status, body |-> body]
Failure(status, class) == Response(status, [raises |-> class])

\* FlaskRouteWrapper.__call__(): what the implementation comes to is an answer.
Answer(returns, result) ==
  IF "raises" \in DOMAIN result
  THEN IF result.raises \in DOMAIN Exceptions
       THEN Failure(Exceptions[result.raises], result.raises)
       ELSE Failure("500", "ServiceException")
  ELSE IF returns = "void" THEN Response("201", None)
  ELSE IF returns = "passthrough" \/ result.value.kind = returns THEN Response("200", result)
  ELSE Failure("500", "ServiceException")
Visited(m) == [i \in DOMAIN Objects(m) |-> Visit(Objects(m)[i])]
Bad(m) == {i \in DOMAIN Objects(m) : Visited(m)[i].kind = "error"}
Called(m) == [n \in ParamNames(Method(m)) |-> Visited(m)[IndexOf(Method(m), n)]]
Serve(result) ==
  LET m == request.method
      first == Visited(m)[Min(Bad(m))]
  IN  /\ stage = "sent" /\ stage' = "answered"
      /\ IF \E v \in Range(request.path) : v.text \in Unroutable
         THEN response' = Response("404", None) /\ UNCHANGED ran
         ELSE IF Bad(m) # {}
         THEN /\ response' = Failure(first.text, IF first.text = "400" THEN "BadRequest" ELSE "ServiceException")
              /\ UNCHANGED ran
         ELSE /\ ran' = [args |-> Called(m), result |-> result]
              /\ response' = Answer(Method(m).returns, result)
      /\ UNCHANGED <<routes, heap, resolved, call, request, outcome>>

\* The rest of __route_dispatcher(): an error that is not of the route's content type is
\* an HTTPError, else the exception is made again.
Received ==
  IF response.status = "404" /\ response.body = None THEN [raises |-> "HTTPError"]
  ELSE IF response.status \notin {"200", "201"} THEN response.body
  ELSE IF Method(call.method).returns = "void" THEN [value |-> Value("none", "null")]
  ELSE response.body
Receive ==
  /\ stage = "answered" /\ Ended(Received)
  /\ UNCHANGED <<routes, heap, resolved, call, request, response, ran>>

\* The connection breaks, before or after the call: there is no second attempt.
Disconnect ==
  /\ stage \in {"sent", "answered"} /\ Ended([raises |-> "ConnectionError"])
  /\ UNCHANGED <<routes, heap, resolved, call, request, response, ran>>

Results == {[value |-> v] : v \in Values} \cup {[raises |-> e] : e \in DOMAIN Exceptions \cup {"other"}}
Next ==
  \/ GetRoutes \/ GetRoutesAgain \/ Receive \/ Disconnect
  \/ \E m \in MethodNames : \E given \in SUBSET ParamNames(Method(m)) :
       \E args \in [given -> Values] : Dispatch(m, args)
  \/ \E result \in Results : Serve(result)

Spec == Init /\ [][Next]_vars

-------------------------------------------------------------------------------
\* The parameters that have one annotation, in the order in which they are resolved.
Places == UNION {{k} \X DOMAIN routes[k].params : k \in DOMAIN routes}
ParamOf(u) == routes[u[1]].params[u[2]]
Users(ann) == {u \in Places : ~IsOwn(routes[u[1]], u[2]) /\ ParamOf(u).ann = ann}
Before(u, v) == u[1] < v[1] \/ (u[1] = v[1] /\ u[2] < v[2])
IsFirst(u, users) == u \in users /\ \A v \in users : ~Before(v, u)
IsLast(u, users) == u \in users /\ \A v \in users : ~Before(u, v)
WithDefault(users) == {u \in users : ParamOf(u).default # None}

\* A call that returns has called the implementation with the arguments of the caller, or
\* the defaults for those not given, and returns what it returned.  The exceptions: the
\* string `null' arrives as None where None is allowed, parameters of one method that go by
\* one name are one, and of those that share an annotation, in whatever methods, the last
\* default is that of all (__init__.py:345-368, 441-458, requests_client.py:68-150,
\* flask.py:112-166).
Clash(r) ==
  \E i, j \in DOMAIN r.params :
  i # j /\ heap[Id(r, i)].in = heap[Id(r, j)].in /\ heap[Id(r, i)].name = heap[Id(r, j)].name
CallIsLocal ==
  stage = "done" /\ "value" \in DOMAIN outcome =>
    LET r == Method(call.method) IN
    /\ r.returns # "void" => outcome = ran.result
    /\ ~Clash(r) => \A i \in DOMAIN r.params :
         LET n == r.params[i].name IN
         IF n \in DOMAIN call.args
         THEN \/ ran.args[n] = call.args[n]
              \/ heap[Id(r, i)].optional /\ call.args[n] = Value("str", "null")
         ELSE \E u \in Places : IsLast(u, WithDefault(Users(Id(r, i))))
                                /\ ran.args[n] = ParamOf(u).default

\* An exception that the implementation raises is raised again by the client, or as a
\* ServiceException; and one of the client's own means that it was not called.
ErrorsAreTold ==
  stage = "done" /\ "raises" \in DOMAIN outcome =>
    /\ outcome.raises \in {"client", "BadRequest", "HTTPError"} =>
         ran = None \/ ran.result = outcome
    /\ outcome.raises \in DOMAIN Exceptions => ran = None \/ ran.result = outcome

\* Resolving the routes a second time, for the other side, gives what the first did.
ResolvedOnce == stage = "idle" => ResolvingAll(heap)[Len(routes)] = heap

\* A parameter goes by its own name, or by that of its annotation, which without one of its
\* own has that of the first parameter.
NamesAreKept == stage = "idle" =>
  \A r \in ToSet(routes) : \A i \in DOMAIN r.params :
    LET name == heap[Id(r, i)].name IN
    IF IsOwn(r, i) THEN name = r.params[i].name
    ELSE IF Annotations[r.params[i].ann].name # None THEN name = Annotations[r.params[i].ann].name
    ELSE \E u \in Places : IsFirst(u, Users(r.params[i].ann)) /\ name = ParamOf(u).name

-------------------------------------------------------------------------------
\* What the steps preserve, for the proofs.  An object is right when the parameters in `done'
\* are filled in.
NameIsFirst(h, ann, done) ==
  IF Annotations[ann].name # None THEN h[ann].name = Annotations[ann].name
  ELSE \/ h[ann].name = None /\ Users(ann) \cap done = {}
       \/ \E u \in Places : IsFirst(u, Users(ann)) /\ h[ann].name = ParamOf(u).name
Filled(h, done) ==
  /\ h = [id \in DOMAIN h |-> h[id]]
  /\ DOMAIN Annotations \subseteq DOMAIN h
  /\ \A u \in done : IsOwn(routes[u[1]], u[2]) =>
       /\ Id(routes[u[1]], u[2]) \in DOMAIN h
       /\ h[Id(routes[u[1]], u[2])] = Own(routes[u[1]], u[2])
  /\ \A ann \in DOMAIN Annotations :
       /\ h[ann] = [in |-> h[ann].in, type |-> h[ann].type, optional |-> h[ann].optional,
                    name |-> h[ann].name, default |-> h[ann].default]
       /\ h[ann].in = Annotations[ann].in /\ h[ann].optional \in BOOLEAN
       /\ \/ h[ann].default = Annotations[ann].default
          \/ h[ann].in # "body" /\ \E u \in WithDefault(Users(ann)) : h[ann].default = ParamOf(u).default
       /\ NameIsFirst(h, ann, done)
       /\ h[ann].in \in {"query", "header"} =>
            /\ \A u \in Places :
                 IsLast(u, WithDefault(Users(ann) \cap done)) => h[ann].default = ParamOf(u).default
            /\ \A u \in WithDefault(Users(ann) \cap done) :
                 ParamOf(u).default.kind = "none" => h[ann].optional

OneBody ==
  \A r \in ToSet(routes) : \A i, j \in DOMAIN r.params :
    heap[Id(r, i)].in = "body" /\ heap[Id(r, j)].in = "body" => i = j
RoutesAreReady ==
  /\ stage \in {"resolve", "TypeError", "idle", "sent", "answered", "done"}
  /\ routes \in Interfaces
  /\ Filled(heap, IF stage = "resolve" THEN {} ELSE Places)
  /\ stage \in {"idle", "sent", "answered", "done"} =>
       /\ OneBody
       /\ resolved = [m \in MethodNames |-> [i \in DOMAIN Method(m).params |-> Id(Method(m), i)]]

SentAsCalled ==
  /\ call.method \in MethodNames /\ call.args \in [DOMAIN call.args -> Values]
  /\ Accepts(call.method, call.args) /\ request = Sent(call.method, call.args)
Refused ==
  /\ ran = None
  /\ response \in {Response("404", None), Failure("400", "BadRequest"), Failure("500", "ServiceException")}
Served ==
  /\ Bad(call.method) = {}
  /\ \E result \in Results :
       /\ ran = [args |-> Called(call.method), result |-> result]
       /\ response = Answer(Method(call.method).returns, result)
CallIsRight ==
  /\ stage \in {"resolve", "TypeError", "idle", "sent"} => ran = None
  /\ stage = "sent" => SentAsCalled
  /\ stage = "answered" => SentAsCalled /\ (Refused \/ Served)
  /\ stage = "done" =>
       \/ outcome = [raises |-> "client"] /\ ran = None
       \/ outcome = [raises |-> "ConnectionError"]
       \/ outcome = Received /\ SentAsCalled /\ (Refused \/ Served)

IInv == RoutesAreReady /\ CallIsRight
===============================================================================
