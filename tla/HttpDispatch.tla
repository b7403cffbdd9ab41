---------------------------- MODULE HttpDispatch ----------------------------
(***************************************************************************)
(* Which code answers a request: the patterns CreateHttpServer registers   *)
(* (server.go, api/api.go), the methods wrappedHandler lets through, the   *)
(* authentication of wrapMiddleware, and the assets that come before the   *)
(* links (tmpl/assets_fs.go).                                              *)
(*                                                                         *)
(* A request is its method, its path, and whether the credentials it       *)
(* carries, if any, are those of the configuration.  The mux is a function *)
(* from the patterns that are registered to what is behind each of them;   *)
(* "/" is the pattern of every other path.                                 *)
(***************************************************************************)
EXTENDS AppConfig

CONSTANTS
    LinkPaths,          \* further paths
    LocalAssets,        \* paths with a file in data/assets
    EmbeddedAssets      \* paths with a file in the binary

UpdateMapping == "/_api/update-mapping"
StatusPaths   == {"/_api/info", "/_status/info"}
HealthPaths   == {"/_api/health", "/_status/health"}
FaviconPath   == [png |-> "/favicon.png", ico |-> "/favicon.ico"]
WellKnownFile == "/.well-known/security.txt"

Paths == LinkPaths \cup StatusPaths \cup HealthPaths
         \cup {UpdateMapping, WellKnownFile} \cup {FaviconPath[t] : t \in FaviconTypes}

supportedMethods == {"GET", "HEAD", "OPTIONS"}

HttpRequests == [method : supportedMethods \cup {"POST", "PUT"}, path : Paths,
                 authenticated : BOOLEAN]

\* Handlers by name; the credentials are asked for unless anonymous.
Endpoint(handler, anonymous) == [handler |-> handler, anonymous |-> anonymous]

NoRoutes == [p \in {} |-> Endpoint("default", TRUE)]

\* addFaviconHandler: only for the address of another server.
FaviconRoutes(config) ==
    {FaviconPath[t] :
        t \in {u \in FaviconTypes : u \in DOMAIN config.Favicons /\ config.Favicons[u].remote}}

EndpointPaths(config) ==
    (IF config.ApiEnabled THEN {UpdateMapping} ELSE {})
    \cup (IF config.StatusEndpointEnabled THEN StatusPaths \cup HealthPaths ELSE {})

NewServeMux(config) ==
    [p \in {"/", WellKnownFile} \cup FaviconRoutes(config) \cup EndpointPaths(config) |->
        IF p = UpdateMapping THEN Endpoint("UpdateMappingHandler", FALSE)
        ELSE IF p \in StatusPaths THEN Endpoint("StatusInfoHandler", FALSE)
        ELSE IF p \in HealthPaths THEN Endpoint("StatusHealthHandler", TRUE)
        ELSE IF p = WellKnownFile THEN Endpoint("stripped", TRUE)
        ELSE IF p = "/" THEN Endpoint("default", TRUE)
        ELSE Endpoint("FaviconHandler", TRUE)]

\* Without credentials in the configuration no request carries the right ones.
CheckCredentials(config, r) == config.AdminCredentials /\ r.authenticated

isAuthenticated(config, r) == CheckCredentials(config, r)

\* Mutant: every endpoint takes the flag of the last one of the loop.
wrapMiddlewareLast(config, endpoint, r) ==
    IF endpoint.anonymous \/ config.StatusEndpointEnabled \/ isAuthenticated(config, r)
    THEN endpoint.handler ELSE "unauthorizedHandler"

wrapMiddleware(config, endpoint, r) ==
    IF endpoint.anonymous \/ isAuthenticated(config, r)
    THEN endpoint.handler ELSE "unauthorizedHandler"

\* OpenAssetFile: a local file hides the embedded one of its name.
OpenAssetFile(path) ==
    IF path \in LocalAssets THEN "local"
    ELSE IF path \in EmbeddedAssets THEN "embedded" ELSE "none"

\* Mutant: an asset that is not there is answered with an error.
defaultHandlerStrict(config, path) ==
    IF config.UseAssets THEN <<"asset", path>> ELSE <<"ServerHandler", path>>

\* defaultHandlerWithAssets: whatever is no asset may be a link.
defaultHandler(config, path) ==
    IF config.UseAssets /\ OpenAssetFile(path) # "none"
    THEN <<"asset", path>> ELSE <<"ServerHandler", path>>

\* UpdateMappingHandler looks at the method once more.
handle(config, handler, r) ==
    IF handler = "default" THEN defaultHandler(config, r.path)
    ELSE IF handler = "stripped" THEN defaultHandler(config, "/security.txt")
    ELSE IF handler = "UpdateMappingHandler" /\ r.method \notin {"GET", "POST"}
         THEN <<"illegalMethodHandler", r.path>>
    ELSE <<handler, r.path>>

\* What ends up with the request, and the path it is given: the mux, the
\* wrapper around every handler, and the handler.
Dispatch(config, mux, r) ==
    LET endpoint == mux[IF r.path \in DOMAIN mux THEN r.path ELSE "/"]
    IN  IF r.method = "OPTIONS" THEN <<"OptionsHandler", r.path>>
        ELSE IF r.method \notin supportedMethods THEN <<"notSupported", r.path>>
        ELSE handle(config, wrapMiddleware(config, endpoint, r), r)
=============================================================================
