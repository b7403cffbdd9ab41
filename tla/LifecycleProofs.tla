-------------------------- MODULE LifecycleProofs --------------------------
(***************************************************************************)
(* What Setup guarantees to the goroutines it starts, how the server is    *)
(* configured and how the process ends, for any number of requests and     *)
(* every environment: the lemmas on the configuration and on the dispatch  *)
(* of requests, the invariant of the steps of Setup, and the process.      *)
(***************************************************************************)
EXTENDS Lifecycle, TLAPS


-----------------------------------------------------------------------------
(* The configuration and the dispatch of requests.                         *)

\* The API is off in production.
LEMMA ApiOnlyInDevelopment ==
  ASSUME NEW env, NEW prod \in BOOLEAN, CreateAppConfig(env, prod).ApiEnabled
  PROVE  ~prod
<1> DEFINE enabled == boolConfig(env, "ENABLE_API", FALSE) /\ ~prod
<1>1. CreateAppConfig(env, prod).ApiEnabled = enabled
  BY DEF CreateAppConfig
<1> QED
  BY <1>1

\* The update period and the numbers it is compared with are natural numbers.
LEMMA PeriodIsNatural == ASSUME NEW env PROVE UpdatePeriod(env) \in Nat
BY MaxUintAssumption DEF UpdatePeriod, ParseUint, NotANumber, defaultUpdatePeriod,
                         minimumUpdatePeriod

LEMMA DefaultCoversPeriod ==
  ASSUME NEW env, NEW prod \in BOOLEAN,
         Getenv(env, "HTTP_CACHE_MAX_AGE", NotANumber) = NotANumber
  PROVE  CreateAppConfig(env, prod).CacheControlHeader
         >= CreateAppConfig(env, prod).UpdatePeriod
<1>1. NotANumber \notin 0..MaxUint
  BY DEF NotANumber
<1>2. CacheMaxAge(env) = 2 * UpdatePeriod(env)
  BY <1>1 DEF CacheMaxAge, ParseUint
<1>3. CacheMaxAge(env) >= UpdatePeriod(env)
  BY <1>2, PeriodIsNatural
<1> QED
  BY <1>3 DEF CreateAppConfig, HeaderMaxAge

LEMMA FaviconPatterns ==
  ASSUME NEW c PROVE FaviconRoutes(c) \subseteq {"/favicon.png", "/favicon.ico"}
<1>1. \A t \in FaviconTypes : FaviconPath[t] \in {"/favicon.png", "/favicon.ico"}
  BY DEF FaviconTypes, FaviconPath
<1> QED
  BY <1>1 DEF FaviconRoutes

\* What is behind each pattern.
LEMMA MuxPatterns ==
  ASSUME NEW c
  PROVE  /\ DOMAIN NewServeMux(c)
            = {"/", WellKnownFile} \cup FaviconRoutes(c) \cup EndpointPaths(c)
         /\ \A p \in DOMAIN NewServeMux(c) :
              /\ NewServeMux(c)[p].handler = "UpdateMappingHandler"
                 => p = UpdateMapping /\ ~NewServeMux(c)[p].anonymous
              /\ NewServeMux(c)[p].handler # "asset"
BY DEF NewServeMux, Endpoint, UpdateMapping, StatusPaths, HealthPaths, WellKnownFile

\* Only the update endpoint forces an update, and only for the administrator.
LEMMA UpdatesDispatched ==
  ASSUME NEW c, NEW r \in HttpRequests,
         Dispatch(c, NewServeMux(c), r)[1] = "UpdateMappingHandler"
  PROVE  r.authenticated /\ c.AdminCredentials /\ c.ApiEnabled
<1> DEFINE pattern  == IF r.path \in DOMAIN NewServeMux(c) THEN r.path ELSE "/"
           endpoint == NewServeMux(c)[pattern]
<1>1. handle(c, wrapMiddleware(c, endpoint, r), r)[1] = "UpdateMappingHandler"
  BY DEF Dispatch
<1>2. wrapMiddleware(c, endpoint, r) = "UpdateMappingHandler"
  BY <1>1 DEF handle, defaultHandler
<1>3. endpoint.handler = "UpdateMappingHandler"
      /\ (endpoint.anonymous \/ isAuthenticated(c, r))
  BY <1>2 DEF wrapMiddleware
<1>4. pattern \in DOMAIN NewServeMux(c)
  BY MuxPatterns
<1>5. pattern = UpdateMapping /\ ~endpoint.anonymous
  BY <1>3, <1>4, MuxPatterns
<1>6. UpdateMapping \in EndpointPaths(c)
  BY <1>4, <1>5, MuxPatterns, FaviconPatterns DEF UpdateMapping, WellKnownFile
<1>7. c.ApiEnabled
  BY <1>6 DEF EndpointPaths, UpdateMapping, StatusPaths, HealthPaths
<1> QED
  BY <1>3, <1>5, <1>7 DEF isAuthenticated, CheckCredentials

\* Every other path is a link or an asset.
LEMMA DefaultPattern ==
  ASSUME NEW c
  PROVE  /\ NewServeMux(c)["/"] = Endpoint("default", TRUE)
         /\ \A p : p \notin EndpointPaths(c) \cup FaviconRoutes(c) \cup {WellKnownFile}
                  => p \notin DOMAIN NewServeMux(c) \/ p = "/"
         /\ "/security.txt" \notin DOMAIN NewServeMux(c)
<1>1. NewServeMux(c)["/"] = Endpoint("default", TRUE)
  BY DEF NewServeMux, UpdateMapping, StatusPaths, HealthPaths, WellKnownFile
<1>2. \A t \in FaviconTypes : FaviconPath[t] \in {"/favicon.png", "/favicon.ico"}
  BY DEF FaviconTypes, FaviconPath
<1>3. {FaviconPath[t] : t \in FaviconTypes} = {"/favicon.png", "/favicon.ico"}
  BY <1>2 DEF FaviconTypes, FaviconPath
<1>4. DOMAIN NewServeMux(c) \subseteq
        {"/"} \cup ({UpdateMapping, WellKnownFile} \cup StatusPaths \cup HealthPaths
                   \cup {FaviconPath[t] : t \in FaviconTypes})
  <2>1. EndpointPaths(c) \subseteq {UpdateMapping} \cup StatusPaths \cup HealthPaths
    BY DEF EndpointPaths
  <2>2. FaviconRoutes(c) \subseteq {FaviconPath[t] : t \in FaviconTypes}
    BY <1>3, FaviconPatterns
  <2>3. DOMAIN NewServeMux(c)
        = {"/", WellKnownFile} \cup FaviconRoutes(c) \cup EndpointPaths(c)
    BY MuxPatterns
  <2> QED
    BY <2>1, <2>2, <2>3
<1>5. \A p : p \notin EndpointPaths(c) \cup FaviconRoutes(c) \cup {WellKnownFile}
            => p \notin DOMAIN NewServeMux(c) \/ p = "/"
  BY MuxPatterns
<1>6. "/security.txt" \notin DOMAIN NewServeMux(c)
  BY <1>3, <1>4 DEF UpdateMapping, WellKnownFile, StatusPaths, HealthPaths
<1> QED
  BY <1>1, <1>5, <1>6

\* The default handler passes links on.
LEMMA LinksDispatched ==
  ASSUME NEW c, NEW r \in HttpRequests, r.method \in {"GET", "HEAD"},
         r.path \notin EndpointPaths(c) \cup FaviconRoutes(c) \cup {WellKnownFile},
         ~(c.UseAssets /\ r.path \in LocalAssets \cup EmbeddedAssets)
  PROVE  Dispatch(c, NewServeMux(c), r) = <<"ServerHandler", r.path>>
<1> DEFINE endpoint == NewServeMux(c)[IF r.path \in DOMAIN NewServeMux(c)
                                      THEN r.path ELSE "/"]
<1>1. endpoint = [handler |-> "default", anonymous |-> TRUE]
  BY DefaultPattern DEF Endpoint
<1>2. wrapMiddleware(c, endpoint, r) = "default"
  BY <1>1 DEF wrapMiddleware
<1>3. defaultHandler(c, r.path) = <<"ServerHandler", r.path>>
  BY DEF defaultHandler, OpenAssetFile
<1> QED
  BY <1>2, <1>3 DEF Dispatch, handle, supportedMethods

\* security.txt is looked up without its directory.
LEMMA WellKnownDispatched ==
  ASSUME NEW c, NEW r \in HttpRequests, r.method \in {"GET", "HEAD"},
         r.path = WellKnownFile
  PROVE  Dispatch(c, NewServeMux(c), r)
         = Dispatch(c, NewServeMux(c), [r EXCEPT !.path = "/security.txt"])
<1> DEFINE stripped == [r EXCEPT !.path = "/security.txt"]
<1>1. stripped.method = r.method /\ stripped.path = "/security.txt"
  BY DEF HttpRequests
<1>2. Dispatch(c, NewServeMux(c), r) = defaultHandler(c, "/security.txt")
  <2>1. WellKnownFile \in DOMAIN NewServeMux(c)
    BY MuxPatterns
  <2>2. NewServeMux(c)[WellKnownFile] = [handler |-> "stripped", anonymous |-> TRUE]
    BY <2>1 DEF NewServeMux, Endpoint, UpdateMapping, StatusPaths, HealthPaths,
                WellKnownFile
  <2> QED
    BY <2>1, <2>2 DEF Dispatch, handle, wrapMiddleware, supportedMethods
<1>3. Dispatch(c, NewServeMux(c), stripped) = defaultHandler(c, "/security.txt")
  <2>1. NewServeMux(c)[IF stripped.path \in DOMAIN NewServeMux(c)
                       THEN stripped.path ELSE "/"]
        = [handler |-> "default", anonymous |-> TRUE]
    BY <1>1, DefaultPattern DEF Endpoint
  <2> QED
    BY <1>1, <2>1 DEF Dispatch, handle, wrapMiddleware, supportedMethods
<1> QED
  BY <1>2, <1>3

-----------------------------------------------------------------------------
(* The steps of Setup.                                                     *)

PastServer     == {"serve", "done"}
PastUpdater    == {"server"} \cup PastServer
PastUpdate     == {"updater"} \cup PastUpdater
PastHooks      == {"firstUpdate"} \cup PastUpdate
PastTemplates  == {"hooks"} \cup PastHooks
PastListeners  == {"templates"} \cup PastTemplates
PastDataSource == {"listeners"} \cup PastListeners
PastConfig     == {"dataSource"} \cup PastDataSource

\* What has been made at each stage, and that the settings are fixed before
\* anything is made from them.
StartupOrder ==
    /\ setup \in {"packages", "environment"} => environ \in Environments
    /\ setup \in {"packages", "environment", "config"} => config = NoConfig
    /\ setup \in PastConfig =>
         config = CreateAppConfig(environ, isProd) /\ "config" \in made
    /\ setup \in PastDataSource => "driveService" \in made
    /\ setup \in PastListeners => {"mappingChannel", "lastErrorChannel"} \subseteq made
    /\ setup \in PastTemplates => "templates" \in made
    /\ setup \in PastHooks =>
         /\ "hooks" \in made
         /\ "infoSuffix" \in hooks <=> infoTemplate
         /\ "lowerCase" \in hooks <=> config.IgnoreCaseInPath
    /\ setup \in PastUpdate => "sheetsService" \in made
    /\ setup \in PastServer =>
         /\ "mux" \in made
         /\ config.UseAssets => "assets" \in made
         /\ mux = NewServeMux(config)
    /\ setup \notin PastServer => "mux" \notin made /\ mux = NoRoutes

StartupInv == StartupTypeOK /\ StartupOrder

\* The steps of Setup that change what the other goroutines use.
SetupStep ==
    \/ InitPackages \/ SetupEnvironment \/ CreateConfig \/ CreateSheetsDataSource
    \/ ListenForBoth \/ ParseTemplates \/ addDefaultRedirectMapHooks
    \/ FirstUpdate \/ GoUpdater \/ CreateHttpServer \/ GoServer
    \/ CredentialsPanic \/ KeyPanics \/ ServicePanics \/ TemplatesPanic

LEMMA IsProdBoolean == ASSUME NEW env PROVE IsProd(env) \in BOOLEAN
<1> DEFINE variable == Getenv(env, "ENV", "")
<1>1. (variable \in {"prod", "production"}) \in BOOLEAN
  OBVIOUS
<1> QED
  BY <1>1 DEF IsProd

LEMMA StartupInitInv == StartupInit => StartupInv
<1> SUFFICES ASSUME StartupInit PROVE StartupInv
  OBVIOUS
<1>1. StartupTypeOK
  <2>1. isProd \in BOOLEAN /\ infoTemplate \in BOOLEAN
    BY Zenon DEF StartupInit
  <2>2. setup \in Stages
    BY DEF StartupInit, Stages, After
  <2> QED
    BY <2>1, <2>2 DEF StartupInit, StartupTypeOK
<1>2. StartupOrder
  BY DEF StartupInit, StartupOrder, PastServer, PastUpdater, PastUpdate, PastHooks,
         PastTemplates, PastListeners, PastDataSource, PastConfig
<1> QED
  BY <1>1, <1>2 DEF StartupInv

LEMMA StartupStepInv == StartupInv /\ SetupStep => StartupInv'
<1> SUFFICES ASSUME StartupInv, SetupStep
             PROVE  StartupInv'
  OBVIOUS
<1> USE DEF StartupInv, StartupTypeOK, StartupOrder, Stages, After, SharedState,
            Proceed, Make, Panic, settingVars,
            PastServer, PastUpdater, PastUpdate, PastHooks, PastTemplates,
            PastListeners, PastDataSource, PastConfig
<1>1. CASE InitPackages
  <2>1. isProd' \in BOOLEAN
    BY <1>1, IsProdBoolean DEF InitPackages
  <2>2. StartupTypeOK'
    BY <1>1, <2>1 DEF InitPackages
  <2>3. StartupOrder'
    BY <1>1 DEF InitPackages
  <2> QED
    BY <2>2, <2>3
<1>2. CASE SetupEnvironment
  BY <1>2 DEF SetupEnvironment
<1>3. CASE CreateConfig
  BY <1>3 DEF CreateConfig
<1>4. CASE CreateSheetsDataSource
  BY <1>4 DEF CreateSheetsDataSource
<1>5. CASE ListenForBoth
  BY <1>5 DEF ListenForBoth
<1>6. CASE ParseTemplates
  BY <1>6 DEF ParseTemplates
<1>7. CASE addDefaultRedirectMapHooks
  BY <1>7 DEF addDefaultRedirectMapHooks
<1>8. CASE FirstUpdate
  BY <1>8 DEF FirstUpdate
<1>9. CASE GoUpdater
  BY <1>9 DEF GoUpdater
<1>10. CASE CreateHttpServer
  BY <1>10 DEF CreateHttpServer
<1>11. CASE GoServer
  BY <1>11 DEF GoServer
<1>12. CASE CredentialsPanic \/ KeyPanics \/ ServicePanics \/ TemplatesPanic
  <2>1. PICK stage \in {"config", "dataSource", "firstUpdate", "templates"} :
          Panic(stage)
    BY <1>12, Zenon DEF CredentialsPanic, KeyPanics, ServicePanics, TemplatesPanic, Panic
  <2> QED
    BY <2>1
<1> QED
  BY <1>1, <1>2, <1>3, <1>4, <1>5, <1>6, <1>7, <1>8, <1>9, <1>10, <1>11, <1>12
     DEF SetupStep

LEMMA StartupStutterInv == StartupInv /\ UNCHANGED setupVars => StartupInv'
BY DEF StartupInv, StartupTypeOK, StartupOrder, setupVars, settingVars

-----------------------------------------------------------------------------
(* The process.                                                            *)

\* What the exit status and the goroutines rest on.
RunOrder ==
    /\ run = "shutdown" => cancelled /\ inShutdown
    /\ Running => serve # "failed" /\ setup # "panicked"
    /\ updater # "none" <=> setup \in PastUpdater
    /\ setup # "done" => \A r \in Requests : conn[r] = "none"

LifecycleInv == LifecycleTypeOK /\ StartupOrder /\ ExitStatus /\ RunOrder

LEMMA LifecycleInit == Init => LifecycleInv
<1> SUFFICES ASSUME Init PROVE LifecycleInv
  OBVIOUS
<1>1. StartupInv
  BY StartupInitInv DEF Init
<1> QED
  BY <1>1 DEF Init, StartupInit, StartupInv, LifecycleInv, LifecycleTypeOK, ExitStatus,
     RunOrder, Running, PastUpdater, PastServer

\* The steps of Setup before the server listens.
LEMMA SetupOrder ==
  ASSUME LifecycleInv, Setup
  PROVE  /\ StartupInv'
         /\ setup # "done" /\ setup' \notin {"done", "panicked"}
         /\ setup' \in PastUpdater <=> setup \in PastUpdater
<1>1. SetupStep /\ StartupInv
  BY DEF Setup, SetupStep, StartupInv, LifecycleInv, LifecycleTypeOK
<1>2. \E stage \in DOMAIN After \ {"updater", "serve"} : Proceed(stage)
  BY DEF Setup, InitPackages, SetupEnvironment, CreateConfig, CreateSheetsDataSource,
     ListenForBoth, ParseTemplates, addDefaultRedirectMapHooks, FirstUpdate,
     CreateHttpServer, After
<1> QED
  BY <1>1, <1>2, StartupStepInv DEF Proceed, After, PastUpdater, PastServer

LEMMA LifecycleStep == LifecycleInv /\ [Next]_lifecycleVars => LifecycleInv'
<1> SUFFICES ASSUME LifecycleInv, [Next]_lifecycleVars
             PROVE  LifecycleInv'
  OBVIOUS
<1> USE DEF LifecycleInv, LifecycleTypeOK, ExitStatus, RunOrder, Running, Active
<1>0. StartupInv
  BY DEF StartupInv
<1>1. CASE Setup \/ StartUpdater \/ StartServer \/ SetupPanics
  <2>1. CASE Setup
    <3>1. Running /\ UNCHANGED <<servingVars, cancelled, run, serve, updater, exit>>
      BY <2>1 DEF Setup, Alone
    <3> QED
      BY <2>1, <3>1, SetupOrder DEF StartupInv, servingVars
  <2>2. CASE StartUpdater
    <3>1. StartupInv'
      BY <1>0, <2>2, StartupStepInv DEF StartUpdater, SetupStep
    <3> QED
      BY <2>2, <3>1 DEF StartUpdater, GoUpdater, Proceed, After, StartupInv, servingVars,
         PastUpdater, PastServer
  <2>3. CASE StartServer
    <3>1. StartupInv'
      BY <1>0, <2>3, StartupStepInv DEF StartServer, SetupStep
    <3> QED
      BY <2>3, <3>1 DEF StartServer, GoServer, Proceed, After, StartupInv, servingVars,
         PastUpdater, PastServer
  <2>4. CASE SetupPanics
    <3>1. StartupInv'
      BY <1>0, <2>4, StartupStepInv DEF SetupPanics, SetupStep
    <3>2. PICK stage \in {"config", "dataSource", "firstUpdate", "templates"} :
            setup = stage /\ setup' = "panicked"
      BY <2>4 DEF SetupPanics, CredentialsPanic, KeyPanics, ServicePanics,
         TemplatesPanic, Panic
    <3>3. /\ run = "setup" /\ serve = "none" /\ updater = "none"
          /\ UNCHANGED <<servingVars, cancelled, run, serve, updater>>
          /\ exit' = "panic"
      BY <2>4, <3>2 DEF SetupPanics, PastUpdater, PastServer
    <3>4. ExitStatus'
      BY <3>2, <3>3 DEF servingVars
    <3>5. RunOrder'
      BY <3>2, <3>3 DEF PastUpdater, PastServer, servingVars
    <3>6. LifecycleTypeOK'
      BY <3>1, <3>2, <3>3 DEF StartupInv, servingVars
    <3> QED
      BY <3>1, <3>4, <3>5, <3>6 DEF StartupInv
  <2> QED
    BY <1>1, <2>1, <2>2, <2>3, <2>4
<1>2. CASE UNCHANGED setupVars
  <2> USE DEF StartupInv, setupVars
  <2>0. StartupInv'
    BY <1>0, <1>2, StartupStutterInv
  <2>1. CASE Signal
    BY <2>0, <2>1 DEF Signal
  <2>2. CASE RunSeesSignal
    BY <2>0, <2>2 DEF RunSeesSignal
  <2>3. CASE ShutdownReturns
    BY <2>0, <2>3 DEF ShutdownReturns
  <2>4. CASE ShutdownExpires
    BY <2>0, <2>4 DEF ShutdownExpires, Reset
  <2>5. CASE ListenAndServe \/ Listen
    BY <2>0, <2>5 DEF ListenAndServe, Listen
  <2>6. CASE ServeReturns
    BY <2>0, <2>6 DEF ServeReturns
  <2>7. CASE CloseServer
    BY <2>0, <2>7 DEF CloseServer, Reset
  <2>8. CASE ServeFails
    BY <2>0, <2>8 DEF ServeFails, Reset
  <2>9. ASSUME NEW r \in Requests,
               Accept(r) \/ HandlerReturns(r) \/ TimeoutHandler(r)
        PROVE  LifecycleInv'
    <3>1. CASE Accept(r)
      BY <2>0, <3>1 DEF Accept
    <3>2. CASE HandlerReturns(r)
      BY <2>0, <3>2 DEF HandlerReturns
    <3>3. CASE Answer(r)
      BY <2>0, <3>3 DEF Answer
    <3>4. CASE Timeout(r)
      BY <2>0, <3>4 DEF Timeout
    <3>5. CASE Cancel(r)
      BY <2>0, <3>5 DEF Cancel
    <3> QED
      BY <2>9, <3>1, <3>2, <3>3, <3>4, <3>5 DEF TimeoutHandler
  <2>10. CASE StartBackgroundUpdates
    BY <2>0, <2>10 DEF StartBackgroundUpdates, Tick, UpdateEnds, StopUpdates
  <2>11. CASE UNCHANGED lifecycleVars
    BY <2>0, <2>11 DEF lifecycleVars, servingVars
  <2>12. CASE Setup \/ StartUpdater \/ StartServer \/ SetupPanics
    BY <2>12, <1>1
  <2> QED
    BY <2>1, <2>2, <2>3, <2>4, <2>5, <2>6, <2>7, <2>8, <2>9, <2>10, <2>11, <2>12
       DEF Next, Run, startServer
<1> QED
  <2>1. [Next]_lifecycleVars =>
          \/ Setup \/ StartUpdater \/ StartServer \/ SetupPanics
          \/ UNCHANGED setupVars
    BY DEF Next, Run, startServer, TimeoutHandler, StartBackgroundUpdates, Signal,
       RunSeesSignal, ShutdownReturns, ShutdownExpires, ListenAndServe, Listen, ServeReturns,
       ServeFails, CloseServer, Accept, HandlerReturns, Answer, Timeout, Cancel, Tick, UpdateEnds,
       StopUpdates, lifecycleVars
  <2> QED
    BY <1>1, <1>2, <2>1

-----------------------------------------------------------------------------
LEMMA LifecycleInvariant == Spec => []LifecycleInv
BY LifecycleInit, LifecycleStep, PTL DEF Spec

\* A process that has ended either could not start or listen, and panicked, or was
\* told to end, had closed its listener, and leaves no client waiting
\* (main.go:355-386).
THEOREM ExitExplained == Spec => []ExitStatus
<1>1. LifecycleInv => ExitStatus
  BY DEF LifecycleInv
<1> QED
  BY LifecycleInvariant, <1>1, PTL

\* Every variable of the process keeps its type, the updater and the server run when
\* Setup is over, and each request that was let in has its handler (main.go:79-129,
\* 355-360, server.go:87-89).
THEOREM LifecycleTypeCorrect == Spec => []LifecycleTypeOK
<1>1. LifecycleInv => LifecycleTypeOK
  BY DEF LifecycleInv
<1> QED
  BY LifecycleInvariant, <1>1, PTL

\* Nothing that goroutines share without a lock is made on first use by two of them
\* at once (google-sheets.go:177, 218, redirect-state.go:98-110): whatever the
\* updater and the requests use is there before the first of them starts.
THEOREM StatePublished == Spec => []SharedIsPublished
<1>1. LifecycleInv => SharedIsPublished
  <2> SUFFICES ASSUME LifecycleInv, NEW g \in Goroutines
               PROVE  UsedBy(g) \subseteq made
    BY DEF SharedIsPublished
  <2> USE DEF LifecycleInv, LifecycleTypeOK, StartupOrder, RunOrder, UsedBy, PastServer,
              PastUpdater, PastUpdate, PastHooks, PastTemplates, PastListeners,
              PastDataSource, PastConfig
  <2>1. CASE g = "updater"
    <3>1. setup \in PastUpdater
      BY <2>1 DEF Goroutines
    <3> QED
      BY <2>1, <3>1
  <2>2. CASE g = "request"
    <3>1. setup = "done" \/ setup \in PastServer
      BY <2>2 DEF Goroutines
    <3> QED
      BY <2>2, <3>1
  <2> QED
    BY <2>1, <2>2 DEF Goroutines
<1> QED
  BY LifecycleInvariant, <1>1, PTL

\* Requests read names the way the hooks have left them, as the hooks are registered
\* from the same settings and templates the requests look at (main.go:125, 318-343).
THEOREM HooksMatch == Spec => []HooksMatchRequests
<1>1. LifecycleInv => HooksMatchRequests
  BY DEF LifecycleInv, StartupOrder, HooksMatchRequests, PastServer, PastUpdater,
         PastUpdate, PastHooks
<1> QED
  BY LifecycleInvariant, <1>1, PTL

\* Responses may be cached for the whole update period, however long it is and
\* although the setting itself is cut to 32 bits (config.go:164-176).
THEOREM CachingCorrect == Spec => []CacheCoversPeriod
<1>1. LifecycleInv => CacheCoversPeriod
  <2> SUFFICES ASSUME LifecycleInv, config # NoConfig,
                      Getenv(environ, "HTTP_CACHE_MAX_AGE", NotANumber) = NotANumber
               PROVE  config.CacheControlHeader >= config.UpdatePeriod
    BY DEF CacheCoversPeriod
  <2>1. config = CreateAppConfig(environ, isProd) /\ isProd \in BOOLEAN
    BY DEF LifecycleInv, LifecycleTypeOK, StartupTypeOK
  <2> QED
    BY <2>1, DefaultCoversPeriod
<1> QED
  BY LifecycleInvariant, <1>1, PTL

\* What the server has been given once it has a handler.
LEMMA MuxConfigured ==
  ASSUME LifecycleInv, "mux" \in made
  PROVE  /\ mux = NewServeMux(config)
         /\ config = CreateAppConfig(environ, isProd)
         /\ isProd \in BOOLEAN
BY DEF LifecycleInv, LifecycleTypeOK, StartupTypeOK, StartupOrder, PastServer,
       PastUpdater, PastUpdate, PastHooks, PastTemplates, PastListeners,
       PastDataSource, PastConfig

\* Whatever the environment, an update is only forced by the administrator, outside
\* of production, when the API is enabled (config.go:203-204, api.go:97-121).
THEOREM UpdatesGuarded == Spec => []ForcedUpdatesGuarded
<1>1. LifecycleInv => ForcedUpdatesGuarded
  <2> SUFFICES ASSUME LifecycleInv, "mux" \in made,
                      NEW r \in Answers("UpdateMappingHandler")
               PROVE  /\ r.authenticated /\ config.AdminCredentials
                      /\ config.ApiEnabled /\ ~isProd
    BY DEF ForcedUpdatesGuarded
  <2>1. r \in HttpRequests
        /\ Dispatch(config, NewServeMux(config), r)[1] = "UpdateMappingHandler"
    BY MuxConfigured DEF Answers
  <2>2. r.authenticated /\ config.AdminCredentials /\ config.ApiEnabled
    BY <2>1, UpdatesDispatched
  <2>3. ~isProd
    BY <2>2, MuxConfigured, ApiOnlyInDevelopment
  <2> QED
    BY <2>2, <2>3
<1> QED
  BY LifecycleInvariant, <1>1, PTL

\* Every path no setting reserves is looked up as a link under its own name,
\* whatever is enabled (server.go:103-120, api.go:73-103).
THEOREM LinksReached == Spec => []LinksResolve
<1>1. LifecycleInv => LinksResolve
  <2> SUFFICES ASSUME LifecycleInv, "mux" \in made
               PROVE  LinksResolve
    BY DEF LinksResolve
  <2> QED
    BY LinksDispatched, WellKnownDispatched, MuxConfigured
       DEF LinksResolve, Reserved, EndpointPaths
<1> QED
  BY LifecycleInvariant, <1>1, PTL
=============================================================================
