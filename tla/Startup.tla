------------------------------ MODULE Startup ------------------------------
(***************************************************************************)
(* What main does before it waits: the package initialisation of           *)
(* conf/config.go, Setup and CreateHttpServer (main.go:79-129, 355-360),   *)
(* with what they call in repo.go, google-sheets.go and tmpl.              *)
(*                                                                         *)
(* Main makes, one after the other, what other goroutines use later        *)
(* without a lock.  Some of it is made by whoever needs it first           *)
(* (DriveService, SheetsService, MappingChannel, ErrorChannel, Config),    *)
(* also without a lock: whether that can happen twice at once depends on   *)
(* the order of these steps and of the go statements between them.         *)
(***************************************************************************)
EXTENDS HttpDispatch

CONSTANTS
    Environments,       \* environments the process may be started with
    DotEnvs             \* .env files it may find; no file: no variables

VARIABLES
    environ,            \* what os.Getenv looks into
    dotEnv,             \* the .env file
    isProd,             \* conf.isProd
    config,             \* conf.currentConfig
    setup,              \* the step main is at
    made,               \* what has been made of that which is shared
    hooks,              \* the update hooks that are registered
    infoTemplate,       \* redirectInfoTemplate # nil
    mux                 \* the handler of the server

settingVars == <<environ, dotEnv, isProd, config>>
setupVars   == <<settingVars, setup, made, hooks, infoTemplate, mux>>

NoConfig == [created |-> FALSE]

\* What may be found where the private key is looked for.
KeyFiles == {"pem", "junk", "absent"}

SharedState == {"config", "driveService", "sheetsService", "mappingChannel",
                "lastErrorChannel", "templates", "hooks", "assets", "mux"}

StartupInit ==
    /\ environ \in Environments
    /\ dotEnv \in DotEnvs
    /\ isProd = FALSE
    /\ config = NoConfig
    /\ setup = "packages"
    /\ made = {}
    /\ hooks = {}
    /\ infoTemplate = FALSE
    /\ mux = NoRoutes

\* Mutants: the updater starts before the first update; the hooks are registered
\* before the templates are read.
AfterUpdaterFirst ==
    [packages |-> "environment", environment |-> "config", config |-> "dataSource",
     dataSource |-> "listeners", listeners |-> "templates", templates |-> "hooks",
     hooks |-> "updater", updater |-> "firstUpdate", firstUpdate |-> "server",
     server |-> "serve", serve |-> "done"]

AfterHooksFirst ==
    [packages |-> "environment", environment |-> "config", config |-> "dataSource",
     dataSource |-> "listeners", listeners |-> "hooks", hooks |-> "templates",
     templates |-> "firstUpdate", firstUpdate |-> "updater", updater |-> "server",
     server |-> "serve", serve |-> "done"]

\* The order of the statements of Setup and Run.
After ==
    [packages |-> "environment", environment |-> "config", config |-> "dataSource",
     dataSource |-> "listeners", listeners |-> "templates", templates |-> "hooks",
     hooks |-> "firstUpdate", firstUpdate |-> "updater", updater |-> "server",
     server |-> "serve", serve |-> "done"]

Stages == DOMAIN After \cup {"done", "panicked"}

Proceed(stage) == setup = stage /\ setup' = After[stage]

Make(things) == made' = made \cup things

\* logging.Panicf, template.Must: nobody recovers.
Panic(stage) ==
    /\ setup = stage
    /\ setup' = "panicked"
    /\ UNCHANGED <<settingVars, made, hooks, infoTemplate, mux>>

-----------------------------------------------------------------------------
\* conf.init runs before main, and so before the .env file is read.
InitPackages ==
    /\ Proceed("packages")
    /\ isProd' = IsProd(environ)
    /\ UNCHANGED <<environ, dotEnv, config, made, hooks, infoTemplate, mux>>

SetupEnvironment ==
    /\ Proceed("environment")
    /\ environ' = Load(environ, dotEnv)
    /\ UNCHANGED <<dotEnv, isProd, config, made, hooks, infoTemplate, mux>>

CreateConfig ==
    /\ Proceed("config")
    /\ Hashable(environ)
    /\ config' = CreateAppConfig(environ, isProd)
    /\ Make({"config"})
    /\ UNCHANGED <<environ, dotEnv, isProd, hooks, infoTemplate, mux>>

CredentialsPanic == Panic("config") /\ ~Hashable(environ)

\* createSheetsConfig takes the API key, else a private key from the environment
\* or from a file.
readPrivateKeyData(env, keyFile) == Getenv(env, "SERVICE_ACCOUNT_PRIVATE_KEY", keyFile)

UsableKey(env, keyFile) ==
    Getenv(env, "API_KEY", "") # "" \/ readPrivateKeyData(env, keyFile) = "pem"

\* postCreate asks Drive for a link; an error, or no answer, is only logged.
CreateSheetsDataSource ==
    /\ Proceed("dataSource")
    /\ \E keyFile \in KeyFiles : UsableKey(environ, keyFile)
    /\ Make({"driveService"})
    /\ UNCHANGED <<settingVars, hooks, infoTemplate, mux>>

KeyPanics ==
    /\ Panic("dataSource")
    /\ \E keyFile \in KeyFiles : ~UsableKey(environ, keyFile)

\* drive.NewService or sheets.NewService fails.
ServicePanics == \E stage \in {"dataSource", "firstUpdate"} : Panic(stage)

\* Both channels are made here, and each is ranged over from now on.
ListenForBoth ==
    /\ Proceed("listeners")
    /\ Make({"mappingChannel", "lastErrorChannel"})
    /\ UNCHANGED <<settingVars, hooks, infoTemplate, mux>>

\* A redirect-info page that cannot be parsed is only missing.
ParseTemplates ==
    /\ Proceed("templates")
    /\ infoTemplate' \in BOOLEAN
    /\ Make({"templates"})
    /\ UNCHANGED <<settingVars, hooks, mux>>

\* template.Must: the base page, the favicons and the not-found page.
TemplatesPanic == Panic("templates")

addDefaultRedirectMapHooks ==
    /\ Proceed("hooks")
    /\ hooks' = {"slashes"}
                \cup (IF infoTemplate THEN {"infoSuffix"} ELSE {})
                \cup (IF config.IgnoreCaseInPath THEN {"lowerCase"} ELSE {})
    /\ Make({"hooks"})
    /\ UNCHANGED <<settingVars, infoTemplate, mux>>

\* NeedsUpdate says yes, as lastUpdate is zero, and the fetch makes the service
\* before it can fail.
FirstUpdate ==
    /\ Proceed("firstUpdate")
    /\ Make({"sheetsService"})
    /\ UNCHANGED <<settingVars, hooks, infoTemplate, mux>>

\* go StartBackgroundUpdates
GoUpdater ==
    /\ Proceed("updater")
    /\ UNCHANGED <<settingVars, made, hooks, infoTemplate, mux>>

CreateHttpServer ==
    /\ Proceed("server")
    /\ mux' = NewServeMux(config)
    /\ Make({"mux"} \cup IF config.UseAssets THEN {"assets"} ELSE {})
    /\ UNCHANGED <<settingVars, hooks, infoTemplate>>

\* go startServer
GoServer ==
    /\ Proceed("serve")
    /\ UNCHANGED <<settingVars, made, hooks, infoTemplate, mux>>

-----------------------------------------------------------------------------
StartupTypeOK ==
    /\ environ \in Environments \cup {Load(e, f) : e \in Environments, f \in DotEnvs}
    /\ dotEnv \in DotEnvs
    /\ isProd \in BOOLEAN
    /\ config = NoConfig \/ config = CreateAppConfig(environ, isProd)
    /\ setup \in Stages
    /\ made \subseteq SharedState
    /\ hooks \subseteq {"slashes", "infoSuffix", "lowerCase"}
    /\ infoTemplate \in BOOLEAN
    /\ mux = NoRoutes \/ mux = NewServeMux(config)

\* What each goroutine uses without a lock.
UsedBy(goroutine) ==
    {"config", "driveService", "sheetsService", "mappingChannel", "hooks"}
    \cup IF goroutine = "updater" THEN {"lastErrorChannel"}
         ELSE {"templates", "mux"} \cup IF config.UseAssets THEN {"assets"} ELSE {}

\* Requests read names the way the hooks have left them: a final "+" asks for the
\* info page only when there is one, and then no name ends with it, and the case
\* of requests is dropped exactly when that of the names is (main.go:201-203,
\* 219-229, 318-343).
HooksMatchRequests ==
    "mux" \in made =>
        /\ "infoSuffix" \in hooks <=> infoTemplate
        /\ "lowerCase" \in hooks <=> config.IgnoreCaseInPath

\* A response may be cached for a whole update period at least, unless the
\* operator says otherwise, however long that period is (config.go:164-176).
CacheCoversPeriod ==
    (config # NoConfig /\ Getenv(environ, "HTTP_CACHE_MAX_AGE", NotANumber) = NotANumber)
    => config.CacheControlHeader >= config.UpdatePeriod

Answers(handler) ==
    {r \in HttpRequests : Dispatch(config, mux, r)[1] = handler}

\* An update is only forced with the administrator's credentials, outside of
\* production and if the API is enabled (config.go:203-204, api.go:97-121).
ForcedUpdatesGuarded ==
    "mux" \in made =>
        \A r \in Answers("UpdateMappingHandler") :
            r.authenticated /\ config.AdminCredentials /\ config.ApiEnabled /\ ~isProd

\* Paths a setting gives to something else than links.
Reserved(path) ==
    \/ path = UpdateMapping /\ config.ApiEnabled
    \/ path \in StatusPaths \cup HealthPaths /\ config.StatusEndpointEnabled
    \/ path \in FaviconRoutes(config)
    \/ config.UseAssets /\ path \in LocalAssets \cup EmbeddedAssets

\* Whatever is enabled, every path that is not reserved is looked up as a link,
\* under its own name: those of an endpoint that is off and of a favicon that is
\* no other server's (docs/admin.md:134) among them.  Only security.txt is looked
\* up under another one, without its directory (server.go:103-120).
LinksResolve ==
    "mux" \in made =>
        \A r \in HttpRequests : r.method \in {"GET", "HEAD"} =>
            /\ ~Reserved(r.path) /\ r.path # WellKnownFile
               => Dispatch(config, mux, r) = <<"ServerHandler", r.path>>
            /\ r.path = WellKnownFile =>
               Dispatch(config, mux, r)
               = Dispatch(config, mux, [r EXCEPT !.path = "/security.txt"])
=============================================================================
