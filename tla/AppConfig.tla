----------------------------- MODULE AppConfig -----------------------------
(***************************************************************************)
(* internal/conf/config.go: what the program makes of its environment.     *)
(*                                                                         *)
(* An environment is a function from the names of the variables that are   *)
(* set, without their prefix, to their values.  Switches and names are     *)
(* strings: "true" and "false" stand for the spellings strconv.ParseBool   *)
(* takes.  A number is itself, and NotANumber is any text in which         *)
(* strconv.ParseUint finds none.  FAVICON is the list of its entries, each *)
(* by its type and by whether it is the address of another server.         *)
(*                                                                         *)
(* The fields that no other module depends on (port, ETag, bodies, the     *)
(* link to the repository) are left out.                                   *)
(***************************************************************************)
EXTENDS Integers, Sequences

CONSTANT MaxUint            \* the largest uint32, 2^32 - 1 in the code

defaultUpdatePeriod == 300
minimumUpdatePeriod == 15

ASSUME MaxUintAssumption ==
    MaxUint \in Nat /\ MaxUint >= 2 * defaultUpdatePeriod

NotANumber == -1

FaviconTypes == {"png", "ico"}

\* os.Getenv, and its "" as the callers read it.
Getenv(env, key, unset) == IF key \in DOMAIN env THEN env[key] ELSE unset

\* godotenv.Load: the file adds to the environment and overrides nothing.
Load(env, file) ==
    [key \in DOMAIN env \cup DOMAIN file |->
        IF key \in DOMAIN env THEN env[key] ELSE file[key]]

boolConfig(env, key, default) ==
    LET value == Getenv(env, key, "")
    IN  IF value \in {"true", "false"} THEN value = "true" ELSE default

ParseUint(env, key, default) ==
    LET value == Getenv(env, key, NotANumber)
    IN  IF value \in 0..MaxUint THEN value ELSE default

IsProd(env) == Getenv(env, "ENV", "") \in {"prod", "production"}

\* Zero and values below the minimum become the default, not the minimum.
UpdatePeriod(env) ==
    LET period == ParseUint(env, "UPDATE_PERIOD", defaultUpdatePeriod)
    IN  IF period < minimumUpdatePeriod THEN defaultUpdatePeriod ELSE period

\* A uint64, whatever ParseUint was told about its width.
CacheMaxAge(env) == ParseUint(env, "HTTP_CACHE_MAX_AGE", 2 * UpdatePeriod(env))

\* The last entry of each type counts.
Favicons(entries) ==
    [t \in {entries[i].type : i \in DOMAIN entries} |->
        LET last == CHOOSE i \in DOMAIN entries :
                        /\ entries[i].type = t
                        /\ \A j \in DOMAIN entries : entries[j].type = t => j =< i
        IN  entries[last]]

\* Access control needs both, and bcrypt takes 72 bytes.
HasCredentials(env) ==
    Getenv(env, "ADMIN_USER", "") # "" /\ Getenv(env, "ADMIN_PASS", "") # ""

Hashable(env) ==
    HasCredentials(env) =>
        "tooLong" \notin {env["ADMIN_USER"], env["ADMIN_PASS"]}

\* Mutant: the header is built from the field.
HeaderMaxAgeCut(env) == CacheMaxAge(env) % (MaxUint + 1)

\* CacheControlHeader is built from the number before it becomes a uint32.
HeaderMaxAge(env) == CacheMaxAge(env)

CreateAppConfig(env, prod) ==
    [UpdatePeriod          |-> UpdatePeriod(env),
     HttpCacheMaxAge       |-> CacheMaxAge(env) % (MaxUint + 1),
     CacheControlHeader    |-> HeaderMaxAge(env),
     IgnoreCaseInPath      |-> boolConfig(env, "IGNORE_CASE_IN_PATH", TRUE),
     UseAssets             |-> boolConfig(env, "ENABLE_ASSETS", FALSE),
     StatusEndpointEnabled |-> boolConfig(env, "ENABLE_STATUS", TRUE),
     ApiEnabled            |-> boolConfig(env, "ENABLE_API", FALSE) /\ ~prod,
     AdminCredentials      |-> HasCredentials(env),
     Favicons              |-> Favicons(Getenv(env, "FAVICON", << >>))]
=============================================================================
