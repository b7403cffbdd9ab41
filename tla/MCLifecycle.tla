---------------------------- MODULE MCLifecycle ----------------------------
(***************************************************************************)
(* The process in development and in production, with different settings,  *)
(* some of them in a .env file.                                            *)
(***************************************************************************)
EXTENDS Lifecycle

MCLinks    == {"/", "/link", "/logo", "/security.txt"}
MCLocal    == {"/logo"}
MCEmbedded == {"/logo", "/security.txt"}

NoFile  == [key \in {} |-> ""]
Keys    == [API_KEY |-> "key"]
Admin   == [ADMIN_USER |-> "admin", ADMIN_PASS |-> "secret"]
Api     == [ENABLE_API |-> "true", API_KEY |-> "key"]

MCEnvironments ==
    {Load(Api, Admin),
     Load(Load(Api, Admin), [ENV |-> "production", ENABLE_ASSETS |-> "true"]),
     Load(Keys, [ENABLE_STATUS |-> "false", IGNORE_CASE_IN_PATH |-> "false",
                 UPDATE_PERIOD |-> 14]),
     Load(Admin, [ENABLE_ASSETS |-> "true", UPDATE_PERIOD |-> MaxUint,
                  SERVICE_ACCOUNT_PRIVATE_KEY |-> "pem"]),
     [ADMIN_USER |-> "admin", ADMIN_PASS |-> "tooLong"]}

MCDotEnvs ==
    {NoFile,
     [ENABLE_API |-> "true", HTTP_CACHE_MAX_AGE |-> 0,
      FAVICON |-> <<[type |-> "png", remote |-> TRUE], [type |-> "ico", remote |-> TRUE],
                    [type |-> "png", remote |-> FALSE]>>]}
=============================================================================
