\* All three dialects, every [LDAP] configuration, up to two crashes or
\* failed statements: the keys hold whenever the manager serves, and a
\* valid configuration always ends up serving.
SPECIFICATION FairSpec
CONSTANTS
    Dialects = {"mysql", "sqlite", "pgsql"}
    MaxFaults = 2
INVARIANT KeysEnforced
PROPERTY StartupCompletes
\* A started manager has nothing left to do in start-up: serving calls is
\* UserMgr's business.
CHECK_DEADLOCK FALSE
