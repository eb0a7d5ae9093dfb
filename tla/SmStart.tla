------------------------------- MODULE SmStart ------------------------------
(***************************************************************************)
(* What a start of the service manager reads and leaves on disk: its       *)
(* configuration (lifecycle/sm_config.c), its key (security/sm_crypto.c)   *)
(* and its socket (infrastructure/sm_socket.c), the last two at the first  *)
(* of several paths that works, and the optional features it manages to    *)
(* start (enterprise/sm_main_integration.c).  A start may fail at any      *)
(* step, and the process may be killed between any two.                    *)
(***************************************************************************)
EXTENDS Integers, Sequences, FiniteSets

CONSTANTS Paths,        \* number of candidate paths
          Features,     \* the optional features
          MaxKeys       \* bound on the keys that are made

ASSUME StartAssumption == Paths \in Nat /\ MaxKeys \in Nat

VARIABLES sm,           \* the process: step, path being tried, key, configuration, features
          keyfile,      \* contents of the key files: a key, 0 no file, -1 too short
          sockfile,     \* paths with a socket file
          files         \* history: keys made, sockets left by a kill

startVars == <<sm, keyfile, sockfile, files>>

Off == [at |-> "down", path |-> 1, key |-> 0, g_key_loaded |-> FALSE, keyPath |-> 0,
        config |-> "zero", g_config_loaded |-> FALSE, reloaded |-> FALSE,
        server |-> 0, features |-> {}]

StartInit ==
    /\ sm = Off
    /\ keyfile = [p \in 1 .. Paths |-> 0]
    /\ sockfile = {}
    /\ files = [keys |-> 0, stale |-> {}]

\* sm_config_load: a file that fails sm_config_validate stays in g_config,
\* but is not marked as loaded.
Loaded(s, file) ==
    CASE file = "missing" -> [s EXCEPT !.config = "default", !.g_config_loaded = TRUE]
      [] file = "valid"   -> [s EXCEPT !.config = "file", !.g_config_loaded = TRUE]
      [] file = "invalid" -> [s EXCEPT !.config = "invalid"]

\* sm_config_get, which every later step begins with.
sm_config_get(s) ==
    IF s.g_config_loaded THEN s ELSE [s EXCEPT !.config = "default", !.g_config_loaded = TRUE]

\* sm_set_resource_limits has succeeded, and the file is read.
LoadConfig(file) ==
    /\ sm.at = "down"
    /\ sm' = [sm_config_get(Loaded(sm, file)) EXCEPT !.at = "key"]
    /\ UNCHANGED <<keyfile, sockfile, files>>

\* SIGHUP.
Reload(file) ==
    /\ sm.at = "up"
    /\ sm' = [Loaded(sm, file) EXCEPT !.reloaded = TRUE]
    /\ UNCHANGED <<keyfile, sockfile, files>>

HasKey(p, key) == [sm EXCEPT !.key = key, !.g_key_loaded = TRUE, !.keyPath = p, !.at = "socket", !.path = 1]

NextPath == [sm EXCEPT !.path = @ + 1]

\* Mutant: a file that is too short is taken for a key.
ReadKeyShort ==
    /\ sm.at = "key" /\ sm.path =< Paths /\ keyfile[sm.path] # 0
    /\ sm' = HasKey(sm.path, keyfile[sm.path])
    /\ UNCHANGED <<keyfile, sockfile, files>>

\* sm_crypto_init: the file at the path can be opened and is long enough.
ReadKey ==
    /\ sm.at = "key" /\ sm.path =< Paths /\ keyfile[sm.path] > 0
    /\ sm' = HasKey(sm.path, keyfile[sm.path])
    /\ UNCHANGED <<keyfile, sockfile, files>>

\* It cannot, so a key is made and the file is opened for it, and emptied.
\* A whole key in a file that may be written and not read is lost.
MakeKey ==
    /\ sm.at = "key" /\ sm.path =< Paths /\ files.keys < MaxKeys
    /\ files' = [files EXCEPT !.keys = @ + 1]
    /\ keyfile' = [keyfile EXCEPT ![sm.path] = -1]
    /\ sm' = [sm EXCEPT !.at = "write", !.key = files.keys + 1]
    /\ UNCHANGED sockfile

WriteKey ==
    /\ sm.at = "write"
    /\ keyfile' = [keyfile EXCEPT ![sm.path] = sm.key]
    /\ sm' = HasKey(sm.path, sm.key)
    /\ UNCHANGED <<sockfile, files>>

\* No random bytes, no new file or not all of it written: the next path.
KeyFails ==
    /\ sm.at \in {"key", "write"} /\ sm.path =< Paths
    /\ sm' = [NextPath EXCEPT !.at = "key"]
    /\ UNCHANGED <<keyfile, sockfile, files>>

\* Mutant: bind has made the file, and chmod or listen fails.
SocketFailsLater ==
    /\ sm.at = "socket" /\ sm.path =< Paths
    /\ sm' = NextPath
    /\ sockfile' = sockfile \cup {sm.path}
    /\ files' = [files EXCEPT !.stale = @ \ {sm.path}]
    /\ UNCHANGED keyfile

\* sm_socket_setup for one path.  The file an earlier process left there is
\* removed first; bind makes a new one, and is undone when chmod or listen
\* fails.
SocketFails ==
    /\ sm.at = "socket" /\ sm.path =< Paths
    /\ sm' = NextPath
    /\ sockfile' = sockfile \ {sm.path}
    /\ files' = [files EXCEPT !.stale = @ \ {sm.path}]
    /\ UNCHANGED keyfile

SocketListens ==
    /\ sm.at = "socket" /\ sm.path =< Paths
    /\ sm' = [sm EXCEPT !.at = "features", !.server = sm.path]
    /\ sockfile' = sockfile \cup {sm.path}
    /\ files' = [files EXCEPT !.stale = @ \ {sm.path}]
    /\ UNCHANGED keyfile

\* sm_main_init_all_features: whichever can be started; the last of them is
\* only marked.  sm_run goes on whatever it returns.
StartFeatures(started) ==
    /\ sm.at = "features"
    /\ sm' = [sm EXCEPT !.at = "up", !.features = started]
    /\ UNCHANGED <<keyfile, sockfile, files>>

\* cleanup, at the end or when a step fails: sm_main_cleanup_all_features,
\* sm_socket_cleanup and sm_crypto_cleanup; then the process ends.
CleanupAll ==
    /\ \/ sm.at = "up"
       \/ sm.at \in {"key", "socket"} /\ sm.path > Paths
       \/ sm.at = "features"
    /\ sockfile' = sockfile \ {sm.server}
    /\ sm' = Off
    /\ UNCHANGED <<keyfile, files>>

\* The process is killed: what it has in memory is gone.
Killed ==
    /\ sm.at # "down"
    /\ files' = [files EXCEPT !.stale = sockfile]
    /\ sm' = Off
    /\ UNCHANGED <<keyfile, sockfile>>

StartNext ==
    \/ \E file \in {"missing", "valid", "invalid"} : LoadConfig(file) \/ Reload(file)
    \/ ReadKey \/ MakeKey \/ WriteKey \/ KeyFails
    \/ SocketFails \/ SocketListens
    \/ \E started \in SUBSET Features : StartFeatures(started)
    \/ CleanupAll \/ Killed

-----------------------------------------------------------------------------
StartTypeOK ==
    /\ sm.path \in 1 .. Paths + 1 /\ sm.server \in 0 .. Paths
    /\ \A p \in 1 .. Paths : keyfile[p] \in -1 .. MaxKeys

\* The key a manager works with is whole and is in the file others take it
\* from, whatever starts failed or were killed before; no two paths have one
\* key, so that the path identifies it.
KeyIsOnDisk ==
    /\ sm.g_key_loaded => sm.key > 0 /\ keyfile[sm.keyPath] = sm.key
    /\ \A p, q \in 1 .. Paths : keyfile[p] = keyfile[q] /\ keyfile[p] > 0 => p = q

\* Only a kill leaves a socket file behind, and the next use of its path
\* removes it: of the files there are, one is the server's and the others
\* are stale.
SocketsAccounted == sockfile = files.stale \cup ({sm.server} \ {0})

\* A configuration that failed validation is not in effect, unless it was
\* reloaded by SIGHUP: a reload finds g_config_loaded set.
ConfigInEffect == sm.at # "down" /\ ~sm.reloaded => sm.config \in {"default", "file"}

\* The service manager's start is correct.
StartSafe == StartTypeOK /\ KeyIsOnDisk /\ SocketsAccounted /\ ConfigInEffect
=============================================================================
