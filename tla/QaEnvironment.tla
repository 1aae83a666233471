---------------------------- MODULE QaEnvironment ----------------------------
(***************************************************************************)
(* The isolated environment of a QA campaign                               *)
(* (scripts/qa_campaign_integration.py, and the two commands of            *)
(* scripts/qa_campaign_be_api.py that change the account's fixtures).      *)
(*                                                                         *)
(* The operator gives one command at a time; each is a process that works  *)
(* through its steps (a Docker call, the launch of the back end, a request,*)
(* a file written) and may be killed, or raise, between any two of them.   *)
(* What it has on disk is then all the next command knows. Files are       *)
(* replaced whole (_write_json), except the properties, which a kill may   *)
(* leave torn.                                                             *)
(*                                                                         *)
(* Docker, the back end and its database are external. A registration may  *)
(* store the password raw, which is what the fixture repairs.              *)
(***************************************************************************)
EXTENDS Integers, Sequences, FiniteSets, SequencesExt

CONSTANTS
  MaxPids,       \* bound: launches of the back end
  MaxPasswords,  \* bound: passwords check_auth makes up
  Absent

VARIABLES
  directory,  \* the private directory is there
  manifest,   \* manifest.json
  secrets,    \* secrets.private.json
  config,     \* application-qa.properties: Absent, "torn" or "whole"
  auth,       \* auth-reproduction.json
  fixture,    \* the directory and the artifact of the auth fixture
  profile,    \* profile-fixture.json
  docker,     \* the resources there are
  processes,  \* of each launch of the back end: Absent, "starting", "bound", "dead"
  orphans,    \* the launches whose command was killed before it recorded them
  account,    \* the account in the database, and its profile
  writes,     \* how often a fixture was written into the database
  command     \* the command that runs: its stage, and what it holds in memory

diskVars == <<directory, manifest, secrets, config, auth, fixture, profile>>
worldVars == <<docker, processes, orphans, account, writes>>
environmentVars == <<diskVars, worldVars, command>>

Infrastructure == <<"network", "mysqlVolume", "redisVolume", "mysql", "redis">>
Containers == {"mysql", "redis"}
HostNetwork == "hostNetwork"
Pids == 1 .. MaxPids

(* What the files and the account hold, and what a command holds in memory. No value
   of theirs is the absence of one.                                                *)
Manifests ==
  [status : {"PREPARED", "STARTED", "PARTIAL"}, created : SUBSET Range(Infrastructure),
   host : {Absent, 0, 1, 2}, healthy : BOOLEAN, be : Pids \cup {Absent}, previous : SUBSET Pids]
Passwords == 0 .. MaxPasswords
Secrets == [password : Passwords \cup {Absent}, token : BOOLEAN, google : BOOLEAN]
Accounts == [password : Passwords \cup {Absent}, encoded : BOOLEAN, profile : {"initial", "calibrating"}]
Reports == [registered : BOOLEAN, token : BOOLEAN]
Fixtures == {"directory", "FIXTURE_PREPARED", "FIXTURE_UPDATED_LOGIN_PENDING", "COMPLETED"}
Stages ==
  {"prepare secrets", "prepare manifest", "create", "created", "finish", "attached", "connect",
   "launched", "refresh", "register", "login", "auth", "encode", "seed", "seeded", "seed login",
   "profile", "profiled"}
Commands ==
  [stage : Stages, k : DOMAIN Infrastructure \cup Pids, manifest : Manifests \cup Reports \cup {Absent}]
EnvironmentAssumption ==
  /\ MaxPids \in Nat /\ MaxPasswords \in Nat
  /\ Absent \notin Commands \cup Manifests \cup Secrets \cup Accounts \cup Reports
  /\ Absent \notin Fixtures \cup {"STARTED", "starting", "bound", "dead"}
  /\ Absent \notin Pids \cup Passwords

Idle == command = Absent
(* What a command holds: its stage, a counter, and the manifest it has read.  *)
Begins(stage) == command' = [stage |-> stage, k |-> 1, manifest |-> manifest]
In(stage) == command # Absent /\ command.stage = stage
Proceeds(stage, k, copy) == command' = [stage |-> stage, k |-> k, manifest |-> copy]
CommandOver == command' = Absent
(* The manifest in memory is written.                                         *)
Writes(copy) == manifest' = copy
-----------------------------------------------------------------------------
(* preflight: none of the names is taken, and the ports are free.            *)
ReadyForFresh == docker \cap Range(Infrastructure) = {}
Bound == { p \in Pids : processes[p] = "bound" }
Alive == { p \in Pids : processes[p] \in {"starting", "bound"} }

(* prepare *)
Prepare ==
  /\ Idle /\ ~directory /\ ReadyForFresh /\ Bound = {}
  /\ directory' = TRUE /\ Begins("prepare secrets")
  /\ UNCHANGED <<manifest, secrets, config, auth, fixture, profile, worldVars>>
PrepareSecrets ==
  /\ In("prepare secrets")
  /\ secrets' = [password |-> Absent, token |-> FALSE, google |-> FALSE]
  /\ config' = "torn" /\ Proceeds("prepare manifest", 1, Absent)
  /\ UNCHANGED <<directory, manifest, auth, fixture, profile, worldVars>>
PrepareManifest ==
  /\ In("prepare manifest") /\ config' = "whole"
  /\ Writes([status |-> "PREPARED", created |-> {}, host |-> Absent, healthy |-> FALSE,
             be |-> Absent, previous |-> {}])
  /\ CommandOver
  /\ UNCHANGED <<directory, secrets, auth, fixture, profile, worldVars>>

(* start_infrastructure: each resource is created, and recorded before the next. *)
StartInfrastructure ==
  /\ Idle /\ manifest # Absent /\ manifest.status = "PREPARED" /\ ReadyForFresh /\ Bound = {}
  /\ Begins("create") /\ UNCHANGED <<diskVars, worldVars>>
Create ==
  /\ In("create")
  /\ docker' = docker \cup {Infrastructure[command.k]}
  /\ Proceeds("created", command.k, command.manifest)
  /\ UNCHANGED <<diskVars, processes, orphans, account, writes>>
RecordLater ==   (* mutant: the manifest is written when all are there *)
  /\ In("created")
  /\ LET copy == [command.manifest EXCEPT !.created = @ \cup {Infrastructure[command.k]}]
     IN  IF command.k = Len(Infrastructure)
         THEN Proceeds("finish", 1, [copy EXCEPT !.status = "STARTED"])
         ELSE Proceeds("create", command.k + 1, copy)
  /\ UNCHANGED <<diskVars, worldVars>>
Record ==
  /\ In("created")
  /\ LET copy == [command.manifest EXCEPT !.created = @ \cup {Infrastructure[command.k]}]
     IN  /\ Writes(copy)
         /\ IF command.k = Len(Infrastructure)
            THEN Proceeds("finish", 1, [copy EXCEPT !.status = "STARTED"])
            ELSE Proceeds("create", command.k + 1, copy)
  /\ UNCHANGED <<directory, secrets, config, auth, fixture, profile, worldVars>>
(* Docker fails or times out, having made the resource or not.                   *)
CreateFails ==
  /\ In("create")
  /\ docker' \in {docker, docker \cup {Infrastructure[command.k]}}
  /\ Proceeds("finish", 1, [command.manifest EXCEPT !.status = "PARTIAL"])
  /\ UNCHANGED <<diskVars, processes, orphans, account, writes>>
FinishInfrastructure ==
  /\ In("finish") /\ Writes(command.manifest) /\ CommandOver
  /\ UNCHANGED <<directory, secrets, config, auth, fixture, profile, worldVars>>
-----------------------------------------------------------------------------
(* _owned_manifest: both containers are recorded, and are the recorded ones.  *)
Owned == manifest # Absent /\ Containers \subseteq manifest.created /\ Containers \subseteq docker

(* check_infrastructure *)
CheckInfrastructure ==
  /\ Idle /\ Owned
  /\ \E ready \in BOOLEAN : Writes([manifest EXCEPT !.healthy = ready])
  /\ UNCHANGED <<directory, secrets, config, auth, fixture, profile, worldVars, command>>

(* attach_host_network *)
AttachHostNetwork ==
  /\ Idle /\ Owned /\ manifest.host = Absent /\ HostNetwork \notin docker
  /\ docker' = docker \cup {HostNetwork} /\ Begins("attached")
  /\ UNCHANGED <<diskVars, processes, orphans, account, writes>>
RecordHostNetwork ==
  /\ In("attached")
  /\ LET copy == [command.manifest EXCEPT !.host = 0] IN Writes(copy) /\ Proceeds("connect", 1, copy)
  /\ UNCHANGED <<directory, secrets, config, auth, fixture, profile, worldVars>>
Connect ==
  /\ In("connect")
  /\ LET copy == [command.manifest EXCEPT !.host = command.k]
     IN  Writes(copy) /\ IF command.k = Cardinality(Containers) THEN CommandOver ELSE Proceeds("connect", command.k + 1, copy)
  /\ UNCHANGED <<directory, secrets, config, auth, fixture, profile, worldVars>>

(* start_be: the recorded process must be dead; the new one runs from Popen on,
   and is recorded by the step after.                                         *)
ReplaceableAlways == TRUE (* mutant: only the port is looked at *)
Replaceable == manifest.be \notin Alive
StartBackEnd ==
  /\ Idle /\ Owned /\ Bound = {} /\ Replaceable /\ config = "whole"
  /\ LET copy == [manifest EXCEPT !.healthy = TRUE]
         pid == CHOOSE p \in Pids : processes[p] = Absent /\ \A q \in Pids : processes[q] = Absent => p <= q
     IN  /\ \E p \in Pids : processes[p] = Absent
         /\ Writes(copy)
         /\ processes' = [processes EXCEPT ![pid] = "starting"]
         /\ Proceeds("launched", pid, [copy EXCEPT !.be = pid, !.previous =
                                     IF copy.be = Absent THEN @ ELSE @ \cup {copy.be}])
  /\ UNCHANGED <<directory, secrets, config, auth, fixture, profile, docker, orphans, account, writes>>
RecordBackEnd ==
  /\ In("launched") /\ Writes(command.manifest) /\ CommandOver
  /\ UNCHANGED <<directory, secrets, config, auth, fixture, profile, worldVars>>

(* refresh_qa_config *)
RefreshConfig ==
  /\ Idle /\ Owned /\ Bound = {} /\ config' = "torn" /\ Begins("refresh")
  /\ UNCHANGED <<directory, manifest, secrets, auth, fixture, profile, worldVars>>
RefreshedConfig ==
  /\ In("refresh") /\ config' = "whole" /\ CommandOver
  /\ UNCHANGED <<directory, manifest, secrets, auth, fixture, profile, worldVars>>

(* configure_qa_google *)
ConfigureGoogle ==
  /\ Idle /\ Owned /\ secrets' = [secrets EXCEPT !.google = TRUE]
  /\ UNCHANGED <<directory, manifest, config, auth, fixture, profile, worldVars, command>>
-----------------------------------------------------------------------------
(* check_auth: a password is made up and kept before it is registered.        *)
CheckAuth ==
  /\ Idle /\ Owned /\ manifest.be # Absent /\ auth = Absent /\ Bound # {}
  /\ LET old == IF secrets.password = Absent THEN 0 ELSE secrets.password
     IN  old < MaxPasswords /\ secrets' = [secrets EXCEPT !.password = old + 1]
  /\ Proceeds("register", 1, [registered |-> FALSE, token |-> FALSE])
  /\ UNCHANGED <<directory, manifest, config, auth, fixture, profile, worldVars>>
Register ==
  /\ In("register") /\ Bound # {}
  /\ \/ /\ account = Absent
        /\ \E encoded \in BOOLEAN :
             account' = [password |-> secrets.password, encoded |-> encoded, profile |-> "initial"]
        /\ Proceeds("login", 1, [command.manifest EXCEPT !.registered = TRUE])
     \/ account # Absent /\ Proceeds("login", 1, command.manifest) /\ UNCHANGED account
  /\ UNCHANGED <<diskVars, docker, processes, orphans, writes>>
(* The login of _qa_request: the password is compared with what is stored.    *)
LoggedIn == account # Absent /\ account.encoded /\ account.password = secrets.password
Login ==
  /\ In("login") /\ Bound # {}
  /\ secrets' = [secrets EXCEPT !.token = @ \/ LoggedIn]
  /\ Proceeds("auth", 1, [command.manifest EXCEPT !.token = LoggedIn])
  /\ UNCHANGED <<directory, manifest, config, auth, fixture, profile, worldVars>>
AuthReported ==
  /\ In("auth") /\ auth' = command.manifest /\ CommandOver
  /\ UNCHANGED <<directory, manifest, secrets, config, fixture, profile, worldVars>>

(* seed_qa_auth_fixture: only of an account that was registered and could not log
   in; it must hold exactly the raw password of the secrets.                  *)
SeedAuth ==
  /\ Idle /\ Owned /\ auth # Absent /\ fixture = Absent /\ auth.registered /\ ~auth.token
  /\ account.password = secrets.password /\ ~account.encoded
  /\ fixture' = "directory" /\ Begins("encode")
  /\ UNCHANGED <<directory, manifest, secrets, config, auth, profile, worldVars>>
(* _bcrypt_fixture_hash, and the artifact before the write.                   *)
SeedPrepared ==
  /\ In("encode") /\ fixture' = "FIXTURE_PREPARED" /\ Proceeds("seed", 1, command.manifest)
  /\ UNCHANGED <<directory, manifest, secrets, config, auth, profile, worldVars>>
SeedWritten ==
  /\ In("seed") /\ account' = [account EXCEPT !.encoded = TRUE]
  /\ writes' = [writes EXCEPT !.auth = @ + 1] /\ Proceeds("seeded", 1, command.manifest)
  /\ UNCHANGED <<diskVars, docker, processes, orphans>>
SeedUpdated ==
  /\ In("seeded") /\ fixture' = "FIXTURE_UPDATED_LOGIN_PENDING" /\ Proceeds("seed login", 1, command.manifest)
  /\ UNCHANGED <<directory, manifest, secrets, config, auth, profile, worldVars>>
SeedLogin ==
  /\ In("seed login") /\ Bound # {}
  /\ secrets' = [secrets EXCEPT !.token = @ \/ LoggedIn] /\ fixture' = "COMPLETED" /\ CommandOver
  /\ UNCHANGED <<directory, manifest, config, auth, profile, worldVars>>
-----------------------------------------------------------------------------
(* Client.__init__: the exact registered account, and a token.                *)
ClientOfAnyAccount == Owned /\ auth # Absent /\ secrets.token (* mutant: the id is not asked for *)
Client == Owned /\ auth # Absent /\ auth.registered /\ secrets.token

(* Client.seed_profile: the artifact is there before the row.                 *)
SeedProfileUnmarked ==   (* mutant: the artifact is only written afterwards *)
  /\ Idle /\ Client /\ profile = Absent /\ Begins("profile") /\ UNCHANGED <<diskVars, worldVars>>
SeedProfile ==
  /\ Idle /\ Client /\ profile = Absent /\ account.profile = "initial"
  /\ profile' = "STARTED" /\ Begins("profile")
  /\ UNCHANGED <<directory, manifest, secrets, config, auth, fixture, worldVars>>
ProfileWritten ==
  /\ In("profile") /\ account' = [account EXCEPT !.profile = "calibrating"]
  /\ writes' = [writes EXCEPT !.profile = @ + 1] /\ Proceeds("profiled", 1, command.manifest)
  /\ UNCHANGED <<diskVars, docker, processes, orphans>>
ProfileReported ==
  /\ In("profiled") /\ profile' = "COMPLETED" /\ CommandOver
  /\ UNCHANGED <<directory, manifest, secrets, config, auth, fixture, worldVars>>

(* Client.renew_auth *)
RenewAuth ==
  /\ Idle /\ Client /\ Bound # {} /\ LoggedIn
  /\ secrets' = [secrets EXCEPT !.token = TRUE]
  /\ UNCHANGED <<directory, manifest, config, auth, fixture, profile, worldVars, command>>
-----------------------------------------------------------------------------
(* A command is killed, or raises: the back end it had launched goes on.      *)
CommandKilled ==
  /\ ~Idle /\ CommandOver
  /\ orphans' = IF In("launched") THEN orphans \cup {command.k} ELSE orphans
  /\ UNCHANGED <<diskVars, docker, processes, account, writes>>

(* The back end needs a while for its port, and ends when it is taken.         *)
Binds ==
  /\ \E p \in Pids :
       /\ processes[p] = "starting"
       /\ processes' = [processes EXCEPT ![p] = IF Bound = {} THEN "bound" ELSE "dead"]
  /\ UNCHANGED <<diskVars, docker, orphans, account, writes, command>>
Dies ==
  /\ \E p \in Alive : processes' = [processes EXCEPT ![p] = "dead"]
  /\ UNCHANGED <<diskVars, docker, orphans, account, writes, command>>

EnvironmentInit ==
  /\ directory = FALSE /\ manifest = Absent /\ secrets = Absent /\ config = Absent
  /\ auth = Absent /\ fixture = Absent /\ profile = Absent
  /\ docker = {} /\ processes = [p \in Pids |-> Absent] /\ orphans = {}
  /\ account = Absent /\ writes = [auth |-> 0, profile |-> 0] /\ command = Absent

EnvironmentNext ==
  \/ Prepare \/ PrepareSecrets \/ PrepareManifest
  \/ StartInfrastructure \/ Create \/ CreateFails \/ Record \/ FinishInfrastructure
  \/ CheckInfrastructure \/ AttachHostNetwork \/ RecordHostNetwork \/ Connect
  \/ StartBackEnd \/ RecordBackEnd \/ RefreshConfig \/ RefreshedConfig \/ ConfigureGoogle
  \/ CheckAuth \/ Register \/ Login \/ AuthReported
  \/ SeedAuth \/ SeedPrepared \/ SeedWritten \/ SeedUpdated \/ SeedLogin
  \/ SeedProfile \/ ProfileWritten \/ ProfileReported \/ RenewAuth
  \/ CommandKilled \/ Binds \/ Dies
EnvironmentSpec == EnvironmentInit /\ [][EnvironmentNext]_environmentVars
-----------------------------------------------------------------------------
(* The values the environment takes.                                          *)
EnvironmentTypeOK ==
  /\ docker \subseteq Range(Infrastructure) \cup {HostNetwork}
  /\ processes \in [Pids -> {Absent, "starting", "bound", "dead"}] /\ orphans \subseteq Pids
  /\ manifest # Absent =>
       /\ secrets # Absent /\ manifest.status \in {"PREPARED", "STARTED", "PARTIAL"}
       /\ manifest.be \in Pids \cup {Absent} /\ manifest.host \in {Absent, 0, 1, 2}

(* start_infrastructure, attach_host_network: whatever is killed, the manifest lists
   every resource there is but at most one, the one that was being made.       *)
Recorded ==
  LET known == IF manifest = Absent THEN {} ELSE manifest.created
      unknown == (docker \ {HostNetwork}) \ known
  IN  /\ known \subseteq docker /\ Cardinality(unknown) <= 1
      /\ manifest # Absent /\ manifest.status = "STARTED" => unknown = {}
      /\ manifest # Absent /\ manifest.host # Absent => HostNetwork \in docker

(* start_be: a back end that runs is the recorded one, or was launched by a command
   that did not live to record it; no recorded one is ever joined by another.  *)
BackEndIsRecorded ==
  Alive \subseteq orphans \cup (IF manifest = Absent THEN {} ELSE {manifest.be})
                          \cup (IF In("launched") THEN {command.k} ELSE {})

(* check_auth, seed_qa_auth_fixture, Client: whatever was killed and repeated, the
   account a client works with has the password of the secrets, and a fixture is
   written into the database once.                                            *)
AccountIsOurs ==
  /\ Client => account # Absent /\ account.password = secrets.password /\ account.encoded
  /\ writes.auth <= 1 /\ writes.profile <= 1

(* All of them: what a killed command leaves is known to the next one.          *)
EnvironmentInv == EnvironmentTypeOK /\ Recorded /\ BackEndIsRecorded /\ AccountIsOurs
=============================================================================
