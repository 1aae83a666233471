---------------------------- MODULE QaTools_proofs ----------------------------
(* What the records of the QA tools are good for.

   The environment, for any number of launches of the back end and of passwords made up:
   its manifest knows every container and back end but the one being made, an account
   whose password the secrets file still holds is not registered again, and what a command
   writes into the database it writes once, whenever the command before it was killed.

   The client of the workflows, for sets and sessions of any size and any requests of the
   operator: a one-shot request goes out once and never without a record, and the report
   tells of every error there was. What a report says at the end of a workflow is true of
   the back end, and a text that was recognised in a turn is told as it was.

   The quality campaign, for any processes, calls and limits: what has been used is charged,
   and the campaign, its exploration and its stage keep to their budgets.

   The invariants have a named part for each idea; the proofs have a lemma for each part
   or action. *)
EXTENDS QaEnvironment, CampaignClient, QualityCampaign, FiniteSetTheorems,
        SequenceTheorems, WellFoundedInduction, TLAPS

(* What the manifest lists of what Docker has, and what Docker has besides the network
   that is attached on its own. *)
Listed == IF manifest = Absent THEN {} ELSE manifest.created
Unlisted == (docker \ {HostNetwork}) \ Listed

(* The types, and what has been written: at most one fixture of each kind. *)
EnvironmentShape ==
  /\ directory \in BOOLEAN
  /\ manifest \in Manifests \cup {Absent} /\ secrets \in Secrets \cup {Absent}
  /\ auth \in Reports \cup {Absent} /\ account \in Accounts \cup {Absent}
  /\ fixture \in Fixtures \cup {Absent} /\ profile \in {"STARTED", "COMPLETED", Absent}
  /\ docker \subseteq Range(Infrastructure) \cup {HostNetwork}
  /\ processes \in [Pids -> {Absent, "starting", "bound", "dead"}] /\ orphans \subseteq Pids
  /\ writes \in [auth : {0, 1}, profile : {0, 1}]
  /\ command \in Commands \cup {Absent}

(* Before the manifest is there, only prepare has run. *)
Preparing == In("prepare secrets") \/ In("prepare manifest")
PreparedFirst ==
  /\ ~directory => manifest = Absent /\ Idle
  /\ manifest = Absent => docker = {} /\ account = Absent /\ auth = Absent /\ (Idle \/ Preparing)
  /\ manifest # Absent => secrets # Absent /\ ~Preparing
  /\ In("prepare manifest") => secrets # Absent

(* What the manifest does not know is what is being made. *)
ManifestKnows ==
  /\ Listed \subseteq docker /\ \A a, b \in Unlisted : a = b
  /\ manifest # Absent /\ manifest.status = "STARTED" => Unlisted = {}
  /\ manifest # Absent /\ manifest.host # Absent => HostNetwork \in docker
  /\ manifest # Absent /\ manifest.be # Absent => processes[manifest.be] # Absent

(* What a command holds in memory is the manifest, but for what it is about to write. *)
Kept(copy) ==
  /\ copy \in Manifests /\ manifest # Absent
  /\ copy.created = manifest.created /\ copy.host = manifest.host
InHand ==
  /\ In("create") =>
       /\ command.manifest = manifest /\ manifest.status = "PREPARED" /\ Unlisted = {}
       /\ command.k \in DOMAIN Infrastructure
  /\ In("created") =>
       /\ command.manifest = manifest /\ manifest.status = "PREPARED"
       /\ command.k \in DOMAIN Infrastructure /\ Infrastructure[command.k] \in docker
       /\ Unlisted \subseteq {Infrastructure[command.k]}
  /\ In("finish") =>
       /\ Kept(command.manifest) /\ command.manifest.be = manifest.be
       /\ command.manifest.status = "STARTED" => Unlisted = {}
  /\ In("attached") \/ In("connect") => command.manifest = manifest /\ HostNetwork \in docker
  /\ In("connect") => command.k \in {1, 2}
  /\ In("launched") =>
       /\ Kept(command.manifest) /\ command.manifest.status = manifest.status
       /\ command.k \in Pids /\ command.manifest.be = command.k /\ manifest.be \notin Alive
       /\ processes[command.k] # Absent

(* Whose the account is: that of the command that registered it, as long as no other
   password is made up. *)
Ours == account # Absent /\ account.password = secrets.password
AccountKnown ==
  /\ secrets # Absent /\ secrets.token => account # Absent /\ account.encoded
  /\ auth # Absent /\ auth.registered => Ours
  /\ In("register") \/ In("login") \/ In("auth") => auth = Absent /\ command.manifest \in Reports
  /\ In("register") => ~command.manifest.registered
  /\ In("login") \/ In("auth") => (command.manifest.registered => Ours)
(* Before a command writes into the database nobody has, and the file says so before
   it does. *)
WrittenOnce ==
  /\ In("encode") \/ In("seed") => account # Absent /\ fixture # Absent /\ writes.auth = 0
  /\ In("profile") => account # Absent /\ profile # Absent /\ writes.profile = 0
  /\ fixture = Absent => writes.auth = 0
  /\ profile = Absent => writes.profile = 0

(* The inductive invariant. *)
EnvironmentIInv ==
  /\ EnvironmentShape /\ PreparedFirst /\ ManifestKnows /\ InHand /\ BackEndIsRecorded
  /\ AccountKnown /\ WrittenOnce

(* Who changes what. *)
LEMMA WhoChanges ==
  ASSUME EnvironmentNext \/ UNCHANGED environmentVars
  PROVE  /\ directory' = directory \/ Prepare
         /\ manifest' = manifest
              \/ PrepareManifest \/ Record \/ FinishInfrastructure \/ CheckInfrastructure
              \/ RecordHostNetwork \/ Connect \/ StartBackEnd \/ RecordBackEnd
         /\ secrets' = secrets
              \/ PrepareSecrets \/ ConfigureGoogle \/ CheckAuth \/ Login \/ SeedLogin \/ RenewAuth
         /\ auth' = auth \/ AuthReported
         /\ fixture' = fixture \/ SeedAuth \/ SeedPrepared \/ SeedUpdated \/ SeedLogin
         /\ profile' = profile \/ SeedProfile \/ ProfileReported
         /\ docker' = docker \/ Create \/ CreateFails \/ AttachHostNetwork
         /\ processes' = processes \/ StartBackEnd \/ Binds \/ Dies
         /\ orphans' = orphans \/ CommandKilled
         /\ account' = account \/ Register \/ SeedWritten \/ ProfileWritten
         /\ writes' = writes \/ SeedWritten \/ ProfileWritten
<1>1. CASE Prepare
  BY <1>1 DEF Prepare, diskVars, worldVars
<1>2. CASE PrepareSecrets
  BY <1>2 DEF PrepareSecrets, diskVars, worldVars
<1>3. CASE PrepareManifest
  BY <1>3 DEF PrepareManifest, diskVars, worldVars
<1>4. CASE StartInfrastructure
  BY <1>4 DEF StartInfrastructure, diskVars, worldVars
<1>5. CASE Create
  BY <1>5 DEF Create, diskVars, worldVars
<1>6. CASE CreateFails
  BY <1>6 DEF CreateFails, diskVars, worldVars
<1>7. CASE Record
  BY <1>7 DEF Record, diskVars, worldVars
<1>8. CASE FinishInfrastructure
  BY <1>8 DEF FinishInfrastructure, diskVars, worldVars
<1>9. CASE CheckInfrastructure
  BY <1>9 DEF CheckInfrastructure, diskVars, worldVars
<1>10. CASE AttachHostNetwork
  BY <1>10 DEF AttachHostNetwork, diskVars, worldVars
<1>11. CASE RecordHostNetwork
  BY <1>11 DEF RecordHostNetwork, diskVars, worldVars
<1>12. CASE Connect
  BY <1>12 DEF Connect, diskVars, worldVars
<1>13. CASE StartBackEnd
  BY <1>13 DEF StartBackEnd, diskVars, worldVars
<1>14. CASE RecordBackEnd
  BY <1>14 DEF RecordBackEnd, diskVars, worldVars
<1>15. CASE RefreshConfig
  BY <1>15 DEF RefreshConfig, diskVars, worldVars
<1>16. CASE RefreshedConfig
  BY <1>16 DEF RefreshedConfig, diskVars, worldVars
<1>17. CASE ConfigureGoogle
  BY <1>17 DEF ConfigureGoogle, diskVars, worldVars
<1>18. CASE CheckAuth
  BY <1>18 DEF CheckAuth, diskVars, worldVars
<1>19. CASE Register
  BY <1>19 DEF Register, diskVars, worldVars
<1>20. CASE Login
  BY <1>20 DEF Login, diskVars, worldVars
<1>21. CASE AuthReported
  BY <1>21 DEF AuthReported, diskVars, worldVars
<1>22. CASE SeedAuth
  BY <1>22 DEF SeedAuth, diskVars, worldVars
<1>23. CASE SeedPrepared
  BY <1>23 DEF SeedPrepared, diskVars, worldVars
<1>24. CASE SeedWritten
  BY <1>24 DEF SeedWritten, diskVars, worldVars
<1>25. CASE SeedUpdated
  BY <1>25 DEF SeedUpdated, diskVars, worldVars
<1>26. CASE SeedLogin
  BY <1>26 DEF SeedLogin, diskVars, worldVars
<1>27. CASE SeedProfile
  BY <1>27 DEF SeedProfile, diskVars, worldVars
<1>28. CASE ProfileWritten
  BY <1>28 DEF ProfileWritten, diskVars, worldVars
<1>29. CASE ProfileReported
  BY <1>29 DEF ProfileReported, diskVars, worldVars
<1>30. CASE RenewAuth
  BY <1>30 DEF RenewAuth, diskVars, worldVars
<1>31. CASE CommandKilled
  BY <1>31 DEF CommandKilled, diskVars, worldVars
<1>32. CASE Binds
  BY <1>32 DEF Binds, diskVars, worldVars
<1>33. CASE Dies
  BY <1>33 DEF Dies, diskVars, worldVars
<1>34. CASE UNCHANGED environmentVars
  BY <1>34 DEF environmentVars, diskVars, worldVars
<1> QED BY <1>1, <1>2, <1>3, <1>4, <1>5, <1>6, <1>7, <1>8, <1>9, <1>10, <1>11, <1>12, <1>13,
            <1>14, <1>15, <1>16, <1>17, <1>18, <1>19, <1>20, <1>21, <1>22, <1>23, <1>24, <1>25,
            <1>26, <1>27, <1>28, <1>29, <1>30, <1>31, <1>32, <1>33, <1>34 DEF EnvironmentNext

(* What a command holds has its stage, and is not nothing. *)
LEMMA CommandFits ==
  ASSUME EnvironmentAssumption, NEW stage \in Stages, NEW k \in DOMAIN Infrastructure \cup Pids,
         NEW copy \in Manifests \cup Reports \cup {Absent}, Proceeds(stage, k, copy)
  PROVE  /\ command' \in Commands /\ command' # Absent
         /\ command'.stage = stage /\ command'.k = k /\ command'.manifest = copy
<1>1. command' = [stage |-> stage, k |-> k, manifest |-> copy]
  BY DEF Proceeds
<1>2. command' \in Commands
  BY <1>1 DEF Commands
<1> QED BY <1>1, <1>2 DEF EnvironmentAssumption

(* There are five resources to make. *)
LEMMA Counters == DOMAIN Infrastructure = 1 .. 5 /\ Len(Infrastructure) = 5
BY DEF Infrastructure

(* What a command that goes on holds. *)
LEMMA CommandHolds ==
  ASSUME EnvironmentIInv, command # Absent
  PROVE  /\ command.stage \in Stages /\ command.k \in DOMAIN Infrastructure \cup Pids
         /\ command.manifest \in Manifests \cup Reports \cup {Absent}
BY DEF EnvironmentIInv, EnvironmentShape, Commands

(* The manifests that are written. *)
LEMMA ManifestsFit ==
  ASSUME NEW m \in Manifests
  PROVE  /\ DOMAIN m = {"status", "created", "host", "healthy", "be", "previous"}
         /\ \A s \in {"PREPARED", "STARTED", "PARTIAL"} : [m EXCEPT !.status = s] \in Manifests
         /\ \A r \in Range(Infrastructure) : [m EXCEPT !.created = @ \cup {r}] \in Manifests
         /\ \A h \in {0, 1, 2} : [m EXCEPT !.host = h] \in Manifests
         /\ \A r \in BOOLEAN : [m EXCEPT !.healthy = r] \in Manifests
         /\ \A p \in Pids : \A q \in SUBSET Pids : [m EXCEPT !.be = p, !.previous = q] \in Manifests
<1> DEFINE R == Range(Infrastructure)
<1>0. m.created \subseteq R /\ m.be \in Pids \cup {Absent} /\ m.previous \subseteq Pids
  BY DEF Manifests
<1> HIDE DEF R
<1>1. /\ DOMAIN m = {"status", "created", "host", "healthy", "be", "previous"}
      /\ \A s \in {"PREPARED", "STARTED", "PARTIAL"} : [m EXCEPT !.status = s] \in Manifests
  BY DEF Manifests
<1>2. \A r \in R : [m EXCEPT !.created = @ \cup {r}] \in Manifests
  <2> TAKE r \in R
  <2>1. m.created \cup {r} \in SUBSET R
    BY <1>0
  <2> QED BY <2>1 DEF Manifests, R
<1>3. \A h \in {0, 1, 2} : [m EXCEPT !.host = h] \in Manifests
  BY DEF Manifests
<1>4. \A r \in BOOLEAN : [m EXCEPT !.healthy = r] \in Manifests
  BY DEF Manifests
<1>5. \A p \in Pids : \A q \in SUBSET Pids : [m EXCEPT !.be = p, !.previous = q] \in Manifests
  BY DEF Manifests
<1> QED BY <1>1, <1>2, <1>3, <1>4, <1>5 DEF R

(* A resource that is made is one of those listed, and not the network that is
   attached on its own. *)
LEMMA ResourcesAre ==
  ASSUME NEW k \in DOMAIN Infrastructure
  PROVE  Infrastructure[k] \in Range(Infrastructure) /\ Infrastructure[k] # HostNetwork
<1>1. k \in 1 .. 5
  BY Counters
<1> QED BY <1>1, Counters DEF Infrastructure, HostNetwork, Range

(* A set of numbers that is not empty has a least one. *)
LEMMA LeastNumber ==
  ASSUME NEW T, T \subseteq Nat, T # {}
  PROVE  \E x \in T : \A y \in T : x <= y
<1>1. PICK x \in T : \A y \in T : ~(<<y, x>> \in OpToRel(<, Nat))
  BY NatLessThanWellFounded, WFMin, Zenon
<1>2. \A y \in T : ~(y < x)
  BY <1>1 DEF OpToRel
<1>3. T \subseteq Nat
  OBVIOUS
<1> QED BY <1>2, <1>3

(* start_be: the first launch there has not been. *)
LEMMA LaunchIs ==
  ASSUME EnvironmentAssumption, EnvironmentIInv, StartBackEnd
  PROVE  \E pid \in Pids, previous \in SUBSET Pids :
           LET healthy == [manifest EXCEPT !.healthy = TRUE]
               copy == [healthy EXCEPT !.be = pid, !.previous = previous] IN
           /\ manifest \in Manifests /\ manifest.be \notin Alive
           /\ processes[pid] = Absent /\ processes' = [processes EXCEPT ![pid] = "starting"]
           /\ manifest' = healthy /\ copy \in Manifests /\ Proceeds("launched", pid, copy)
<1> DEFINE free == { p \in Pids : processes[p] = Absent }
           First(p) == processes[p] = Absent /\ \A q \in Pids : processes[q] = Absent => p <= q
           pid == CHOOSE p \in Pids : First(p)
           healthy == [manifest EXCEPT !.healthy = TRUE]
           previous == IF healthy.be = Absent THEN healthy.previous ELSE healthy.previous \cup {healthy.be}
           copy == [healthy EXCEPT !.be = pid, !.previous = previous]
<1>1. free \subseteq Nat /\ free # {}
  BY DEF StartBackEnd, Pids
<1>2. PICK p \in free : \A q \in free : p <= q
  <2> HIDE DEF free
  <2> QED BY <1>1, LeastNumber
<1>3. pid \in Pids /\ processes[pid] = Absent
  <2>1. p \in Pids /\ First(p)
    BY <1>2
  <2>2. pid \in Pids /\ First(pid)
    <3> HIDE DEF First
    <3> QED BY <2>1
  <2> QED BY <2>2
<1>4. manifest \in Manifests /\ healthy \in Manifests /\ previous \in SUBSET Pids
  <2>1. manifest \in Manifests
    BY DEF StartBackEnd, Owned, EnvironmentIInv, EnvironmentShape
  <2>2. healthy \in Manifests
    BY <2>1, ManifestsFit
  <2>3. healthy.be \in Pids \cup {Absent} /\ healthy.previous \in SUBSET Pids
    <3> HIDE DEF healthy
    <3> QED BY <2>2 DEF Manifests
  <2> HIDE DEF healthy
  <2> QED BY <2>1, <2>2, <2>3
<1>5. /\ manifest' = healthy /\ processes' = [processes EXCEPT ![pid] = "starting"]
      /\ Proceeds("launched", pid, [healthy EXCEPT !.be = pid,
                 !.previous = IF healthy.be = Absent THEN @ ELSE @ \cup {healthy.be}])
      /\ manifest.be \notin Alive
  BY DEF StartBackEnd, Writes, Replaceable
<1>6. [healthy EXCEPT !.be = pid, !.previous = IF healthy.be = Absent THEN @ ELSE @ \cup {healthy.be}] = copy
  OBVIOUS
<1>7. copy \in Manifests
  <2> HIDE DEF healthy, pid, previous
  <2> QED BY <1>3, <1>4, ManifestsFit
<1> HIDE DEF pid, previous
<1> QED BY <1>3, <1>4, <1>5, <1>6, <1>7

(* Every step leaves a command of the right type in memory, or none. *)
LEMMA NowFits ==
  ASSUME EnvironmentAssumption, EnvironmentIInv, EnvironmentNext \/ UNCHANGED environmentVars
  PROVE  command' \in Commands \cup {Absent}
<1>0. command \in Commands \cup {Absent} /\ 1 \in DOMAIN Infrastructure /\ manifest \in Manifests \cup {Absent}
      /\ auth \in Reports \cup {Absent}
  BY Counters DEF EnvironmentIInv, EnvironmentShape
<1>1. CASE UNCHANGED command \/ CommandOver
  BY <1>0, <1>1 DEF CommandOver
<1>2. CASE Prepare \/ StartInfrastructure \/ AttachHostNetwork \/ RefreshConfig \/ SeedAuth \/ SeedProfile
  <2>1. PICK stage \in Stages : Begins(stage)
    BY <1>2 DEF Prepare, StartInfrastructure, AttachHostNetwork, RefreshConfig, SeedAuth, SeedProfile, Stages
  <2>2. Proceeds(stage, 1, manifest)
    BY <2>1 DEF Begins, Proceeds
  <2> QED BY <1>0, <2>2, CommandFits
<1>3. CASE \/ PrepareSecrets \/ Create \/ SeedPrepared \/ SeedWritten \/ SeedUpdated \/ ProfileWritten
  <2>1. command # Absent
    BY <1>3 DEF PrepareSecrets, Create, SeedPrepared, SeedWritten, SeedUpdated, ProfileWritten, In
  <2>2. PICK stage \in Stages, k \in {1, command.k}, copy \in {Absent, command.manifest} : Proceeds(stage, k, copy)
    BY <1>3 DEF PrepareSecrets, Create, SeedPrepared, SeedWritten, SeedUpdated, ProfileWritten, Stages
  <2>3. k \in DOMAIN Infrastructure \cup Pids /\ copy \in Manifests \cup Reports \cup {Absent}
    BY <1>0, <2>1, <2>2, CommandHolds
  <2> QED BY <2>2, <2>3, CommandFits
<1>4. CASE Record
  <2>1. In("created") /\ command.manifest \in Manifests /\ command.k \in DOMAIN Infrastructure
    BY <1>4 DEF Record, EnvironmentIInv, InHand, PreparedFirst, EnvironmentShape, In, Preparing, Idle
  <2> DEFINE copy == [command.manifest EXCEPT !.created = @ \cup {Infrastructure[command.k]}]
  <2>2. copy \in Manifests /\ [copy EXCEPT !.status = "STARTED"] \in Manifests
    <3>1. copy \in Manifests
      BY <2>1, ResourcesAre, ManifestsFit
    <3> HIDE DEF copy
    <3> QED BY <3>1, ManifestsFit
  <2>3. \/ Proceeds("finish", 1, [copy EXCEPT !.status = "STARTED"])
        \/ Proceeds("create", command.k + 1, copy) /\ command.k # Len(Infrastructure)
    BY <1>4 DEF Record
  <2> HIDE DEF copy
  <2>4. command.k # Len(Infrastructure) => command.k + 1 \in DOMAIN Infrastructure
    BY <2>1, Counters
  <2>5. "finish" \in Stages /\ "create" \in Stages
    BY DEF Stages
  <2> QED BY <1>0, <2>2, <2>3, <2>4, <2>5, CommandFits
<1>5. CASE CreateFails
  <2>1. command.manifest \in Manifests
    BY <1>5 DEF CreateFails, EnvironmentIInv, InHand, PreparedFirst, EnvironmentShape, In, Preparing, Idle
  <2>2. Proceeds("finish", 1, [command.manifest EXCEPT !.status = "PARTIAL"]) /\ "finish" \in Stages
    BY <1>5 DEF CreateFails, Stages
  <2>3. [command.manifest EXCEPT !.status = "PARTIAL"] \in Manifests
    BY <2>1, ManifestsFit
  <2> QED BY <1>0, <2>2, <2>3, CommandFits
<1>6. CASE RecordHostNetwork \/ Connect
  <2>1. command.manifest \in Manifests /\ "connect" \in Stages /\ (Connect => command.k \in {1, 2})
    BY <1>6 DEF RecordHostNetwork, Connect, EnvironmentIInv, InHand, PreparedFirst, EnvironmentShape, In, Preparing, Idle, Stages
  <2>2. CASE RecordHostNetwork
    <3>1. Proceeds("connect", 1, [command.manifest EXCEPT !.host = 0])
      BY <2>2 DEF RecordHostNetwork
    <3>2. [command.manifest EXCEPT !.host = 0] \in Manifests
      BY <2>1, ManifestsFit
    <3> QED BY <1>0, <2>1, <3>1, <3>2, CommandFits
  <2>3. CASE Connect
    <3>1. CommandOver \/ Proceeds("connect", command.k + 1, [command.manifest EXCEPT !.host = command.k])
      BY <2>3 DEF Connect
    <3>2. [command.manifest EXCEPT !.host = command.k] \in Manifests
      <4>1. command.k \in {0, 1, 2}
        BY <2>1, <2>3
      <4> QED BY <2>1, <4>1, ManifestsFit
    <3>3. command.k + 1 \in DOMAIN Infrastructure
      BY <2>1, <2>3, Counters
    <3>4. CASE Proceeds("connect", command.k + 1, [command.manifest EXCEPT !.host = command.k])
      BY <2>1, <3>2, <3>3, <3>4, CommandFits
    <3> QED BY <1>1, <3>1, <3>4
  <2> QED BY <1>6, <2>2, <2>3
<1>7. CASE StartBackEnd
  <2>1. PICK pid \in Pids, copy \in Manifests : Proceeds("launched", pid, copy)
    BY <1>7, LaunchIs
  <2>2. "launched" \in Stages
    BY DEF Stages
  <2> QED BY <2>1, <2>2, CommandFits
<1>8. CASE CheckAuth \/ Register \/ Login
  <2>1. command.manifest \in Reports \/ CheckAuth
    BY <1>8 DEF EnvironmentIInv, AccountKnown, Register, Login
  <2>2. /\ [registered |-> FALSE, token |-> FALSE] \in Reports
        /\ \A r \in Reports : [r EXCEPT !.registered = TRUE] \in Reports
        /\ \A r \in Reports : \A t \in BOOLEAN : [r EXCEPT !.token = t] \in Reports
    BY DEF Reports
  <2>3. LoggedIn \in BOOLEAN
    BY DEF LoggedIn, EnvironmentIInv, EnvironmentShape, Accounts
  <2>4. PICK stage \in {"register", "login", "auth"}, copy \in Reports : Proceeds(stage, 1, copy)
    <3>1. CASE CheckAuth
      BY <2>2, <3>1 DEF CheckAuth
    <3>2. CASE Register
      BY <2>1, <2>2, <3>2 DEF Register, CheckAuth
    <3>3. CASE Login
      BY <2>1, <2>2, <2>3, <3>3 DEF Login, CheckAuth
    <3> QED BY <1>8, <3>1, <3>2, <3>3
  <2>5. stage \in Stages
    BY <2>4 DEF Stages
  <2> QED BY <1>0, <2>4, <2>5, CommandFits
<1>9. CASE PrepareManifest \/ FinishInfrastructure \/ CheckInfrastructure \/ RecordBackEnd \/ RefreshedConfig \/ ConfigureGoogle
        \/ AuthReported \/ SeedLogin \/ ProfileReported \/ RenewAuth \/ CommandKilled \/ Binds \/ Dies
        \/ UNCHANGED environmentVars
  BY <1>1, <1>9 DEF PrepareManifest, FinishInfrastructure, CheckInfrastructure, RecordBackEnd, RefreshedConfig, ConfigureGoogle,
       AuthReported, SeedLogin, ProfileReported, RenewAuth, CommandKilled, Binds, Dies, environmentVars
<1> QED BY <1>2, <1>3, <1>4, <1>5, <1>6, <1>7, <1>8, <1>9 DEF EnvironmentNext

(* What the invariant says of the types of what is in memory. *)
LEMMA InMemory ==
  ASSUME EnvironmentAssumption, EnvironmentIInv
  PROVE  /\ In("create") \/ In("created") \/ In("attached") \/ In("connect") \/ In("finish") \/ In("launched") =>
              command.manifest \in Manifests /\ manifest \in Manifests
         /\ In("register") \/ In("login") \/ In("auth") => command.manifest \in Reports
BY DEF EnvironmentIInv, InHand, Kept, PreparedFirst, Preparing, EnvironmentShape, AccountKnown, In, Idle

(* The types of the files ... *)
LEMMA FilesFit ==
  ASSUME EnvironmentAssumption, EnvironmentIInv, EnvironmentNext \/ UNCHANGED environmentVars
  PROVE  /\ directory' \in BOOLEAN
         /\ manifest' \in Manifests \cup {Absent} /\ secrets' \in Secrets \cup {Absent}
         /\ auth' \in Reports \cup {Absent}
         /\ fixture' \in Fixtures \cup {Absent} /\ profile' \in {"STARTED", "COMPLETED", Absent}
<1>0. /\ directory \in BOOLEAN /\ manifest \in Manifests \cup {Absent} /\ secrets \in Secrets \cup {Absent}
      /\ auth \in Reports \cup {Absent} /\ fixture \in Fixtures \cup {Absent}
      /\ profile \in {"STARTED", "COMPLETED", Absent}
  BY DEF EnvironmentIInv, EnvironmentShape
<1>1. directory' \in BOOLEAN
  BY <1>0, WhoChanges DEF Prepare
<1>2. manifest' \in Manifests \cup {Absent}
  <2>1. CASE PrepareManifest
    BY <2>1 DEF PrepareManifest, Writes, Manifests
  <2>2. CASE Record
    <3>1. command.manifest \in Manifests /\ command.k \in DOMAIN Infrastructure
      BY <2>2, InMemory DEF Record, EnvironmentIInv, InHand
    <3>2. manifest' = [command.manifest EXCEPT !.created = @ \cup {Infrastructure[command.k]}]
      BY <2>2 DEF Record, Writes
    <3> QED BY <3>1, <3>2, ResourcesAre, ManifestsFit
  <2>3. CASE FinishInfrastructure \/ RecordBackEnd
    BY <2>3, InMemory DEF FinishInfrastructure, RecordBackEnd, Writes
  <2>4. CASE CheckInfrastructure
    <3>1. manifest \in Manifests
      BY <1>0, <2>4 DEF CheckInfrastructure, Owned
    <3>2. PICK ready \in BOOLEAN : manifest' = [manifest EXCEPT !.healthy = ready]
      BY <2>4 DEF CheckInfrastructure, Writes
    <3> QED BY <3>1, <3>2, ManifestsFit
  <2>5. CASE RecordHostNetwork
    <3>1. manifest' = [command.manifest EXCEPT !.host = 0] /\ command.manifest \in Manifests
      BY <2>5, InMemory DEF RecordHostNetwork, Writes
    <3> QED BY <3>1, ManifestsFit
  <2>6. CASE Connect
    <3>1. manifest' = [command.manifest EXCEPT !.host = command.k] /\ command.manifest \in Manifests
          /\ command.k \in {0, 1, 2}
      BY <2>6, InMemory DEF Connect, Writes, EnvironmentIInv, InHand
    <3> QED BY <3>1, ManifestsFit
  <2>7. CASE StartBackEnd
    <3>1. manifest \in Manifests /\ manifest' = [manifest EXCEPT !.healthy = TRUE]
      BY <2>7, LaunchIs
    <3> QED BY <3>1, ManifestsFit
  <2> QED BY <1>0, <2>1, <2>2, <2>3, <2>4, <2>5, <2>6, <2>7, WhoChanges
<1>3. secrets' \in Secrets \cup {Absent}
  <2>1. LoggedIn \in BOOLEAN
    BY DEF LoggedIn, EnvironmentIInv, EnvironmentShape, Accounts
  <2>2. \A s \in Secrets : /\ s.token \in BOOLEAN /\ s.password \in Passwords \cup {Absent}
                           /\ [s EXCEPT !.google = TRUE] \in Secrets
                           /\ \A t \in BOOLEAN : [s EXCEPT !.token = t] \in Secrets
                           /\ \A p \in Passwords : [s EXCEPT !.password = p] \in Secrets
    BY DEF Secrets
  <2>3. CASE PrepareSecrets
    BY <2>3 DEF PrepareSecrets, Secrets
  <2>4. secrets \in Secrets \/ secrets' = secrets \/ PrepareSecrets
    <3>1. manifest # Absent => secrets \in Secrets
      BY <1>0 DEF EnvironmentIInv, PreparedFirst
    <3>2. ConfigureGoogle \/ CheckAuth \/ RenewAuth => manifest # Absent
      BY DEF ConfigureGoogle, CheckAuth, RenewAuth, Client, Owned
    <3>3. Login \/ SeedLogin => manifest # Absent
      BY DEF Login, SeedLogin, EnvironmentIInv, PreparedFirst, Preparing, In, Idle
    <3> QED BY <3>1, <3>2, <3>3, WhoChanges
  <2>5. CASE secrets \in Secrets /\ (ConfigureGoogle \/ RenewAuth)
    BY <2>2, <2>5 DEF ConfigureGoogle, RenewAuth
  <2>6. CASE secrets \in Secrets /\ (Login \/ SeedLogin)
    <3>1. secrets' = [secrets EXCEPT !.token = @ \/ LoggedIn]
      BY <2>6 DEF Login, SeedLogin
    <3>2. (secrets.token \/ LoggedIn) \in BOOLEAN
      OBVIOUS
    <3>3. secrets' = [secrets EXCEPT !.token = secrets.token \/ LoggedIn]
      BY <3>1
    <3> QED BY <2>2, <2>6, <3>2, <3>3
  <2>7. CASE secrets \in Secrets /\ CheckAuth
    <3> DEFINE old == IF secrets.password = Absent THEN 0 ELSE secrets.password
    <3>1. old < MaxPasswords /\ secrets' = [secrets EXCEPT !.password = old + 1]
      BY <2>7 DEF CheckAuth
    <3>2. old \in 0 .. MaxPasswords
      <4>1. secrets.password \in Passwords \cup {Absent}
        BY <2>2, <2>7
      <4>2. 0 \in 0 .. MaxPasswords
        BY DEF EnvironmentAssumption
      <4> QED BY <4>1, <4>2 DEF Passwords
    <3> HIDE DEF old
    <3>3. old + 1 \in Passwords
      BY <3>1, <3>2 DEF Passwords, EnvironmentAssumption
    <3> QED BY <2>2, <2>7, <3>1, <3>3
  <2> QED BY <1>0, <2>3, <2>4, <2>5, <2>6, <2>7, WhoChanges
<1>4. auth' \in Reports \cup {Absent}
  BY <1>0, WhoChanges, InMemory DEF AuthReported
<1>5. fixture' \in Fixtures \cup {Absent}
  BY <1>0, WhoChanges DEF SeedAuth, SeedPrepared, SeedUpdated, SeedLogin, Fixtures
<1>6. profile' \in {"STARTED", "COMPLETED", Absent}
  BY <1>0, WhoChanges DEF SeedProfile, ProfileReported
<1> QED BY <1>1, <1>2, <1>3, <1>4, <1>5, <1>6

(* ... and of the world outside. *)
LEMMA WorldFits ==
  ASSUME EnvironmentAssumption, EnvironmentIInv, EnvironmentNext \/ UNCHANGED environmentVars
  PROVE  /\ account' \in Accounts \cup {Absent}
         /\ docker' \subseteq Range(Infrastructure) \cup {HostNetwork}
         /\ processes' \in [Pids -> {Absent, "starting", "bound", "dead"}] /\ orphans' \subseteq Pids
         /\ writes' \in [auth : {0, 1}, profile : {0, 1}]
<1>0. /\ account \in Accounts \cup {Absent} /\ secrets \in Secrets \cup {Absent}
      /\ docker \subseteq Range(Infrastructure) \cup {HostNetwork}
      /\ processes \in [Pids -> {Absent, "starting", "bound", "dead"}] /\ orphans \subseteq Pids
      /\ writes \in [auth : {0, 1}, profile : {0, 1}]
  BY DEF EnvironmentIInv, EnvironmentShape
<1>1. account' \in Accounts \cup {Absent}
  <2>1. CASE Register
    <3>1. secrets # Absent
      BY <2>1 DEF Register, EnvironmentIInv, PreparedFirst, Preparing, In, Idle
    <3>2. secrets.password \in Passwords \cup {Absent}
      BY <1>0, <3>1 DEF Secrets
    <3> QED BY <1>0, <2>1, <3>2 DEF Register, Accounts
  <2>2. CASE SeedWritten
    <3>1. account \in Accounts /\ account' = [account EXCEPT !.encoded = TRUE]
      BY <1>0, <2>2 DEF SeedWritten, EnvironmentIInv, WrittenOnce
    <3> QED BY <3>1 DEF Accounts
  <2>3. CASE ProfileWritten
    <3>1. account \in Accounts /\ account' = [account EXCEPT !.profile = "calibrating"]
      BY <1>0, <2>3 DEF ProfileWritten, EnvironmentIInv, WrittenOnce
    <3> QED BY <3>1 DEF Accounts
  <2> QED BY <1>0, <2>1, <2>2, <2>3, WhoChanges
<1>2. docker' \subseteq Range(Infrastructure) \cup {HostNetwork}
  <2>1. CASE Create \/ CreateFails
    <3>1. Infrastructure[command.k] \in Range(Infrastructure)
      BY <2>1, ResourcesAre DEF Create, CreateFails, EnvironmentIInv, InHand
    <3> QED BY <1>0, <2>1, <3>1 DEF Create, CreateFails
  <2>2. CASE AttachHostNetwork
    BY <1>0, <2>2 DEF AttachHostNetwork
  <2> QED BY <1>0, <2>1, <2>2, WhoChanges
<1>3. processes' \in [Pids -> {Absent, "starting", "bound", "dead"}]
  <2>1. CASE StartBackEnd
    BY <1>0, <2>1, LaunchIs
  <2>2. CASE Binds
    BY <1>0, <2>2 DEF Binds
  <2>3. CASE Dies
    BY <1>0, <2>3 DEF Dies
  <2> QED BY <1>0, <2>1, <2>2, <2>3, WhoChanges
<1>4. orphans' \subseteq Pids
  BY <1>0, WhoChanges DEF CommandKilled, EnvironmentIInv, InHand
<1>5. writes' \in [auth : {0, 1}, profile : {0, 1}]
  <2>1. CASE SeedWritten
    <3>1. writes.auth = 0 /\ writes' = [writes EXCEPT !.auth = @ + 1]
      BY <2>1 DEF SeedWritten, EnvironmentIInv, WrittenOnce
    <3> QED BY <1>0, <3>1
  <2>2. CASE ProfileWritten
    <3>1. writes.profile = 0 /\ writes' = [writes EXCEPT !.profile = @ + 1]
      BY <2>2 DEF ProfileWritten, EnvironmentIInv, WrittenOnce
    <3> QED BY <1>0, <3>1
  <2> QED BY <1>0, <2>1, <2>2, WhoChanges
<1> QED BY <1>1, <1>2, <1>3, <1>4, <1>5

(* Every step keeps the types. *)
LEMMA ShapeKept ==
  ASSUME EnvironmentAssumption, EnvironmentIInv, EnvironmentNext \/ UNCHANGED environmentVars
  PROVE  EnvironmentShape'
BY NowFits, FilesFit, WorldFits DEF EnvironmentShape

(* Which step leads where. *)
LEMMA WhereTo ==
  ASSUME EnvironmentNext \/ UNCHANGED environmentVars
  PROVE  \/ command' = command /\ (Idle \/ Binds \/ Dies \/ UNCHANGED environmentVars)
         \/ command' = Absent
         \/ Prepare /\ command'.stage = "prepare secrets"
         \/ PrepareSecrets /\ command'.stage = "prepare manifest"
         \/ StartInfrastructure /\ command'.stage = "create"
         \/ Create /\ command'.stage = "created"
         \/ CreateFails /\ command'.stage = "finish"
         \/ AttachHostNetwork /\ command'.stage = "attached"
         \/ RecordHostNetwork /\ command'.stage = "connect"
         \/ StartBackEnd /\ command'.stage = "launched"
         \/ RefreshConfig /\ command'.stage = "refresh"
         \/ CheckAuth /\ command'.stage = "register"
         \/ Register /\ command'.stage = "login"
         \/ Login /\ command'.stage = "auth"
         \/ SeedAuth /\ command'.stage = "encode"
         \/ SeedPrepared /\ command'.stage = "seed"
         \/ SeedWritten /\ command'.stage = "seeded"
         \/ SeedUpdated /\ command'.stage = "seed login"
         \/ SeedProfile /\ command'.stage = "profile"
         \/ ProfileWritten /\ command'.stage = "profiled"
         \/ Record /\ command'.stage \in {"finish", "create"}
         \/ Connect /\ command'.stage = "connect"
<1>1. CASE Prepare
  BY <1>1 DEF Prepare, Begins, Proceeds, CommandOver
<1>2. CASE PrepareSecrets
  BY <1>2 DEF PrepareSecrets, Begins, Proceeds, CommandOver
<1>3. CASE PrepareManifest
  BY <1>3 DEF PrepareManifest, Begins, Proceeds, CommandOver
<1>4. CASE StartInfrastructure
  BY <1>4 DEF StartInfrastructure, Begins, Proceeds, CommandOver
<1>5. CASE Create
  BY <1>5 DEF Create, Begins, Proceeds, CommandOver
<1>6. CASE CreateFails
  BY <1>6 DEF CreateFails, Begins, Proceeds, CommandOver
<1>7. CASE Record
  <2>1. PICK stage \in {"finish", "create"} : \E k, copy : Proceeds(stage, k, copy)
    BY <1>7 DEF Record
  <2>2. command'.stage = stage
    BY <2>1 DEF Proceeds
  <2> QED BY <1>7, <2>2
<1>8. CASE FinishInfrastructure
  BY <1>8 DEF FinishInfrastructure, Begins, Proceeds, CommandOver
<1>9. CASE CheckInfrastructure
  BY <1>9 DEF CheckInfrastructure, Begins, Proceeds, CommandOver
<1>10. CASE AttachHostNetwork
  BY <1>10 DEF AttachHostNetwork, Begins, Proceeds, CommandOver
<1>11. CASE RecordHostNetwork
  BY <1>11 DEF RecordHostNetwork, Begins, Proceeds, CommandOver
<1>12. CASE Connect
  <2>1. CommandOver \/ \E k, copy : Proceeds("connect", k, copy)
    BY <1>12 DEF Connect
  <2>2. command'.stage = "connect" \/ command' = Absent
    BY <2>1 DEF Proceeds, CommandOver
  <2> QED BY <1>12, <2>2
<1>13. CASE StartBackEnd
  BY <1>13 DEF StartBackEnd, Begins, Proceeds, CommandOver
<1>14. CASE RecordBackEnd
  BY <1>14 DEF RecordBackEnd, Begins, Proceeds, CommandOver
<1>15. CASE RefreshConfig
  BY <1>15 DEF RefreshConfig, Begins, Proceeds, CommandOver
<1>16. CASE RefreshedConfig
  BY <1>16 DEF RefreshedConfig, Begins, Proceeds, CommandOver
<1>17. CASE ConfigureGoogle
  BY <1>17 DEF ConfigureGoogle, Begins, Proceeds, CommandOver
<1>18. CASE CheckAuth
  BY <1>18 DEF CheckAuth, Begins, Proceeds, CommandOver
<1>19. CASE Register
  <2>1. CommandOver \/ \E k, copy : Proceeds("login", k, copy)
    BY <1>19 DEF Register
  <2>2. command'.stage = "login" \/ command' = Absent
    BY <2>1 DEF Proceeds, CommandOver
  <2> QED BY <1>19, <2>2
<1>20. CASE Login
  BY <1>20 DEF Login, Begins, Proceeds, CommandOver
<1>21. CASE AuthReported
  BY <1>21 DEF AuthReported, Begins, Proceeds, CommandOver
<1>22. CASE SeedAuth
  BY <1>22 DEF SeedAuth, Begins, Proceeds, CommandOver
<1>23. CASE SeedPrepared
  BY <1>23 DEF SeedPrepared, Begins, Proceeds, CommandOver
<1>24. CASE SeedWritten
  BY <1>24 DEF SeedWritten, Begins, Proceeds, CommandOver
<1>25. CASE SeedUpdated
  BY <1>25 DEF SeedUpdated, Begins, Proceeds, CommandOver
<1>26. CASE SeedLogin
  BY <1>26 DEF SeedLogin, Begins, Proceeds, CommandOver
<1>27. CASE SeedProfile
  BY <1>27 DEF SeedProfile, Begins, Proceeds, CommandOver
<1>28. CASE ProfileWritten
  BY <1>28 DEF ProfileWritten, Begins, Proceeds, CommandOver
<1>29. CASE ProfileReported
  BY <1>29 DEF ProfileReported, Begins, Proceeds, CommandOver
<1>30. CASE RenewAuth
  BY <1>30 DEF RenewAuth, Begins, Proceeds, CommandOver
<1>31. CASE CommandKilled
  BY <1>31 DEF CommandKilled, Begins, Proceeds, CommandOver
<1>32. CASE Binds
  BY <1>32 DEF Binds, Begins, Proceeds, CommandOver
<1>33. CASE Dies
  BY <1>33 DEF Dies, Begins, Proceeds, CommandOver
<1>34. CASE UNCHANGED environmentVars
  BY <1>34 DEF environmentVars
<1> QED BY <1>1, <1>2, <1>3, <1>4, <1>5, <1>6, <1>7, <1>8, <1>9, <1>10, <1>11, <1>12, <1>13,
            <1>14, <1>15, <1>16, <1>17, <1>18, <1>19, <1>20, <1>21, <1>22, <1>23, <1>24, <1>25,
            <1>26, <1>27, <1>28, <1>29, <1>30, <1>31, <1>32, <1>33, <1>34 DEF EnvironmentNext

(* The directory, the manifest and the secrets are there for good once they are. *)
LEMMA Stays ==
  ASSUME EnvironmentAssumption, EnvironmentIInv, EnvironmentNext \/ UNCHANGED environmentVars
  PROVE  /\ directory => directory'
         /\ manifest # Absent => manifest' # Absent /\ manifest' \in Manifests
         /\ secrets # Absent => secrets' # Absent /\ secrets' \in Secrets
         /\ manifest = Absent => manifest' = Absent \/ PrepareManifest
<1>0. /\ manifest \in Manifests \cup {Absent} /\ secrets \in Secrets \cup {Absent}
      /\ manifest' \in Manifests \cup {Absent} /\ secrets' \in Secrets \cup {Absent}
      /\ Absent \notin Manifests /\ Absent \notin Secrets
  BY FilesFit DEF EnvironmentIInv, EnvironmentShape, EnvironmentAssumption
<1>1. directory => directory'
  BY WhoChanges DEF Prepare
<1>2. ASSUME manifest # Absent PROVE manifest' # Absent
  <2>1. manifest \in Manifests
    BY <1>0, <1>2
  <2>2. CASE CheckInfrastructure \/ StartBackEnd
    <3>1. \E r \in BOOLEAN : manifest' = [manifest EXCEPT !.healthy = r]
      BY <2>2, LaunchIs DEF CheckInfrastructure, Writes
    <3> QED BY <1>0, <2>1, <3>1, ManifestsFit
  <2>3. CASE Record
    <3>1. command.manifest \in Manifests /\ command.k \in DOMAIN Infrastructure
      BY <2>3, InMemory DEF Record, EnvironmentIInv, InHand
    <3>2. manifest' = [command.manifest EXCEPT !.created = @ \cup {Infrastructure[command.k]}]
      BY <2>3 DEF Record, Writes
    <3> QED BY <1>0, <3>1, <3>2, ResourcesAre, ManifestsFit
  <2>4. CASE RecordHostNetwork \/ Connect
    <3>1. command.manifest \in Manifests /\ (Connect => command.k \in {1, 2})
      BY <2>4, InMemory DEF RecordHostNetwork, Connect, EnvironmentIInv, InHand
    <3>2. \E h \in {0, 1, 2} : manifest' = [command.manifest EXCEPT !.host = h]
      BY <2>4, <3>1 DEF RecordHostNetwork, Connect, Writes
    <3>3. PICK h \in {0, 1, 2} : manifest' = [command.manifest EXCEPT !.host = h]
      BY <3>2
    <3>4. [command.manifest EXCEPT !.host = h] \in Manifests
      BY <3>1, ManifestsFit
    <3> QED BY <1>0, <3>3, <3>4
  <2>5. CASE FinishInfrastructure \/ RecordBackEnd
    BY <1>0, <2>5, InMemory DEF FinishInfrastructure, RecordBackEnd, Writes
  <2>6. CASE PrepareManifest
    BY <1>2, <2>6 DEF PrepareManifest, EnvironmentIInv, PreparedFirst, Preparing
  <2> QED BY <1>2, <2>2, <2>3, <2>4, <2>5, <2>6, WhoChanges
<1>3. ASSUME secrets # Absent PROVE secrets' # Absent
  <2>1. secrets \in Secrets
    BY <1>0, <1>3
  <2>2. PrepareSecrets => [password |-> Absent, token |-> FALSE, google |-> FALSE] \in Secrets
                          /\ secrets' = [password |-> Absent, token |-> FALSE, google |-> FALSE]
    BY DEF PrepareSecrets, Secrets
  <2>3. LoggedIn \in BOOLEAN
    BY DEF LoggedIn, EnvironmentIInv, EnvironmentShape, Accounts
  <2>4. CASE ConfigureGoogle \/ RenewAuth
    <3>1. [secrets EXCEPT !.google = TRUE] \in Secrets /\ [secrets EXCEPT !.token = TRUE] \in Secrets
      BY <2>1 DEF Secrets
    <3> QED BY <1>0, <2>4, <3>1 DEF ConfigureGoogle, RenewAuth
  <2>5. CASE Login \/ SeedLogin
    <3>1. secrets.token \in BOOLEAN /\ secrets' = [secrets EXCEPT !.token = @ \/ LoggedIn]
      BY <2>1, <2>5 DEF Login, SeedLogin, Secrets
    <3>2. \A t \in BOOLEAN : [secrets EXCEPT !.token = t] \in Secrets
      BY <2>1 DEF Secrets
    <3>3. (secrets.token \/ LoggedIn) \in BOOLEAN
      OBVIOUS
    <3>4. secrets' = [secrets EXCEPT !.token = secrets.token \/ LoggedIn]
      BY <3>1
    <3> QED BY <1>0, <3>2, <3>3, <3>4
  <2>6. CASE CheckAuth
    <3> DEFINE old == IF secrets.password = Absent THEN 0 ELSE secrets.password
    <3>1. old < MaxPasswords /\ secrets' = [secrets EXCEPT !.password = old + 1]
      BY <2>6 DEF CheckAuth
    <3>2. old \in 0 .. MaxPasswords
      <4>1. secrets.password \in Passwords \cup {Absent}
        BY <2>1 DEF Secrets
      <4>2. 0 \in 0 .. MaxPasswords
        BY DEF EnvironmentAssumption
      <4> QED BY <4>1, <4>2 DEF Passwords
    <3> HIDE DEF old
    <3>3. old + 1 \in Passwords
      BY <3>1, <3>2 DEF Passwords, EnvironmentAssumption
    <3>4. \A p \in Passwords : [secrets EXCEPT !.password = p] \in Secrets
      BY <2>1 DEF Secrets
    <3> QED BY <1>0, <3>1, <3>3, <3>4
  <2> QED BY <1>0, <1>3, <2>2, <2>4, <2>5, <2>6, WhoChanges
<1>4. ASSUME manifest = Absent PROVE manifest' = Absent \/ PrepareManifest
  <2>1. ~(CheckInfrastructure \/ StartBackEnd)
    BY <1>4 DEF CheckInfrastructure, StartBackEnd, Owned
  <2>2. ~(Record \/ FinishInfrastructure \/ RecordHostNetwork \/ Connect \/ RecordBackEnd)
    BY <1>4 DEF Record, FinishInfrastructure, RecordHostNetwork, Connect, RecordBackEnd,
         EnvironmentIInv, PreparedFirst, Preparing, In, Idle
  <2> QED BY <1>4, <2>1, <2>2, WhoChanges
<1> QED BY <1>0, <1>1, <1>2, <1>3, <1>4

(* Before the manifest there is nothing but the private directory. *)
LEMMA BeforeManifest ==
  ASSUME EnvironmentIInv, EnvironmentNext \/ UNCHANGED environmentVars, manifest = Absent
  PROVE  Prepare \/ PrepareSecrets \/ PrepareManifest \/ CommandKilled \/ Binds \/ Dies \/ UNCHANGED environmentVars
<1>1. Idle \/ Preparing
  BY DEF EnvironmentIInv, PreparedFirst
<1>2. auth = Absent
  BY DEF EnvironmentIInv, PreparedFirst
<1>3. ~(\/ StartInfrastructure \/ CheckInfrastructure \/ AttachHostNetwork \/ StartBackEnd \/ RefreshConfig
        \/ ConfigureGoogle \/ CheckAuth \/ SeedAuth \/ SeedProfile \/ RenewAuth)
  BY <1>2 DEF StartInfrastructure, CheckInfrastructure, AttachHostNetwork, StartBackEnd, RefreshConfig,
       ConfigureGoogle, CheckAuth, SeedAuth, SeedProfile, RenewAuth, Owned, Client
<1>4. ~(\/ Create \/ CreateFails \/ Record \/ FinishInfrastructure \/ RecordHostNetwork \/ Connect \/ RecordBackEnd
        \/ RefreshedConfig \/ Register \/ Login \/ AuthReported \/ SeedPrepared \/ SeedWritten \/ SeedUpdated
        \/ SeedLogin \/ ProfileWritten \/ ProfileReported)
  BY <1>1 DEF Create, CreateFails, Record, FinishInfrastructure, RecordHostNetwork, Connect, RecordBackEnd,
       RefreshedConfig, Register, Login, AuthReported, SeedPrepared, SeedWritten, SeedUpdated,
       SeedLogin, ProfileWritten, ProfileReported, Preparing, In, Idle
<1> QED BY <1>3, <1>4 DEF EnvironmentNext

(* Every step keeps the order of preparation. *)
LEMMA FirstKept ==
  ASSUME EnvironmentAssumption, EnvironmentIInv, EnvironmentNext \/ UNCHANGED environmentVars
  PROVE  PreparedFirst'
<1>0. PreparedFirst
  BY DEF EnvironmentIInv
<1>1. CASE Prepare
  <2>1. Proceeds("prepare secrets", 1, manifest) /\ manifest' = manifest /\ manifest = Absent /\ directory' = TRUE
        /\ secrets' = secrets /\ docker' = docker /\ account' = account /\ auth' = auth
    BY <1>0, <1>1 DEF PreparedFirst, Prepare, Begins, Proceeds, diskVars, worldVars
  <2>2. command' # Absent /\ command'.stage = "prepare secrets"
    <3>1. "prepare secrets" \in Stages /\ 1 \in DOMAIN Infrastructure
      BY Counters DEF Stages
    <3> QED BY <2>1, <3>1, CommandFits
  <2> QED BY <1>0, <2>1, <2>2 DEF PreparedFirst, Preparing, In, Idle
<1>2. CASE PrepareSecrets
  <2>1. /\ Proceeds("prepare manifest", 1, Absent) /\ manifest' = manifest /\ directory' = directory
        /\ docker' = docker /\ account' = account /\ auth' = auth /\ In("prepare secrets")
        /\ secrets' = [password |-> Absent, token |-> FALSE, google |-> FALSE]
    BY <1>2 DEF PrepareSecrets, diskVars, worldVars
  <2>2. command' # Absent /\ command'.stage = "prepare manifest"
    <3>1. "prepare manifest" \in Stages /\ 1 \in DOMAIN Infrastructure
      BY Counters DEF Stages
    <3> QED BY <2>1, <3>1, CommandFits
  <2>3. secrets' # Absent
    <3>1. [password |-> Absent, token |-> FALSE, google |-> FALSE] \in Secrets
      BY DEF Secrets
    <3> QED BY <2>1, <3>1 DEF EnvironmentAssumption
  <2>4. directory /\ manifest = Absent
    BY <1>0, <2>1 DEF PreparedFirst, Preparing, In, Idle
  <2> QED BY <1>0, <2>1, <2>2, <2>3, <2>4 DEF PreparedFirst, Preparing, In, Idle
<1>3. CASE PrepareManifest
  <2>1. /\ manifest' \in Manifests /\ command' = Absent /\ secrets' = secrets /\ secrets # Absent
        /\ directory' = directory /\ directory
    BY <1>0, <1>3 DEF PrepareManifest, Writes, CommandOver, Manifests, PreparedFirst, In, Idle
  <2> QED BY <2>1 DEF PreparedFirst, Preparing, In, Idle, EnvironmentAssumption
<1>4. CASE manifest = Absent /\ (CommandKilled \/ Binds \/ Dies \/ UNCHANGED environmentVars)
  <2>1. /\ directory' = directory /\ manifest' = manifest /\ secrets' = secrets /\ docker' = docker
        /\ account' = account /\ auth' = auth /\ (command' = command \/ command' = Absent)
    BY <1>4 DEF CommandKilled, Binds, Dies, environmentVars, diskVars, worldVars, CommandOver
  <2> QED BY <1>0, <1>4, <2>1 DEF PreparedFirst, Preparing, In, Idle
<1>5. CASE manifest # Absent
  <2>1. directory /\ secrets # Absent /\ ~Preparing
    BY <1>0, <1>5 DEF PreparedFirst
  <2>2. directory' /\ manifest' # Absent /\ secrets' # Absent
    BY <1>5, <2>1, Stays
  <2>3. ~Preparing'
    <3>1. ~Prepare /\ ~PrepareSecrets
      BY <2>1 DEF Prepare, PrepareSecrets, Preparing
    <3> QED BY <2>1, <3>1, WhereTo DEF Preparing, In
  <2> QED BY <2>1, <2>2, <2>3 DEF PreparedFirst, Preparing, In, Idle
<1> QED BY <1>1, <1>2, <1>3, <1>4, <1>5, BeforeManifest

(* The back ends that run only become fewer, unless one is launched. *)
LEMMA ProcessesAre ==
  ASSUME EnvironmentAssumption, EnvironmentIInv, EnvironmentNext \/ UNCHANGED environmentVars
  PROVE  /\ \A p \in Pids : processes[p] # Absent => processes'[p] # Absent
         /\ StartBackEnd \/ Alive' \subseteq Alive
<1>0. /\ processes \in [Pids -> {Absent, "starting", "bound", "dead"}]
      /\ Absent \notin {"starting", "bound", "dead"}
  BY DEF EnvironmentIInv, EnvironmentShape, EnvironmentAssumption
<1>1. CASE processes' = processes
  BY <1>1 DEF Alive
<1>2. CASE StartBackEnd
  <2>1. PICK pid \in Pids : processes' = [processes EXCEPT ![pid] = "starting"]
    BY <1>2, LaunchIs
  <2> QED BY <1>0, <1>2, <2>1
<1>3. CASE Binds
  <2>1. PICK p \in Pids : /\ processes[p] = "starting"
                          /\ processes' = [processes EXCEPT ![p] = IF Bound = {} THEN "bound" ELSE "dead"]
    BY <1>3 DEF Binds
  <2> QED BY <1>0, <2>1 DEF Alive
<1>4. CASE Dies
  <2>1. PICK p \in Alive : processes' = [processes EXCEPT ![p] = "dead"]
    BY <1>4 DEF Dies
  <2> QED BY <1>0, <2>1 DEF Alive
<1> QED BY <1>1, <1>2, <1>3, <1>4, WhoChanges

(* Every step keeps what the manifest knows. *)
LEMMA StillKnown ==
  ASSUME EnvironmentAssumption, EnvironmentIInv, EnvironmentNext \/ UNCHANGED environmentVars
  PROVE  ManifestKnows'
<1>0. /\ ManifestKnows /\ manifest \in Manifests \cup {Absent} /\ Absent \notin Manifests
      /\ \A p \in Pids : processes[p] # Absent => processes'[p] # Absent
  BY ProcessesAre DEF EnvironmentIInv, EnvironmentShape, EnvironmentAssumption
<1>1. \A m \in Manifests : m.be \in Pids \cup {Absent}
  BY DEF Manifests
<1>2. CASE manifest' = manifest /\ docker' = docker
  BY <1>0, <1>1, <1>2 DEF ManifestKnows, Listed, Unlisted
<1>3. CASE Create \/ CreateFails
  <2>1. /\ In("create") /\ manifest' = manifest /\ processes' = processes
        /\ docker' \in {docker, docker \cup {Infrastructure[command.k]}}
    BY <1>3 DEF Create, CreateFails, diskVars
  <2>2. manifest.status = "PREPARED" /\ Unlisted = {}
    BY <2>1 DEF EnvironmentIInv, InHand
  <2>3. Listed' = Listed /\ Unlisted' \subseteq {Infrastructure[command.k]}
    BY <2>1, <2>2 DEF Listed, Unlisted
  <2> QED BY <1>0, <2>1, <2>2, <2>3 DEF ManifestKnows
<1>4. CASE AttachHostNetwork
  <2>1. docker' = docker \cup {HostNetwork} /\ manifest' = manifest /\ processes' = processes
    BY <1>4 DEF AttachHostNetwork, diskVars
  <2>2. Listed' = Listed /\ Unlisted' = Unlisted
    BY <2>1 DEF Listed, Unlisted
  <2> QED BY <1>0, <2>1, <2>2 DEF ManifestKnows
<1>5. CASE PrepareManifest
  <2>1. docker' = {}
    <3>1. manifest = Absent
      BY <1>5 DEF PrepareManifest, EnvironmentIInv, PreparedFirst, Preparing
    <3> QED BY <1>5, <3>1 DEF PrepareManifest, EnvironmentIInv, PreparedFirst, worldVars
  <2>2. manifest' # Absent /\ manifest'.created = {} /\ manifest'.be = Absent /\ manifest'.host = Absent
    <3>1. manifest' = [status |-> "PREPARED", created |-> {}, host |-> Absent, healthy |-> FALSE,
                       be |-> Absent, previous |-> {}]
      BY <1>5 DEF PrepareManifest, Writes
    <3>2. manifest' \in Manifests
      BY <3>1 DEF Manifests
    <3> QED BY <1>0, <3>1, <3>2
  <2>3. Listed' = {} /\ Unlisted' = {}
    BY <2>1, <2>2 DEF Listed, Unlisted
  <2> QED BY <2>2, <2>3 DEF ManifestKnows
<1>6. CASE Record
  <2>1. /\ In("created") /\ manifest' = [command.manifest EXCEPT !.created = @ \cup {Infrastructure[command.k]}]
        /\ docker' = docker /\ processes' = processes
    BY <1>6 DEF Record, Writes, worldVars
  <2>2. /\ command.manifest = manifest /\ manifest.status = "PREPARED" /\ Infrastructure[command.k] \in docker
        /\ Unlisted \subseteq {Infrastructure[command.k]} /\ manifest \in Manifests /\ command.k \in DOMAIN Infrastructure
    BY <2>1, InMemory DEF EnvironmentIInv, InHand
  <2>3. /\ manifest'.created = manifest.created \cup {Infrastructure[command.k]} /\ manifest'.status = "PREPARED"
        /\ manifest'.host = manifest.host /\ manifest'.be = manifest.be /\ manifest' # Absent
    BY <1>0, <2>1, <2>2, Stays, ManifestsFit
  <2>4. Listed' = Listed \cup {Infrastructure[command.k]} /\ Unlisted' = {}
    BY <1>0, <2>1, <2>2, <2>3 DEF Listed, Unlisted
  <2> QED BY <1>0, <2>1, <2>2, <2>3, <2>4 DEF ManifestKnows
<1>7. CASE FinishInfrastructure \/ RecordBackEnd
  <2>1. manifest' = command.manifest /\ docker' = docker /\ processes' = processes
    BY <1>7 DEF FinishInfrastructure, RecordBackEnd, Writes, worldVars
  <2>2. /\ Kept(command.manifest)
        /\ command.manifest.be = manifest.be \/ processes[command.manifest.be] # Absent
        /\ command.manifest.status = manifest.status \/ (command.manifest.status = "STARTED" => Unlisted = {})
    BY <1>7 DEF FinishInfrastructure, RecordBackEnd, EnvironmentIInv, InHand
  <2>3. Listed' = Listed /\ Unlisted' = Unlisted
    BY <1>0, <2>1, <2>2 DEF Listed, Unlisted, Kept
  <2> QED BY <1>0, <2>1, <2>2, <2>3 DEF ManifestKnows, Kept
<1>8. CASE CheckInfrastructure \/ StartBackEnd
  <2>1. manifest \in Manifests /\ docker' = docker /\ \E r \in BOOLEAN : manifest' = [manifest EXCEPT !.healthy = r]
    BY <1>0, <1>8, LaunchIs DEF CheckInfrastructure, StartBackEnd, Owned, Writes, worldVars
  <2>2. /\ manifest' # Absent /\ manifest'.created = manifest.created /\ manifest'.status = manifest.status
        /\ manifest'.host = manifest.host /\ manifest'.be = manifest.be
    BY <1>0, <2>1, Stays, ManifestsFit
  <2>3. Listed' = Listed /\ Unlisted' = Unlisted
    BY <1>0, <2>1, <2>2 DEF Listed, Unlisted
  <2> QED BY <1>0, <1>1, <2>1, <2>2, <2>3 DEF ManifestKnows
<1>9. CASE RecordHostNetwork \/ Connect
  <2>1. command.manifest = manifest /\ manifest \in Manifests /\ HostNetwork \in docker /\ docker' = docker
        /\ processes' = processes
    BY <1>9, InMemory DEF RecordHostNetwork, Connect, EnvironmentIInv, InHand, worldVars
  <2>2. \E h : manifest' = [manifest EXCEPT !.host = h]
    BY <1>9, <2>1 DEF RecordHostNetwork, Connect, Writes
  <2>3. /\ manifest' # Absent /\ manifest'.created = manifest.created /\ manifest'.status = manifest.status
        /\ manifest'.be = manifest.be
    BY <1>0, <2>1, <2>2, Stays, ManifestsFit
  <2>4. Listed' = Listed /\ Unlisted' = Unlisted
    BY <1>0, <2>1, <2>3 DEF Listed, Unlisted
  <2> QED BY <1>0, <2>1, <2>3, <2>4 DEF ManifestKnows
<1> QED BY <1>2, <1>3, <1>4, <1>5, <1>6, <1>7, <1>8, <1>9, WhoChanges

(* Every step keeps what is in memory true of the disk. *)
LEMMA StillInHand ==
  ASSUME EnvironmentAssumption, EnvironmentIInv, EnvironmentNext \/ UNCHANGED environmentVars
  PROVE  InHand'
<1>0. /\ InHand /\ manifest \in Manifests \cup {Absent} /\ Absent \notin Manifests
      /\ \A p \in Pids : processes[p] # Absent => processes'[p] # Absent
  BY ProcessesAre DEF EnvironmentIInv, EnvironmentShape, EnvironmentAssumption
(* A step after which no command holds a manifest that is to be written. *)
<1>1. CASE command' = Absent \/ command'.stage \notin {"create", "created", "finish", "attached", "connect", "launched"}
  BY <1>1 DEF InHand, In
(* The command does not move. *)
<1>2. CASE command' = command /\ (Idle \/ Binds \/ Dies \/ UNCHANGED environmentVars)
  <2>1. CASE Idle
    BY <1>1, <1>2, <2>1 DEF Idle
  <2>2. CASE Binds \/ Dies \/ UNCHANGED environmentVars
    <3>1. manifest' = manifest /\ docker' = docker
      BY <2>2 DEF Binds, Dies, environmentVars, diskVars, worldVars
    <3>2. Alive' \subseteq Alive
      <4>1. CASE UNCHANGED environmentVars
        BY <4>1 DEF environmentVars, worldVars, Alive
      <4>2. CASE Binds
        <5>1. PICK p \in Pids : /\ processes[p] = "starting"
                                /\ processes' = [processes EXCEPT ![p] = IF Bound = {} THEN "bound" ELSE "dead"]
          BY <4>2 DEF Binds
        <5> QED BY <5>1 DEF Alive, EnvironmentIInv, EnvironmentShape
      <4>3. CASE Dies
        <5>1. PICK p \in Alive : processes' = [processes EXCEPT ![p] = "dead"]
          BY <4>3 DEF Dies
        <5> QED BY <5>1 DEF Alive, EnvironmentIInv, EnvironmentShape
      <4> QED BY <2>2, <4>1, <4>2, <4>3
    <3> QED BY <1>0, <1>2, <3>1, <3>2 DEF InHand, In, Listed, Unlisted, Kept
  <2> QED BY <1>2, <2>1, <2>2
<1>3. CASE StartInfrastructure
  <2>1. /\ command'.stage = "create" /\ command'.manifest = manifest /\ command'.k = 1
        /\ manifest' = manifest /\ docker' = docker
        /\ manifest.status = "PREPARED" /\ docker \cap Range(Infrastructure) = {}
    BY <1>3 DEF StartInfrastructure, Begins, diskVars, worldVars, ReadyForFresh
  <2>2. Unlisted = {}
    BY <2>1 DEF Unlisted, EnvironmentIInv, EnvironmentShape
  <2> QED BY <2>1, <2>2, Counters DEF InHand, In, Listed, Unlisted
<1>4. CASE Create
  <2>1. /\ In("create") /\ command'.stage = "created" /\ command'.manifest = command.manifest /\ command'.k = command.k
        /\ manifest' = manifest /\ docker' = docker \cup {Infrastructure[command.k]}
    BY <1>4 DEF Create, Proceeds, diskVars
  <2>2. Unlisted' \subseteq {Infrastructure[command.k]}
    BY <1>0, <2>1 DEF InHand, Listed, Unlisted
  <2> QED BY <1>0, <2>1, <2>2 DEF InHand, In
<1>5. CASE CreateFails
  <2>1. /\ In("create") /\ command'.stage = "finish"
        /\ command'.manifest = [command.manifest EXCEPT !.status = "PARTIAL"] /\ manifest' = manifest
    BY <1>5 DEF CreateFails, Proceeds, diskVars
  <2>2. command.manifest = manifest /\ manifest \in Manifests
    BY <1>0, <2>1, InMemory DEF InHand
  <2>3. /\ command'.manifest \in Manifests /\ command'.manifest.created = manifest.created
        /\ command'.manifest.host = manifest.host /\ command'.manifest.be = manifest.be
        /\ command'.manifest.status # "STARTED"
    BY <2>1, <2>2, ManifestsFit
  <2> QED BY <1>0, <2>1, <2>2, <2>3 DEF InHand, In, Kept
<1>6. CASE Record
  <2> DEFINE copy == [command.manifest EXCEPT !.created = @ \cup {Infrastructure[command.k]}]
  <2>1. /\ In("created") /\ manifest' = copy /\ docker' = docker
        /\ \/ /\ command'.stage = "finish" /\ command'.manifest = [copy EXCEPT !.status = "STARTED"]
           \/ /\ command'.stage = "create" /\ command'.manifest = copy
              /\ command.k # Len(Infrastructure) /\ command'.k = command.k + 1
    <3>1. /\ In("created") /\ manifest' = copy /\ docker' = docker
          /\ \/ Proceeds("finish", 1, [copy EXCEPT !.status = "STARTED"])
             \/ Proceeds("create", command.k + 1, copy) /\ command.k # Len(Infrastructure)
      BY <1>6 DEF Record, Writes, worldVars
    <3>2. CASE Proceeds("finish", 1, [copy EXCEPT !.status = "STARTED"])
      <4>1. command'.stage = "finish" /\ command'.manifest = [copy EXCEPT !.status = "STARTED"]
        BY <3>2 DEF Proceeds
      <4> HIDE DEF copy
      <4> QED BY <3>1, <4>1
    <3>3. CASE Proceeds("create", command.k + 1, copy) /\ command.k # Len(Infrastructure)
      <4> HIDE DEF copy
      <4>1. command'.stage = "create" /\ command'.manifest = copy /\ command'.k = command.k + 1
        BY <3>3 DEF Proceeds
      <4> QED BY <3>1, <3>3, <4>1
    <3> QED BY <3>1, <3>2, <3>3
  <2>2. /\ command.manifest = manifest /\ manifest.status = "PREPARED" /\ manifest \in Manifests
        /\ command.k \in DOMAIN Infrastructure /\ Unlisted \subseteq {Infrastructure[command.k]}
    BY <1>0, <2>1, InMemory DEF InHand
  <2>3. /\ copy \in Manifests /\ copy.status = "PREPARED"
        /\ copy.created = manifest.created \cup {Infrastructure[command.k]}
    BY <2>2, ResourcesAre, ManifestsFit
  <2> HIDE DEF copy
  <2>4. Unlisted' = {} /\ manifest' # Absent
    BY <1>0, <2>1, <2>2, <2>3 DEF Listed, Unlisted
  <2>5. CASE command'.stage = "finish"
    <3>1. command'.manifest = [copy EXCEPT !.status = "STARTED"]
      BY <2>1, <2>5
    <3>2. /\ command'.manifest \in Manifests /\ command'.manifest.created = copy.created
          /\ command'.manifest.host = copy.host /\ command'.manifest.be = copy.be
      BY <2>3, <3>1, ManifestsFit
    <3> QED BY <2>1, <2>4, <2>5, <3>2 DEF InHand, In, Kept
  <2>6. CASE command'.stage = "create"
    <3>1. command'.k \in DOMAIN Infrastructure
      BY <2>1, <2>2, <2>6, Counters
    <3> QED BY <2>1, <2>3, <2>4, <2>6, <3>1 DEF InHand, In
  <2> QED BY <2>1, <2>5, <2>6
<1>7. CASE AttachHostNetwork
  BY <1>7 DEF AttachHostNetwork, Begins, InHand, In, diskVars
<1>8. CASE RecordHostNetwork
  BY <1>0, <1>8 DEF RecordHostNetwork, Proceeds, Writes, InHand, In, worldVars
<1>9. CASE Connect
  <2>1. In("connect") /\ HostNetwork \in docker /\ docker' = docker /\ command.k \in {1, 2}
    BY <1>0, <1>9 DEF Connect, InHand, worldVars
  <2>2. Cardinality(Containers) = 2
    <3>2. Cardinality({"mysql"}) = 1 /\ IsFiniteSet({"mysql"})
      BY FS_Singleton
    <3>3. Cardinality({"mysql"} \cup {"redis"}) = 2
      BY <3>2, FS_AddElement
    <3>4. Containers = {"mysql"} \cup {"redis"}
      BY DEF Containers
    <3> QED BY <3>3, <3>4
  <2>3. \/ command' = Absent
        \/ /\ command'.stage = "connect" /\ command'.manifest = manifest' /\ command.k # 2
           /\ command'.k = command.k + 1
    BY <1>9, <2>2 DEF Connect, CommandOver, Proceeds, Writes
  <2>4. command' # Absent => command'.stage = "connect" /\ command'.manifest = manifest' /\ command'.k = 2
    BY <2>1, <2>3
  <2> QED BY <2>1, <2>4 DEF InHand, In
<1>10. CASE StartBackEnd
  <2>1. PICK pid \in Pids, previous \in SUBSET Pids :
           LET healthy == [manifest EXCEPT !.healthy = TRUE]
               copy == [healthy EXCEPT !.be = pid, !.previous = previous] IN
           /\ manifest \in Manifests /\ manifest.be \notin Alive
           /\ processes[pid] = Absent /\ processes' = [processes EXCEPT ![pid] = "starting"]
           /\ manifest' = healthy /\ copy \in Manifests /\ Proceeds("launched", pid, copy)
    BY <1>10, LaunchIs
  <2> DEFINE healthy == [manifest EXCEPT !.healthy = TRUE]
             copy == [healthy EXCEPT !.be = pid, !.previous = previous]
  <2>2. healthy \in Manifests
    BY <2>1, ManifestsFit
  <2>3. /\ healthy.created = manifest.created /\ healthy.host = manifest.host
        /\ healthy.status = manifest.status /\ healthy.be = manifest.be
    BY <2>1, ManifestsFit
  <2>4. /\ copy.created = manifest.created /\ copy.host = manifest.host
        /\ copy.status = manifest.status /\ copy.be = pid
    BY <2>2, <2>3, ManifestsFit
  <2>5. command'.stage = "launched" /\ command'.k = pid /\ command'.manifest = copy /\ manifest' = healthy
    BY <2>1 DEF Proceeds
  <2>6. processes \in [Pids -> {Absent, "starting", "bound", "dead"}] /\ Absent # "starting"
    BY DEF EnvironmentIInv, EnvironmentShape, EnvironmentAssumption
  <2>7. processes'[pid] = "starting" /\ \A p \in Pids : p # pid => processes'[p] = processes[p]
    BY <2>1, <2>6
  <2>8. manifest.be # pid
    <3>1. manifest.be # Absent => processes[manifest.be] # Absent
      BY <1>0, <2>1 DEF EnvironmentIInv, ManifestKnows
    <3>2. pid # Absent
      BY <2>1 DEF EnvironmentAssumption
    <3> QED BY <2>1, <3>1, <3>2
  <2>9. manifest.be \notin Alive'
    BY <2>1, <2>7, <2>8 DEF Alive
  <2> HIDE DEF copy, healthy
  <2>10. copy \in Manifests
    BY <2>1 DEF copy, healthy
  <2> QED BY <1>0, <2>2, <2>3, <2>4, <2>5, <2>6, <2>7, <2>9, <2>10 DEF InHand, In, Kept
<1> QED BY <1>1, <1>2, <1>3, <1>4, <1>5, <1>6, <1>7, <1>8, <1>9, <1>10, WhereTo

(* Only RecordBackEnd makes another back end the recorded one. *)
LEMMA RecordedKept ==
  ASSUME EnvironmentAssumption, EnvironmentIInv, EnvironmentNext \/ UNCHANGED environmentVars,
         manifest # Absent, ~RecordBackEnd
  PROVE  manifest'.be = manifest.be
<1>0. manifest \in Manifests
  BY DEF EnvironmentIInv, EnvironmentShape
<1>1. CASE PrepareManifest
  BY <1>1 DEF PrepareManifest, EnvironmentIInv, PreparedFirst, Preparing
<1>2. CASE Record \/ RecordHostNetwork \/ Connect
  <2>1. command.manifest = manifest
    BY <1>2 DEF Record, RecordHostNetwork, Connect, EnvironmentIInv, InHand
  <2>2. CASE Record
    <3>1. manifest' = [manifest EXCEPT !.created = @ \cup {Infrastructure[command.k]}]
      BY <2>1, <2>2 DEF Record, Writes
    <3> QED BY <1>0, <3>1, ManifestsFit
  <2>3. CASE RecordHostNetwork \/ Connect
    <3>1. \E h : manifest' = [manifest EXCEPT !.host = h]
      BY <2>1, <2>3 DEF RecordHostNetwork, Connect, Writes
    <3> QED BY <1>0, <3>1, ManifestsFit
  <2> QED BY <1>2, <2>2, <2>3
<1>3. CASE FinishInfrastructure
  BY <1>3 DEF FinishInfrastructure, Writes, EnvironmentIInv, InHand
<1>4. CASE CheckInfrastructure \/ StartBackEnd
  <2>1. \E r : manifest' = [manifest EXCEPT !.healthy = r]
    BY <1>4, LaunchIs DEF CheckInfrastructure, Writes
  <2> QED BY <1>0, <2>1, ManifestsFit
<1> QED BY <1>1, <1>2, <1>3, <1>4, WhoChanges

(* Every back end that runs stays recorded. *)
LEMMA StillRecorded ==
  ASSUME EnvironmentAssumption, EnvironmentIInv, EnvironmentNext \/ UNCHANGED environmentVars
  PROVE  BackEndIsRecorded'
<1>0. /\ BackEndIsRecorded /\ InHand
      /\ processes \in [Pids -> {Absent, "starting", "bound", "dead"}]
  BY DEF EnvironmentIInv, EnvironmentShape
<1>1. CASE StartBackEnd
  <2>1. PICK pid \in Pids, copy \in Manifests :
          /\ manifest \in Manifests /\ manifest.be \notin Alive
          /\ processes' = [processes EXCEPT ![pid] = "starting"] /\ Proceeds("launched", pid, copy)
    BY <1>1, LaunchIs
  <2>2. command' # Absent /\ command'.stage = "launched" /\ command'.k = pid
    <3>1. "launched" \in Stages
      BY DEF Stages
    <3> QED BY <2>1, <3>1, CommandFits
  <2>3. Idle /\ orphans' = orphans
    BY <1>1 DEF StartBackEnd
  <2>4. Alive \subseteq orphans
    BY <1>0, <2>1, <2>3 DEF BackEndIsRecorded, In, Idle
  <2>5. Alive' \subseteq Alive \cup {pid}
    BY <1>0, <2>1 DEF Alive
  <2> QED BY <2>2, <2>3, <2>4, <2>5 DEF BackEndIsRecorded, In
<1>2. CASE RecordBackEnd
  <2>1. /\ In("launched") /\ manifest' = command.manifest /\ processes' = processes /\ orphans' = orphans
    BY <1>2 DEF RecordBackEnd, Writes, worldVars
  <2>2. manifest # Absent /\ command.manifest.be = command.k /\ manifest.be \notin Alive
    BY <1>0, <2>1 DEF InHand, Kept
  <2>3. manifest' # Absent
    BY <2>2, Stays
  <2> QED BY <1>0, <2>1, <2>2, <2>3 DEF BackEndIsRecorded, Alive
<1>3. CASE CommandKilled
  <2>1. manifest' = manifest /\ processes' = processes /\ command' = Absent
        /\ orphans' = IF In("launched") THEN orphans \cup {command.k} ELSE orphans
    BY <1>3 DEF CommandKilled, CommandOver, diskVars
  <2> QED BY <1>0, <2>1 DEF BackEndIsRecorded, Alive
<1>4. CASE ~StartBackEnd /\ ~RecordBackEnd /\ ~CommandKilled
  <2>1. Alive' \subseteq Alive /\ orphans' = orphans
    BY <1>4, ProcessesAre, WhoChanges
  <2>2. manifest # Absent => manifest' # Absent /\ manifest'.be = manifest.be
    BY <1>4, Stays, RecordedKept
  <2>3. In("launched") => command' = command
    <3> SUFFICES ASSUME In("launched"), ~Binds, ~Dies, ~UNCHANGED environmentVars PROVE FALSE
      BY DEF Binds, Dies, environmentVars
    <3>1. /\ ~Idle
          /\ ~(\/ In("prepare secrets") \/ In("prepare manifest") \/ In("create") \/ In("created") \/ In("finish")
               \/ In("attached") \/ In("connect") \/ In("refresh") \/ In("register") \/ In("login") \/ In("auth")
               \/ In("encode") \/ In("seed") \/ In("seeded") \/ In("seed login") \/ In("profile") \/ In("profiled"))
      BY DEF In, Idle
    <3>2. ~(\/ Prepare \/ StartInfrastructure \/ CheckInfrastructure \/ AttachHostNetwork \/ RefreshConfig
            \/ ConfigureGoogle \/ CheckAuth \/ SeedAuth \/ SeedProfile \/ RenewAuth)
      BY <3>1 DEF Prepare, StartInfrastructure, CheckInfrastructure, AttachHostNetwork, RefreshConfig,
           ConfigureGoogle, CheckAuth, SeedAuth, SeedProfile, RenewAuth
    <3>3. ~(\/ PrepareSecrets \/ PrepareManifest \/ Create \/ CreateFails \/ Record \/ FinishInfrastructure
            \/ RecordHostNetwork \/ Connect \/ RefreshedConfig \/ Register \/ Login \/ AuthReported \/ SeedPrepared
            \/ SeedWritten \/ SeedUpdated \/ SeedLogin \/ ProfileWritten \/ ProfileReported)
      BY <3>1 DEF PrepareSecrets, PrepareManifest, Create, CreateFails, Record, FinishInfrastructure,
           RecordHostNetwork, Connect, RefreshedConfig, Register, Login, AuthReported, SeedPrepared,
           SeedWritten, SeedUpdated, SeedLogin, ProfileWritten, ProfileReported
    <3> QED BY <1>4, <3>2, <3>3 DEF EnvironmentNext
  <2> QED BY <1>0, <2>1, <2>2, <2>3 DEF BackEndIsRecorded, In
<1> QED BY <1>1, <1>2, <1>3, <1>4

(* What a step does to the account and to what is known of it. *)
LEMMA AccountMoves ==
  ASSUME EnvironmentAssumption, EnvironmentIInv, EnvironmentNext \/ UNCHANGED environmentVars
  PROVE  /\ manifest # Absent =>
              /\ secrets'.token => secrets.token \/ LoggedIn
              /\ CheckAuth \/ secrets'.password = secrets.password
         /\ account # Absent =>
              /\ account' # Absent /\ account'.password = account.password
              /\ account.encoded => account'.encoded
<1>0. /\ secrets \in Secrets \cup {Absent} /\ account \in Accounts \cup {Absent}
      /\ account' \in Accounts \cup {Absent} /\ Absent \notin Accounts
  BY WorldFits DEF EnvironmentIInv, EnvironmentShape, EnvironmentAssumption
<1>1. ASSUME manifest # Absent
      PROVE  /\ secrets'.token => secrets.token \/ LoggedIn
             /\ CheckAuth \/ secrets'.password = secrets.password
  <2>1. secrets \in Secrets /\ ~Preparing
    BY <1>0, <1>1 DEF EnvironmentIInv, PreparedFirst
  <2>2. DOMAIN secrets = {"password", "token", "google"}
    BY <2>1 DEF Secrets
  <2>3. CASE ConfigureGoogle
    BY <2>2, <2>3 DEF ConfigureGoogle
  <2>4. CASE RenewAuth
    BY <2>2, <2>4 DEF RenewAuth
  <2>5. CASE Login \/ SeedLogin
    <3>1. secrets' = [secrets EXCEPT !.token = @ \/ LoggedIn]
      BY <2>5 DEF Login, SeedLogin
    <3>2. secrets'.token = (secrets.token \/ LoggedIn) /\ secrets'.password = secrets.password
      BY <2>2, <3>1
    <3> QED BY <3>2
  <2>6. CASE CheckAuth
    <3>1. \E p : secrets' = [secrets EXCEPT !.password = p]
      BY <2>6 DEF CheckAuth
    <3>2. secrets'.token = secrets.token
      BY <2>2, <3>1
    <3> QED BY <2>6, <3>2
  <2>7. ~PrepareSecrets
    BY <2>1 DEF PrepareSecrets, Preparing
  <2> QED BY <2>3, <2>4, <2>5, <2>6, <2>7, WhoChanges
<1>2. ASSUME account # Absent
      PROVE  account' # Absent /\ account'.password = account.password /\ (account.encoded => account'.encoded)
  <2>1. account \in Accounts /\ DOMAIN account = {"password", "encoded", "profile"}
    BY <1>0, <1>2 DEF Accounts
  <2>2. CASE Register
    BY <1>2, <2>2 DEF Register
  <2>3. CASE SeedWritten
    <3>1. account' = [account EXCEPT !.encoded = TRUE]
      BY <2>3 DEF SeedWritten
    <3>2. account' \in Accounts
      BY <2>1, <3>1 DEF Accounts
    <3> QED BY <1>0, <2>1, <3>1, <3>2
  <2>4. CASE ProfileWritten
    <3>1. account' = [account EXCEPT !.profile = "calibrating"]
      BY <2>4 DEF ProfileWritten
    <3>2. account' \in Accounts
      BY <2>1, <3>1 DEF Accounts
    <3> QED BY <1>0, <2>1, <3>1, <3>2
  <2> QED BY <1>2, <2>2, <2>3, <2>4, WhoChanges
<1> QED BY <1>1, <1>2

(* Every step keeps the account known. *)
LEMMA StillOurs ==
  ASSUME EnvironmentAssumption, EnvironmentIInv, EnvironmentNext \/ UNCHANGED environmentVars
  PROVE  AccountKnown'
<1>0. AccountKnown
  BY DEF EnvironmentIInv
<1>1. CASE manifest = Absent
  <2>1. account = Absent /\ auth = Absent
    BY <1>1 DEF EnvironmentIInv, PreparedFirst
  <2>2. account' = account /\ auth' = auth /\ (secrets' = secrets \/ PrepareSecrets)
    BY <1>1, BeforeManifest DEF Prepare, PrepareSecrets, PrepareManifest, CommandKilled, Binds, Dies, environmentVars,
         diskVars, worldVars
  <2>3. ~(secrets' # Absent /\ secrets'.token)
    <3>1. CASE secrets' = secrets
      BY <1>0, <2>1, <3>1 DEF AccountKnown
    <3>2. CASE PrepareSecrets
      <4>1. secrets' = [password |-> Absent, token |-> FALSE, google |-> FALSE]
        BY <3>2 DEF PrepareSecrets
      <4> QED BY <4>1
    <3> QED BY <2>2, <3>1, <3>2
  <2>4. \/ command' = command \/ command' = Absent
        \/ command'.stage \in {"prepare secrets", "prepare manifest"}
    <3>1. ASSUME PrepareSecrets PROVE command'.stage = "prepare manifest"
      BY <3>1 DEF PrepareSecrets, Proceeds
    <3>2. ASSUME Prepare PROVE command'.stage = "prepare secrets"
      BY <3>2 DEF Prepare, Begins
    <3>3. PrepareManifest \/ CommandKilled => command' = Absent
      BY DEF PrepareManifest, CommandKilled, CommandOver
    <3>4. Binds \/ Dies \/ UNCHANGED environmentVars => command' = command
      BY DEF Binds, Dies, environmentVars
    <3> QED BY <1>1, <3>1, <3>2, <3>3, <3>4, BeforeManifest
  <2>5. ~(In("register") \/ In("login") \/ In("auth"))
    BY <1>1 DEF EnvironmentIInv, PreparedFirst, Preparing, In, Idle
  <2>6. ~(In("register")' \/ In("login")' \/ In("auth")')
    BY <2>4, <2>5 DEF In
  <2> QED BY <2>1, <2>2, <2>3, <2>6 DEF AccountKnown
<1>2. CASE manifest # Absent
  <2>0. secrets # Absent /\ secrets' # Absent
    BY <1>2, Stays DEF EnvironmentIInv, PreparedFirst
  <2>1. secrets'.token => account' # Absent /\ account'.encoded
    BY <1>0, <1>2, <2>0, AccountMoves DEF AccountKnown, LoggedIn
  <2>2. CheckAuth => auth' = Absent
    BY DEF CheckAuth
  <2>3. Ours /\ ~CheckAuth => Ours'
    BY <1>2, AccountMoves DEF Ours
  <2>4. auth' # Absent /\ auth'.registered => Ours'
    <3>1. CASE AuthReported
      <4>1. In("auth") /\ auth' = command.manifest /\ ~CheckAuth
        BY <3>1 DEF AuthReported, CheckAuth, Idle, In
      <4> QED BY <1>0, <2>3, <4>1 DEF AccountKnown
    <3>2. CASE ~AuthReported
      BY <1>0, <2>2, <2>3, <3>2, WhoChanges DEF AccountKnown
    <3> QED BY <3>1, <3>2
  <2>5. CASE ~(In("register")' \/ In("login")' \/ In("auth")')
    BY <2>1, <2>4, <2>5 DEF AccountKnown
  <2>6. CASE CheckAuth
    <3>1. /\ Proceeds("register", 1, [registered |-> FALSE, token |-> FALSE]) /\ auth' = Absent
      BY <2>6 DEF CheckAuth
    <3>2. command'.stage = "register" /\ command'.manifest = [registered |-> FALSE, token |-> FALSE]
      BY <3>1 DEF Proceeds
    <3>3. command'.manifest \in Reports /\ ~command'.manifest.registered
      BY <3>2 DEF Reports
    <3> QED BY <2>1, <2>4, <3>1, <3>2, <3>3 DEF AccountKnown, In
  <2>7. CASE Register
    <3>1. /\ In("register") /\ secrets' = secrets /\ auth' = auth
          /\ auth = Absent /\ command.manifest \in Reports /\ ~command.manifest.registered
      BY <1>0, <2>7 DEF Register, AccountKnown, diskVars
    <3>2. CASE account = Absent
      <4>1. /\ \E encoded \in BOOLEAN :
                 account' = [password |-> secrets.password, encoded |-> encoded, profile |-> "initial"]
            /\ Proceeds("login", 1, [command.manifest EXCEPT !.registered = TRUE])
        BY <2>7, <3>2 DEF Register
      <4>2. Ours'
        <5>1. account' \in Accounts
          <6>1. secrets.password \in Passwords \cup {Absent}
            BY <2>0 DEF EnvironmentIInv, EnvironmentShape, Secrets
          <6> QED BY <4>1, <6>1 DEF Accounts
        <5> QED BY <3>1, <4>1, <5>1 DEF Ours, EnvironmentAssumption
      <4>3. command'.stage = "login" /\ command'.manifest \in Reports
        BY <3>1, <4>1 DEF Proceeds, Reports
      <4> QED BY <2>1, <2>4, <3>1, <4>2, <4>3 DEF AccountKnown, In
    <3>3. CASE account # Absent
      <4>1. command'.stage = "login" /\ command'.manifest = command.manifest
        BY <2>7, <3>3 DEF Register, Proceeds
      <4> QED BY <2>1, <2>4, <3>1, <4>1 DEF AccountKnown, In
    <3> QED BY <3>2, <3>3
  <2>8. CASE Login
    <3>1. /\ In("login") /\ auth' = auth /\ auth = Absent /\ command.manifest \in Reports
          /\ command.manifest.registered => Ours
      BY <1>0, <2>8 DEF Login, AccountKnown
    <3>2. command'.stage = "auth" /\ command'.manifest = [command.manifest EXCEPT !.token = LoggedIn]
      BY <2>8 DEF Login, Proceeds
    <3>3. LoggedIn \in BOOLEAN
      BY DEF LoggedIn, EnvironmentIInv, EnvironmentShape, Accounts
    <3>4. command'.manifest \in Reports /\ command'.manifest.registered = command.manifest.registered
      BY <3>1, <3>2, <3>3 DEF Reports
    <3>5. ~CheckAuth
      BY <3>1 DEF CheckAuth, Idle, In
    <3> QED BY <2>1, <2>3, <2>4, <3>1, <3>2, <3>4, <3>5 DEF AccountKnown, In
  <2>9. CASE /\ command' = command /\ (Binds \/ Dies \/ UNCHANGED environmentVars)
             /\ In("register") \/ In("login") \/ In("auth")
    <3>1. auth' = auth /\ ~CheckAuth
      BY <2>9 DEF Binds, Dies, environmentVars, diskVars, CheckAuth, Idle, In
    <3> QED BY <1>0, <2>1, <2>3, <2>4, <2>9, <3>1 DEF AccountKnown, In
  <2> QED BY <2>5, <2>6, <2>7, <2>8, <2>9, WhereTo DEF In, Idle
<1> QED BY <1>1, <1>2

(* Every step keeps the writes at one. *)
LEMMA StillOnce ==
  ASSUME EnvironmentAssumption, EnvironmentIInv, EnvironmentNext \/ UNCHANGED environmentVars
  PROVE  WrittenOnce'
<1>0. WrittenOnce /\ Absent \notin Fixtures /\ account \in Accounts \cup {Absent} /\ Absent \notin Accounts
  BY DEF EnvironmentIInv, EnvironmentShape, EnvironmentAssumption
<1>1. writes \in [auth : {0, 1}, profile : {0, 1}]
  BY DEF EnvironmentIInv, EnvironmentShape
<1>2. /\ account # Absent => account' # Absent
      /\ fixture # Absent => fixture' # Absent
      /\ profile # Absent => profile' # Absent
  <2>1. \A f \in {"directory", "FIXTURE_PREPARED", "FIXTURE_UPDATED_LOGIN_PENDING", "COMPLETED"} : f # Absent
    BY <1>0 DEF Fixtures
  <2>2. "STARTED" # Absent
    BY DEF EnvironmentAssumption
  <2> QED BY <2>1, <2>2, AccountMoves, WhoChanges DEF SeedAuth, SeedPrepared, SeedUpdated, SeedLogin,
         SeedProfile, ProfileReported
<1>3. Client => account # Absent /\ (auth # Absent /\ auth.registered => account # Absent)
  BY DEF Client, EnvironmentIInv, AccountKnown, Ours
<1>4. auth # Absent /\ auth.registered => account # Absent
  BY DEF EnvironmentIInv, AccountKnown, Ours
<1>5. (* the fixture of the password *)
      /\ fixture' = Absent => writes'.auth = 0
      /\ In("encode")' \/ In("seed")' => account' # Absent /\ fixture' # Absent /\ writes'.auth = 0
  <2>1. CASE SeedWritten
    <3>1. In("seed") /\ command'.stage = "seeded" /\ fixture # Absent
      BY <1>0, <2>1 DEF SeedWritten, Proceeds, WrittenOnce
    <3> QED BY <1>2, <3>1 DEF In
  <2>2. CASE ~SeedWritten
    <3>1. writes'.auth = writes.auth
      <4>1. CASE ProfileWritten
        BY <1>1, <4>1 DEF ProfileWritten
      <4> QED BY <2>2, <4>1, WhoChanges
    <3>2. fixture' = Absent => writes'.auth = 0
      BY <1>0, <1>2, <3>1 DEF WrittenOnce
    <3>3. CASE SeedAuth
      BY <1>0, <1>2, <1>4, <3>1, <3>2, <3>3 DEF SeedAuth, WrittenOnce, Fixtures
    <3>4. CASE SeedPrepared
      BY <1>0, <1>2, <3>1, <3>2, <3>4 DEF SeedPrepared, WrittenOnce
    <3>5. CASE command' = command
      BY <1>0, <1>2, <3>1, <3>2, <3>5 DEF WrittenOnce, In
    <3>6. CASE ~(In("encode")' \/ In("seed")')
      BY <3>2, <3>6
    <3> QED BY <3>3, <3>4, <3>5, <3>6, WhereTo DEF In
  <2> QED BY <2>1, <2>2
<1>6. (* and that of the profile *)
      /\ profile' = Absent => writes'.profile = 0
      /\ In("profile")' => account' # Absent /\ profile' # Absent /\ writes'.profile = 0
  <2>1. CASE ProfileWritten
    <3>1. In("profile") /\ command'.stage = "profiled" /\ profile # Absent
      BY <1>0, <2>1 DEF ProfileWritten, Proceeds, WrittenOnce
    <3> QED BY <1>2, <3>1 DEF In
  <2>2. CASE ~ProfileWritten
    <3>1. writes'.profile = writes.profile
      <4>1. CASE SeedWritten
        BY <1>1, <4>1 DEF SeedWritten
      <4> QED BY <2>2, <4>1, WhoChanges
    <3>2. profile' = Absent => writes'.profile = 0
      BY <1>0, <1>2, <3>1 DEF WrittenOnce
    <3>3. CASE SeedProfile
      <4>1. profile' # Absent /\ profile = Absent /\ account # Absent
        BY <1>3, <3>3 DEF SeedProfile, EnvironmentAssumption
      <4> QED BY <1>0, <1>2, <3>1, <3>2, <4>1 DEF WrittenOnce
    <3>4. CASE command' = command
      BY <1>0, <1>2, <3>1, <3>2, <3>4 DEF WrittenOnce, In
    <3>5. CASE ~In("profile")'
      BY <3>2, <3>5
    <3> QED BY <3>3, <3>4, <3>5, WhereTo DEF In
  <2> QED BY <2>1, <2>2
<1> QED BY <1>5, <1>6 DEF WrittenOnce

(* The invariant holds at the start, ... *)
LEMMA EnvironmentInitially == ASSUME EnvironmentAssumption PROVE EnvironmentInit => EnvironmentIInv
<1> SUFFICES ASSUME EnvironmentInit PROVE EnvironmentIInv
  OBVIOUS
<1>1. EnvironmentShape
  BY DEF EnvironmentInit, EnvironmentShape
<1>2. PreparedFirst /\ ManifestKnows /\ InHand
  BY DEF EnvironmentInit, PreparedFirst, ManifestKnows, InHand, In, Idle, Preparing, Listed, Unlisted
<1>3. BackEndIsRecorded
  BY DEF EnvironmentInit, BackEndIsRecorded, Alive, EnvironmentAssumption
<1>4. AccountKnown /\ WrittenOnce
  BY DEF EnvironmentInit, AccountKnown, WrittenOnce, In
<1> QED BY <1>1, <1>2, <1>3, <1>4 DEF EnvironmentIInv

(* ... implies what is claimed ... *)
LEMMA EnvironmentHolds == ASSUME EnvironmentAssumption PROVE EnvironmentIInv => EnvironmentInv
<1> SUFFICES ASSUME EnvironmentIInv PROVE EnvironmentInv
  OBVIOUS
<1>1. EnvironmentTypeOK
  <2>1. manifest # Absent => secrets # Absent /\ manifest \in Manifests
    BY DEF EnvironmentIInv, EnvironmentShape, PreparedFirst
  <2> QED BY <2>1 DEF EnvironmentTypeOK, EnvironmentIInv, EnvironmentShape, Manifests
<1>2. Recorded
  <2>1. Cardinality(Unlisted) <= 1
    <3>1. CASE Unlisted = {}
      BY <3>1, FS_EmptySet
    <3>2. CASE Unlisted # {}
      <4>1. PICK u \in Unlisted : TRUE
        BY <3>2
      <4>2. Unlisted = {u}
        BY <4>1 DEF EnvironmentIInv, ManifestKnows
      <4> QED BY <4>2, FS_Singleton
    <3> QED BY <3>1, <3>2
  <2> QED BY <2>1 DEF Recorded, EnvironmentIInv, ManifestKnows, Listed, Unlisted
<1>3. AccountIsOurs
  <2>1. Client => secrets # Absent /\ secrets.token /\ auth # Absent /\ auth.registered
    BY DEF Client, Owned, EnvironmentIInv, PreparedFirst
  <2>2. writes.auth \in {0, 1} /\ writes.profile \in {0, 1}
    BY DEF EnvironmentIInv, EnvironmentShape
  <2> QED BY <2>1, <2>2 DEF AccountIsOurs, EnvironmentIInv, AccountKnown, Ours
<1> QED BY <1>1, <1>2, <1>3 DEF EnvironmentInv, EnvironmentIInv

(* ... and every step keeps it. *)
LEMMA EnvironmentStep ==
  ASSUME EnvironmentAssumption
  PROVE  EnvironmentIInv /\ [EnvironmentNext]_environmentVars => EnvironmentIInv'
<1> SUFFICES ASSUME EnvironmentIInv, EnvironmentNext \/ UNCHANGED environmentVars PROVE EnvironmentIInv'
  OBVIOUS
<1> QED BY ShapeKept, FirstKept, StillKnown, StillInHand, StillRecorded, StillOurs, StillOnce DEF EnvironmentIInv

(* The environment of a campaign, for any number of launches and passwords: whatever
   command is killed, raises or is given again, the manifest knows every resource there
   is but the one being made, a back end that runs is the recorded one or was launched
   by a command that did not live to record it, and the account a client works with is
   the registered one, whose fixtures were written into the database once. *)
THEOREM EnvironmentCorrect == ASSUME EnvironmentAssumption PROVE EnvironmentSpec => []EnvironmentInv
<1>1. EnvironmentInit => EnvironmentIInv
  BY EnvironmentInitially
<1>2. EnvironmentIInv /\ [EnvironmentNext]_environmentVars => EnvironmentIInv'
  BY EnvironmentStep
<1>3. EnvironmentIInv => EnvironmentInv
  BY EnvironmentHolds
<1> QED BY <1>1, <1>2, <1>3, PTL DEF EnvironmentSpec
-----------------------------------------------------------------------------
(* The client of the workflows.

   What a report tells of the errors, and the inductive invariant: of the one-shot
   requests (the identities ids), and of the report a run keeps. *)
Told(r) == r.prior + (IF r.error = None THEN 0 ELSE 1)

ClientShape(ids) ==
  /\ lock \in Actors \cup {None, "dead"}
  /\ entries \in [ids -> Statuses \cup {None}] /\ reached \in [ids -> Nat]
  /\ sent \in [Actors -> Sendings(ids) \cup {None}]
(* Who sends holds the lock, and a request that is not out yet has a record already
   and has never been out. *)
SendsOnce(ids) ==
  /\ \A a \in Actors : sent[a] # None => lock = a
  /\ \A id \in ids : reached[id] <= 1 /\ (reached[id] = 1 => entries[id] # None)
  /\ \A a \in Actors : sent[a] # None /\ ~sent[a].out /\ sent[a].id \in ids =>
       reached[sent[a].id] = 0 /\ entries[sent[a].id] # None
(* A run has at most one error, its last, which the report on disk tells when it is over. *)
TellsErrors ==
  /\ (report = None) = (at = "off")
  /\ runs \in 0 .. MaxRuns /\ failures \in 0 .. runs /\ (at # "off" => failures < runs)
  /\ artifact # None => Told(artifact) = failures
  /\ report # None => Told(report) = failures /\ report.error = None
  /\ artifact = None => failures = 0
ClientIInv(ids) == ClientShape(ids) /\ SendsOnce(ids) /\ TellsErrors

(* What a step of a workflow may do to the client, ... *)
ClientStep(ids) ==
  \/ UNCHANGED clientVars
  \/ \E actor \in Actors, id \in ids \cup {Read} : Begin(actor, id)
  \/ \E actor \in Actors, got \in BOOLEAN : Goes(actor, got)
  \/ \E actor \in Actors, status \in Statuses : Concluded(actor, status)
  \/ /\ sent' = [sent EXCEPT !["workflow"] = None]
     /\ lock' = IF lock = "workflow" THEN "dead" ELSE lock
     /\ UNCHANGED <<entries, reached>>
  \/ lock = "dead" /\ lock' = None /\ UNCHANGED <<entries, reached, sent>>
(* ... and to its report: nothing, open one, go on, end it, with an error or without. *)
ReportStep ==
  \/ UNCHANGED <<at, reportVars>>
  \/ /\ at = "off" /\ at' # "off" /\ runs < MaxRuns /\ runs' = runs + 1 /\ failures' = failures
     /\ report' # None /\ artifact' = report' /\ report'.error = None
     /\ Told(report') = IF artifact = None THEN 0 ELSE Told(artifact)
  \/ /\ at # "off" /\ at' # "off" /\ UNCHANGED <<failures, runs>> /\ artifact' \in {artifact, report'}
     /\ report' # None /\ report'.error = None /\ Told(report') = Told(report)
  \/ /\ at # "off" /\ at' = "off" /\ report' = None /\ UNCHANGED <<failures, runs>>
     /\ artifact' # None /\ Told(artifact') = Told(report)
  \/ /\ at # "off" /\ at' = "off" /\ report' = None /\ runs' = runs /\ failures' = failures + 1
     /\ artifact' # None /\ Told(artifact') = Told(report) + 1
  \/ at # "off" /\ at' = "off" /\ report' = None /\ UNCHANGED <<artifact, failures, runs>>

(* The statuses and the actors are none of the absence of a value. *)
LEMMA NamesAreThere ==
  ASSUME NEW ids, ClientAssumption(ids)
  PROVE  /\ \A a \in Actors : a # None /\ a # "dead"
         /\ \A s \in Statuses : s # None
         /\ None # "dead" /\ None \notin Sendings(ids)
BY DEF Actors, Statuses, ClientAssumption

(* A request is recorded, sent and concluded once. *)
LEMMA ClientKept ==
  ASSUME NEW ids, ClientAssumption(ids),
         ClientShape(ids), SendsOnce(ids), ClientStep(ids)
  PROVE  ClientShape(ids)' /\ SendsOnce(ids)'
<1>0. /\ \A a \in Actors : a # None /\ a # "dead"
      /\ \A s \in Statuses : s # None
      /\ None # "dead" /\ None \notin Sendings(ids) /\ "STARTED" \in Statuses
  BY NamesAreThere DEF Statuses
<1> USE <1>0
<1>1. CASE UNCHANGED clientVars
  BY <1>1 DEF clientVars, ClientShape, SendsOnce
<1>2. ASSUME NEW actor \in Actors, NEW id \in ids \cup {Read}, Begin(actor, id)
      PROVE  ClientShape(ids)' /\ SendsOnce(ids)'
  <2>1. /\ sent[actor] = None /\ lock = None /\ lock' = actor /\ reached' = reached
        /\ \A a \in Actors : sent[a] = None
    BY <1>2 DEF Begin, SendsOnce
  <2>2. [id |-> id, out |-> FALSE, got |-> FALSE] \in Sendings(ids)
    BY DEF Sendings
  <2>3. /\ sent' \in [Actors -> Sendings(ids) \cup {None}]
        /\ sent'[actor] = [id |-> id, out |-> FALSE, got |-> FALSE]
        /\ \A a \in Actors : a # actor => sent'[a] = None
    BY <1>2, <2>1, <2>2 DEF Begin, ClientShape
  <2>4. CASE id \in ids
    <3>1. entries[id] = None /\ entries' = [entries EXCEPT ![id] = "STARTED"]
      BY <1>2, <2>4 DEF Begin, Known, OneShots, ClientShape
    <3>2. reached[id] = 0
      BY <2>4, <3>1 DEF SendsOnce, ClientShape
    <3>3. /\ entries' \in [ids -> Statuses \cup {None}] /\ entries'[id] # None
          /\ \A j \in ids : entries[j] # None => entries'[j] # None
      BY <3>1, <2>4 DEF ClientShape
    <3>4. ClientShape(ids)'
      BY <2>1, <2>3, <3>3 DEF ClientShape
    <3> QED BY <2>1, <2>3, <3>2, <3>3, <3>4 DEF SendsOnce
  <2>5. CASE id \notin ids
    <3>1. entries' = entries
      BY <1>2, <2>5 DEF Begin, OneShots, ClientShape
    <3>2. ClientShape(ids)'
      BY <2>1, <2>3, <3>1 DEF ClientShape
    <3> QED BY <2>1, <2>3, <2>5, <3>1, <3>2 DEF SendsOnce
  <2> QED BY <2>4, <2>5
<1>3. ASSUME NEW actor \in Actors, NEW got \in BOOLEAN, Goes(actor, got)
      PROVE  ClientShape(ids)' /\ SendsOnce(ids)'
  <2>1. /\ sent[actor] # None /\ ~sent[actor].out /\ lock' = lock /\ entries' = entries
        /\ sent[actor] \in Sendings(ids) /\ lock = actor
        /\ sent' = [sent EXCEPT ![actor].out = TRUE, ![actor].got = got]
    BY <1>3 DEF Goes, ClientShape, SendsOnce
  <2>2. /\ sent' = [sent EXCEPT ![actor] = sent'[actor]]
        /\ sent'[actor] \in Sendings(ids) /\ sent'[actor].out
        /\ sent'[actor].id = sent[actor].id
    BY <2>1 DEF ClientShape, Sendings
  <2>3. /\ sent' \in [Actors -> Sendings(ids) \cup {None}]
        /\ \A a \in Actors : a # actor => sent'[a] = sent[a]
    BY <2>2 DEF ClientShape
  <2>4. CASE sent[actor].id \in ids
    <3> DEFINE j == sent[actor].id
    <3>1. reached' = [reached EXCEPT ![j] = @ + 1] /\ reached[j] = 0 /\ entries[j] # None
      BY <1>3, <2>1, <2>4 DEF Goes, OneShots, ClientShape, SendsOnce
    <3>2. /\ reached' \in [ids -> Nat] /\ reached'[j] = 1
          /\ \A k \in ids : k # j => reached'[k] = reached[k]
      BY <3>1, <2>4 DEF ClientShape
    <3>3. \A a \in Actors : a # actor => sent[a] = None
      BY <2>1 DEF SendsOnce
    <3> HIDE DEF j
    <3>4. ClientShape(ids)'
      BY <2>1, <2>3, <3>2 DEF ClientShape
    <3> QED BY <2>1, <2>2, <2>3, <3>1, <3>2, <3>3, <3>4 DEF SendsOnce
  <2>5. CASE sent[actor].id \notin ids
    <3>1. reached' = reached
      BY <1>3, <2>5 DEF Goes, OneShots, ClientShape
    <3>2. ClientShape(ids)'
      BY <2>1, <2>3, <3>1 DEF ClientShape
    <3> QED BY <2>1, <2>2, <2>3, <2>5, <3>1, <3>2 DEF SendsOnce
  <2> QED BY <2>4, <2>5
<1>4. ASSUME NEW actor \in Actors, NEW status \in Statuses, Concluded(actor, status)
      PROVE  ClientShape(ids)' /\ SendsOnce(ids)'
  <2>1. /\ sent[actor] # None /\ lock' = None /\ reached' = reached /\ lock = actor
        /\ sent' = [sent EXCEPT ![actor] = None]
    BY <1>4 DEF Concluded, SendsOnce
  <2>2. \A a \in Actors : sent'[a] = None
    BY <2>1 DEF SendsOnce, ClientShape
  <2>3. sent' \in [Actors -> Sendings(ids) \cup {None}]
    BY <2>1 DEF ClientShape
  <2>4. /\ entries' \in [ids -> Statuses \cup {None}]
        /\ \A j \in ids : entries[j] # None => entries'[j] # None
    BY <1>4 DEF Concluded, OneShots, ClientShape
  <2>5. ClientShape(ids)'
    BY <2>1, <2>3, <2>4 DEF ClientShape
  <2> QED BY <2>1, <2>2, <2>4, <2>5 DEF SendsOnce
<1>5. CASE /\ sent' = [sent EXCEPT !["workflow"] = None]
           /\ lock' = (IF lock = "workflow" THEN "dead" ELSE lock)
           /\ UNCHANGED <<entries, reached>>
  <2>1. /\ sent' \in [Actors -> Sendings(ids) \cup {None}]
        /\ \A a \in Actors : sent'[a] # None => a # "workflow" /\ sent'[a] = sent[a]
    BY <1>5 DEF ClientShape
  <2>2. ClientShape(ids)'
    BY <1>5, <2>1 DEF ClientShape
  <2> QED BY <1>5, <2>1, <2>2 DEF SendsOnce
<1>6. CASE lock = "dead" /\ lock' = None /\ UNCHANGED <<entries, reached, sent>>
  BY <1>6 DEF ClientShape, SendsOnce
<1> QED BY <1>1, <1>2, <1>3, <1>4, <1>5, <1>6 DEF ClientStep

(* A report never loses an error. *)
LEMMA ReportKept ==
  ASSUME MaxRuns \in Nat, TellsErrors, ReportStep
  PROVE  TellsErrors'
<1>1. CASE UNCHANGED <<at, reportVars>>
  BY <1>1 DEF TellsErrors, reportVars, Told
<1>2. CASE /\ at = "off" /\ at' # "off" /\ runs < MaxRuns /\ runs' = runs + 1 /\ failures' = failures
           /\ report' # None /\ artifact' = report' /\ report'.error = None
           /\ Told(report') = IF artifact = None THEN 0 ELSE Told(artifact)
  <2>1. Told(report') = failures
    BY <1>2 DEF TellsErrors
  <2> QED BY <1>2, <2>1 DEF TellsErrors, Told
<1>3. CASE /\ at # "off" /\ at' # "off" /\ UNCHANGED <<failures, runs>> /\ artifact' \in {artifact, report'}
           /\ report' # None /\ report'.error = None /\ Told(report') = Told(report)
  BY <1>3 DEF TellsErrors, Told
<1>4. CASE /\ at # "off" /\ at' = "off" /\ report' = None /\ UNCHANGED <<failures, runs>>
           /\ artifact' # None /\ Told(artifact') = Told(report)
  BY <1>4 DEF TellsErrors, Told
<1>5. CASE /\ at # "off" /\ at' = "off" /\ report' = None /\ runs' = runs /\ failures' = failures + 1
           /\ artifact' # None /\ Told(artifact') = Told(report) + 1
  BY <1>5 DEF TellsErrors, Told
<1>6. CASE at # "off" /\ at' = "off" /\ report' = None /\ UNCHANGED <<artifact, failures, runs>>
  BY <1>6 DEF TellsErrors, Told
<1> QED BY <1>1, <1>2, <1>3, <1>4, <1>5, <1>6 DEF ReportStep

(* With an empty ledger and no report the invariant holds, and it implies the promise. *)
LEMMA ClientStarts ==
  ASSUME NEW ids, ClientAssumption(ids), ClientInit(ids)
  PROVE  ClientIInv(ids)
<1>1. ClientShape(ids) /\ SendsOnce(ids)
  BY NamesAreThere DEF ClientInit, ClientShape, SendsOnce, Statuses
<1>2. TellsErrors
  BY DEF ClientInit, TellsErrors, ClientAssumption
<1> QED BY <1>1, <1>2 DEF ClientIInv
LEMMA ClientPromises ==
  ASSUME NEW ids, ClientIInv(ids)
  PROVE  ClientInv
<1>1. ClientTypeOK
  BY DEF ClientIInv, ClientShape, SendsOnce, TellsErrors, ClientTypeOK, OneShots, Sendings
<1>2. OneShot
  BY DEF ClientIInv, ClientShape, SendsOnce, OneShot, OneShots
<1>3. ErrorsAreKept
  BY DEF ClientIInv, TellsErrors, Told, ErrorsAreKept
<1> QED BY <1>1, <1>2, <1>3 DEF ClientInv

(* What a set of reports needs for this: a report that fails is one. *)
ReportsFit(Rs) ==
  /\ None \notin Rs /\ None \notin ErrorNames
  /\ \A r \in Rs : r.prior \in Nat
  /\ \A r \in Rs, error \in ErrorNames, status \in {"FAILED", "INTERRUPTED"} :
       LET kept == [r EXCEPT !.error = error, !.status = status]
       IN  kept \in Rs /\ kept.error = error /\ kept.prior = r.prior
Running(Rs) ==
  /\ ReportsFit(Rs) /\ TellsErrors /\ at # "off"
  /\ report \in Rs \cup {None} /\ artifact \in Rs \cup {None}
ReportsKept(Rs) == ReportStep /\ report' \in Rs \cup {None} /\ artifact' \in Rs \cup {None}

(* How a report goes on, ends, or ends with an error. *)
LEMMA RunReport ==
  ASSUME NEW Rs, Running(Rs)
  PROVE  report \in Rs /\ report.error = None /\ report # None
BY DEF Running, TellsErrors
LEMMA GoesOn ==
  ASSUME NEW Rs, Running(Rs), at' # "off",
         NEW new \in Rs, new.error = None, new.prior = report.prior, Saves(new) \/ Keeps(new)
  PROVE  ReportsKept(Rs)
<1>1. new # None /\ Told(new) = Told(report)
  BY RunReport DEF Told, Running, ReportsFit
<1>2. report' = new /\ artifact' \in {artifact, new} /\ UNCHANGED <<failures, runs>>
  BY DEF Saves, Keeps
<1> QED BY <1>1, <1>2 DEF ReportStep, Running, ReportsKept
LEMMA StaysOn ==
  ASSUME NEW Rs, Running(Rs), at' # "off", UNCHANGED reportVars
  PROVE  ReportsKept(Rs)
BY RunReport DEF ReportStep, reportVars, Running, ReportsKept
LEMMA EndsWell ==
  ASSUME NEW Rs, Running(Rs),
         NEW new \in Rs, new.error = None, new.prior = report.prior, Returns(new)
  PROVE  ReportsKept(Rs) /\ at' = "off"
<1>1. new # None /\ Told(new) = Told(report)
  BY RunReport DEF Told, Running, ReportsFit
<1> QED BY <1>1 DEF Returns, ReportStep, Running, ReportsKept
LEMMA EndsInError ==
  ASSUME NEW Rs, Running(Rs),
         NEW last \in Rs, last.error = None, last.prior = report.prior,
         NEW error \in ErrorNames, Fails(last, error)
  PROVE  ReportsKept(Rs) /\ at' = "off"
<1>1. PICK status \in {"FAILED", "INTERRUPTED"} :
        /\ artifact' = [last EXCEPT !.error = error, !.status = status]
        /\ at' = "off" /\ report' = None /\ failures' = failures + 1 /\ runs' = runs
  BY DEF Fails
<1> DEFINE kept == [last EXCEPT !.error = error, !.status = status]
<1>2. kept \in Rs /\ kept.error = error /\ kept.prior = last.prior
  <2>1. ReportsFit(Rs) /\ last \in Rs
    BY DEF Running
  <2>2. \A e \in ErrorNames, s \in {"FAILED", "INTERRUPTED"} :
          LET left == [last EXCEPT !.error = e, !.status = s]
          IN  left \in Rs /\ left.error = e /\ left.prior = last.prior
    BY <2>1, Zenon DEF ReportsFit
  <2> QED BY <2>2, Zenon
<1> HIDE DEF kept
<1>3. error # None /\ None \notin Rs /\ report.prior \in Nat
  BY RunReport DEF Running, ReportsFit
<1>4. Told(kept) = Told(report) + 1 /\ kept # None
  BY <1>2, <1>3, RunReport DEF Told
<1> QED BY <1>1, <1>2, <1>4 DEF kept, Running, ReportStep, ReportsKept
LEMMA OpensNew ==
  ASSUME NEW Rs, ReportsFit(Rs), at = "off", at' # "off", runs < MaxRuns, TellsErrors,
         NEW new \in Rs, new.error = None, artifact = None, new.prior = 0, Opens(new)
  PROVE  ReportsKept(Rs)
<1>1. new # None
  BY DEF ReportsFit
<1>2. Told(new) = 0
  BY DEF Told
<1> QED BY <1>1, <1>2 DEF ReportStep, ReportsKept, Opens
LEMMA OpensAgain ==
  ASSUME NEW Rs, ReportsFit(Rs), at = "off", at' # "off", runs < MaxRuns, TellsErrors,
         artifact \in Rs, NEW new \in Rs, new.error = None,
         new.prior = Preserved(artifact).prior,
         "prior" \in DOMAIN artifact, "error" \in DOMAIN artifact, Opens(new)
  PROVE  ReportsKept(Rs)
<1>1. new # None /\ artifact # None /\ artifact.prior \in Nat
  BY DEF ReportsFit
<1>2. Preserved(artifact).prior = IF artifact.error = None THEN artifact.prior ELSE artifact.prior + 1
  BY <1>1 DEF Preserved
<1>3. Told(new) = Told(artifact)
  BY <1>1, <1>2 DEF Told
<1> QED BY <1>1, <1>3 DEF ReportStep, ReportsKept, Opens

(* Between its requests the client waits for none: at the stages quiet it works alone. *)
Waits(quiet) == at \in quiet => sent["workflow"] = None
ClientState(ids, Rs, quiet) ==
  /\ ClientIInv(ids) /\ ReportsFit(Rs) /\ Waits(quiet) /\ "off" \in quiet
  /\ report \in Rs \cup {None} /\ artifact \in Rs \cup {None}
ClientKeeps(ids, Rs, quiet) == ClientStep(ids) /\ ReportsKept(Rs) /\ Waits(quiet)'

LEMMA ClientGoesOn ==
  ASSUME NEW ids, NEW Rs, NEW quiet, ClientAssumption(ids),
         ClientState(ids, Rs, quiet), ClientKeeps(ids, Rs, quiet)
  PROVE  ClientState(ids, Rs, quiet)'
<1>1. ClientShape(ids)' /\ SendsOnce(ids)'
  BY ClientKept DEF ClientState, ClientIInv, ClientKeeps
<1>2. TellsErrors'
  BY ReportKept DEF ClientState, ClientIInv, ClientKeeps, ReportsKept, ClientAssumption
<1>3. ReportsFit(Rs)'
  BY DEF ClientState, ReportsFit
<1> QED BY <1>1, <1>2, <1>3 DEF ClientState, ClientIInv, ClientKeeps, ReportsKept

(* The answer that a stage waits for, and a stage without a request. *)
LEMMA HeardIsAStep ==
  ASSUME NEW ids, NEW quiet, ClientShape(ids), Answered \/ Concluded("workflow", "HTTP_FAILED")
  PROVE  ClientStep(ids) /\ Waits(quiet)'
<1>1. ClientStep(ids)
  BY DEF Answered, ClientStep, Actors, Statuses
<1>2. sent' = [sent EXCEPT !["workflow"] = None]
  BY DEF Answered, Concluded
<1>3. sent'["workflow"] = None
  BY <1>2 DEF ClientShape, Actors
<1> QED BY <1>1, <1>3 DEF Waits
LEMMA AloneIsAStep ==
  ASSUME NEW ids, NEW quiet, Waits(quiet), at \in quiet, UNCHANGED clientVars
  PROVE  ClientStep(ids) /\ Waits(quiet)'
BY DEF ClientStep, Waits, clientVars

(* What is the same in every workflow: asking, losing, an error, being killed, and all
   that the operator does. *)
ClientActs(ids, quiet) ==
  \/ at \notin quiet /\ \E id \in ids \cup {Read} : Asks(id)
  \/ \E actor \in Actors, got \in BOOLEAN : Goes(actor, got) /\ UNCHANGED <<at, step, reportVars>>
  \/ \E errors \in SUBSET ErrorNames : Unanswered(errors)
  \/ Killed \/ RemovesLock \/ (Manual \subseteq ids /\ Sends) \/ Hears
  \/ UNCHANGED <<clientVars, at, step, reportVars>>
LEMMA ClientActsKeep ==
  ASSUME NEW ids, NEW Rs, NEW quiet, ClientState(ids, Rs, quiet), ClientActs(ids, quiet)
  PROVE  ClientKeeps(ids, Rs, quiet) /\ (at' = "off" \/ UNCHANGED <<at, step, reportVars>>)
<1>1. /\ ClientShape(ids) /\ TellsErrors /\ ReportsFit(Rs) /\ Waits(quiet) /\ "off" \in quiet
      /\ report \in Rs \cup {None} /\ artifact \in Rs \cup {None}
      /\ {"FileExistsError", "ValueError"} \subseteq ErrorNames /\ "workflow" \in Actors
      /\ {"INTERRUPTED", "FAILED", "HTTP_FAILED"} \subseteq Statuses
      /\ SendsOnce(ids)
  BY DEF ClientState, ClientIInv, ErrorNames, Actors, Statuses
<1>2. ASSUME UNCHANGED <<at, reportVars>> PROVE ReportsKept(Rs)
  BY <1>1, <1>2 DEF ReportStep, ReportsKept, reportVars
<1>3. ASSUME at # "off", NEW error \in ErrorNames, Fails(report, error)
      PROVE  ReportsKept(Rs) /\ at' = "off"
  <2>1. Running(Rs)
    BY <1>1, <1>3 DEF Running
  <2>2. report \in Rs /\ report.error = None
    BY <2>1, RunReport
  <2> QED BY <1>3, <2>1, <2>2, EndsInError
<1>4. ASSUME NEW id \in ids \cup {Read}, at \notin quiet, Asks(id)
      PROVE  ClientKeeps(ids, Rs, quiet) /\ (at' = "off" \/ UNCHANGED <<at, step, reportVars>>)
  <2>1. CASE Begin("workflow", id) /\ UNCHANGED <<at, step, reportVars>>
    <3>1. ClientStep(ids)
      BY <1>1, <2>1 DEF ClientStep
    <3>2. Waits(quiet)'
      BY <1>4, <2>1 DEF Waits
    <3> QED BY <1>2, <2>1, <3>1, <3>2 DEF ClientKeeps
  <2>2. CASE sent["workflow"] = None /\ Fails(report, Refusal) /\ UNCHANGED clientVars
    <3>1. at # "off" /\ Refusal \in ErrorNames
      BY <1>1, <1>4 DEF Refusal
    <3>2. ReportsKept(Rs) /\ at' = "off"
      BY <1>3, <2>2, <3>1
    <3>3. ClientStep(ids) /\ Waits(quiet)'
      BY <2>2 DEF ClientStep, Waits, clientVars
    <3> QED BY <3>2, <3>3 DEF ClientKeeps
  <2> QED BY <1>4, <2>1, <2>2 DEF Asks
<1>5. ASSUME NEW actor \in Actors, NEW got \in BOOLEAN, Goes(actor, got), UNCHANGED <<at, step, reportVars>>
      PROVE  ClientKeeps(ids, Rs, quiet)
  <2>1. ClientStep(ids)
    BY <1>5 DEF ClientStep
  <2>2. ASSUME at \in quiet PROVE sent'["workflow"] = None
    <3>1. sent["workflow"] = None /\ actor # "workflow"
      BY <1>1, <1>5, <2>2 DEF Waits, Goes
    <3>2. sent' = [sent EXCEPT ![actor].out = TRUE, ![actor].got = got]
      BY <1>5 DEF Goes
    <3> QED BY <1>1, <3>1, <3>2 DEF ClientShape
  <2> QED BY <1>2, <1>5, <2>1, <2>2 DEF ClientKeeps, Waits
<1>6. ASSUME NEW errors \in SUBSET ErrorNames, Unanswered(errors)
      PROVE  ClientKeeps(ids, Rs, quiet) /\ at' = "off"
  <2>1. PICK error \in errors, status \in Statuses : Concluded("workflow", status) /\ Fails(report, error)
    BY <1>1, <1>6 DEF Unanswered
  <2>2. at # "off" /\ sent' = [sent EXCEPT !["workflow"] = None]
    BY <1>1, <2>1 DEF Concluded, Waits
  <2>3. ReportsKept(Rs) /\ at' = "off"
    BY <1>3, <1>6, <2>1, <2>2
  <2>4. ClientStep(ids)
    BY <1>1, <2>1 DEF ClientStep
  <2>5. sent'["workflow"] = None
    BY <1>1, <2>2 DEF ClientShape
  <2> QED BY <2>3, <2>4, <2>5 DEF ClientKeeps, Waits
<1>7. CASE Killed
  <2>1. ClientStep(ids)
    BY <1>7 DEF Killed, ClientStep
  <2>2. sent'["workflow"] = None
    BY <1>1, <1>7 DEF Killed, ClientShape
  <2>3. ReportStep
    BY <1>7 DEF Killed, ReportStep
  <2>4. report' \in Rs \cup {None} /\ artifact' \in Rs \cup {None} /\ at' = "off"
    BY <1>1, <1>7 DEF Killed
  <2> QED BY <2>1, <2>2, <2>3, <2>4 DEF ClientKeeps, ReportsKept, Waits
<1>8. CASE RemovesLock
  <2>1. ClientStep(ids)
    BY <1>8 DEF RemovesLock, ClientStep
  <2>2. Waits(quiet)' /\ UNCHANGED <<at, step, reportVars>>
    BY <1>1, <1>8 DEF RemovesLock, Waits
  <2> QED BY <1>2, <2>1, <2>2 DEF ClientKeeps
<1>9. CASE Manual \subseteq ids /\ Sends
  <2>1. PICK id \in ids : Begin("operator", id) /\ UNCHANGED <<at, step, reportVars>>
    BY <1>9 DEF Sends
  <2>2. ClientStep(ids)
    BY <2>1 DEF ClientStep, Actors
  <2>3. Waits(quiet)'
    BY <1>1, <2>1 DEF Begin, Waits, ClientShape
  <2> QED BY <1>2, <2>1, <2>2, <2>3 DEF ClientKeeps
<1>10. CASE Hears
  <2>1. PICK status \in Statuses : Concluded("operator", status) /\ UNCHANGED <<at, step, reportVars>>
    BY <1>10 DEF Hears, Statuses
  <2>2. ClientStep(ids)
    BY <2>1 DEF ClientStep, Actors
  <2>3. Waits(quiet)'
    BY <1>1, <2>1 DEF Concluded, Waits, ClientShape
  <2> QED BY <1>2, <2>1, <2>2, <2>3 DEF ClientKeeps
<1>11. CASE UNCHANGED <<clientVars, at, step, reportVars>>
  <2>1. ClientStep(ids) /\ Waits(quiet)'
    BY <1>1, <1>11 DEF ClientStep, Waits, clientVars
  <2> QED BY <1>2, <1>11, <2>1 DEF ClientKeeps
<1> QED BY <1>4, <1>5, <1>6, <1>7, <1>8, <1>9, <1>10, <1>11 DEF ClientActs
-----------------------------------------------------------------------------
(* The listening workflow: its stages, and what its report and the back end are. *)
CONSTANTS N, Tasks, MaxRows
Listening == INSTANCE ListeningWorkflow

ListeningStages ==
  {"off", "create", "poll", "snapshot", "session", "item", "audio", "validate", "answer", "submit",
   "evaluation", "complete", "result"}
ListeningPlace ==
  /\ at \in ListeningStages
  /\ at \in {"item", "audio", "validate", "answer", "submit", "evaluation"} => step.item \in Listening!Items
  /\ at = "answer" => step.count \in 1 .. Tasks
ListeningQuiet == {"off", "snapshot", "validate"}
ListeningIInv ==
  /\ ClientState(Listening!Requests, Listening!Reports, ListeningQuiet)
  /\ ListeningPlace /\ server \in Listening!Servers
(* What a step of the workflow keeps. *)
ListeningKept ==
  /\ ClientKeeps(Listening!Requests, Listening!Reports, ListeningQuiet)
  /\ ListeningPlace' /\ server' \in Listening!Servers

(* The operators of the client are the same in the workflow. *)
LEMMA ListeningClient ==
  /\ \A a, id : Listening!Begin(a, id) = Begin(a, id)
  /\ \A a, got : Listening!Goes(a, got) = Goes(a, got)
  /\ \A a, status : Listening!Concluded(a, status) = Concluded(a, status)
  /\ Listening!Answered = Answered
  /\ \A last, error : Listening!Fails(last, error) = Fails(last, error)
  /\ \A new : Listening!Returns(new) = Returns(new) /\ Listening!Opens(new) = Opens(new)
  /\ \A new : Listening!Saves(new) = Saves(new) /\ Listening!Keeps(new) = Keeps(new)
  /\ \A stage, item, count : Listening!Goto(stage, item, count) = Goto(stage, item, count)
  /\ \A old : Listening!Preserved(old) = Preserved(old)
  /\ Listening!Read = Read /\ \A id : Listening!Asks(id) = Asks(id)
  /\ Listening!Lost = Lost /\ \A errors : Listening!Unanswered(errors) = Unanswered(errors)
  /\ Listening!Killed = Killed /\ Listening!RemovesLock = RemovesLock
  /\ Listening!Sends = Sends /\ Listening!Hears = Hears
<1>1. \A a, id : Listening!Begin(a, id) = Begin(a, id)
  BY DEF Listening!Begin, Begin, Listening!Known, Known, Listening!OneShots, OneShots
<1>2. \A a, got : Listening!Goes(a, got) = Goes(a, got)
  BY DEF Listening!Goes, Goes, Listening!OneShots, OneShots
<1>3. \A a, status : Listening!Concluded(a, status) = Concluded(a, status)
  BY DEF Listening!Concluded, Concluded, Listening!OneShots, OneShots
<1>4. Listening!Answered = Answered
  BY <1>3 DEF Listening!Answered, Answered
<1>5. \A last, error : Listening!Fails(last, error) = Fails(last, error)
  BY DEF Listening!Fails, Fails
<1>6. \A new : Listening!Returns(new) = Returns(new) /\ Listening!Opens(new) = Opens(new)
  BY DEF Listening!Returns, Returns, Listening!Opens, Opens
<1>7. \A new : Listening!Saves(new) = Saves(new) /\ Listening!Keeps(new) = Keeps(new)
  BY DEF Listening!Saves, Saves, Listening!Keeps, Keeps
<1>8. \A stage, item, count : Listening!Goto(stage, item, count) = Goto(stage, item, count)
  BY DEF Listening!Goto, Goto
<1>9. \A old : Listening!Preserved(old) = Preserved(old)
  BY DEF Listening!Preserved, Preserved
<1>10. Listening!Read = Read /\ \A id : Listening!Asks(id) = Asks(id)
  BY <1>1, <1>5 DEF Listening!Asks, Asks, Listening!Refusal, Refusal, Listening!reportVars, reportVars,
     Listening!clientVars, clientVars, Listening!Read, Read
<1>11. Listening!Lost = Lost
  BY <1>2 DEF Listening!Lost, Lost, Listening!Read, Read, Listening!reportVars, reportVars
<1>12. \A errors : Listening!Unanswered(errors) = Unanswered(errors)
  BY <1>3, <1>5 DEF Listening!Unanswered, Unanswered
<1>13. Listening!Killed = Killed /\ Listening!RemovesLock = RemovesLock
  BY DEF Listening!Killed, Killed, Listening!RemovesLock, RemovesLock, Listening!reportVars, reportVars
<1>14. Listening!Sends = Sends /\ Listening!Hears = Hears
  BY <1>1, <1>3 DEF Listening!Sends, Sends, Listening!Hears, Hears, Listening!reportVars, reportVars
<1> QED BY <1>1, <1>2, <1>3, <1>4, <1>5, <1>6, <1>7, <1>8, <1>9, <1>10, <1>11, <1>12, <1>13, <1>14

(* What the assumption gives. *)
LEMMA ListeningNone ==
  ASSUME Listening!WorkflowAssumption
  PROVE  /\ ClientAssumption(Listening!Requests) /\ N \in Nat \ {0} /\ Tasks \in Nat \ {0}
         /\ None \notin Listening!Reports /\ None \notin ErrorNames
BY DEF Listening!WorkflowAssumption, Listening!ClientAssumption, ClientAssumption, Listening!Statuses,
       Statuses, Listening!ErrorNames, ErrorNames, Listening!Actors, Actors, Listening!Sendings, Sendings,
       Listening!Read, Read
LEMMA ListeningReports ==
  ASSUME Listening!WorkflowAssumption
  PROVE  ReportsFit(Listening!Reports)
<1>1. \A r \in Listening!Reports : r.prior \in Nat
  BY DEF Listening!Reports
<1>2. ASSUME NEW r \in Listening!Reports, NEW error \in ErrorNames, NEW status \in {"FAILED", "INTERRUPTED"}
      PROVE  LET kept == [r EXCEPT !.error = error, !.status = status]
             IN  kept \in Listening!Reports /\ kept.error = error /\ kept.prior = r.prior
  BY DEF Listening!Reports, Listening!ErrorNames, ErrorNames
<1>3. None \notin Listening!Reports /\ None \notin ErrorNames
  BY ListeningNone
<1> QED BY <1>1, <1>2, <1>3 DEF ReportsFit

LEMMA ListeningRun ==
  ASSUME Listening!WorkflowAssumption, ListeningIInv, at # "off"
  PROVE  /\ Running(Listening!Reports)
         /\ report \in Listening!Reports /\ report.error = None
<1>1. Running(Listening!Reports)
  BY ListeningReports DEF Running, ListeningIInv, ClientIInv, ClientState
<1> QED BY <1>1, RunReport

(* Where a stage leads. *)
LEMMA ListeningGoto ==
  ASSUME NEW stage \in ListeningStages, NEW item, NEW count, Goto(stage, item, count),
         stage \in {"item", "audio", "validate", "answer", "submit", "evaluation"} => item \in Listening!Items,
         stage = "answer" => count \in 1 .. Tasks
  PROVE  ListeningPlace' /\ at' = stage
BY DEF Goto, ListeningPlace, Listening!Items
LEMMA ListeningOver ==
  ASSUME at' = "off" PROVE ListeningPlace'
BY DEF ListeningPlace, ListeningStages

(* The ways a run goes on: with another report, the same, none, or an error. *)
LEMMA ListeningSaves ==
  ASSUME Listening!WorkflowAssumption, ListeningIInv, at # "off",
         NEW new \in Listening!Reports, new.error = None, new.prior = report.prior,
         \/ Listening!Saves(new) /\ at' # "off"
         \/ Listening!Keeps(new) /\ at' # "off"
         \/ Listening!Returns(new)
         \/ \E error \in ErrorNames : Listening!Fails(new, error)
  PROVE  ReportsKept(Listening!Reports)
<1>1. Running(Listening!Reports)
  BY ListeningRun
<1>2. CASE (Saves(new) \/ Keeps(new)) /\ at' # "off"
  BY <1>1, <1>2, GoesOn
<1>3. CASE Returns(new)
  BY <1>1, <1>3, EndsWell
<1>4. CASE \E error \in ErrorNames : Fails(new, error)
  BY <1>1, <1>4, EndsInError
<1> QED BY <1>2, <1>3, <1>4, ListeningClient
LEMMA ListeningStays ==
  ASSUME Listening!WorkflowAssumption, ListeningIInv, at # "off", at' # "off", UNCHANGED reportVars
  PROVE  ReportsKept(Listening!Reports)
BY ListeningRun, StaysOn
LEMMA ListeningEnds ==
  ASSUME NEW new, Listening!Returns(new) \/ \E error \in ErrorNames : Listening!Fails(new, error)
  PROVE  ListeningPlace' /\ at' = "off"
BY ListeningOver DEF Listening!Returns, Listening!Fails

(* A report with another entry tells of the same errors. *)
ListeningAlike(r, new) ==
  new \in Listening!Reports /\ new.error = r.error /\ new.prior = r.prior
LEMMA ListeningWrites ==
  ASSUME Listening!WorkflowAssumption, NEW r \in Listening!Reports
  PROVE  /\ ListeningAlike(r, [r EXCEPT !.set = TRUE]) /\ ListeningAlike(r, [r EXCEPT !.session = TRUE])
         /\ \A g \in Listening!Generations : ListeningAlike(r, [r EXCEPT !.generation = g])
         /\ \A g \in Listening!Rows : ListeningAlike(r, [r EXCEPT !.seen = g])
         /\ \A i \in Listening!Items, s \in Listening!Attempts \cup {"STARTED"} :
              ListeningAlike(r, [r EXCEPT !.rows[i] = s])
         /\ \A s \in {"GENERATION_NOT_FIVE_READY", "EVALUATION_FAILED_NO_RETRY", "COMPLETED"} :
              ListeningAlike(r, [r EXCEPT !.status = s])
<1>1. /\ ListeningAlike(r, [r EXCEPT !.set = TRUE]) /\ ListeningAlike(r, [r EXCEPT !.session = TRUE])
  BY DEF ListeningAlike, Listening!Reports
<1>2. /\ \A g \in Listening!Generations : ListeningAlike(r, [r EXCEPT !.generation = g])
      /\ \A g \in Listening!Rows : ListeningAlike(r, [r EXCEPT !.seen = g])
  BY DEF ListeningAlike, Listening!Reports
<1>3. /\ \A i \in Listening!Items, s \in Listening!Attempts \cup {"STARTED"} :
           ListeningAlike(r, [r EXCEPT !.rows[i] = s])
  BY DEF ListeningAlike, Listening!Reports
<1>4. /\ \A s \in {"GENERATION_NOT_FIVE_READY", "EVALUATION_FAILED_NO_RETRY", "COMPLETED"} :
           ListeningAlike(r, [r EXCEPT !.status = s])
  BY DEF ListeningAlike, Listening!Reports
<1> QED BY <1>1, <1>2, <1>3, <1>4

(* The stages that wait for an answer. *)
LEMMA ListeningAnswered ==
  ASSUME Listening!Hears200
  PROVE  /\ server' = server /\ Listening!Answered /\ at \notin {"off", "snapshot", "validate"}
BY DEF Listening!Hears200, Listening!Created, Listening!Polled, Listening!SessionOpened,
       Listening!ItemRead, Listening!AudioHeard, Listening!AnswerGiven, Listening!Submitted,
       Listening!EvaluationPolled, Listening!Completed, Listening!ResultRead

LEMMA ListeningHears ==
  ASSUME Listening!WorkflowAssumption, ListeningIInv, Listening!Hears200
  PROVE  ListeningKept
<1>1. /\ server' = server /\ server \in Listening!Servers
      /\ Listening!Answered /\ at \notin {"off", "snapshot", "validate"}
  BY ListeningAnswered DEF ListeningIInv
<1>2. ClientStep(Listening!Requests) /\ Waits(ListeningQuiet)'
  BY <1>1, HeardIsAStep, ListeningClient DEF ListeningIInv, ClientState, ClientIInv
<1>3. at # "off" /\ report \in Listening!Reports /\ report.error = None
  BY <1>1, ListeningRun
<1>4. /\ N \in Nat \ {0} /\ Tasks \in Nat \ {0} /\ Listening!Items = 1 .. N
      /\ {"ValueError", "RuntimeError", "TimeoutError"} \subseteq ErrorNames
  BY ListeningNone DEF Listening!Items, ErrorNames
<1>5. ListeningPlace
  BY DEF ListeningIInv
<1>6. SUFFICES ReportsKept(Listening!Reports) /\ ListeningPlace'
  BY <1>1, <1>2 DEF ListeningKept, ClientKeeps
<1> USE Listening!WorkflowAssumption, ListeningIInv
(* A report of the run, with another field. *)
<1>7. \A i \in Listening!Items, s \in Listening!Attempts \cup {"STARTED"} :
        LET new == [report EXCEPT !.rows[i] = s]
        IN  new \in Listening!Reports /\ new.error = None /\ new.prior = report.prior
  BY <1>3, ListeningWrites DEF ListeningAlike
<1>8. CASE Listening!Created
  <2> DEFINE new == [report EXCEPT !.set = TRUE]
  <2>1. new \in Listening!Reports /\ new.error = None /\ new.prior = report.prior
    BY <1>3, ListeningWrites DEF ListeningAlike
  <2>2. Listening!Saves(new) /\ Goto("poll", 0, 0)
    BY <1>8, ListeningClient DEF Listening!Created
  <2> HIDE DEF new
  <2>3. ListeningPlace' /\ at' # "off"
    BY <2>2, ListeningGoto DEF ListeningStages
  <2> QED BY <1>3, <2>1, <2>2, <2>3, ListeningSaves
<1>9. CASE Listening!Polled
  <2>1. CASE Listening!PollsOn
    <3>1. UNCHANGED reportVars /\ Goto("poll", step.item, step.count + 1)
      BY <1>9, <2>1, ListeningClient DEF Listening!Polled, Listening!PollsOn, reportVars, Listening!reportVars
    <3>2. ListeningPlace' /\ at' # "off"
      BY <3>1, ListeningGoto DEF ListeningStages
    <3> QED BY <1>3, <3>1, <3>2, ListeningStays
  <2>2. CASE ~Listening!PollsOn
    <3> DEFINE seen == [rows |-> server.rows, working |-> server.working]
               new == [report EXCEPT !.generation = seen]
    <3>1. seen \in Listening!Generations
      BY <1>1 DEF Listening!Servers, Listening!Generations
    <3>2. new \in Listening!Reports /\ new.error = None /\ new.prior = report.prior
      BY <1>3, <3>1, ListeningWrites DEF ListeningAlike
    <3>3. Listening!Keeps(new) /\ Goto("snapshot", 0, 0)
      BY <1>9, <2>2, ListeningClient DEF Listening!Polled
    <3> HIDE DEF new
    <3>4. ListeningPlace' /\ at' # "off"
      BY <3>3, ListeningGoto DEF ListeningStages
    <3> QED BY <1>3, <3>2, <3>3, <3>4, ListeningSaves
  <2> QED BY <2>1, <2>2
<1>10. CASE Listening!SessionOpened
  <2> DEFINE new == [report EXCEPT !.session = TRUE]
  <2>1. new \in Listening!Reports /\ new.error = None /\ new.prior = report.prior
    BY <1>3, ListeningWrites DEF ListeningAlike
  <2>2. Listening!Keeps(new) /\ Goto("item", 1, 0)
    BY <1>10, ListeningClient DEF Listening!SessionOpened
  <2> HIDE DEF new
  <2>3. ListeningPlace' /\ at' # "off"
    BY <1>4, <2>2, ListeningGoto DEF ListeningStages
  <2> QED BY <1>3, <2>1, <2>2, <2>3, ListeningSaves
(* An evaluated item, here and after a poll. *)
<1>11. ASSUME NEW status \in Listening!Attempts, step.item \in Listening!Items, Listening!Concludes(status)
       PROVE  ReportsKept(Listening!Reports) /\ ListeningPlace'
  <2> DEFINE recorded == [report EXCEPT !.rows[step.item] = status]
             last == [recorded EXCEPT !.status = "EVALUATION_FAILED_NO_RETRY"]
  <2>1. recorded \in Listening!Reports /\ recorded.error = None /\ recorded.prior = report.prior
    BY <1>7, <1>11
  <2>2. last \in Listening!Reports /\ last.error = None /\ last.prior = report.prior
    BY <2>1, ListeningWrites DEF ListeningAlike
  <2>3. CASE Listening!FailedEvaluation(status)
    <3>1. Listening!Returns(last)
      BY <1>11, <2>3 DEF Listening!Concludes, Listening!Recorded
    <3> HIDE DEF last
    <3> QED BY <1>3, <2>2, <3>1, ListeningSaves, ListeningEnds
  <2>4. CASE ~Listening!FailedEvaluation(status)
    <3>1. Listening!Saves(recorded) /\ Listening!Following
      BY <1>11, <2>4 DEF Listening!Concludes, Listening!Recorded
    <3>2. \/ Goto("complete", 0, 0)
          \/ step.item # N /\ Goto("item", step.item + 1, 0)
      BY <3>1, ListeningClient DEF Listening!Following
    <3>3. ListeningPlace' /\ at' # "off"
      <4>1. CASE Goto("complete", 0, 0)
        BY <4>1, ListeningGoto DEF ListeningStages
      <4>2. CASE step.item # N /\ Goto("item", step.item + 1, 0)
        <5>1. step.item + 1 \in Listening!Items
          BY <1>4, <1>11, <4>2
        <5> QED BY <4>2, <5>1, ListeningGoto DEF ListeningStages
      <4> QED BY <3>2, <4>1, <4>2
    <3> HIDE DEF recorded
    <3> QED BY <1>3, <2>1, <3>1, <3>3, ListeningSaves
  <2> QED BY <2>3, <2>4
(* An error that a check raises. *)
<1>12. ASSUME NEW error \in ErrorNames, Listening!Fails(report, error)
       PROVE  ReportsKept(Listening!Reports) /\ ListeningPlace'
  BY <1>3, <1>12, ListeningSaves, ListeningEnds
<1>13. ASSUME NEW i \in Listening!Items PROVE server.attempts[i] \in Listening!Attempts
  BY <1>1 DEF Listening!Servers
<1>14. CASE Listening!ItemRead
  <2>1. step.item \in Listening!Items
    BY <1>5, <1>14 DEF Listening!ItemRead, ListeningPlace
  <2>2. CASE Listening!Concludes(server.attempts[step.item])
    BY <1>11, <1>13, <2>1, <2>2
  <2>3. CASE Listening!Fails(report, "ValueError")
    BY <1>4, <1>12, <2>3
  <2>4. CASE UNCHANGED reportVars /\ Goto("audio", step.item, 0)
    <3>1. ListeningPlace' /\ at' # "off"
      BY <2>1, <2>4, ListeningGoto DEF ListeningStages
    <3> QED BY <1>3, <2>4, <3>1, ListeningStays
  <2> QED BY <1>14, <2>2, <2>3, <2>4, ListeningClient
          DEF Listening!ItemRead, Listening!reportVars, reportVars
<1>15. CASE Listening!AudioHeard
  <2>1. step.item \in Listening!Items
    BY <1>5, <1>15 DEF Listening!AudioHeard, ListeningPlace
  <2> DEFINE new == [report EXCEPT !.rows[step.item] = "STARTED"]
  <2>2. new \in Listening!Reports /\ new.error = None /\ new.prior = report.prior
    BY <1>7, <2>1
  <2>3. CASE Listening!Saves(new) /\ Goto("validate", step.item, 0)
    <3> HIDE DEF new
    <3>1. ListeningPlace' /\ at' # "off"
      BY <2>1, <2>3, ListeningGoto DEF ListeningStages
    <3> QED BY <1>3, <2>2, <2>3, <3>1, ListeningSaves
  <2>4. CASE Listening!Fails(report, "RuntimeError")
    BY <1>4, <1>12, <2>4
  <2> QED BY <1>15, <2>3, <2>4, ListeningClient DEF Listening!AudioHeard, Listening!Recorded
<1>16. CASE Listening!AnswerGiven
  <2>1. step.item \in Listening!Items /\ step.count \in 1 .. Tasks /\ UNCHANGED reportVars
    BY <1>5, <1>16 DEF Listening!AnswerGiven, ListeningPlace, Listening!reportVars, reportVars
  <2>2. \/ step.count < Tasks /\ Goto("answer", step.item, step.count + 1)
        \/ Goto("submit", step.item, 0)
    BY <1>16, ListeningClient DEF Listening!AnswerGiven
  <2>3. ListeningPlace' /\ at' # "off"
    <3>1. CASE step.count < Tasks /\ Goto("answer", step.item, step.count + 1)
      <4>1. step.count + 1 \in 1 .. Tasks
        BY <1>4, <2>1, <3>1
      <4> QED BY <2>1, <3>1, <4>1, ListeningGoto DEF ListeningStages
    <3>2. CASE Goto("submit", step.item, 0)
      BY <2>1, <3>2, ListeningGoto DEF ListeningStages
    <3> QED BY <2>2, <3>1, <3>2
  <2> QED BY <1>3, <2>1, <2>3, ListeningStays
<1>17. CASE Listening!Submitted
  <2>1. step.item \in Listening!Items /\ UNCHANGED reportVars /\ Goto("evaluation", step.item, 0)
    BY <1>5, <1>17, ListeningClient
    DEF Listening!Submitted, ListeningPlace, Listening!reportVars, reportVars
  <2>2. ListeningPlace' /\ at' # "off"
    BY <2>1, ListeningGoto DEF ListeningStages
  <2> QED BY <1>3, <2>1, <2>2, ListeningStays
<1>18. CASE Listening!EvaluationPolled
  <2>1. step.item \in Listening!Items
    BY <1>5, <1>18 DEF Listening!EvaluationPolled, ListeningPlace
  <2>2. CASE Listening!Concludes(server.attempts[step.item])
    BY <1>11, <1>13, <2>1, <2>2
  <2>3. CASE Listening!PollsOn
    <3>1. UNCHANGED reportVars /\ Goto("evaluation", step.item, step.count + 1)
      BY <1>18, <2>3, ListeningClient
      DEF Listening!EvaluationPolled, Listening!PollsOn, reportVars, Listening!reportVars
    <3>2. ListeningPlace' /\ at' # "off"
      BY <2>1, <3>1, ListeningGoto DEF ListeningStages
    <3> QED BY <1>3, <3>1, <3>2, ListeningStays
  <2>4. CASE Listening!Fails(report, "TimeoutError")
    BY <1>4, <1>12, <2>4
  <2> QED BY <1>18, <2>2, <2>3, <2>4 DEF Listening!EvaluationPolled
<1>19. CASE Listening!Completed
  <2>1. UNCHANGED reportVars /\ Goto("result", 0, 0)
    BY <1>19, ListeningClient DEF Listening!Completed, Listening!reportVars, reportVars
  <2>2. ListeningPlace' /\ at' # "off"
    BY <2>1, ListeningGoto DEF ListeningStages
  <2> QED BY <1>3, <2>1, <2>2, ListeningStays
<1>20. CASE Listening!ResultRead
  <2> DEFINE new == [report EXCEPT !.status = "COMPLETED"]
  <2>1. new \in Listening!Reports /\ new.error = None /\ new.prior = report.prior
    BY <1>3, ListeningWrites DEF ListeningAlike
  <2>2. Listening!Returns(new)
    BY <1>20 DEF Listening!ResultRead
  <2> HIDE DEF new
  <2> QED BY <1>3, <2>1, <2>2, ListeningSaves, ListeningEnds
<1> QED BY <1>8, <1>9, <1>10, <1>14, <1>15, <1>16, <1>17, <1>18, <1>19, <1>20 DEF Listening!Hears200

(* The stages without a request. *)
LEMMA ListeningLocal ==
  ASSUME Listening!WorkflowAssumption, ListeningIInv, Listening!Local
  PROVE  ListeningKept
<1>1. /\ server' = server /\ server \in Listening!Servers /\ at \in {"snapshot", "validate"}
      /\ UNCHANGED clientVars
  BY DEF Listening!Local, Listening!Snapshot, Listening!Validated, ListeningIInv,
         Listening!clientVars, clientVars
<1>2. ClientStep(Listening!Requests) /\ Waits(ListeningQuiet)'
  BY <1>1, AloneIsAStep DEF ListeningIInv, ClientState, ListeningQuiet
<1>3. at # "off" /\ report \in Listening!Reports /\ report.error = None
  BY <1>1, ListeningRun
<1>4. "ValueError" \in ErrorNames /\ N \in Nat \ {0} /\ Listening!Items = 1 .. N /\ 1 \in 1 .. Tasks
  BY ListeningNone DEF ErrorNames, Listening!Items
<1>5. SUFFICES ReportsKept(Listening!Reports) /\ ListeningPlace'
  BY <1>1, <1>2 DEF ListeningKept, ClientKeeps
<1> USE Listening!WorkflowAssumption, ListeningIInv
<1>6. CASE Listening!Snapshot
  <2> DEFINE new == [report EXCEPT !.seen = server.rows]
             last == [new EXCEPT !.status = "GENERATION_NOT_FIVE_READY"]
  <2>1. server.rows \in Listening!Rows
    BY <1>1 DEF Listening!Servers
  <2>2. new \in Listening!Reports /\ new.error = None /\ new.prior = report.prior
    BY <1>3, <2>1, ListeningWrites DEF ListeningAlike
  <2>3. last \in Listening!Reports /\ last.error = None /\ last.prior = report.prior
    BY <2>2, ListeningWrites DEF ListeningAlike
  <2>4. \/ Listening!Returns(last)
        \/ Listening!Keeps(new) /\ Goto("session", 0, 0)
        \/ Listening!Fails(new, "ValueError")
    BY <1>6, ListeningClient DEF Listening!Snapshot, Listening!Physical
  <2> HIDE DEF new, last
  <2>5. CASE Listening!Returns(last)
    BY <1>3, <2>3, <2>5, ListeningSaves, ListeningEnds
  <2>6. CASE Listening!Keeps(new) /\ Goto("session", 0, 0)
    <3>1. ListeningPlace' /\ at' # "off"
      BY <2>6, ListeningGoto DEF ListeningStages
    <3> QED BY <1>3, <2>2, <2>6, <3>1, ListeningSaves
  <2>7. CASE Listening!Fails(new, "ValueError")
    BY <1>3, <1>4, <2>2, <2>7, ListeningSaves, ListeningEnds
  <2> QED BY <2>4, <2>5, <2>6, <2>7
<1>7. CASE Listening!Validated
  <2>1. step.item \in Listening!Items
    BY <1>7 DEF Listening!Validated, ListeningIInv, ListeningPlace
  <2>2. CASE Listening!Saves(report) /\ Goto("answer", step.item, 1)
    <3>1. ListeningPlace' /\ at' # "off"
      BY <1>4, <2>1, <2>2, ListeningGoto DEF ListeningStages
    <3> QED BY <1>3, <2>2, <3>1, ListeningSaves
  <2>3. CASE Listening!Fails(report, "ValueError")
    BY <1>3, <1>4, <2>3, ListeningSaves, ListeningEnds
  <2> QED BY <1>7, <2>2, <2>3, ListeningClient DEF Listening!Validated, Listening!AudioRaises
<1> QED BY <1>6, <1>7 DEF Listening!Local

(* A run begins, or goes on with the report of another. *)
LEMMA ListeningOpens ==
  ASSUME Listening!WorkflowAssumption, ListeningIInv, Listening!Starts \/ Listening!Resumes
  PROVE  ListeningKept
<1>1. /\ server' = server /\ server \in Listening!Servers /\ at = "off" /\ UNCHANGED clientVars
      /\ runs < MaxRuns /\ TellsErrors /\ ReportsFit(Listening!Reports)
      /\ Goto("create", 0, 0) \/ Goto("poll", 0, 0)
  BY ListeningClient DEF Listening!Starts, Listening!Resumes, ListeningIInv, ClientState, ClientIInv,
         Listening!clientVars, clientVars
<1>2. ClientStep(Listening!Requests) /\ Waits(ListeningQuiet)'
  BY <1>1, AloneIsAStep DEF ListeningIInv, ClientState, ListeningQuiet
<1>3. ListeningPlace' /\ at' # "off"
  BY <1>1, ListeningGoto DEF ListeningStages
<1>4. SUFFICES ReportsKept(Listening!Reports)
  BY <1>1, <1>2, <1>3 DEF ListeningKept, ClientKeeps
<1>5. CASE Listening!Starts
  <2> DEFINE new == [status |-> "STARTED", error |-> None, prior |-> 0, set |-> FALSE,
                     generation |-> None, seen |-> None, session |-> FALSE, rows |-> Listening!NoRow]
  <2>1. new \in Listening!Reports /\ new.error = None /\ new.prior = 0
    BY DEF Listening!Reports, Listening!NoRow
  <2>2. artifact = None /\ Opens(new)
    BY <1>5, ListeningClient DEF Listening!Starts
  <2> HIDE DEF new
  <2> QED BY <1>1, <1>3, <2>1, <2>2, OpensNew
<1>6. CASE Listening!Resumes
  <2> DEFINE old == Preserved(artifact)
             new == [old EXCEPT !.status = "RESUMED_EXISTING_GENERATION_ONLY"]
  <2>1. /\ artifact \in Listening!Reports /\ Opens(new)
        /\ "prior" \in DOMAIN artifact /\ "error" \in DOMAIN artifact
    BY <1>6, ListeningClient
    DEF Listening!Resumes, ListeningIInv, ClientState, Listening!Reports
  <2>2. old \in Listening!Reports /\ old.error = None
    <3>1. CASE artifact.error = None
      BY <2>1, <3>1 DEF Preserved
    <3>2. CASE artifact.error # None
      <4>1. old = [artifact EXCEPT !.error = None, !.prior = artifact.prior + 1]
        BY <3>2 DEF Preserved
      <4>2. artifact.prior + 1 \in Nat
        BY <2>1 DEF Listening!Reports
      <4> HIDE DEF old
      <4> QED BY <2>1, <4>1, <4>2 DEF Listening!Reports
    <3> QED BY <3>1, <3>2
  <2>3. new \in Listening!Reports /\ new.error = None /\ new.prior = old.prior
    BY <2>2 DEF Listening!Reports
  <2> HIDE DEF new
  <2> QED BY <1>1, <1>3, <2>1, <2>3, OpensAgain
<1> QED BY <1>5, <1>6

(* The back end. *)
LEMMA ListeningServes ==
  ASSUME Listening!WorkflowAssumption, server \in Listening!Servers,
         NEW id \in Listening!Requests \cup {Read}
  PROVE  Listening!Served(id) \in Listening!Servers
<1>1. CASE id = <<"create">>
  <2>1. <<"TTS_PENDING">> \in Seq({"TTS_PENDING", "READY", "FAILED"})
    OBVIOUS
  <2>2. [i \in Listening!Items |-> <<"TTS_PENDING">>] \in Listening!Rows
    BY <2>1 DEF Listening!Rows
  <2>3. Listening!Served(id) = [server EXCEPT !.rows = [i \in Listening!Items |-> <<"TTS_PENDING">>], !.working = TRUE]
    BY <1>1 DEF Listening!Served
  <2> QED BY <2>2, <2>3 DEF Listening!Servers
<1>2. CASE id # <<"create">> /\ id[1] = "submit" /\ id # <<"session">>
  <2>1. id[2] \in Listening!Items
    BY <1>2 DEF Listening!Requests, Read
  <2> QED BY <1>2, <2>1 DEF Listening!Served, Listening!Servers, Listening!Attempts
<1>3. CASE id = <<"session">>
  <2>1. Listening!Served(id) = [server EXCEPT !.session = TRUE]
    BY <1>3 DEF Listening!Served
  <2> QED BY <2>1 DEF Listening!Servers
<1>4. CASE id # <<"create">> /\ id # <<"session">> /\ id[1] # "submit"
  <2>1. Listening!Served(id) \in {server, [server EXCEPT !.complete = TRUE]}
    BY <1>4 DEF Listening!Served
  <2> QED BY <2>1 DEF Listening!Servers
<1> QED BY <1>1, <1>2, <1>3, <1>4
LEMMA ListeningServer ==
  ASSUME server \in Listening!Servers,
         Listening!Voiced \/ Listening!Replaced \/ Listening!GenerationEnds \/ Listening!Evaluated
  PROVE  server' \in Listening!Servers
<1>1. CASE Listening!Voiced
  <2>1. PICK i \in Listening!Items, status \in {"READY", "FAILED"} :
          /\ server.rows[i] # <<>>
          /\ server' = [server EXCEPT !.rows[i] = Append(Listening!Front(server.rows[i]), status)]
    BY <1>1 DEF Listening!Voiced, Listening!Servers, Listening!Rows
  <2>2. Listening!Front(server.rows[i]) \in Seq({"TTS_PENDING", "READY", "FAILED"})
    <3> DEFINE window == server.rows[i]
    <3>1. window \in Seq({"TTS_PENDING", "READY", "FAILED"}) /\ Len(window) \in Nat
      BY DEF Listening!Servers, Listening!Rows
    <3>2. \A k \in 1 .. Len(window) - 1 : window[k] \in {"TTS_PENDING", "READY", "FAILED"}
      BY <3>1
    <3> HIDE DEF window
    <3>3. SubSeq(window, 1, Len(window) - 1) \in Seq({"TTS_PENDING", "READY", "FAILED"})
      BY <3>1, <3>2, SubSeqProperties
    <3> QED BY <3>3 DEF Listening!Front, window
  <2>3. Append(Listening!Front(server.rows[i]), status) \in Seq({"TTS_PENDING", "READY", "FAILED"})
    BY <2>2
  <2> QED BY <2>1, <2>3 DEF Listening!Servers, Listening!Rows
<1>2. CASE Listening!Replaced
  <2>1. PICK i \in Listening!Items :
          server' = [server EXCEPT !.rows[i] = Append(server.rows[i], "TTS_PENDING")]
    BY <1>2 DEF Listening!Replaced, Listening!Servers, Listening!Rows
  <2>2. Append(server.rows[i], "TTS_PENDING") \in Seq({"TTS_PENDING", "READY", "FAILED"})
    BY DEF Listening!Servers, Listening!Rows
  <2> QED BY <2>1, <2>2 DEF Listening!Servers, Listening!Rows
<1>3. CASE Listening!GenerationEnds
  BY <1>3 DEF Listening!GenerationEnds, Listening!Servers
<1>4. CASE Listening!Evaluated
  BY <1>4 DEF Listening!Evaluated, Listening!Servers, Listening!Attempts
<1> QED BY <1>1, <1>2, <1>3, <1>4

(* Every step. *)
LEMMA ListeningSteps ==
  ASSUME Listening!WorkflowAssumption, ListeningIInv, Listening!Next \/ UNCHANGED Listening!vars
  PROVE  ListeningKept
<1>1. server \in Listening!Servers /\ ListeningPlace
  BY DEF ListeningIInv
<1>2. ASSUME ClientActs(Listening!Requests, ListeningQuiet), server' \in Listening!Servers
      PROVE  ListeningKept
  <2>1. /\ ClientKeeps(Listening!Requests, Listening!Reports, ListeningQuiet)
        /\ at' = "off" \/ UNCHANGED <<at, step, reportVars>>
    BY <1>2, ClientActsKeep DEF ListeningIInv
  <2>2. ListeningPlace'
    BY <1>1, <2>1 DEF ListeningPlace, ListeningStages
  <2> QED BY <1>2, <2>1, <2>2 DEF ListeningKept
<1>3. Manual \subseteq Listening!Requests
  BY ListeningNone DEF ClientAssumption
<1>4. ASSUME NEW actor \in Actors, Listening!Reaches(actor) PROVE ListeningKept
  <2>1. sent[actor] # None => sent[actor].id \in Listening!Requests \cup {Read}
    BY DEF ListeningIInv, ClientState, ClientIInv, ClientShape, Sendings
  <2>2. server' \in Listening!Servers
    BY <1>1, <1>4, <2>1, ListeningServes DEF Listening!Reaches
  <2>3. Goes(actor, TRUE) /\ UNCHANGED <<at, step, reportVars>>
    BY <1>4, ListeningClient DEF Listening!Reaches, Listening!reportVars, reportVars
  <2> QED BY <1>2, <2>2, <2>3 DEF ClientActs
<1>5. CASE Listening!Starts \/ Listening!Resumes
  BY <1>5, ListeningOpens
<1>6. CASE Listening!Ask
  <2>1. Listening!Asks(Listening!Request) /\ at \notin ListeningQuiet
    BY <1>6 DEF Listening!Ask, ListeningQuiet
  <2>2. Listening!Request \in Listening!Requests \cup {Read}
    BY <1>1, ListeningClient DEF Listening!Request, Listening!Requests, ListeningPlace, ListeningStages
  <2>3. server' = server
    BY <2>1 DEF Listening!Asks
  <2> QED BY <1>1, <1>2, <2>1, <2>2, <2>3, ListeningClient DEF ClientActs
<1>7. CASE Listening!Reaches("workflow") \/ Listening!Reaches("operator")
  BY <1>4, <1>7 DEF Actors
<1>8. CASE Listening!Lost
  <2>1. Lost /\ server' = server
    BY <1>8, ListeningClient DEF Lost
  <2>2. ClientActs(Listening!Requests, ListeningQuiet)
    BY <2>1 DEF Lost, ClientActs, Actors
  <2> QED BY <1>1, <1>2, <2>1, <2>2
<1>9. CASE Listening!Hears200
  BY <1>9, ListeningHears
<1>10. CASE Listening!Unanswered(Listening!Errors("RuntimeError"))
  <2>1. Unanswered(Listening!Errors("RuntimeError"))
    BY <1>10, ListeningClient
  <2>2. Listening!Errors("RuntimeError") \in SUBSET ErrorNames /\ server' = server
    BY <2>1 DEF Listening!Errors, ErrorNames, Unanswered
  <2> QED BY <1>1, <1>2, <2>1, <2>2 DEF ClientActs
<1>11. CASE Listening!Local
  BY <1>11, ListeningLocal
<1>12. CASE Listening!ServerWorks
  <2>1. server' \in Listening!Servers
    BY <1>1, <1>12, ListeningServer DEF Listening!ServerWorks
  <2>2. UNCHANGED <<clientVars, at, step, reportVars>>
    BY <1>12 DEF Listening!ServerWorks, Listening!clientVars, clientVars, Listening!reportVars, reportVars
  <2> QED BY <1>2, <2>1, <2>2 DEF ClientActs
<1>13. CASE Listening!Killed \/ Listening!RemovesLock \/ Listening!Sends \/ Listening!Hears
  <2>1. Killed \/ RemovesLock \/ Sends \/ Hears
    BY <1>13, ListeningClient
  <2>2. server' = server
    BY <2>1 DEF Killed, RemovesLock, Sends, Hears
  <2> QED BY <1>1, <1>2, <1>3, <2>1, <2>2 DEF ClientActs
<1>14. CASE UNCHANGED Listening!vars
  <2>1. UNCHANGED <<clientVars, at, step, reportVars>> /\ server' = server
    BY <1>14 DEF Listening!vars, Listening!clientVars, clientVars, Listening!reportVars, reportVars
  <2> QED BY <1>1, <1>2, <2>1 DEF ClientActs
<1> QED BY <1>5, <1>6, <1>7, <1>8, <1>9, <1>10, <1>11, <1>12, <1>13, <1>14
        DEF Listening!Next, Listening!Works

LEMMA ListeningInitially ==
  ASSUME Listening!WorkflowAssumption, Listening!Init
  PROVE  ListeningIInv
<1>1. ClientInit(Listening!Requests) /\ server = Listening!NoServer
  BY DEF Listening!Init, Listening!ClientInit, ClientInit, Listening!Actors, Actors
<1>2. ClientIInv(Listening!Requests)
  BY <1>1, ListeningNone, ClientStarts
<1>3. Waits(ListeningQuiet) /\ ListeningPlace /\ report = None /\ artifact = None /\ "off" \in ListeningQuiet
  BY <1>1 DEF ClientInit, Waits, Actors, ListeningPlace, ListeningStages, ListeningQuiet
<1>4. server \in Listening!Servers
  BY <1>1 DEF Listening!NoServer, Listening!Servers, Listening!Rows, Listening!Attempts
<1> QED BY <1>2, <1>3, <1>4, ListeningReports DEF ListeningIInv, ClientState
LEMMA ListeningNext ==
  ASSUME Listening!WorkflowAssumption, ListeningIInv, Listening!Next \/ UNCHANGED Listening!vars
  PROVE  ListeningIInv'
BY ListeningSteps, ListeningNone, ClientGoesOn DEF ListeningIInv, ListeningKept

(* The listening workflow: however often it is killed or resumed, whatever the back end and the
   operator do, a one-shot request goes out once and never without a record, and the report
   tells of every error there was. *)
THEOREM ListeningClientCorrect ==
  ASSUME Listening!WorkflowAssumption
  PROVE  Listening!Spec => []ClientInv
<1>1. Listening!Init => ListeningIInv
  BY ListeningInitially
<1>2. ListeningIInv /\ [Listening!Next]_(Listening!vars) => ListeningIInv'
  BY ListeningNext
<1>3. ListeningIInv => ClientInv
  BY ClientPromises DEF ListeningIInv, ClientState
<1> QED BY <1>1, <1>2, <1>3, PTL DEF Listening!Spec
-----------------------------------------------------------------------------
(* The reading workflow: its stages, and what its report and the back end are. *)
CONSTANT MaxVersions
Reading == INSTANCE ReadingWorkflow

ReadingStages ==
  {"off", "start", "again", "snapshot", "observed", "poll", "ready", "answer", "observe", "final"}
ReadingPlace ==
  /\ at \in ReadingStages
  /\ at \in {"answer", "observe"} => step.item \in Reading!Questions
  /\ at \in {"snapshot", "observed"} => report.view \in Reading!Servers
ReadingQuiet == {"off", "snapshot", "observed", "ready", "final"}
ReadingIInv ==
  /\ ClientState(Reading!Requests, Reading!Reports, ReadingQuiet)
  /\ ReadingPlace /\ server \in Reading!Servers
(* What a step of the workflow keeps. *)
ReadingKept ==
  /\ ClientKeeps(Reading!Requests, Reading!Reports, ReadingQuiet)
  /\ ReadingPlace' /\ server' \in Reading!Servers

(* The operators of the client are the same in the workflow. *)
LEMMA ReadingClient ==
  /\ \A a, id : Reading!Begin(a, id) = Begin(a, id)
  /\ \A a, got : Reading!Goes(a, got) = Goes(a, got)
  /\ \A a, status : Reading!Concluded(a, status) = Concluded(a, status)
  /\ Reading!Answered = Answered
  /\ \A last, error : Reading!Fails(last, error) = Fails(last, error)
  /\ \A new : Reading!Returns(new) = Returns(new) /\ Reading!Opens(new) = Opens(new)
  /\ \A new : Reading!Saves(new) = Saves(new) /\ Reading!Keeps(new) = Keeps(new)
  /\ \A stage, item, count : Reading!Goto(stage, item, count) = Goto(stage, item, count)
  /\ \A old : Reading!Preserved(old) = Preserved(old)
  /\ Reading!Read = Read /\ \A id : Reading!Asks(id) = Asks(id)
  /\ Reading!Lost = Lost /\ \A errors : Reading!Unanswered(errors) = Unanswered(errors)
  /\ Reading!Killed = Killed /\ Reading!RemovesLock = RemovesLock
  /\ Reading!Sends = Sends /\ Reading!Hears = Hears
<1>1. \A a, id : Reading!Begin(a, id) = Begin(a, id)
  BY DEF Reading!Begin, Begin, Reading!Known, Known, Reading!OneShots, OneShots
<1>2. \A a, got : Reading!Goes(a, got) = Goes(a, got)
  BY DEF Reading!Goes, Goes, Reading!OneShots, OneShots
<1>3. \A a, status : Reading!Concluded(a, status) = Concluded(a, status)
  BY DEF Reading!Concluded, Concluded, Reading!OneShots, OneShots
<1>4. Reading!Answered = Answered
  BY <1>3 DEF Reading!Answered, Answered
<1>5. \A last, error : Reading!Fails(last, error) = Fails(last, error)
  BY DEF Reading!Fails, Fails
<1>6. \A new : Reading!Returns(new) = Returns(new) /\ Reading!Opens(new) = Opens(new)
  BY DEF Reading!Returns, Returns, Reading!Opens, Opens
<1>7. \A new : Reading!Saves(new) = Saves(new) /\ Reading!Keeps(new) = Keeps(new)
  BY DEF Reading!Saves, Saves, Reading!Keeps, Keeps
<1>8. \A stage, item, count : Reading!Goto(stage, item, count) = Goto(stage, item, count)
  BY DEF Reading!Goto, Goto
<1>9. \A old : Reading!Preserved(old) = Preserved(old)
  BY DEF Reading!Preserved, Preserved
<1>10. Reading!Read = Read /\ \A id : Reading!Asks(id) = Asks(id)
  BY <1>1, <1>5 DEF Reading!Asks, Asks, Reading!Refusal, Refusal, Reading!reportVars, reportVars,
     Reading!clientVars, clientVars, Reading!Read, Read
<1>11. Reading!Lost = Lost
  BY <1>2 DEF Reading!Lost, Lost, Reading!Read, Read, Reading!reportVars, reportVars
<1>12. \A errors : Reading!Unanswered(errors) = Unanswered(errors)
  BY <1>3, <1>5 DEF Reading!Unanswered, Unanswered
<1>13. Reading!Killed = Killed /\ Reading!RemovesLock = RemovesLock
  BY DEF Reading!Killed, Killed, Reading!RemovesLock, RemovesLock, Reading!reportVars, reportVars
<1>14. Reading!Sends = Sends /\ Reading!Hears = Hears
  BY <1>1, <1>3 DEF Reading!Sends, Sends, Reading!Hears, Hears, Reading!reportVars, reportVars
<1> QED BY <1>1, <1>2, <1>3, <1>4, <1>5, <1>6, <1>7, <1>8, <1>9, <1>10, <1>11, <1>12, <1>13, <1>14

(* What the assumption gives. *)
LEMMA ReadingNone ==
  ASSUME Reading!WorkflowAssumption
  PROVE  /\ ClientAssumption(Reading!Requests) /\ N \in Nat \ {0}
         /\ None \notin Reading!Reports /\ None \notin ErrorNames
BY DEF Reading!WorkflowAssumption, Reading!ClientAssumption, ClientAssumption, Reading!Statuses,
       Statuses, Reading!ErrorNames, ErrorNames, Reading!Actors, Actors, Reading!Sendings, Sendings,
       Reading!Read, Read
LEMMA ReadingReports ==
  ASSUME Reading!WorkflowAssumption
  PROVE  ReportsFit(Reading!Reports)
<1>1. \A r \in Reading!Reports : r.prior \in Nat
  BY DEF Reading!Reports
<1>2. ASSUME NEW r \in Reading!Reports, NEW error \in ErrorNames, NEW status \in {"FAILED", "INTERRUPTED"}
      PROVE  LET kept == [r EXCEPT !.error = error, !.status = status]
             IN  kept \in Reading!Reports /\ kept.error = error /\ kept.prior = r.prior
  BY DEF Reading!Reports, Reading!ErrorNames, ErrorNames
<1>3. None \notin Reading!Reports /\ None \notin ErrorNames
  BY ReadingNone
<1> QED BY <1>1, <1>2, <1>3 DEF ReportsFit

LEMMA ReadingRun ==
  ASSUME Reading!WorkflowAssumption, ReadingIInv, at # "off"
  PROVE  /\ Running(Reading!Reports)
         /\ report \in Reading!Reports /\ report.error = None
<1>1. Running(Reading!Reports)
  BY ReadingReports DEF Running, ReadingIInv, ClientIInv, ClientState
<1> QED BY <1>1, RunReport

(* Where a stage leads. *)
LEMMA ReadingGoto ==
  ASSUME NEW stage \in ReadingStages, NEW item, NEW count, Goto(stage, item, count),
         stage \in {"answer", "observe"} => item \in Reading!Questions,
         stage \in {"snapshot", "observed"} => report'.view \in Reading!Servers
  PROVE  ReadingPlace' /\ at' = stage
BY DEF Goto, ReadingPlace, Reading!Questions
LEMMA ReadingOver ==
  ASSUME at' = "off" PROVE ReadingPlace'
BY DEF ReadingPlace, ReadingStages

(* The ways a run goes on: with another report, the same, none, or an error. *)
LEMMA ReadingSaves ==
  ASSUME Reading!WorkflowAssumption, ReadingIInv, at # "off",
         NEW new \in Reading!Reports, new.error = None, new.prior = report.prior,
         \/ Reading!Saves(new) /\ at' # "off"
         \/ Reading!Keeps(new) /\ at' # "off"
         \/ Reading!Returns(new)
         \/ \E error \in ErrorNames : Reading!Fails(new, error)
  PROVE  ReportsKept(Reading!Reports)
<1>1. Running(Reading!Reports)
  BY ReadingRun
<1>2. CASE (Saves(new) \/ Keeps(new)) /\ at' # "off"
  BY <1>1, <1>2, GoesOn
<1>3. CASE Returns(new)
  BY <1>1, <1>3, EndsWell
<1>4. CASE \E error \in ErrorNames : Fails(new, error)
  BY <1>1, <1>4, EndsInError
<1> QED BY <1>2, <1>3, <1>4, ReadingClient
LEMMA ReadingStays ==
  ASSUME Reading!WorkflowAssumption, ReadingIInv, at # "off", at' # "off", UNCHANGED reportVars
  PROVE  ReportsKept(Reading!Reports)
BY ReadingRun, StaysOn
LEMMA ReadingEnds ==
  ASSUME NEW new, Reading!Returns(new) \/ \E error \in ErrorNames : Reading!Fails(new, error)
  PROVE  ReadingPlace' /\ at' = "off"
BY ReadingOver DEF Reading!Returns, Reading!Fails

(* A report with another entry tells of the same errors. *)
ReadingAlike(r, new) ==
  new \in Reading!Reports /\ new.error = r.error /\ new.prior = r.prior
LEMMA ReadingWrites ==
  ASSUME Reading!WorkflowAssumption, NEW r \in Reading!Reports
  PROVE  /\ \A v \in Reading!Servers :
              LET new == [r EXCEPT !.set = TRUE, !.view = v] IN ReadingAlike(r, new) /\ new.view = v
         /\ \A v \in Reading!Servers :
              LET new == [r EXCEPT !.view = v] IN ReadingAlike(r, new) /\ new.view = v
         /\ \A s \in Seq(Nat) : ReadingAlike(r, [r EXCEPT !.stored = s])
         /\ \A q \in Reading!Questions : ReadingAlike(r, [r EXCEPT !.answers = Append(r.answers, q)])
         /\ \A s \in {"GENERATION_TERMINAL_NO_RETRY", "COMPLETED"} :
              ReadingAlike(r, [r EXCEPT !.status = s])
<1>1. ASSUME NEW v \in Reading!Servers
      PROVE  LET new == [r EXCEPT !.set = TRUE, !.view = v] IN ReadingAlike(r, new) /\ new.view = v
  BY DEF ReadingAlike, Reading!Reports
<1>2. ASSUME NEW v \in Reading!Servers
      PROVE  LET new == [r EXCEPT !.view = v] IN ReadingAlike(r, new) /\ new.view = v
  BY DEF ReadingAlike, Reading!Reports
<1>3. ASSUME NEW s \in Seq(Nat) PROVE ReadingAlike(r, [r EXCEPT !.stored = s])
  BY DEF ReadingAlike, Reading!Reports
<1>4. ASSUME NEW q \in Reading!Questions
      PROVE  ReadingAlike(r, [r EXCEPT !.answers = Append(r.answers, q)])
  <2>1. Append(r.answers, q) \in Seq(Reading!Questions)
    BY DEF Reading!Reports
  <2> QED BY <2>1 DEF ReadingAlike, Reading!Reports
<1>5. ASSUME NEW s \in {"GENERATION_TERMINAL_NO_RETRY", "COMPLETED"}
      PROVE  ReadingAlike(r, [r EXCEPT !.status = s])
  BY DEF ReadingAlike, Reading!Reports
<1> QED BY <1>1, <1>2, <1>3, <1>4, <1>5

(* A view that is accepted. *)
LEMMA ReadingAccepts ==
  ASSUME Reading!WorkflowAssumption, NEW r \in Reading!Reports, r.view \in Reading!Servers
  PROVE  ReadingAlike(r, [r EXCEPT !.observed = @ + 1,
           !.accepted = @ \o SubSeq(r.view.versions, Len(@) + 1, Len(r.view.versions))])
<1> DEFINE more == SubSeq(r.view.versions, Len(r.accepted) + 1, Len(r.view.versions))
<1>1. /\ r.view.versions \in Seq(Nat) /\ Len(r.view.versions) \in Nat
      /\ r.accepted \in Seq(Nat) /\ Len(r.accepted) \in Nat
  BY DEF Reading!Reports, Reading!Servers
<1>2. \A k \in Len(r.accepted) + 1 .. Len(r.view.versions) : r.view.versions[k] \in Nat
  BY <1>1
<1>3. more \in Seq(Nat)
  BY <1>1, <1>2, SubSeqProperties
<1> HIDE DEF more
<1>4. r.accepted \o more \in Seq(Nat) /\ r.observed + 1 \in Nat
  BY <1>1, <1>3 DEF Reading!Reports
<1>5. ReadingAlike(r, [r EXCEPT !.observed = r.observed + 1, !.accepted = r.accepted \o more])
  BY <1>4 DEF ReadingAlike, Reading!Reports
<1> QED BY <1>5 DEF more

(* The stages of the process. *)
LEMMA ReadingWorks ==
  ASSUME Reading!WorkflowAssumption, ReadingIInv, Reading!Process
  PROVE  ReadingKept
<1>1. /\ server' = server /\ server \in Reading!Servers /\ ReadingPlace /\ at # "off"
      /\ Reading!Answered \/ (UNCHANGED clientVars /\ (at \in ReadingQuiet \/ sent["workflow"] = None))
  BY DEF Reading!Process, Reading!SetSeen, Reading!Snapshot, Reading!Observed, Reading!Bounded,
         Reading!Polled, Reading!Ready, Reading!Answers, Reading!AnswerObserved, Reading!Final,
         ReadingIInv, Reading!clientVars, clientVars, ReadingQuiet
<1>2. ClientStep(Reading!Requests) /\ Waits(ReadingQuiet)'
  <2>1. CASE Reading!Answered
    BY <2>1, HeardIsAStep, ReadingClient DEF ReadingIInv, ClientState, ClientIInv
  <2>2. CASE UNCHANGED clientVars /\ sent["workflow"] = None
    BY <2>2 DEF ClientStep, Waits, clientVars
  <2> QED BY <1>1, <2>1, <2>2 DEF Waits, ReadingIInv, ClientState
<1>3. report \in Reading!Reports /\ report.error = None
  BY <1>1, ReadingRun
<1>4. /\ {"KeyError", "ValueError", "TimeoutError"} \subseteq ErrorNames
      /\ N \in Nat \ {0} /\ Reading!Questions = 1 .. N
  BY ReadingNone DEF ErrorNames, Reading!Questions
<1>5. SUFFICES ReportsKept(Reading!Reports) /\ ReadingPlace'
  BY <1>1, <1>2 DEF ReadingKept, ClientKeeps
<1> USE Reading!WorkflowAssumption, ReadingIInv
(* An error, of the report as it is or with another field. *)
<1>6. ASSUME NEW new \in Reading!Reports, new.error = None, new.prior = report.prior,
             NEW error \in ErrorNames, Reading!Fails(new, error)
      PROVE  ReportsKept(Reading!Reports) /\ ReadingPlace'
  BY <1>1, <1>6, ReadingSaves, ReadingEnds
<1>7. /\ Reading!View \in Reading!Servers /\ Reading!View = server
  BY <1>1 DEF Reading!View, Reading!Servers
<1>8. CASE Reading!SetSeen
  <2> DEFINE new == [report EXCEPT !.set = TRUE, !.view = Reading!View]
  <2>1. new \in Reading!Reports /\ new.error = None /\ new.prior = report.prior /\ new.view \in Reading!Servers
    BY <1>3, <1>7, ReadingWrites DEF ReadingAlike
  <2>2. \/ Reading!Keeps(new) /\ Goto("snapshot", 0, 0)
        \/ Reading!Fails(report, "ValueError") \/ Reading!Fails(new, "ValueError")
    BY <1>8, ReadingClient DEF Reading!SetSeen
  <2> HIDE DEF new
  <2>3. CASE Reading!Keeps(new) /\ Goto("snapshot", 0, 0)
    <3>1. report' = new
      BY <2>3 DEF Reading!Keeps
    <3>2. ReadingPlace' /\ at' # "off"
      BY <2>1, <2>3, <3>1, ReadingGoto DEF ReadingStages
    <3> QED BY <1>1, <2>1, <2>3, <3>2, ReadingSaves
  <2>4. CASE Reading!Fails(report, "ValueError")
    BY <1>3, <1>4, <1>6, <2>4
  <2>5. CASE Reading!Fails(new, "ValueError")
    BY <1>4, <1>6, <2>1, <2>5
  <2> QED BY <2>2, <2>3, <2>4, <2>5
<1>9. CASE Reading!Snapshot
  <2>1. CASE UNCHANGED reportVars /\ Goto("observed", 0, 0)
    <3>1. report'.view \in Reading!Servers
      BY <1>1, <1>9, <2>1 DEF reportVars, Reading!Snapshot, ReadingPlace
    <3>2. ReadingPlace' /\ at' # "off"
      BY <2>1, <3>1, ReadingGoto DEF ReadingStages
    <3> QED BY <1>1, <2>1, <3>2, ReadingStays
  <2>2. CASE \E error \in Reading!SnapshotErrors : Reading!Fails(report, error)
    BY <1>3, <1>4, <1>6, <2>2 DEF Reading!SnapshotErrors
  <2> QED BY <1>9, <2>1, <2>2, ReadingClient DEF Reading!Snapshot, Reading!reportVars, reportVars
(* A view is accepted, or is not what was accepted before. *)
<1>10. ASSUME NEW new \in Reading!Reports, new.view \in Reading!Servers
       PROVE  LET more == [new EXCEPT !.observed = @ + 1,
                    !.accepted = @ \o SubSeq(new.view.versions, Len(@) + 1, Len(new.view.versions))]
              IN  more \in Reading!Reports /\ more.error = new.error /\ more.prior = new.prior
  BY <1>10, ReadingAccepts DEF ReadingAlike
<1>11. CASE Reading!Observed
  <2> DEFINE more == [report EXCEPT !.observed = @ + 1,
               !.accepted = @ \o SubSeq(report.view.versions, Len(@) + 1, Len(report.view.versions))]
  <2>1. more \in Reading!Reports /\ more.error = None /\ more.prior = report.prior
    <3>1. report.view \in Reading!Servers
      BY <1>1, <1>11 DEF Reading!Observed, ReadingPlace
    <3> HIDE DEF more
    <3> QED BY <1>3, <1>10, <3>1 DEF more
  <2>2. \/ Reading!Saves(more) /\ (Goto("poll", 0, step.count) \/ Goto("ready", 0, 0))
        \/ Reading!Fails(report, "ValueError")
    BY <1>11, ReadingClient DEF Reading!Observed, Reading!Accepts
  <2> HIDE DEF more
  <2>3. CASE Reading!Saves(more) /\ (Goto("poll", 0, step.count) \/ Goto("ready", 0, 0))
    <3>1. ReadingPlace' /\ at' # "off"
      BY <2>3, ReadingGoto DEF ReadingStages
    <3> QED BY <1>1, <2>1, <2>3, <3>1, ReadingSaves
  <2>4. CASE Reading!Fails(report, "ValueError")
    BY <1>3, <1>4, <1>6, <2>4
  <2> QED BY <2>2, <2>3, <2>4
<1>12. CASE Reading!Bounded
  <2>1. Reading!Fails(report, "TimeoutError")
    BY <1>12 DEF Reading!Bounded
  <2> QED BY <1>3, <1>4, <1>6, <2>1
<1>13. CASE Reading!Polled
  <2> DEFINE new == [report EXCEPT !.view = Reading!View]
  <2>1. new \in Reading!Reports /\ new.error = None /\ new.prior = report.prior /\ new.view \in Reading!Servers
    BY <1>3, <1>7, ReadingWrites DEF ReadingAlike
  <2>2. Reading!Keeps(new) /\ Goto("observed", 0, step.count + 1)
    BY <1>13, ReadingClient DEF Reading!Polled
  <2> HIDE DEF new
  <2>3. report' = new
    BY <2>2 DEF Reading!Keeps
  <2>4. ReadingPlace' /\ at' # "off"
    BY <2>1, <2>2, <2>3, ReadingGoto DEF ReadingStages
  <2> QED BY <1>1, <2>1, <2>2, <2>4, ReadingSaves
<1>14. CASE Reading!Ready
  <2> DEFINE last == [report EXCEPT !.status = "GENERATION_TERMINAL_NO_RETRY"]
             new == [report EXCEPT !.stored = server.versions]
  <2>1. last \in Reading!Reports /\ last.error = None /\ last.prior = report.prior
    BY <1>3, ReadingWrites DEF ReadingAlike
  <2>2. server.versions \in Seq(Nat)
    BY <1>1 DEF Reading!Servers
  <2>3. new \in Reading!Reports /\ new.error = None /\ new.prior = report.prior
    BY <1>3, <2>2, ReadingWrites DEF ReadingAlike
  <2>4. \/ Reading!Returns(last)
        \/ Reading!Keeps(new) /\ Goto("answer", 1, 0)
        \/ Reading!Fails(report, "ValueError")
    BY <1>14, ReadingClient DEF Reading!Ready, Reading!Persisted
  <2> HIDE DEF last, new
  <2>5. CASE Reading!Returns(last)
    BY <1>1, <2>1, <2>5, ReadingSaves, ReadingEnds
  <2>6. CASE Reading!Keeps(new) /\ Goto("answer", 1, 0)
    <3>1. ReadingPlace' /\ at' # "off"
      BY <1>4, <2>6, ReadingGoto DEF ReadingStages
    <3> QED BY <1>1, <2>3, <2>6, <3>1, ReadingSaves
  <2>7. CASE Reading!Fails(report, "ValueError")
    BY <1>3, <1>4, <1>6, <2>7
  <2> QED BY <2>4, <2>5, <2>6, <2>7
<1>15. CASE Reading!Answers
  <2> DEFINE new == [report EXCEPT !.answers = Append(report.answers, step.item)]
  <2>1. step.item \in Reading!Questions
    BY <1>1, <1>15 DEF Reading!Answers, ReadingPlace
  <2>2. new \in Reading!Reports /\ new.error = None /\ new.prior = report.prior
    BY <1>3, <2>1, ReadingWrites DEF ReadingAlike
  <2>3. Reading!Saves(new) /\ Goto("observe", step.item, 0)
    BY <1>15, ReadingClient DEF Reading!Answers
  <2> HIDE DEF new
  <2>4. ReadingPlace' /\ at' # "off"
    BY <2>1, <2>3, ReadingGoto DEF ReadingStages
  <2> QED BY <1>1, <2>2, <2>3, <2>4, ReadingSaves
<1>16. CASE Reading!AnswerObserved
  <2> DEFINE new == [report EXCEPT !.view = Reading!View]
             more == [new EXCEPT !.observed = @ + 1,
               !.accepted = @ \o SubSeq(new.view.versions, Len(@) + 1, Len(new.view.versions))]
  <2>1. step.item \in Reading!Questions
    BY <1>1, <1>16 DEF Reading!AnswerObserved, ReadingPlace
  <2>2. new \in Reading!Reports /\ new.error = None /\ new.prior = report.prior /\ new.view \in Reading!Servers
    BY <1>3, <1>7, ReadingWrites DEF ReadingAlike
  <2>3. \/ /\ Reading!Saves(more)
           /\ Goto("final", 0, 0) \/ (step.item # N /\ Goto("answer", step.item + 1, 0))
        \/ Reading!Fails(new, "ValueError")
    BY <1>16, ReadingClient DEF Reading!AnswerObserved, Reading!Accepts
  <2>4. more \in Reading!Reports /\ more.error = None /\ more.prior = report.prior
    <3> HIDE DEF new
    <3> QED BY <1>10, <2>2
  <2> HIDE DEF more, new
  <2>5. CASE /\ Reading!Saves(more)
             /\ Goto("final", 0, 0) \/ (step.item # N /\ Goto("answer", step.item + 1, 0))
    <3>1. ReadingPlace' /\ at' # "off"
      <4>1. CASE Goto("final", 0, 0)
        BY <4>1, ReadingGoto DEF ReadingStages
      <4>2. CASE step.item # N /\ Goto("answer", step.item + 1, 0)
        <5>1. step.item + 1 \in Reading!Questions
          BY <1>4, <2>1, <4>2
        <5> QED BY <4>2, <5>1, ReadingGoto DEF ReadingStages
      <4> QED BY <2>5, <4>1, <4>2
    <3> QED BY <1>1, <2>4, <2>5, <3>1, ReadingSaves
  <2>6. CASE Reading!Fails(new, "ValueError")
    BY <1>4, <1>6, <2>2, <2>6
  <2> QED BY <2>3, <2>5, <2>6
<1>17. CASE Reading!Final
  <2> DEFINE last == [report EXCEPT !.status = "COMPLETED"]
  <2>1. last \in Reading!Reports /\ last.error = None /\ last.prior = report.prior
    BY <1>3, ReadingWrites DEF ReadingAlike
  <2>2. Reading!Returns(last) \/ Reading!Fails(report, "ValueError")
    BY <1>17 DEF Reading!Final
  <2> HIDE DEF last
  <2>3. CASE Reading!Returns(last)
    BY <1>1, <2>1, <2>3, ReadingSaves, ReadingEnds
  <2>4. CASE Reading!Fails(report, "ValueError")
    BY <1>3, <1>4, <1>6, <2>4
  <2> QED BY <2>2, <2>3, <2>4
<1> QED BY <1>8, <1>9, <1>11, <1>12, <1>13, <1>14, <1>15, <1>16, <1>17 DEF Reading!Process

(* A run begins, or goes on with the report of another. *)
LEMMA ReadingOpens ==
  ASSUME Reading!WorkflowAssumption, ReadingIInv, Reading!Starts \/ Reading!Resumes
  PROVE  ReadingKept
<1>1. /\ server' = server /\ server \in Reading!Servers /\ at = "off" /\ UNCHANGED clientVars
      /\ runs < MaxRuns /\ TellsErrors /\ ReportsFit(Reading!Reports)
      /\ Goto("start", 0, 0) \/ Goto("again", 0, 0)
  BY ReadingClient DEF Reading!Starts, Reading!Resumes, ReadingIInv, ClientState, ClientIInv,
         Reading!clientVars, clientVars
<1>2. ClientStep(Reading!Requests) /\ Waits(ReadingQuiet)'
  BY <1>1, AloneIsAStep DEF ReadingIInv, ClientState, ReadingQuiet
<1>3. ReadingPlace' /\ at' # "off"
  BY <1>1, ReadingGoto DEF ReadingStages
<1>4. SUFFICES ReportsKept(Reading!Reports)
  BY <1>1, <1>2, <1>3 DEF ReadingKept, ClientKeeps
<1>5. CASE Reading!Starts
  <2> DEFINE new == [status |-> "STARTED", error |-> None, prior |-> 0, set |-> FALSE,
                     resumed |-> FALSE, view |-> None, observed |-> 0, accepted |-> <<>>,
                     stored |-> <<>>, answers |-> <<>>]
  <2>1. new \in Reading!Reports /\ new.error = None /\ new.prior = 0
    BY DEF Reading!Reports
  <2>2. artifact = None /\ Opens(new)
    BY <1>5, ReadingClient DEF Reading!Starts
  <2> HIDE DEF new
  <2> QED BY <1>1, <1>3, <2>1, <2>2, OpensNew
<1>6. CASE Reading!Resumes
  <2> DEFINE old == Preserved(artifact)
             new == [old EXCEPT !.status = "RESUMED_EXISTING_SET_ONLY", !.resumed = TRUE,
                       !.accepted = <<>>, !.view = None]
  <2>1. /\ artifact \in Reading!Reports /\ Opens(new)
        /\ "prior" \in DOMAIN artifact /\ "error" \in DOMAIN artifact
    BY <1>6, ReadingClient DEF Reading!Resumes, ReadingIInv, ClientState, Reading!Reports
  <2>2. old \in Reading!Reports /\ old.error = None
    <3>1. CASE artifact.error = None
      BY <2>1, <3>1 DEF Preserved
    <3>2. CASE artifact.error # None
      <4>1. old = [artifact EXCEPT !.error = None, !.prior = artifact.prior + 1]
        BY <3>2 DEF Preserved
      <4>2. artifact.prior + 1 \in Nat
        BY <2>1 DEF Reading!Reports
      <4> HIDE DEF old
      <4> QED BY <2>1, <4>1, <4>2 DEF Reading!Reports
    <3> QED BY <3>1, <3>2
  <2> HIDE DEF old
  <2>3. new \in Reading!Reports
    <3> DEFINE again == [old EXCEPT !.status = "RESUMED_EXISTING_SET_ONLY", !.resumed = TRUE]
    <3>1. again \in Reading!Reports
      BY <2>2 DEF Reading!Reports
    <3>2. new = [again EXCEPT !.accepted = <<>>, !.view = None]
      BY <2>2 DEF Reading!Reports
    <3> HIDE DEF again, new
    <3>3. <<>> \in Seq(Nat)
      OBVIOUS
    <3> QED BY <3>1, <3>2, <3>3 DEF Reading!Reports
  <2>4. new.error = None
    BY <2>2 DEF Reading!Reports
  <2>5. new.prior = old.prior
    BY <2>2 DEF Reading!Reports
  <2> HIDE DEF new
  <2> QED BY <1>1, <1>3, <2>1, <2>3, <2>4, <2>5, OpensAgain DEF old
<1> QED BY <1>5, <1>6

(* The back end. *)
LEMMA ReadingServes ==
  ASSUME Reading!WorkflowAssumption, server \in Reading!Servers,
         NEW id \in Reading!Requests \cup {Read}
  PROVE  Reading!Served(id) \in Reading!Servers
<1>1. CASE id # <<"start">> /\ id[1] = "answer"
  <2>1. id[2] \in Reading!Questions
    BY <1>1 DEF Reading!Requests, Read
  <2>2. Reading!Served(id) = [server EXCEPT !.answered[id[2]] = TRUE]
    BY <1>1 DEF Reading!Served
  <2> QED BY <2>1, <2>2 DEF Reading!Servers
<1>2. CASE id = <<"start">>
  <2>1. Reading!Served(id) = [server EXCEPT !.status = "GENERATING"]
    BY <1>2 DEF Reading!Served
  <2> QED BY <2>1 DEF Reading!Servers
<1>3. CASE id # <<"start">> /\ id[1] # "answer"
  BY <1>3 DEF Reading!Served
<1> QED BY <1>1, <1>2, <1>3
LEMMA ReadingServer ==
  ASSUME server \in Reading!Servers,
         Reading!Appears \/ Reading!Changes \/ Reading!GenerationEnds
  PROVE  server' \in Reading!Servers
<1>1. server.versions \in Seq(Nat)
  BY DEF Reading!Servers
<1>2. CASE Reading!Appears
  <2>1. server' = [server EXCEPT !.versions = Append(server.versions, 1)]
    BY <1>2 DEF Reading!Appears
  <2>2. Append(server.versions, 1) \in Seq(Nat)
    BY <1>1
  <2> QED BY <2>1, <2>2 DEF Reading!Servers
<1>3. CASE Reading!Changes
  <2>1. PICK q \in DOMAIN server.versions :
          server' = [server EXCEPT !.versions = [server.versions EXCEPT ![q] = @ + 1]]
    BY <1>3 DEF Reading!Changes
  <2>2. [server.versions EXCEPT ![q] = @ + 1] \in Seq(Nat)
    BY <1>1
  <2> QED BY <2>1, <2>2 DEF Reading!Servers
<1>4. CASE Reading!GenerationEnds
  BY <1>4 DEF Reading!GenerationEnds, Reading!Servers
<1> QED BY <1>2, <1>3, <1>4
(* Every step. *)
LEMMA ReadingSteps ==
  ASSUME Reading!WorkflowAssumption, ReadingIInv, Reading!Next \/ UNCHANGED Reading!vars
  PROVE  ReadingKept
<1>1. server \in Reading!Servers /\ ReadingPlace
  BY DEF ReadingIInv
<1>2. ASSUME ClientActs(Reading!Requests, ReadingQuiet), server' \in Reading!Servers
      PROVE  ReadingKept
  <2>1. /\ ClientKeeps(Reading!Requests, Reading!Reports, ReadingQuiet)
        /\ at' = "off" \/ UNCHANGED <<at, step, reportVars>>
    BY <1>2, ClientActsKeep DEF ReadingIInv
  <2>2. ReadingPlace'
    BY <1>1, <2>1 DEF ReadingPlace, ReadingStages, reportVars
  <2> QED BY <1>2, <2>1, <2>2 DEF ReadingKept
<1>3. Manual \subseteq Reading!Requests
  BY ReadingNone DEF ClientAssumption
<1>4. ASSUME NEW actor \in Actors, Reading!Reaches(actor) PROVE ReadingKept
  <2>1. sent[actor] # None => sent[actor].id \in Reading!Requests \cup {Read}
    BY DEF ReadingIInv, ClientState, ClientIInv, ClientShape, Sendings
  <2>2. server' \in Reading!Servers
    BY <1>1, <1>4, <2>1, ReadingServes DEF Reading!Reaches
  <2>3. Goes(actor, TRUE) /\ UNCHANGED <<at, step, reportVars>>
    BY <1>4, ReadingClient DEF Reading!Reaches, Reading!reportVars, reportVars
  <2> QED BY <1>2, <2>2, <2>3 DEF ClientActs
<1>5. CASE Reading!Starts \/ Reading!Resumes
  BY <1>5, ReadingOpens
<1>6. CASE Reading!Ask
  <2>1. Reading!Asks(Reading!Request) /\ at \notin ReadingQuiet
    BY <1>6 DEF Reading!Ask, ReadingQuiet
  <2>2. Reading!Request \in Reading!Requests \cup {Read}
    BY <1>1, ReadingClient DEF Reading!Request, Reading!Requests, ReadingPlace, ReadingStages
  <2>3. server' = server
    BY <2>1 DEF Reading!Asks
  <2> QED BY <1>1, <1>2, <2>1, <2>2, <2>3, ReadingClient DEF ClientActs
<1>7. CASE Reading!Reaches("workflow") \/ Reading!Reaches("operator")
  BY <1>4, <1>7 DEF Actors
<1>8. CASE Reading!Lost
  <2>1. Lost /\ server' = server
    BY <1>8, ReadingClient DEF Lost
  <2>2. ClientActs(Reading!Requests, ReadingQuiet)
    BY <2>1 DEF Lost, ClientActs, Actors
  <2> QED BY <1>1, <1>2, <2>1, <2>2
<1>9. CASE Reading!Process
  BY <1>9, ReadingWorks
<1>10. CASE Reading!Unanswered(Reading!Errors("ValueError"))
  <2>1. Unanswered(Reading!Errors("ValueError"))
    BY <1>10, ReadingClient
  <2>2. Reading!Errors("ValueError") \in SUBSET ErrorNames /\ server' = server
    BY <2>1 DEF Reading!Errors, ErrorNames, Unanswered
  <2> QED BY <1>1, <1>2, <2>1, <2>2 DEF ClientActs
<1>11. CASE Reading!ServerWorks
  <2>1. server' \in Reading!Servers
    BY <1>1, <1>11, ReadingServer DEF Reading!ServerWorks
  <2>2. UNCHANGED <<clientVars, at, step, reportVars>>
    BY <1>11 DEF Reading!ServerWorks, Reading!clientVars, clientVars, Reading!reportVars, reportVars
  <2> QED BY <1>2, <2>1, <2>2 DEF ClientActs
<1>12. CASE Reading!Killed \/ Reading!RemovesLock \/ Reading!Sends \/ Reading!Hears
  <2>1. Killed \/ RemovesLock \/ Sends \/ Hears
    BY <1>12, ReadingClient
  <2>2. server' = server
    BY <2>1 DEF Killed, RemovesLock, Sends, Hears
  <2> QED BY <1>1, <1>2, <1>3, <2>1, <2>2 DEF ClientActs
<1>13. CASE UNCHANGED Reading!vars
  <2>1. UNCHANGED <<clientVars, at, step, reportVars>> /\ server' = server
    BY <1>13 DEF Reading!vars, Reading!clientVars, clientVars, Reading!reportVars, reportVars
  <2> QED BY <1>1, <1>2, <2>1 DEF ClientActs
<1> QED BY <1>5, <1>6, <1>7, <1>8, <1>9, <1>10, <1>11, <1>12, <1>13
        DEF Reading!Next, Reading!Works

LEMMA ReadingInitially ==
  ASSUME Reading!WorkflowAssumption, Reading!Init
  PROVE  ReadingIInv
<1>1. ClientInit(Reading!Requests) /\ server = Reading!NoServer
    BY DEF Reading!Init, Reading!ClientInit, ClientInit, Reading!Actors, Actors
<1>2. ClientIInv(Reading!Requests)
    BY <1>1, ReadingNone, ClientStarts
<1>3. Waits(ReadingQuiet) /\ ReadingPlace /\ report = None /\ artifact = None /\ "off" \in ReadingQuiet
    BY <1>1 DEF ClientInit, Waits, Actors, ReadingPlace, ReadingStages, ReadingQuiet
<1>4. server \in Reading!Servers
    BY <1>1 DEF Reading!NoServer, Reading!Servers
<1> QED BY <1>2, <1>3, <1>4, ReadingReports DEF ReadingIInv, ClientState
LEMMA ReadingNext ==
  ASSUME Reading!WorkflowAssumption, ReadingIInv, Reading!Next \/ UNCHANGED Reading!vars
  PROVE  ReadingIInv'
BY ReadingSteps, ReadingNone, ClientGoesOn DEF ReadingIInv, ReadingKept

(* The reading workflow promises the same. *)
THEOREM ReadingClientCorrect ==
  ASSUME Reading!WorkflowAssumption
  PROVE  Reading!Spec => []ClientInv
<1>1. Reading!Init => ReadingIInv
  BY ReadingInitially
<1>2. ReadingIInv /\ [Reading!Next]_(Reading!vars) => ReadingIInv'
  BY ReadingNext
<1>3. ReadingIInv => ClientInv
  BY ClientPromises DEF ReadingIInv, ClientState
<1> QED BY <1>1, <1>2, <1>3, PTL DEF Reading!Spec
-----------------------------------------------------------------------------
(* The speaking workflow: its stages, and what its report and the back end are. *)
CONSTANTS ReadAloud, Probe, Turns
Speaking == INSTANCE SpeakingWorkflow

SpeakingStages ==
  {"off", "active", "create", "opening", "detail", "reread", "readback", "prepare", "grant", "silence",
   "silent", "rerecord", "turn", "audio", "evaluate", "evaluation", "turns done", "complete", "final"}
TurnStages ==
  {"readback", "prepare", "grant", "silence", "silent", "rerecord", "turn", "audio", "evaluate", "evaluation"}
SpeakingPlace ==
  /\ at \in SpeakingStages
  /\ at \in TurnStages => step.item \in 1 .. Turns
  /\ at \in {"evaluate", "evaluation"} => step.item \div 2 \in Speaking!Problems
  /\ at = "reread" => step.item \in DOMAIN report.priorProblems
SpeakingQuiet == {"off", "prepare"}
SpeakingIInv ==
  /\ ClientState(Speaking!Requests, Speaking!Reports, SpeakingQuiet)
  /\ SpeakingPlace /\ server \in Speaking!Servers
(* What a step of the workflow keeps. *)
SpeakingKept ==
  /\ ClientKeeps(Speaking!Requests, Speaking!Reports, SpeakingQuiet)
  /\ SpeakingPlace' /\ server' \in Speaking!Servers

(* The operators of the client are the same in the workflow. *)
LEMMA SpeakingClient ==
  /\ \A a, id : Speaking!Begin(a, id) = Begin(a, id)
  /\ \A a, got : Speaking!Goes(a, got) = Goes(a, got)
  /\ \A a, status : Speaking!Concluded(a, status) = Concluded(a, status)
  /\ Speaking!Answered = Answered
  /\ \A last, error : Speaking!Fails(last, error) = Fails(last, error)
  /\ \A new : Speaking!Returns(new) = Returns(new) /\ Speaking!Opens(new) = Opens(new)
  /\ \A new : Speaking!Saves(new) = Saves(new) /\ Speaking!Keeps(new) = Keeps(new)
  /\ \A stage, item, count : Speaking!Goto(stage, item, count) = Goto(stage, item, count)
  /\ \A old : Speaking!Preserved(old) = Preserved(old)
  /\ Speaking!Read = Read /\ \A id : Speaking!Asks(id) = Asks(id)
  /\ Speaking!Lost = Lost /\ \A errors : Speaking!Unanswered(errors) = Unanswered(errors)
  /\ Speaking!Killed = Killed /\ Speaking!RemovesLock = RemovesLock
  /\ Speaking!Sends = Sends /\ Speaking!Hears = Hears
<1>1. \A a, id : Speaking!Begin(a, id) = Begin(a, id)
  BY DEF Speaking!Begin, Begin, Speaking!Known, Known, Speaking!OneShots, OneShots
<1>2. \A a, got : Speaking!Goes(a, got) = Goes(a, got)
  BY DEF Speaking!Goes, Goes, Speaking!OneShots, OneShots
<1>3. \A a, status : Speaking!Concluded(a, status) = Concluded(a, status)
  BY DEF Speaking!Concluded, Concluded, Speaking!OneShots, OneShots
<1>4. Speaking!Answered = Answered
  BY <1>3 DEF Speaking!Answered, Answered
<1>5. \A last, error : Speaking!Fails(last, error) = Fails(last, error)
  BY DEF Speaking!Fails, Fails
<1>6. \A new : Speaking!Returns(new) = Returns(new) /\ Speaking!Opens(new) = Opens(new)
  BY DEF Speaking!Returns, Returns, Speaking!Opens, Opens
<1>7. \A new : Speaking!Saves(new) = Saves(new) /\ Speaking!Keeps(new) = Keeps(new)
  BY DEF Speaking!Saves, Saves, Speaking!Keeps, Keeps
<1>8. \A stage, item, count : Speaking!Goto(stage, item, count) = Goto(stage, item, count)
  BY DEF Speaking!Goto, Goto
<1>9. \A old : Speaking!Preserved(old) = Preserved(old)
  BY DEF Speaking!Preserved, Preserved
<1>10. Speaking!Read = Read /\ \A id : Speaking!Asks(id) = Asks(id)
  BY <1>1, <1>5 DEF Speaking!Asks, Asks, Speaking!Refusal, Refusal, Speaking!reportVars, reportVars,
     Speaking!clientVars, clientVars, Speaking!Read, Read
<1>11. Speaking!Lost = Lost
  BY <1>2 DEF Speaking!Lost, Lost, Speaking!Read, Read, Speaking!reportVars, reportVars
<1>12. \A errors : Speaking!Unanswered(errors) = Unanswered(errors)
  BY <1>3, <1>5 DEF Speaking!Unanswered, Unanswered
<1>13. Speaking!Killed = Killed /\ Speaking!RemovesLock = RemovesLock
  BY DEF Speaking!Killed, Killed, Speaking!RemovesLock, RemovesLock, Speaking!reportVars, reportVars
<1>14. Speaking!Sends = Sends /\ Speaking!Hears = Hears
  BY <1>1, <1>3 DEF Speaking!Sends, Sends, Speaking!Hears, Hears, Speaking!reportVars, reportVars
<1> QED BY <1>1, <1>2, <1>3, <1>4, <1>5, <1>6, <1>7, <1>8, <1>9, <1>10, <1>11, <1>12, <1>13, <1>14

(* What the assumption gives. *)
LEMMA SpeakingNone ==
  ASSUME Speaking!WorkflowAssumption
  PROVE  /\ ClientAssumption(Speaking!Requests) /\ Turns \in Nat \ {0}
         /\ None \notin Speaking!Reports /\ None \notin ErrorNames
BY DEF Speaking!WorkflowAssumption, Speaking!ClientAssumption, ClientAssumption, Speaking!Statuses,
       Statuses, Speaking!ErrorNames, ErrorNames, Speaking!Actors, Actors, Speaking!Sendings, Sendings,
       Speaking!Read, Read
LEMMA SpeakingReports ==
  ASSUME Speaking!WorkflowAssumption
  PROVE  ReportsFit(Speaking!Reports)
<1>1. \A r \in Speaking!Reports : r.prior \in Nat
  BY DEF Speaking!Reports
<1>2. ASSUME NEW r \in Speaking!Reports, NEW error \in ErrorNames, NEW status \in {"FAILED", "INTERRUPTED"}
      PROVE  LET kept == [r EXCEPT !.error = error, !.status = status]
             IN  kept \in Speaking!Reports /\ kept.error = error /\ kept.prior = r.prior
  BY DEF Speaking!Reports, Speaking!ErrorNames, ErrorNames
<1>3. None \notin Speaking!Reports /\ None \notin ErrorNames
  BY SpeakingNone
<1> QED BY <1>1, <1>2, <1>3 DEF ReportsFit

LEMMA SpeakingRun ==
  ASSUME Speaking!WorkflowAssumption, SpeakingIInv, at # "off"
  PROVE  /\ Running(Speaking!Reports)
         /\ report \in Speaking!Reports /\ report.error = None
<1>1. Running(Speaking!Reports)
  BY SpeakingReports DEF Running, SpeakingIInv, ClientIInv, ClientState
<1> QED BY <1>1, RunReport

(* Where a stage leads. *)
LEMMA SpeakingGoto ==
  ASSUME NEW stage \in SpeakingStages, NEW item, NEW count, Goto(stage, item, count),
         stage \in TurnStages => item \in 1 .. Turns,
         stage \in {"evaluate", "evaluation"} => item \div 2 \in Speaking!Problems,
         stage = "reread" => item \in DOMAIN report'.priorProblems
  PROVE  SpeakingPlace' /\ at' = stage
BY DEF Goto, SpeakingPlace, Speaking!Problems
LEMMA SpeakingOver ==
  ASSUME at' = "off" PROVE SpeakingPlace'
BY DEF SpeakingPlace, SpeakingStages, TurnStages
LEMMA SpeakingTurn ==
  ASSUME Speaking!WorkflowAssumption, NEW t \in 1 .. Turns + 1, Speaking!TurnStage(t)
  PROVE  SpeakingPlace' /\ at' # "off"
<1>1. \/ Goto("turns done", 0, 0)
      \/ t \in 1 .. Turns /\ Goto("readback", t, 0)
      \/ t \in 1 .. Turns /\ Goto("prepare", t, 0)
  <2>1. t > Turns \/ t \in 1 .. Turns
    BY SpeakingNone
  <2> QED BY <2>1, SpeakingNone, SpeakingClient DEF Speaking!TurnStage
<1>2. CASE Goto("turns done", 0, 0)
  BY <1>2, SpeakingGoto DEF SpeakingStages, TurnStages
<1>3. CASE t \in 1 .. Turns /\ Goto("readback", t, 0)
  BY <1>3, SpeakingGoto DEF SpeakingStages, TurnStages
<1>4. CASE t \in 1 .. Turns /\ Goto("prepare", t, 0)
  BY <1>4, SpeakingGoto DEF SpeakingStages, TurnStages
<1> QED BY <1>1, <1>2, <1>3, <1>4

(* The ways a run goes on: with another report, the same, none, or an error. *)
LEMMA SpeakingSaves ==
  ASSUME Speaking!WorkflowAssumption, SpeakingIInv, at # "off",
         NEW new \in Speaking!Reports, new.error = None, new.prior = report.prior,
         \/ Speaking!Saves(new) /\ at' # "off"
         \/ Speaking!Keeps(new) /\ at' # "off"
         \/ Speaking!Returns(new)
         \/ \E error \in ErrorNames : Speaking!Fails(new, error)
  PROVE  ReportsKept(Speaking!Reports)
<1>1. Running(Speaking!Reports)
  BY SpeakingRun
<1>2. CASE (Saves(new) \/ Keeps(new)) /\ at' # "off"
  BY <1>1, <1>2, GoesOn
<1>3. CASE Returns(new)
  BY <1>1, <1>3, EndsWell
<1>4. CASE \E error \in ErrorNames : Fails(new, error)
  BY <1>1, <1>4, EndsInError
<1> QED BY <1>2, <1>3, <1>4, SpeakingClient
LEMMA SpeakingStays ==
  ASSUME Speaking!WorkflowAssumption, SpeakingIInv, at # "off", at' # "off", UNCHANGED reportVars
  PROVE  ReportsKept(Speaking!Reports)
BY SpeakingRun, StaysOn
LEMMA SpeakingEnds ==
  ASSUME NEW new, Speaking!Returns(new) \/ \E error \in ErrorNames : Speaking!Fails(new, error)
  PROVE  SpeakingPlace' /\ at' = "off"
BY SpeakingOver DEF Speaking!Returns, Speaking!Fails

(* The statuses a run writes of itself when it ends. *)
Endings == {"TURN_FAILED_NO_RETRY", "SILENCE_REJECTION_NOT_AS_EXPECTED",
            "AUTHORIZED_RETRY_DID_NOT_PRESERVE_STT_NO_FURTHER_RETRY",
            "EVALUATION_NOT_EVALUATED_NO_RETRY", "COMPLETED_WITH_NON_EVALUABLE_PROBLEM",
            "INSUFFICIENT_REAL_AUDIO_DURATION_NO_PADDING", "COMPLETED"}
USE DEF Endings

(* A report with another entry tells of the same errors. *)
SpeakingAlike(r, new) ==
  new \in Speaking!Reports /\ new.error = r.error /\ new.prior = r.prior
LEMMA SpeakingWrites ==
  ASSUME Speaking!WorkflowAssumption, NEW r \in Speaking!Reports
  PROVE  /\ SpeakingAlike(r, [r EXCEPT !.session = TRUE])
         /\ \A t \in 1 .. Turns, record \in Speaking!TurnRecords :
              SpeakingAlike(r, [r EXCEPT !.turns[t] = record])
         /\ \A t \in 1 .. Turns, status \in Speaking!TurnStatuses :
              SpeakingAlike(r, [r EXCEPT !.turns[t].status = status])
         /\ \A p \in Speaking!Problems, status \in Speaking!Evaluations :
              LET new == [r EXCEPT !.problems = Append(@, [problem |-> p, status |-> status])]
              IN  SpeakingAlike(r, new) /\ new.priorProblems = r.priorProblems
         /\ \A s \in Endings :
              SpeakingAlike(r, [r EXCEPT !.status = s])
<1>1. SpeakingAlike(r, [r EXCEPT !.session = TRUE])
  BY DEF SpeakingAlike, Speaking!Reports
<1>2. ASSUME NEW t \in 1 .. Turns, NEW record \in Speaking!TurnRecords
      PROVE  SpeakingAlike(r, [r EXCEPT !.turns[t] = record])
  BY DEF SpeakingAlike, Speaking!Reports
<1>3. ASSUME NEW t \in 1 .. Turns, NEW status \in Speaking!TurnStatuses
      PROVE  SpeakingAlike(r, [r EXCEPT !.turns[t].status = status])
  <2> DEFINE record == [r.turns[t] EXCEPT !.status = status]
  <2>1. record \in Speaking!TurnRecords
    BY DEF Speaking!TurnRecords, Speaking!Reports
  <2>2. [r EXCEPT !.turns[t].status = status] = [r EXCEPT !.turns[t] = record]
    OBVIOUS
  <2> HIDE DEF record
  <2> QED BY <1>2, <2>1, <2>2
<1>4. ASSUME NEW p \in Speaking!Problems, NEW status \in Speaking!Evaluations
      PROVE  LET new == [r EXCEPT !.problems = Append(@, [problem |-> p, status |-> status])]
             IN  SpeakingAlike(r, new) /\ new.priorProblems = r.priorProblems
  <2> DEFINE more == Append(r.problems, [problem |-> p, status |-> status])
  <2>1. r.problems \in Speaking!ProblemRecords
    BY DEF Speaking!Reports
  <2>2. more \in Speaking!ProblemRecords
    BY <2>1 DEF Speaking!ProblemRecords
  <2> HIDE DEF more
  <2>3. SpeakingAlike(r, [r EXCEPT !.problems = more])
    BY <2>2 DEF SpeakingAlike, Speaking!Reports
  <2>4. [r EXCEPT !.problems = more].priorProblems = r.priorProblems
    BY DEF Speaking!Reports
  <2> QED BY <2>3, <2>4 DEF more
<1>5. ASSUME NEW s \in Endings
      PROVE  SpeakingAlike(r, [r EXCEPT !.status = s])
  BY DEF SpeakingAlike, Speaking!Reports
<1> QED BY <1>1, <1>2, <1>3, <1>4, <1>5

(* The stages that wait for an answer: what they share. *)
LEMMA SpeakingAnswered ==
  ASSUME Speaking!WorkflowAssumption, Speaking!Hears200
  PROVE  /\ at # "off" /\ server' = server
         /\ Answered \/ Concluded("workflow", "HTTP_FAILED")
BY SpeakingClient
DEF Speaking!Hears200, Speaking!NoneActive, Speaking!Created, Speaking!OpeningHeard, Speaking!DetailRead,
    Speaking!ProblemReread, Speaking!TurnReadBack, Speaking!Granted, Speaking!SilenceSent,
    Speaking!SilenceSeen, Speaking!RerecordGranted, Speaking!TurnTaken, Speaking!AudioReadBack,
    Speaking!EvaluationAsked, Speaking!ProblemPolled, Speaking!TurnsDone, Speaking!CompletionAsked,
    Speaking!FinalPolled

LEMMA SpeakingHears ==
  ASSUME Speaking!WorkflowAssumption, SpeakingIInv, Speaking!Hears200
  PROVE  SpeakingKept
<1>1. /\ server' = server /\ server \in Speaking!Servers /\ SpeakingPlace /\ at # "off"
      /\ Answered \/ Concluded("workflow", "HTTP_FAILED")
  BY SpeakingAnswered DEF SpeakingIInv
<1>2. ClientStep(Speaking!Requests) /\ Waits(SpeakingQuiet)'
  BY <1>1, HeardIsAStep DEF SpeakingIInv, ClientState, ClientIInv
<1>3. report \in Speaking!Reports /\ report.error = None
  BY <1>1, SpeakingRun
<1>4. {"ValueError", "TimeoutError"} \subseteq ErrorNames /\ Turns \in Nat \ {0}
  BY SpeakingNone DEF ErrorNames
<1>5. SUFFICES ReportsKept(Speaking!Reports) /\ SpeakingPlace'
  BY <1>1, <1>2 DEF SpeakingKept, ClientKeeps
<1> USE Speaking!WorkflowAssumption, SpeakingIInv
<1> DEFINE Good == ReportsKept(Speaking!Reports) /\ SpeakingPlace'
           Same(new) == new \in Speaking!Reports /\ new.error = None /\ new.prior = report.prior
(* The ways a stage is left. *)
<1>6. ASSUME NEW new, Same(new),
             \/ Speaking!Returns(new)
             \/ Speaking!Fails(new, "ValueError") \/ Speaking!Fails(new, "TimeoutError")
      PROVE  Good
  <2>1. Speaking!Returns(new) \/ \E error \in ErrorNames : Speaking!Fails(new, error)
    BY <1>4, <1>6
  <2> QED BY <1>1, <1>6, <2>1, SpeakingSaves, SpeakingEnds
<1>7. ASSUME NEW new, Same(new), Speaking!Saves(new) \/ Speaking!Keeps(new), SpeakingPlace', at' # "off"
      PROVE  Good
  BY <1>1, <1>7, SpeakingSaves
<1>8. ASSUME UNCHANGED reportVars, SpeakingPlace', at' # "off"
      PROVE  Good
  BY <1>1, <1>8, SpeakingStays
<1>9. ASSUME NEW stage \in SpeakingStages \ (TurnStages \cup {"off", "reread"}), Goto(stage, 0, 0)
      PROVE  SpeakingPlace' /\ at' # "off"
  BY <1>9, SpeakingGoto DEF TurnStages
<1>10. ASSUME NEW stage \in TurnStages \ {"evaluate", "evaluation"}, step.item \in 1 .. Turns, Goto(stage, step.item, 0)
       PROVE  SpeakingPlace' /\ at' # "off"
  BY <1>10, SpeakingGoto DEF SpeakingStages, TurnStages
<1>11. ASSUME step.item \in 1 .. Turns, Speaking!TurnStage(step.item + 1)
       PROVE  SpeakingPlace' /\ at' # "off"
  <2>1. step.item + 1 \in 1 .. Turns + 1
    BY <1>4, <1>11
  <2> QED BY <1>11, <2>1, SpeakingTurn
<1>12. ASSUME Speaking!PollsOn
       PROVE  Good
  <2>1. UNCHANGED reportVars /\ Goto(at, step.item, step.count + 1) /\ report' = report
    BY <1>12, SpeakingClient DEF Speaking!PollsOn, Speaking!reportVars, reportVars
  <2>2. SpeakingPlace' /\ at' # "off"
    BY <1>1, <2>1 DEF Goto, SpeakingPlace
  <2> QED BY <1>8, <2>1, <2>2
<1>13. Same(report)
  BY <1>3
<1>14. UNCHANGED Speaking!reportVars => UNCHANGED reportVars
  BY DEF Speaking!reportVars, reportVars
<1>15. ASSUME NEW r, Same(r)
       PROVE  /\ Same([r EXCEPT !.session = TRUE])
              /\ \A t \in 1 .. Turns, record \in Speaking!TurnRecords : Same([r EXCEPT !.turns[t] = record])
              /\ \A p \in Speaking!Problems, status \in Speaking!Evaluations :
                   LET new == [r EXCEPT !.problems = Append(@, [problem |-> p, status |-> status])]
                   IN  Same(new) /\ new.priorProblems = r.priorProblems
              /\ \A s \in Endings :
                   Same([r EXCEPT !.status = s])
  <2>1. ASSUME NEW new, SpeakingAlike(r, new) PROVE Same(new)
    BY <1>15, <2>1 DEF SpeakingAlike
  <2>2. r \in Speaking!Reports
    BY <1>15
  <2> HIDE DEF Same
  <2>3. Same([r EXCEPT !.session = TRUE])
    BY <2>1, <2>2, SpeakingWrites
  <2>4. \A t \in 1 .. Turns, record \in Speaking!TurnRecords : Same([r EXCEPT !.turns[t] = record])
    BY <2>1, <2>2, SpeakingWrites
  <2>5. ASSUME NEW p \in Speaking!Problems, NEW status \in Speaking!Evaluations
        PROVE  LET new == [r EXCEPT !.problems = Append(@, [problem |-> p, status |-> status])]
               IN  Same(new) /\ new.priorProblems = r.priorProblems
    BY <2>1, <2>2, SpeakingWrites
  <2>6. ASSUME NEW s \in Endings
        PROVE  Same([r EXCEPT !.status = s])
    BY <2>1, <2>2, SpeakingWrites
  <2> QED BY <2>3, <2>4, <2>5, <2>6
<1>16. /\ \A t \in 1 .. Turns : server.turns[t] \in Speaking!TurnRecords
       /\ \A p \in Speaking!Problems : server.problems[p] \in Speaking!Evaluations
       /\ server.evaluation \in Speaking!Evaluations
  BY <1>1 DEF Speaking!Servers
<1> HIDE DEF Good, Same
<1>17. CASE Speaking!NoneActive
  <2>1. CASE UNCHANGED reportVars /\ Goto("create", 0, 0)
    BY <1>8, <1>9, <2>1 DEF Good, SpeakingStages, TurnStages
  <2>2. CASE Speaking!Fails(report, "ValueError")
    BY <1>6, <1>13, <2>2 DEF Good
  <2> QED BY <1>14, <1>17, <2>1, <2>2, SpeakingClient DEF Speaking!NoneActive
<1>18. CASE Speaking!Created
  <2> DEFINE new == [report EXCEPT !.session = TRUE]
  <2>1. Speaking!Saves(new) /\ Goto("opening", 0, 0)
    BY <1>18, SpeakingClient DEF Speaking!Created
  <2>2. Same(new)
    BY <1>13, <1>15
  <2> HIDE DEF new
  <2>3. SpeakingPlace' /\ at' # "off"
    BY <1>9, <2>1 DEF SpeakingStages, TurnStages
  <2> QED BY <1>7, <2>1, <2>2, <2>3 DEF Good
<1>19. CASE Speaking!OpeningHeard
  <2>1. CASE UNCHANGED reportVars /\ Speaking!TurnStage(1)
    <3>1. 1 \in 1 .. Turns + 1
      BY <1>4
    <3> QED BY <1>8, <2>1, <3>1, SpeakingTurn DEF Good
  <2>2. CASE Speaking!Fails(report, "ValueError")
    BY <1>6, <1>13, <2>2 DEF Good
  <2> QED BY <1>14, <1>19, <2>1, <2>2 DEF Speaking!OpeningHeard, Speaking!AudioRaises
<1>20. CASE Speaking!DetailRead
  <2>1. CASE Speaking!Fails(report, "ValueError")
    BY <1>6, <1>13, <2>1 DEF Good
  <2>2. CASE UNCHANGED reportVars /\ Speaking!TurnStage(1)
    <3>1. 1 \in 1 .. Turns + 1
      BY <1>4
    <3> QED BY <1>8, <2>2, <3>1, SpeakingTurn DEF Good
  <2>3. CASE UNCHANGED reportVars /\ report.priorProblems # <<>> /\ Goto("reread", 1, 0)
    <3>1. report.priorProblems \in Seq([problem : Speaking!Problems, status : Speaking!Evaluations])
      BY <1>3 DEF Speaking!Reports, Speaking!ProblemRecords
    <3>2. 1 \in DOMAIN report'.priorProblems
      BY <2>3, <3>1 DEF reportVars
    <3>3. SpeakingPlace' /\ at' # "off"
      BY <2>3, <3>2, SpeakingGoto DEF SpeakingStages, TurnStages
    <3> QED BY <1>8, <2>3, <3>3 DEF Good
  <2> QED BY <1>14, <1>20, <2>1, <2>2, <2>3, SpeakingClient DEF Speaking!DetailRead
(* The outcome of a problem: added, or added at the end. *)
<1>21. ASSUME NEW p \in Speaking!Problems, NEW status \in Speaking!Evaluations
       PROVE  LET new == [report EXCEPT !.problems = Append(@, [problem |-> p, status |-> status])]
              IN  /\ Same(new) /\ new.priorProblems = report.priorProblems
                  /\ Same([new EXCEPT !.status = "EVALUATION_NOT_EVALUATED_NO_RETRY"])
  BY <1>13, <1>15
<1>22. CASE Speaking!ProblemReread
  <2> DEFINE p == report.priorProblems[step.item].problem
             status == server.problems[p]
             new == [report EXCEPT !.problems = Append(@, [problem |-> p, status |-> status])]
             last == [new EXCEPT !.status = "EVALUATION_NOT_EVALUATED_NO_RETRY"]
  <2>1. /\ report.priorProblems \in Seq([problem : Speaking!Problems, status : Speaking!Evaluations])
        /\ step.item \in DOMAIN report.priorProblems
    BY <1>1, <1>3, <1>22 DEF Speaking!Reports, Speaking!ProblemRecords, Speaking!ProblemReread, SpeakingPlace
  <2>2. p \in Speaking!Problems
    <3> DEFINE records == [problem : Speaking!Problems, status : Speaking!Evaluations]
               prior == report.priorProblems
    <3>1. prior \in Seq(records) /\ step.item \in DOMAIN prior
      BY <2>1
    <3> HIDE DEF records, prior
    <3>2. step.item \in 1 .. Len(prior)
      BY <3>1
    <3>3. prior[step.item] \in records
      BY <3>1, <3>2, ElementOfSeq
    <3> QED BY <3>3 DEF records, prior
  <2>3. Same(new) /\ Same(last) /\ new.priorProblems = report.priorProblems
    <3> HIDE DEF p
    <3>1. status \in Speaking!Evaluations
      BY <1>16, <2>2
    <3> HIDE DEF status
    <3> QED BY <1>21, <2>2, <3>1
  <2>4. \/ Speaking!PollsOn \/ Speaking!Fails(report, "TimeoutError")
        \/ Speaking!Returns(last) \/ Speaking!Fails(new, "ValueError")
        \/ /\ Speaking!Keeps(new)
           /\ \/ Speaking!TurnStage(1)
              \/ step.item # Len(report.priorProblems) /\ Goto("reread", step.item + 1, 0)
    BY <1>22, SpeakingClient DEF Speaking!ProblemReread, Speaking!EvidenceRaises
  <2> HIDE DEF new, last
  <2>5. CASE Speaking!Keeps(new) /\ Speaking!TurnStage(1)
    <3>1. 1 \in 1 .. Turns + 1
      BY <1>4
    <3> QED BY <1>7, <2>3, <2>5, <3>1, SpeakingTurn DEF Good
  <2>6. CASE Speaking!Keeps(new) /\ step.item # Len(report.priorProblems) /\ Goto("reread", step.item + 1, 0)
    <3>1. report' = new /\ step.item + 1 \in DOMAIN report.priorProblems
      BY <2>1, <2>6 DEF Speaking!Keeps
    <3>2. step.item + 1 \in DOMAIN report'.priorProblems
      BY <2>3, <3>1
    <3>3. SpeakingPlace' /\ at' # "off"
      BY <2>6, <3>2, SpeakingGoto DEF SpeakingStages, TurnStages
    <3> QED BY <1>7, <2>3, <2>6, <3>3 DEF Good
  <2>7. CASE Speaking!PollsOn
    BY <1>12, <2>7 DEF Good
  <2>8. CASE Speaking!Fails(report, "TimeoutError")
    BY <1>6, <1>13, <2>8 DEF Good
  <2>9. CASE Speaking!Returns(last) \/ Speaking!Fails(new, "ValueError")
    BY <1>6, <2>3, <2>9 DEF Good
  <2> QED BY <2>4, <2>5, <2>6, <2>7, <2>8, <2>9
<1>23. CASE Speaking!TurnReadBack
  <2> DEFINE t == step.item
             new == [report EXCEPT !.turns[t] = server.turns[t]]
             last == [report EXCEPT !.status = "AUTHORIZED_RETRY_DID_NOT_PRESERVE_STT_NO_FURTHER_RETRY"]
  <2>1. t \in 1 .. Turns
    BY <1>1, <1>23 DEF Speaking!TurnReadBack, SpeakingPlace, TurnStages
  <2>2. Same(new) /\ Same(last)
    BY <1>13, <1>15, <1>16, <2>1
  <2>3. \/ Speaking!Returns(last) \/ Speaking!Fails(new, "ValueError") \/ Speaking!Fails(report, "ValueError")
        \/ Speaking!Keeps(new) /\ Speaking!TurnStage(step.item + 1)
        \/ UNCHANGED reportVars /\ Speaking!TurnStage(step.item + 1)
    BY <1>14, <1>23 DEF Speaking!TurnReadBack, Speaking!AudioRaises
  <2> HIDE DEF new, last
  <2>4. CASE Speaking!Returns(last) \/ Speaking!Fails(new, "ValueError") \/ Speaking!Fails(report, "ValueError")
    BY <1>6, <1>13, <2>2, <2>4 DEF Good
  <2>5. CASE Speaking!Keeps(new) /\ Speaking!TurnStage(step.item + 1)
    BY <1>7, <1>11, <2>1, <2>2, <2>5 DEF Good
  <2>6. CASE UNCHANGED reportVars /\ Speaking!TurnStage(step.item + 1)
    BY <1>8, <1>11, <2>1, <2>6 DEF Good
  <2> QED BY <2>3, <2>4, <2>5, <2>6
<1>24. CASE Speaking!Granted \/ Speaking!SilenceSent \/ Speaking!RerecordGranted
  <2>1. step.item \in 1 .. Turns /\ UNCHANGED reportVars
    BY <1>1, <1>14, <1>24
    DEF Speaking!Granted, Speaking!SilenceSent, Speaking!RerecordGranted, SpeakingPlace, TurnStages
  <2>2. \E stage \in {"silence", "silent", "turn"} : Goto(stage, step.item, 0)
    BY <1>24, SpeakingClient DEF Speaking!Granted, Speaking!SilenceSent, Speaking!RerecordGranted
  <2>3. SpeakingPlace' /\ at' # "off"
    BY <1>10, <2>1, <2>2 DEF TurnStages
  <2> QED BY <1>8, <2>1, <2>3 DEF Good
<1>25. CASE Speaking!SilenceSeen
  <2> DEFINE last == [report EXCEPT !.status = "SILENCE_REJECTION_NOT_AS_EXPECTED"]
  <2>1. step.item \in 1 .. Turns /\ Same(last)
    BY <1>1, <1>13, <1>15, <1>25 DEF Speaking!SilenceSeen, SpeakingPlace, TurnStages
  <2>2. \/ Speaking!Saves(report) /\ Goto("rerecord", step.item, 0)
        \/ Speaking!Fails(report, "ValueError") \/ Speaking!Returns(last)
    BY <1>25, SpeakingClient DEF Speaking!SilenceSeen, Speaking!AudioRaises
  <2> HIDE DEF last
  <2>3. CASE Speaking!Saves(report) /\ Goto("rerecord", step.item, 0)
    BY <1>7, <1>10, <1>13, <2>1, <2>3 DEF Good, TurnStages
  <2>4. CASE Speaking!Fails(report, "ValueError") \/ Speaking!Returns(last)
    BY <1>6, <1>13, <2>1, <2>4 DEF Good
  <2> QED BY <2>2, <2>3, <2>4
<1>26. CASE Speaking!TurnTaken
  <2> DEFINE new == [report EXCEPT !.turns[step.item] = server.turns[step.item]]
             last == [new EXCEPT !.status = "TURN_FAILED_NO_RETRY"]
  <2>1. step.item \in 1 .. Turns
    BY <1>1, <1>26 DEF Speaking!TurnTaken, SpeakingPlace, TurnStages
  <2>2. Same(new)
    BY <1>13, <1>15, <1>16, <2>1
  <2>3. Same(last)
    BY <1>15, <2>2
  <2>4. \/ Speaking!Saves(new) /\ Goto("audio", step.item, 0)
        \/ Speaking!Returns(last)
    BY <1>26, SpeakingClient DEF Speaking!TurnTaken
  <2> HIDE DEF new, last
  <2>5. CASE Speaking!Saves(new) /\ Goto("audio", step.item, 0)
    BY <1>7, <1>10, <2>1, <2>2, <2>5 DEF Good, TurnStages
  <2>6. CASE Speaking!Returns(last)
    BY <1>6, <2>3, <2>6 DEF Good
  <2> QED BY <2>4, <2>5, <2>6
<1>27. CASE Speaking!AudioReadBack
  <2>1. step.item \in 1 .. Turns
    BY <1>1, <1>27 DEF Speaking!AudioReadBack, SpeakingPlace, TurnStages
  <2>2. CASE ReadAloud /\ step.item % 2 = 0 /\ UNCHANGED reportVars /\ Goto("evaluate", step.item, 0)
    <3>1. step.item \div 2 \in 1 .. Turns \div 2
      BY <1>4, <2>1, <2>2
    <3>2. step.item \div 2 \in Speaking!Problems
      BY <2>2, <3>1 DEF Speaking!Problems
    <3>3. SpeakingPlace' /\ at' # "off"
      BY <2>1, <2>2, <3>2, SpeakingGoto DEF SpeakingStages, TurnStages
    <3> QED BY <1>8, <2>2, <3>3 DEF Good
  <2>3. CASE Speaking!Saves(report) /\ Speaking!TurnStage(step.item + 1)
    BY <1>7, <1>11, <1>13, <2>1, <2>3 DEF Good
  <2>4. CASE Speaking!Fails(report, "ValueError")
    BY <1>6, <1>13, <2>4 DEF Good
  <2> QED BY <1>14, <1>27, <2>2, <2>3, <2>4, SpeakingClient DEF Speaking!AudioReadBack, Speaking!AudioRaises
<1>28. CASE Speaking!EvaluationAsked
  <2>1. /\ step.item \in 1 .. Turns /\ step.item \div 2 \in Speaking!Problems
        /\ UNCHANGED reportVars /\ Goto("evaluation", step.item, 0)
    BY <1>1, <1>14, <1>28, SpeakingClient DEF Speaking!EvaluationAsked, SpeakingPlace, TurnStages
  <2>2. SpeakingPlace' /\ at' # "off"
    BY <2>1, SpeakingGoto DEF SpeakingStages, TurnStages
  <2> QED BY <1>8, <2>1, <2>2 DEF Good
<1>29. CASE Speaking!ProblemPolled
  <2> DEFINE p == step.item \div 2
             status == server.problems[p]
             new == [report EXCEPT !.problems = Append(@, [problem |-> p, status |-> status])]
             last == [new EXCEPT !.status = "EVALUATION_NOT_EVALUATED_NO_RETRY"]
  <2>1. p \in Speaking!Problems /\ step.item \in 1 .. Turns
    BY <1>1, <1>29 DEF Speaking!ProblemPolled, SpeakingPlace, TurnStages
  <2>2. Same(new) /\ Same(last)
    <3> HIDE DEF p
    <3>1. status \in Speaking!Evaluations
      BY <1>16, <2>1
    <3> HIDE DEF status
    <3> QED BY <1>21, <2>1, <3>1
  <2>3. \/ Speaking!PollsOn \/ Speaking!Fails(report, "TimeoutError")
        \/ Speaking!Returns(last) \/ Speaking!Fails(new, "ValueError")
        \/ Speaking!Saves(new) /\ Speaking!TurnStage(step.item + 1)
    BY <1>29 DEF Speaking!ProblemPolled, Speaking!EvidenceRaises
  <2> HIDE DEF new, last
  <2>4. CASE Speaking!PollsOn
    BY <1>12, <2>4 DEF Good
  <2>5. CASE Speaking!Fails(report, "TimeoutError")
    BY <1>6, <1>13, <2>5 DEF Good
  <2>6. CASE Speaking!Returns(last) \/ Speaking!Fails(new, "ValueError")
    BY <1>6, <2>2, <2>6 DEF Good
  <2>7. CASE Speaking!Saves(new) /\ Speaking!TurnStage(step.item + 1)
    BY <1>7, <1>11, <2>1, <2>2, <2>7 DEF Good
  <2> QED BY <2>3, <2>4, <2>5, <2>6, <2>7
<1>30. CASE Speaking!TurnsDone \/ Speaking!CompletionAsked
  <2>1. UNCHANGED reportVars /\ \E stage \in {"final", "complete"} : Goto(stage, 0, 0)
    BY <1>14, <1>30, SpeakingClient DEF Speaking!TurnsDone, Speaking!CompletionAsked
  <2> QED BY <1>8, <1>9, <2>1 DEF Good, SpeakingStages, TurnStages
<1>31. CASE Speaking!FinalPolled
  <2> DEFINE last == [report EXCEPT !.status = Speaking!Outcome]
             short == [report EXCEPT !.status = "INSUFFICIENT_REAL_AUDIO_DURATION_NO_PADDING"]
  <2>1. Speaking!Outcome \in {"EVALUATION_NOT_EVALUATED_NO_RETRY", "COMPLETED_WITH_NON_EVALUABLE_PROBLEM", "COMPLETED"}
    BY DEF Speaking!Outcome
  <2>2. Same(last) /\ Same(short)
    BY <1>13, <1>15, <2>1
  <2>3. \/ Speaking!Returns(last) \/ Speaking!Returns(short) \/ Speaking!PollsOn
        \/ Speaking!Fails(report, "ValueError") \/ Speaking!Fails(report, "TimeoutError")
    BY <1>31 DEF Speaking!FinalPolled, Speaking!EvidenceRaises
  <2> HIDE DEF last, short
  <2>4. CASE Speaking!PollsOn
    BY <1>12, <2>4 DEF Good
  <2>5. CASE Speaking!Returns(last) \/ Speaking!Returns(short)
    BY <1>6, <2>2, <2>5 DEF Good
  <2>6. CASE Speaking!Fails(report, "ValueError") \/ Speaking!Fails(report, "TimeoutError")
    BY <1>6, <1>13, <2>6 DEF Good
  <2> QED BY <2>3, <2>4, <2>5, <2>6
<1> QED BY <1>17, <1>18, <1>19, <1>20, <1>22, <1>23, <1>24, <1>25, <1>26, <1>27, <1>28, <1>29, <1>30, <1>31
        DEF Speaking!Hears200

(* A turn is begun, without a request. *)
LEMMA SpeakingPrepares ==
  ASSUME Speaking!WorkflowAssumption, SpeakingIInv, Speaking!Prepared, server' = server
  PROVE  SpeakingKept
<1>1. /\ server \in Speaking!Servers /\ at = "prepare" /\ UNCHANGED clientVars /\ step.item \in 1 .. Turns
  BY DEF Speaking!Prepared, SpeakingIInv, SpeakingPlace, TurnStages, Speaking!clientVars, clientVars
<1>2. ClientStep(Speaking!Requests) /\ Waits(SpeakingQuiet)'
  BY <1>1, AloneIsAStep DEF SpeakingIInv, ClientState, SpeakingQuiet
<1>3. at # "off" /\ report \in Speaking!Reports /\ report.error = None /\ "ValueError" \in ErrorNames
  BY <1>1, SpeakingRun DEF ErrorNames
<1>4. ASSUME NEW status \in Speaking!TurnStatuses
      PROVE  /\ Speaking!Begun(status) \in Speaking!Reports
             /\ Speaking!Begun(status).error = None /\ Speaking!Begun(status).prior = report.prior
  BY <1>1, <1>3, SpeakingWrites DEF SpeakingAlike, Speaking!Begun
<1>5. {"STARTED", "PREPARING_SYNTHETIC_AUDIO"} \subseteq Speaking!TurnStatuses
  BY DEF Speaking!TurnStatuses
<1>6. CASE Speaking!Saves(Speaking!Begun("STARTED")) /\ Goto("grant", step.item, 0)
  <2>1. SpeakingPlace' /\ at' # "off"
    BY <1>1, <1>6, SpeakingGoto DEF SpeakingStages, TurnStages
  <2>2. ReportsKept(Speaking!Reports)
    BY <1>3, <1>4, <1>5, <1>6, <2>1, SpeakingSaves
  <2> QED BY <1>1, <1>2, <2>1, <2>2 DEF SpeakingKept, ClientKeeps
<1>7. CASE Speaking!Fails(Speaking!Begun("PREPARING_SYNTHETIC_AUDIO"), "ValueError")
  <2>1. ReportsKept(Speaking!Reports) /\ SpeakingPlace'
    BY <1>3, <1>4, <1>5, <1>7, SpeakingSaves, SpeakingEnds
  <2> QED BY <1>1, <1>2, <2>1 DEF SpeakingKept, ClientKeeps
<1> QED BY <1>6, <1>7, SpeakingClient DEF Speaking!Prepared, Speaking!LearnerRaises

(* A run begins, or goes on with the report of another. *)
LEMMA SpeakingOpens ==
  ASSUME Speaking!WorkflowAssumption, SpeakingIInv, Speaking!Starts \/ Speaking!Resumes
  PROVE  SpeakingKept
<1>1. /\ server' = server /\ server \in Speaking!Servers /\ at = "off" /\ UNCHANGED clientVars
      /\ runs < MaxRuns /\ TellsErrors /\ ReportsFit(Speaking!Reports)
      /\ Goto("active", 0, 0) \/ Goto("detail", 0, 0)
  BY SpeakingClient DEF Speaking!Starts, Speaking!Resumes, SpeakingIInv, ClientState, ClientIInv,
         Speaking!clientVars, clientVars
<1>2. ClientStep(Speaking!Requests) /\ Waits(SpeakingQuiet)'
  BY <1>1, AloneIsAStep DEF SpeakingIInv, ClientState, SpeakingQuiet
<1>3. SpeakingPlace' /\ at' # "off"
  BY <1>1, SpeakingGoto DEF SpeakingStages, TurnStages
<1>4. SUFFICES ReportsKept(Speaking!Reports)
  BY <1>1, <1>2, <1>3 DEF SpeakingKept, ClientKeeps
<1>5. CASE Speaking!Starts
  <2> DEFINE new == [status |-> "STARTED", error |-> None, prior |-> 0, session |-> FALSE,
                     resumed |-> FALSE, turns |-> [t \in 1 .. Turns |-> Speaking!NoTurn],
                     problems |-> <<>>, priorProblems |-> <<>>, retried |-> FALSE]
  <2>1. Speaking!NoTurn \in Speaking!TurnRecords /\ <<>> \in Speaking!ProblemRecords
    BY DEF Speaking!NoTurn, Speaking!TurnRecords, Speaking!ProblemRecords
  <2>2. new \in Speaking!Reports /\ new.error = None /\ new.prior = 0
    BY <2>1 DEF Speaking!Reports
  <2>3. artifact = None /\ Opens(new)
    BY <1>5, SpeakingClient DEF Speaking!Starts
  <2> HIDE DEF new
  <2> QED BY <1>1, <1>3, <2>2, <2>3, OpensNew
<1>6. CASE Speaking!Resumes
  <2> DEFINE old == Preserved(artifact)
             prior == IF artifact.problems # <<>> THEN artifact.problems ELSE old.priorProblems
             retried == Speaking!FailedConversation(artifact)
             new == [old EXCEPT !.status = "RESUMED_EXISTING_SESSION_ONLY", !.resumed = TRUE,
                       !.problems = <<>>, !.priorProblems = prior, !.retried = retried]
  <2>1. /\ artifact \in Speaking!Reports /\ Opens(new)
        /\ "prior" \in DOMAIN artifact /\ "error" \in DOMAIN artifact
    BY <1>6, SpeakingClient DEF Speaking!Resumes, SpeakingIInv, ClientState, Speaking!Reports
  <2>2. old \in Speaking!Reports /\ old.error = None
    <3>1. CASE artifact.error = None
      BY <2>1, <3>1 DEF Preserved
    <3>2. CASE artifact.error # None
      <4>1. old = [artifact EXCEPT !.error = None, !.prior = artifact.prior + 1]
        BY <3>2 DEF Preserved
      <4>2. artifact.prior + 1 \in Nat
        BY <2>1 DEF Speaking!Reports
      <4> HIDE DEF old
      <4> QED BY <2>1, <4>1, <4>2 DEF Speaking!Reports
    <3> QED BY <3>1, <3>2
  <2>3. prior \in Speaking!ProblemRecords /\ <<>> \in Speaking!ProblemRecords
    <3> HIDE DEF old
    <3> QED BY <2>1, <2>2 DEF Speaking!Reports, Speaking!ProblemRecords
  <2>4. retried \in BOOLEAN
    BY DEF Speaking!FailedConversation
  <2> HIDE DEF old, prior, retried
  <2>5. new \in Speaking!Reports
    <3> DEFINE again == [old EXCEPT !.status = "RESUMED_EXISTING_SESSION_ONLY", !.resumed = TRUE]
    <3>1. again \in Speaking!Reports
      BY <2>2 DEF Speaking!Reports
    <3>2. new = [again EXCEPT !.problems = <<>>, !.priorProblems = prior, !.retried = retried]
      BY <2>2 DEF Speaking!Reports
    <3> HIDE DEF again, new
    <3>3. [again EXCEPT !.problems = <<>>, !.priorProblems = prior] \in Speaking!Reports
      BY <2>3, <3>1 DEF Speaking!Reports
    <3> QED BY <2>4, <3>1, <3>2, <3>3 DEF Speaking!Reports
  <2>6. new.error = None
    BY <2>2 DEF Speaking!Reports
  <2>7. new.prior = old.prior
    BY <2>2 DEF Speaking!Reports
  <2> HIDE DEF new
  <2> QED BY <1>1, <1>3, <2>1, <2>5, <2>6, <2>7, OpensAgain DEF old
<1> QED BY <1>5, <1>6

(* The back end. *)
LEMMA SpeakingTaken ==
  ASSUME NEW t \in 1 .. Turns, server \in Speaking!Servers,
         NEW new \in Speaking!Taken(server.turns[t]) \cup Speaking!Retried(server.turns[t])
                       \cup Speaking!Silent(server.turns[t])
  PROVE  [server EXCEPT !.turns[t] = new] \in Speaking!Servers
<1>1. server.turns[t] \in Speaking!TurnRecords
  BY DEF Speaking!Servers
<1>2. new \in Speaking!TurnRecords
  <2>1. CASE new \in Speaking!Taken(server.turns[t]) \cup Speaking!Silent(server.turns[t])
    BY <1>1, <2>1 DEF Speaking!Taken, Speaking!Silent, Speaking!TurnRecords, Speaking!TurnStatuses
  <2>2. CASE new \in Speaking!Retried(server.turns[t])
    BY <1>1, <2>2 DEF Speaking!Retried, Speaking!TurnRecords, Speaking!TurnStatuses
  <2> QED BY <2>1, <2>2
<1> QED BY <1>2 DEF Speaking!Servers
LEMMA SpeakingServes ==
  ASSUME Speaking!WorkflowAssumption, server \in Speaking!Servers,
         NEW id \in Speaking!Requests \cup {Read}, NEW new \in Speaking!Served(id)
  PROVE  new \in Speaking!Servers
<1>1. 1 \in 1 .. Turns
  BY SpeakingNone
<1>2. /\ id[1] \in {"turn", "again", "retry turn"} => id[2] \in 1 .. Turns
      /\ id[1] \in {"evaluate", "retry problem"} => id[2] \in Speaking!Problems
  <2>1. CASE id \in {<<"create">>, <<"complete">>, <<"retry evaluation">>, <<"read">>}
    <3>1. PICK name \in {"create", "complete", "retry evaluation", "read"} : id = <<name>>
      BY <2>1
    <3>2. id[1] = name
      BY <3>1
    <3> QED BY <3>1, <3>2
  <2>2. CASE id \in {"grant", "turn", "rerecord", "again", "retry turn"} \X (1 .. Turns)
    BY <2>2
  <2>3. CASE id \in {"evaluate", "retry problem"} \X Speaking!Problems
    BY <2>3
  <2> QED BY <2>1, <2>2, <2>3 DEF Speaking!Requests, Read
<1>3. \/ new = server
      \/ new = [server EXCEPT !.session = "IN_PROGRESS"]
      \/ new = [server EXCEPT !.evaluation = "EVALUATING"]
      \/ \E p \in Speaking!Problems : new = [server EXCEPT !.problems[p] = "EVALUATING"]
      \/ \E t \in 1 .. Turns :
           \E record \in Speaking!Taken(server.turns[t]) \cup Speaking!Retried(server.turns[t])
                           \cup Speaking!Silent(server.turns[t]) :
             new = [server EXCEPT !.turns[t] = record]
  BY <1>1, <1>2 DEF Speaking!Served, Speaking!Turned
<1>4. CASE \E t \in 1 .. Turns :
             \E record \in Speaking!Taken(server.turns[t]) \cup Speaking!Retried(server.turns[t])
                             \cup Speaking!Silent(server.turns[t]) :
               new = [server EXCEPT !.turns[t] = record]
  BY <1>4, SpeakingTaken
<1>5. CASE new = [server EXCEPT !.session = "IN_PROGRESS"]
  BY <1>5 DEF Speaking!Servers
<1>6. CASE new = [server EXCEPT !.evaluation = "EVALUATING"]
  BY <1>6 DEF Speaking!Servers, Speaking!Evaluations
<1>7. CASE \E p \in Speaking!Problems : new = [server EXCEPT !.problems[p] = "EVALUATING"]
  BY <1>7 DEF Speaking!Servers, Speaking!Evaluations
<1> QED BY <1>3, <1>4, <1>5, <1>6, <1>7
LEMMA SpeakingServer ==
  ASSUME server \in Speaking!Servers, Speaking!ProblemEvaluated \/ Speaking!SessionEvaluated
  PROVE  server' \in Speaking!Servers
<1>1. Speaking!Outcomes \subseteq Speaking!Evaluations
  BY DEF Speaking!Outcomes, Speaking!Evaluations
<1>2. CASE Speaking!ProblemEvaluated
  BY <1>1, <1>2 DEF Speaking!ProblemEvaluated, Speaking!Servers
<1>3. CASE Speaking!SessionEvaluated
  BY <1>1, <1>3 DEF Speaking!SessionEvaluated, Speaking!Servers
<1> QED BY <1>2, <1>3
(* Every step. *)
LEMMA SpeakingSteps ==
  ASSUME Speaking!WorkflowAssumption, SpeakingIInv, Speaking!Next \/ UNCHANGED Speaking!vars
  PROVE  SpeakingKept
<1>1. server \in Speaking!Servers /\ SpeakingPlace
  BY DEF SpeakingIInv
<1>2. ASSUME ClientActs(Speaking!Requests, SpeakingQuiet), server' \in Speaking!Servers
      PROVE  SpeakingKept
  <2>1. /\ ClientKeeps(Speaking!Requests, Speaking!Reports, SpeakingQuiet)
        /\ at' = "off" \/ UNCHANGED <<at, step, reportVars>>
    BY <1>2, ClientActsKeep DEF SpeakingIInv
  <2>2. SpeakingPlace'
    BY <1>1, <2>1 DEF SpeakingPlace, SpeakingStages, TurnStages, reportVars
  <2> QED BY <1>2, <2>1, <2>2 DEF SpeakingKept
<1>3. Manual \subseteq Speaking!Requests
  BY SpeakingNone DEF ClientAssumption
<1>4. ASSUME NEW actor \in Actors, Speaking!Reaches(actor) PROVE SpeakingKept
  <2>1. sent[actor] # None => sent[actor].id \in Speaking!Requests \cup {Read}
    BY DEF SpeakingIInv, ClientState, ClientIInv, ClientShape, Sendings
  <2>2. server' \in Speaking!Servers
    BY <1>1, <1>4, <2>1, SpeakingServes DEF Speaking!Reaches
  <2>3. Goes(actor, TRUE) /\ UNCHANGED <<at, step, reportVars>>
    BY <1>4, SpeakingClient DEF Speaking!Reaches, Speaking!reportVars, reportVars
  <2> QED BY <1>2, <2>2, <2>3 DEF ClientActs
<1>5. CASE Speaking!Starts \/ Speaking!Resumes
  BY <1>5, SpeakingOpens
<1>6. CASE Speaking!Ask
  <2>1. Speaking!Asks(Speaking!Request) /\ at \notin SpeakingQuiet
    BY <1>6 DEF Speaking!Ask, SpeakingQuiet
  <2>2. Speaking!Request \in Speaking!Requests \cup {Read}
    BY <1>1, SpeakingClient DEF Speaking!Request, Speaking!Requests, SpeakingPlace, TurnStages
  <2>3. server' = server
    BY <2>1 DEF Speaking!Asks
  <2> QED BY <1>1, <1>2, <2>1, <2>2, <2>3, SpeakingClient DEF ClientActs
<1>7. CASE Speaking!Reaches("workflow") \/ Speaking!Reaches("operator")
  BY <1>4, <1>7 DEF Actors
<1>8. CASE Speaking!Lost
  <2>1. Lost /\ server' = server
    BY <1>8, SpeakingClient DEF Lost
  <2>2. ClientActs(Speaking!Requests, SpeakingQuiet)
    BY <2>1 DEF Lost, ClientActs, Actors
  <2> QED BY <1>1, <1>2, <2>1, <2>2
<1>9. CASE Speaking!Hears200 \/ (Speaking!Prepared /\ UNCHANGED server)
  BY <1>9, SpeakingHears, SpeakingPrepares
<1>10. CASE Speaking!Unanswered(Speaking!Errors("RuntimeError") \ (IF at = "silence" THEN {"RuntimeError"} ELSE {}))
  <2> DEFINE errors == Speaking!Errors("RuntimeError") \ (IF at = "silence" THEN {"RuntimeError"} ELSE {})
  <2>1. Unanswered(errors)
    BY <1>10, SpeakingClient
  <2>2. errors \in SUBSET ErrorNames /\ server' = server
    BY <2>1 DEF Speaking!Errors, ErrorNames, Unanswered
  <2> HIDE DEF errors
  <2> QED BY <1>1, <1>2, <2>1, <2>2 DEF ClientActs
<1>11. CASE Speaking!ServerWorks
  <2>1. server' \in Speaking!Servers
    BY <1>1, <1>11, SpeakingServer DEF Speaking!ServerWorks
  <2>2. UNCHANGED <<clientVars, at, step, reportVars>>
    BY <1>11 DEF Speaking!ServerWorks, Speaking!clientVars, clientVars, Speaking!reportVars, reportVars
  <2> QED BY <1>2, <2>1, <2>2 DEF ClientActs
<1>12. CASE Speaking!Killed \/ Speaking!RemovesLock \/ Speaking!Sends \/ Speaking!Hears
  <2>1. Killed \/ RemovesLock \/ Sends \/ Hears
    BY <1>12, SpeakingClient
  <2>2. server' = server
    BY <2>1 DEF Killed, RemovesLock, Sends, Hears
  <2> QED BY <1>1, <1>2, <1>3, <2>1, <2>2 DEF ClientActs
<1>13. CASE UNCHANGED Speaking!vars
  <2>1. UNCHANGED <<clientVars, at, step, reportVars>> /\ server' = server
    BY <1>13 DEF Speaking!vars, Speaking!clientVars, clientVars, Speaking!reportVars, reportVars
  <2> QED BY <1>1, <1>2, <2>1 DEF ClientActs
<1> QED BY <1>5, <1>6, <1>7, <1>8, <1>9, <1>10, <1>11, <1>12, <1>13
        DEF Speaking!Next, Speaking!Works

LEMMA SpeakingInitially ==
  ASSUME Speaking!WorkflowAssumption, Speaking!Init
  PROVE  SpeakingIInv
<1>1. ClientInit(Speaking!Requests) /\ server = Speaking!NoServer
  BY DEF Speaking!Init, Speaking!ClientInit, ClientInit, Speaking!Actors, Actors
<1>2. ClientIInv(Speaking!Requests)
  BY <1>1, SpeakingNone, ClientStarts
<1>3. Waits(SpeakingQuiet) /\ SpeakingPlace /\ report = None /\ artifact = None /\ "off" \in SpeakingQuiet
  BY <1>1 DEF ClientInit, Waits, Actors, SpeakingPlace, SpeakingStages, TurnStages, SpeakingQuiet
<1>4. server \in Speaking!Servers
  BY <1>1 DEF Speaking!NoServer, Speaking!NoTurn, Speaking!Servers, Speaking!TurnRecords, Speaking!Evaluations
<1> QED BY <1>2, <1>3, <1>4, SpeakingReports DEF SpeakingIInv, ClientState
LEMMA SpeakingNext ==
  ASSUME Speaking!WorkflowAssumption, SpeakingIInv, Speaking!Next \/ UNCHANGED Speaking!vars
  PROVE  SpeakingIInv'
BY SpeakingSteps, SpeakingNone, ClientGoesOn DEF SpeakingIInv, SpeakingKept

(* The speaking workflow promises the same, in whatever mode. *)
THEOREM SpeakingClientCorrect ==
  ASSUME Speaking!WorkflowAssumption
  PROVE  Speaking!Spec => []ClientInv
<1>1. Speaking!Init => SpeakingIInv
  BY SpeakingInitially
<1>2. SpeakingIInv /\ [Speaking!Next]_(Speaking!vars) => SpeakingIInv'
  BY SpeakingNext
<1>3. SpeakingIInv => ClientInv
  BY ClientPromises DEF SpeakingIInv, ClientState
<1> QED BY <1>1, <1>2, <1>3, PTL DEF Speaking!Spec
-----------------------------------------------------------------------------
(* What the workflows report is true. *)

(* What has gone out was counted. A request keeps its identity until it is concluded. *)
OutIsCounted(ids) == \A a \in Actors :
  sent[a] # None /\ sent[a].id \in ids /\ (sent[a].out \/ sent[a].got) => reached[sent[a].id] # 0
LEMMA SendingGoesOn ==
  ASSUME NEW ids, ClientAssumption(ids), ClientShape(ids), ClientStep(ids), NEW a \in Actors,
         sent'[a] # None
  PROVE  \/ sent'[a] = sent[a]
         \/ \E id \in ids \cup {Read} :
              Begin(a, id) /\ sent'[a] = [id |-> id, out |-> FALSE, got |-> FALSE]
         \/ \E got \in BOOLEAN :
              /\ Goes(a, got) /\ sent[a] # None /\ sent'[a].id = sent[a].id
              /\ sent'[a].out /\ sent'[a].got = got
<1>1. ASSUME NEW b \in Actors, NEW value, sent' = [sent EXCEPT ![b] = value]
      PROVE  sent'[a] = (IF a = b THEN value ELSE sent[a])
  BY <1>1 DEF ClientShape
<1>2. CASE UNCHANGED sent
  BY <1>2
<1>3. ASSUME NEW b \in Actors, NEW id \in ids \cup {Read}, Begin(b, id)
      PROVE  \/ sent'[a] = sent[a]
             \/ Begin(a, id) /\ sent'[a] = [id |-> id, out |-> FALSE, got |-> FALSE]
  BY <1>1, <1>3 DEF Begin
<1>4. ASSUME NEW b \in Actors, NEW got \in BOOLEAN, Goes(b, got)
      PROVE  \/ sent'[a] = sent[a]
             \/ /\ Goes(a, got) /\ sent[a] # None /\ sent'[a].id = sent[a].id
                /\ sent'[a].out /\ sent'[a].got = got
  <2>1. sent' = [sent EXCEPT ![b] = [sent[b] EXCEPT !.out = TRUE, !.got = got]] /\ sent[b] # None
    BY <1>4 DEF Goes, ClientShape
  <2>2. sent[b] \in Sendings(ids)
    BY <2>1 DEF ClientShape
  <2> DEFINE new == [sent[b] EXCEPT !.out = TRUE, !.got = got]
  <2>3. new.id = sent[b].id /\ new.out = TRUE /\ new.got = got
    BY <2>2 DEF Sendings
  <2>4. sent'[a] = IF a = b THEN new ELSE sent[a]
    BY <1>1, <2>1
  <2> HIDE DEF new
  <2> QED BY <1>4, <2>1, <2>3, <2>4
<1>5. ASSUME NEW b \in Actors, NEW status, Concluded(b, status) PROVE sent'[a] = sent[a]
  <2>1. sent' = [sent EXCEPT ![b] = None]
    BY <1>5 DEF Concluded
  <2> QED BY <1>1, <2>1
<1>6. CASE sent' = [sent EXCEPT !["workflow"] = None]
  BY <1>1, <1>6 DEF Actors
<1> QED BY <1>2, <1>3, <1>4, <1>5, <1>6 DEF ClientStep, clientVars
LEMMA CountsGrow ==
  ASSUME NEW ids, ClientAssumption(ids), ClientShape(ids), ClientStep(ids)
  PROVE  /\ \A id \in ids : reached[id] # 0 => reached'[id] # 0
         /\ OutIsCounted(ids) => OutIsCounted(ids)'
<1>1. DOMAIN reached = ids /\ DOMAIN entries = ids /\ \A id \in ids : reached[id] \in Nat
  BY DEF ClientShape
<1>2. ASSUME NEW a \in Actors, NEW got \in BOOLEAN, Goes(a, got)
      PROVE  /\ \A id \in ids : reached[id] # 0 => reached'[id] # 0
             /\ sent[a] # None /\ (sent[a].id \in ids => reached'[sent[a].id] # 0)
  <2>1. /\ sent[a] # None
        /\ reached' = IF sent[a].id \in OneShots THEN [reached EXCEPT ![sent[a].id] = @ + 1] ELSE reached
    BY <1>2 DEF Goes
  <2>2. \A id \in ids :
          reached'[id] = IF id = sent[a].id THEN reached[id] + 1 ELSE reached[id]
    BY <1>1, <2>1 DEF OneShots
  <2> QED BY <1>1, <2>1, <2>2
<1>3. UNCHANGED reached \/ \E a \in Actors, got \in BOOLEAN : Goes(a, got)
  BY DEF ClientStep, clientVars, Begin, Concluded
<1>4. \A id \in ids : reached[id] # 0 => reached'[id] # 0
  BY <1>2, <1>3
<1>5. ASSUME OutIsCounted(ids), NEW a \in Actors, sent'[a] # None, sent'[a].id \in ids,
             sent'[a].out \/ sent'[a].got
      PROVE  reached'[sent'[a].id] # 0
  <2>1. CASE sent'[a] = sent[a]
    BY <1>4, <1>5, <2>1 DEF OutIsCounted
  <2>2. CASE \E got \in BOOLEAN : Goes(a, got) /\ sent'[a].id = sent[a].id
    BY <1>2, <1>5, <2>2
  <2>3. CASE \E id : sent'[a] = [id |-> id, out |-> FALSE, got |-> FALSE]
    BY <1>5, <2>3
  <2> QED BY <1>5, <2>1, <2>2, <2>3, SendingGoesOn
<1> QED BY <1>4, <1>5 DEF OutIsCounted

(* A step at which nothing gets to the back end: the workflow asks for what its stage needs,
   the operator for what he may send. *)
Unheard(request) ==
  \/ UNCHANGED clientVars \/ Begin("workflow", request)
  \/ \E id \in Manual : Begin("operator", id)
  \/ \E a \in Actors : Goes(a, FALSE)
  \/ \E a \in Actors : \E status : Concluded(a, status)
  \/ Killed \/ RemovesLock
LEMMA GoesKeeps ==
  ASSUME NEW ids, ClientAssumption(ids), ClientShape(ids), NEW b \in Actors, NEW got \in BOOLEAN,
         Goes(b, got), NEW a \in Actors, sent'[a] # None
  PROVE  /\ sent[a] # None /\ sent'[a].id = sent[a].id
         /\ sent'[a] = sent[a] \/ (a = b /\ sent'[a].got = got)
<1> DEFINE new == [sent[b] EXCEPT !.out = TRUE, !.got = got]
<1>1. sent' = [sent EXCEPT ![b] = new] /\ sent[b] # None /\ sent[b] \in Sendings(ids)
  BY DEF Goes, ClientShape
<1>2. new.id = sent[b].id /\ new.got = got
  BY <1>1 DEF Sendings
<1> HIDE DEF new
<1>3. sent'[a] = IF a = b THEN new ELSE sent[a]
  BY <1>1 DEF ClientShape
<1> QED BY <1>1, <1>2, <1>3
LEMMA UnheardKeeps ==
  ASSUME NEW ids, ClientAssumption(ids), ClientShape(ids), NEW request, Unheard(request),
         NEW a \in Actors, sent'[a] # None
  PROVE  /\ sent'[a].got => sent'[a] = sent[a]
         /\ \/ sent[a] # None /\ sent'[a].id = sent[a].id
            \/ a = "workflow" /\ sent'[a].id = request
            \/ a = "operator" /\ sent'[a].id \in Manual
<1>1. ASSUME NEW b \in Actors, NEW value, sent' = [sent EXCEPT ![b] = value]
      PROVE  sent'[a] = IF a = b THEN value ELSE sent[a]
  BY <1>1 DEF ClientShape
<1>2. ASSUME NEW b \in Actors, NEW id, Begin(b, id)
      PROVE  /\ sent'[a].got => sent'[a] = sent[a]
             /\ sent'[a] = sent[a] \/ (a = b /\ sent'[a].id = id)
  BY <1>1, <1>2 DEF Begin
<1>3. ASSUME NEW b \in Actors, Goes(b, FALSE)
      PROVE  (sent'[a].got => sent'[a] = sent[a]) /\ sent[a] # None /\ sent'[a].id = sent[a].id
  BY <1>3, GoesKeeps
<1>4. ASSUME NEW b \in Actors, NEW status, Concluded(b, status) PROVE sent'[a] = sent[a]
  BY <1>1, <1>4 DEF Concluded
<1>5. Killed => sent'[a] = sent[a]
  BY <1>1 DEF Killed, Actors
<1>6. RemovesLock \/ UNCHANGED clientVars => sent'[a] = sent[a]
  BY DEF RemovesLock, clientVars
<1>7. CASE Begin("workflow", request)
  BY <1>2, <1>7 DEF Actors
<1>8. ASSUME NEW id \in Manual, Begin("operator", id)
      PROVE  /\ sent'[a].got => sent'[a] = sent[a]
             /\ sent'[a] = sent[a] \/ (a = "operator" /\ sent'[a].id \in Manual)
  <2>1. "operator" \in Actors
    BY DEF Actors
  <2> QED BY <1>2, <1>8, <2>1
<1>9. CASE \E id \in Manual : Begin("operator", id)
  BY <1>8, <1>9
<1>10. CASE sent'[a] = sent[a]
  BY <1>10
<1> QED BY <1>3, <1>4, <1>5, <1>6, <1>7, <1>9, <1>10 DEF Unheard
-----------------------------------------------------------------------------
(* The reading workflow. Questions only appear or get a new version, and an answer stays. *)
NotNewer(v, w) == Len(v) <= Len(w) /\ \A q \in 1 .. Len(v) : v[q] <= w[q]
ReadingGrows(old, new) ==
  /\ NotNewer(old.versions, new.versions)
  /\ \A q \in Reading!Questions : old.answered[q] => new.answered[q]
(* A set that is ready has all its questions. *)
ReadingWhole(set) == Len(set.versions) <= N /\ (set.status = "READY" => Len(set.versions) = N)

(* A run is not over, and neither is its report; what it has seen was there. *)
ReadingUnder ==
  /\ report.status # "COMPLETED" /\ artifact # None /\ artifact.status # "COMPLETED"
  /\ report.view # None => ReadingWhole(report.view) /\ ReadingGrows(report.view, server)
(* The questions accepted are those of the last view, and those of the database when the
   set was ready lie between them and those it has now. So once a later view has agreed with
   what was accepted, the database had the same when the set was ready. *)
ReadingAccepted ==
  /\ at = "ready" => report.view \in Reading!Servers /\ report.accepted = report.view.versions
  /\ at \in {"answer", "observe", "final"} =>
       /\ Len(report.accepted) = N
       /\ NotNewer(report.accepted, report.stored) /\ NotNewer(report.stored, server.versions)
  /\ at = "final" => report.accepted = report.stored /\ report.view \in Reading!Servers
(* The answers given are those of the questions before this one. *)
ReadingAnswered ==
  /\ at \in {"start", "again", "snapshot", "observed", "poll", "ready"} => report.answers = <<>>
  /\ at = "answer" => report.answers = [q \in 1 .. step.item - 1 |-> q]
  /\ at = "observe" => report.answers = [q \in 1 .. step.item |-> q]
  /\ at = "final" => report.answers = [q \in Reading!Questions |-> q]
ReadingTold ==
  /\ ReadingWhole(server)
  /\ at # "off" => ReadingUnder /\ ReadingAccepted /\ ReadingAnswered

LEMMA NotNewerIsAnOrder ==
  ASSUME NEW u \in Seq(Nat), NEW v \in Seq(Nat), NEW w \in Seq(Nat)
  PROVE  /\ NotNewer(u, u)
         /\ NotNewer(u, v) /\ NotNewer(v, w) => NotNewer(u, w)
         /\ NotNewer(u, v) /\ NotNewer(v, u) => u = v
<1>0. /\ Len(u) \in Nat /\ Len(v) \in Nat /\ Len(w) \in Nat
      /\ \A q \in 1 .. Len(u) : u[q] \in Nat
      /\ \A q \in 1 .. Len(v) : v[q] \in Nat
      /\ \A q \in 1 .. Len(w) : w[q] \in Nat
  OBVIOUS
<1>1. NotNewer(u, u)
  BY <1>0 DEF NotNewer
<1>2. ASSUME NotNewer(u, v), NotNewer(v, w) PROVE NotNewer(u, w)
  <2>1. Len(u) <= Len(w)
    BY <1>0, <1>2 DEF NotNewer
  <2>2. ASSUME NEW q \in 1 .. Len(u) PROVE u[q] <= w[q]
    <3>1. q \in 1 .. Len(v) /\ q \in 1 .. Len(w)
      BY <1>0, <1>2, <2>1 DEF NotNewer
    <3>2. u[q] <= v[q] /\ v[q] <= w[q]
      BY <1>2, <3>1 DEF NotNewer
    <3> QED BY <1>0, <3>1, <3>2
  <2> QED BY <2>1, <2>2 DEF NotNewer
<1>3. ASSUME NotNewer(u, v), NotNewer(v, u) PROVE u = v
  <2>1. Len(u) = Len(v)
    BY <1>0, <1>3 DEF NotNewer
  <2>2. ASSUME NEW q \in 1 .. Len(u) PROVE u[q] = v[q]
    BY <1>0, <1>3, <2>1 DEF NotNewer
  <2> QED BY <2>1, <2>2, SeqEqual
<1> QED BY <1>1, <1>2, <1>3
LEMMA ReadingGrowsOn ==
  ASSUME NEW u \in Reading!Servers, NEW v \in Reading!Servers, NEW w \in Reading!Servers
  PROVE  /\ ReadingGrows(u, u)
         /\ ReadingGrows(u, v) /\ ReadingGrows(v, w) => ReadingGrows(u, w)
<1>1. u.versions \in Seq(Nat) /\ v.versions \in Seq(Nat) /\ w.versions \in Seq(Nat)
  BY DEF Reading!Servers
<1> QED BY <1>1, NotNewerIsAnOrder DEF ReadingGrows

(* What is accepted of a view that agrees with what was accepted before: the view. *)
LEMMA AcceptedIsSeen ==
  ASSUME NEW old \in Seq(Nat), NEW new \in Seq(Nat),
         \A q \in DOMAIN old : q \in DOMAIN new /\ new[q] = old[q]
  PROVE  Len(old) <= Len(new) /\ old \o SubSeq(new, Len(old) + 1, Len(new)) = new
<1>1. Len(old) \in Nat /\ Len(new) \in Nat /\ DOMAIN old = 1 .. Len(old) /\ DOMAIN new = 1 .. Len(new)
  OBVIOUS
<1>2. Len(old) <= Len(new)
  <2>1. CASE Len(old) = 0
    BY <1>1, <2>1
  <2>2. CASE Len(old) # 0
    <3>1. Len(old) \in DOMAIN old
      BY <1>1, <2>2
    <3> QED BY <1>1, <3>1
  <2> QED BY <2>1, <2>2
<1>3. \A q \in Len(old) + 1 .. Len(new) : new[q] \in Nat
  BY <1>1
<1> DEFINE first == Len(old) + 1
           last == Len(new)
<1>4. /\ SubSeq(new, first, last) \in Seq(Nat)
      /\ Len(SubSeq(new, first, last)) = IF first <= last THEN last - first + 1 ELSE 0
      /\ \A k \in 1 .. last - first + 1 : SubSeq(new, first, last)[k] = new[first + k - 1]
  <2>1. first \in Int /\ last \in Int /\ \A q \in first .. last : new[q] \in Nat
    BY <1>1, <1>3
  <2> HIDE DEF first, last
  <2> QED BY <2>1, SubSeqProperties
<1> DEFINE more == SubSeq(new, first, last)
<1>4a. /\ more \in Seq(Nat) /\ Len(more) = Len(new) - Len(old)
       /\ \A k \in 1 .. Len(more) : more[k] = new[Len(old) + k]
  <2>1. first = Len(old) + 1 /\ last = Len(new)
    OBVIOUS
  <2>2. /\ Len(more) = IF first <= last THEN last - first + 1 ELSE 0
        /\ \A k \in 1 .. last - first + 1 : more[k] = new[first + k - 1]
    BY <1>4
  <2> HIDE DEF first, last, more
  <2>3. Len(more) = Len(new) - Len(old)
    <3>1. first \in Int /\ last \in Int /\ first <= last + 1
      BY <1>1, <1>2, <2>1
    <3>2. Len(more) = last - first + 1
      BY <2>2, <3>1
    <3> QED BY <1>1, <2>1, <3>2
  <2>4. ASSUME NEW k \in 1 .. Len(more) PROVE more[k] = new[Len(old) + k]
    <3>1. k \in 1 .. last - first + 1 /\ first + k - 1 = Len(old) + k
      BY <1>1, <2>1, <2>3, <2>4
    <3> QED BY <2>2, <3>1
  <2> QED BY <1>4, <2>3, <2>4 DEF more
<1> HIDE DEF more
<1>5. /\ old \o more \in Seq(Nat) /\ Len(old \o more) = Len(new)
      /\ \A q \in 1 .. Len(new) :
           (old \o more)[q] = IF q <= Len(old) THEN old[q] ELSE more[q - Len(old)]
  <2>1. /\ old \o more \in Seq(Nat)
        /\ Len(old \o more) = Len(old) + Len(more)
        /\ \A q \in 1 .. Len(old) + Len(more) :
             (old \o more)[q] = IF q <= Len(old) THEN old[q] ELSE more[q - Len(old)]
    BY <1>4a, ConcatProperties
  <2> QED BY <1>1, <1>4a, <2>1
<1>6. ASSUME NEW q \in 1 .. Len(new) PROVE (old \o more)[q] = new[q]
  <2>1. CASE q <= Len(old)
    <3>1. q \in DOMAIN old
      BY <1>1, <1>6, <2>1
    <3> QED BY <1>5, <1>6, <2>1, <3>1
  <2>2. CASE ~(q <= Len(old))
    <3>1. q - Len(old) \in 1 .. Len(more)
      BY <1>1, <1>4a, <1>6, <2>2
    <3>2. more[q - Len(old)] = new[q]
      BY <1>1, <1>4a, <1>6, <3>1
    <3> QED BY <1>5, <1>6, <2>2, <3>2
  <2> QED BY <2>1, <2>2
<1>7. old \o more = new
  BY <1>5, <1>6, SeqEqual
<1> QED BY <1>2, <1>7 DEF more, first, last

(* The back end goes on. *)
LEMMA ReadingServerGrows ==
  ASSUME Reading!WorkflowAssumption, ReadingIInv, ReadingWhole(server),
         Reading!Next \/ UNCHANGED Reading!vars
  PROVE  ReadingWhole(server') /\ ReadingGrows(server, server')
<1>1. /\ server \in Reading!Servers /\ server.versions \in Seq(Nat) /\ Len(server.versions) \in Nat
      /\ N \in Nat
  BY ReadingNone DEF ReadingIInv, Reading!Servers
<1>2. CASE server' = server
  BY <1>1, <1>2, ReadingGrowsOn
<1>3. ASSUME NEW actor \in Actors, Reading!Reaches(actor)
      PROVE  ReadingWhole(server') /\ ReadingGrows(server, server')
  <2>1. NotNewer(server.versions, server.versions)
    BY <1>1, NotNewerIsAnOrder
  <2>2. PICK id : server' = Reading!Served(id)
    BY <1>3 DEF Reading!Reaches
  <2>3. CASE id = <<"start">>
    <3>1. server' = [server EXCEPT !.status = "GENERATING"]
      BY <2>2, <2>3 DEF Reading!Served
    <3>2. server'.versions = server.versions /\ server'.answered = server.answered /\ server'.status # "READY"
      BY <1>1, <3>1 DEF Reading!Servers
    <3> QED BY <2>1, <3>2 DEF ReadingWhole, ReadingGrows
  <2>4. CASE id # <<"start">> /\ id[1] = "answer"
    <3>1. server' = [server EXCEPT !.answered = [server.answered EXCEPT ![id[2]] = TRUE]]
      BY <2>2, <2>4 DEF Reading!Served
    <3>2. /\ server'.versions = server.versions /\ server'.status = server.status
          /\ server'.answered = [server.answered EXCEPT ![id[2]] = TRUE]
      BY <1>1, <3>1 DEF Reading!Servers
    <3>3. \A q \in Reading!Questions : server.answered[q] => server'.answered[q]
      BY <1>1, <3>2, Zenon DEF Reading!Servers
    <3> QED BY <2>1, <3>2, <3>3 DEF ReadingWhole, ReadingGrows
  <2>5. CASE id # <<"start">> /\ id[1] # "answer"
    BY <1>2, <2>2, <2>5 DEF Reading!Served
  <2> QED BY <2>3, <2>4, <2>5
<1>4. CASE Reading!ServerWorks
  <2>1. CASE Reading!Appears
    <3>1. /\ server' = [server EXCEPT !.versions = Append(server.versions, 1)]
          /\ Len(server.versions) < N /\ server.status = "GENERATING"
      BY <2>1 DEF Reading!Appears
    <3>2. /\ server'.versions = Append(server.versions, 1) /\ server'.answered = server.answered
          /\ server'.status = "GENERATING"
      BY <1>1, <3>1 DEF Reading!Servers
    <3>3. /\ Len(server'.versions) = Len(server.versions) + 1
          /\ \A q \in 1 .. Len(server.versions) : server'.versions[q] = server.versions[q]
      BY <1>1, <3>2
    <3>4. \A q \in 1 .. Len(server.versions) : server.versions[q] \in Nat
      BY <1>1
    <3> QED BY <1>1, <3>1, <3>2, <3>3, <3>4 DEF ReadingWhole, ReadingGrows, NotNewer
  <2>2. CASE Reading!Changes
    <3>1. PICK r \in DOMAIN server.versions :
            server' = [server EXCEPT !.versions = [server.versions EXCEPT ![r] = @ + 1]]
      BY <2>2 DEF Reading!Changes
    <3>2. /\ server'.versions = [server.versions EXCEPT ![r] = @ + 1]
          /\ server'.answered = server.answered /\ server'.status = server.status
      BY <1>1, <3>1 DEF Reading!Servers
    <3>3. Len(server'.versions) = Len(server.versions)
      BY <1>1, <3>2
    <3>4. \A q \in 1 .. Len(server.versions) : server.versions[q] <= server'.versions[q]
      BY <1>1, <3>2
    <3> QED BY <1>1, <3>2, <3>3, <3>4 DEF ReadingWhole, ReadingGrows, NotNewer
  <2>3. CASE Reading!GenerationEnds
    <3>1. server' = [server EXCEPT !.status = IF Len(server.versions) = N THEN "READY" ELSE "PARTIAL"]
      BY <2>3 DEF Reading!GenerationEnds
    <3>2. /\ server'.versions = server.versions /\ server'.answered = server.answered
          /\ server'.status = "READY" => Len(server.versions) = N
      BY <1>1, <3>1 DEF Reading!Servers
    <3>3. NotNewer(server.versions, server.versions)
      BY <1>1, NotNewerIsAnOrder
    <3> QED BY <3>2, <3>3 DEF ReadingWhole, ReadingGrows
  <2> QED BY <1>4, <2>1, <2>2, <2>3 DEF Reading!ServerWorks
<1>5. \/ server' = server \/ Reading!ServerWorks
      \/ Reading!Reaches("workflow") \/ Reading!Reaches("operator")
  BY DEF Reading!Next, Reading!vars, Reading!Starts, Reading!Resumes, Reading!Works, Reading!Ask,
     Reading!Asks, Reading!Lost, Reading!Process, Reading!Unanswered, Reading!Killed,
     Reading!RemovesLock, Reading!Sends, Reading!Hears
<1> QED BY <1>2, <1>3, <1>4, <1>5 DEF Actors

(* What is known of a run stays true while it does nothing, or ends. *)
LEMMA ReadingToldStays ==
  ASSUME ReadingIInv, ReadingTold, UNCHANGED <<at, step, reportVars>>,
         server' \in Reading!Servers, ReadingWhole(server'), ReadingGrows(server, server')
  PROVE  ReadingTold'
<1>1. CASE at = "off"
  BY <1>1 DEF ReadingTold
<1>2. CASE at # "off"
  <2>1. UNCHANGED <<at, step, report, artifact>> /\ server \in Reading!Servers /\ report \in Reading!Reports
    BY <1>2 DEF reportVars, ReadingIInv, ClientState, ClientIInv, TellsErrors
  <2>2. ReadingUnder'
    <3>1. report.view # None => report.view \in Reading!Servers
      BY <2>1 DEF Reading!Reports
    <3>2. ASSUME report.view # None PROVE ReadingGrows(report.view, server')
      BY <1>2, <2>1, <3>1, <3>2, ReadingGrowsOn DEF ReadingTold, ReadingUnder
    <3> QED BY <1>2, <2>1, <3>2 DEF ReadingTold, ReadingUnder
  <2>3. ReadingAccepted'
    <3>1. ASSUME NotNewer(report.stored, server.versions) PROVE NotNewer(report.stored, server'.versions)
      <4>1. /\ report.stored \in Seq(Nat) /\ server.versions \in Seq(Nat)
            /\ server'.versions \in Seq(Nat)
        BY <2>1 DEF Reading!Reports, Reading!Servers
      <4> QED BY <3>1, <4>1, NotNewerIsAnOrder DEF ReadingGrows
    <3> QED BY <1>2, <2>1, <3>1 DEF ReadingTold, ReadingAccepted
  <2>4. ReadingAnswered'
    BY <1>2, <2>1 DEF ReadingTold, ReadingAnswered
  <2> QED BY <2>2, <2>3, <2>4 DEF ReadingTold
<1> QED BY <1>1, <1>2

(* A view that is accepted agrees with what was accepted before, and is what is accepted. *)
Accepting(new) ==
  [new EXCEPT !.observed = @ + 1,
     !.accepted = @ \o SubSeq(new.view.versions, Len(@) + 1, Len(new.view.versions))]
LEMMA ReadingAcceptsView ==
  ASSUME NEW new \in Reading!Reports, new.view \in Reading!Servers, report \in Reading!Reports,
         new.accepted = report.accepted, Reading!Consistent(new.view), Reading!Saves(Accepting(new))
  PROVE  /\ report' \in Reading!Reports /\ artifact' = report'
         /\ report'.view = new.view /\ report'.answers = new.answers
         /\ report'.stored = new.stored /\ report'.status = new.status
         /\ report'.accepted = new.view.versions
         /\ \A q \in DOMAIN report.accepted :
              q \in DOMAIN new.view.versions /\ new.view.versions[q] = report.accepted[q]
<1>1. /\ new.accepted \in Seq(Nat) /\ new.view.versions \in Seq(Nat) /\ new.observed + 1 \in Nat
      /\ report.accepted = new.accepted
  BY DEF Reading!Reports, Reading!Servers
<1>2. \A q \in DOMAIN new.accepted :
        q \in DOMAIN new.view.versions /\ new.view.versions[q] = new.accepted[q]
  BY <1>1 DEF Reading!Consistent
<1> DEFINE whole == new.accepted \o
             SubSeq(new.view.versions, Len(new.accepted) + 1, Len(new.view.versions))
<1>3. whole = new.view.versions
  BY <1>1, <1>2, AcceptedIsSeen
<1>4. /\ report' = [new EXCEPT !.observed = new.observed + 1, !.accepted = whole]
      /\ artifact' = report'
  BY DEF Accepting, Reading!Saves
<1> HIDE DEF whole
<1>5. /\ report' \in Reading!Reports /\ report'.view = new.view /\ report'.answers = new.answers
      /\ report'.stored = new.stored /\ report'.status = new.status /\ report'.accepted = whole
  BY <1>1, <1>3, <1>4 DEF Reading!Reports
<1> QED BY <1>1, <1>2, <1>3, <1>4, <1>5

LEMMA OneMore ==
  ASSUME NEW n \in Nat
  PROVE  Append([q \in 1 .. n |-> q], n + 1) = [q \in 1 .. n + 1 |-> q]
<1> DEFINE s == [q \in 1 .. n |-> q]
           t == [q \in 1 .. n + 1 |-> q]
<1>1. s \in Seq(Nat) /\ Len(s) = n /\ t \in Seq(Nat) /\ Len(t) = n + 1
  OBVIOUS
<1>2. Append(s, n + 1) \in Seq(Nat) /\ Len(Append(s, n + 1)) = n + 1
  BY <1>1
<1>3. ASSUME NEW q \in 1 .. n + 1 PROVE Append(s, n + 1)[q] = t[q]
  <2>1. CASE q \in 1 .. n
    BY <1>1, <2>1
  <2>2. CASE q = n + 1
    BY <1>1, <2>2
  <2> QED BY <1>3, <2>1, <2>2
<1> HIDE DEF s, t
<1>4. Append(s, n + 1) = t
  BY <1>1, <1>2, <1>3, SeqEqual
<1> QED BY <1>4 DEF s, t

(* A stage of the process tells the truth, or ends the run. *)
LEMMA ReadingTellsOn ==
  ASSUME Reading!WorkflowAssumption, ReadingIInv, ReadingTold, Reading!Process
  PROVE  ReadingTold'
<1>1. /\ server' = server /\ server \in Reading!Servers /\ ReadingPlace /\ at # "off"
      /\ N \in Nat \ {0} /\ Reading!Questions = 1 .. N
      /\ ReadingWhole(server)
  BY ReadingNone DEF Reading!Process, Reading!SetSeen, Reading!Snapshot, Reading!Observed, Reading!Bounded,
         Reading!Polled, Reading!Ready, Reading!Answers, Reading!AnswerObserved, Reading!Final,
         ReadingIInv, Reading!Questions, ReadingTold
<1>2. /\ report \in Reading!Reports /\ ReadingUnder /\ ReadingAccepted /\ ReadingAnswered
      /\ server.versions \in Seq(Nat) /\ ReadingGrows(server, server)
  BY <1>1, ReadingRun, ReadingGrowsOn DEF ReadingTold, Reading!Servers
<1>3. SUFFICES ASSUME at' # "off" PROVE ReadingUnder' /\ ReadingAccepted' /\ ReadingAnswered'
  BY <1>1 DEF ReadingTold
<1>4. \A new, error : ~Reading!Fails(new, error) /\ ~Reading!Returns(new)
  BY <1>3 DEF Reading!Fails, Reading!Returns
<1>5. Reading!View \in Reading!Servers /\ Reading!View = server
  BY <1>1 DEF Reading!View, Reading!Servers
<1>6. CASE Reading!SetSeen
  <2>1. /\ report' = [report EXCEPT !.set = TRUE, !.view = Reading!View] /\ artifact' = artifact
        /\ at' = "snapshot" /\ at \in {"start", "again"}
    BY <1>4, <1>6 DEF Reading!SetSeen, Reading!Keeps, Reading!Goto
  <2>2. report'.view = server /\ report'.status = report.status /\ report'.answers = report.answers
    BY <1>2, <1>5, <2>1 DEF Reading!Reports
  <2> QED BY <1>1, <1>2, <2>1, <2>2 DEF ReadingUnder, ReadingAccepted, ReadingAnswered
<1>7. CASE Reading!Snapshot
  <2>1. UNCHANGED <<report, artifact>> /\ at' = "observed" /\ at = "snapshot"
    BY <1>4, <1>7 DEF Reading!Snapshot, Reading!reportVars, Reading!Goto
  <2> QED BY <1>1, <1>2, <2>1 DEF ReadingUnder, ReadingAccepted, ReadingAnswered
<1>8. CASE Reading!Observed
  <2>1. /\ Reading!Consistent(report.view) /\ Reading!Saves(Accepting(report))
        /\ at' \in {"poll", "ready"} /\ at = "observed"
    BY <1>4, <1>8 DEF Reading!Observed, Reading!Accepts, Accepting, Reading!Goto
  <2>2. report.view \in Reading!Servers
    BY <1>1, <2>1 DEF ReadingPlace
  <2>3. /\ artifact' = report' /\ report' \in Reading!Reports
        /\ report'.view = report.view /\ report'.answers = report.answers
        /\ report'.status = report.status /\ report'.accepted = report.view.versions
    BY <1>2, <2>1, <2>2, ReadingAcceptsView
  <2>4. report' # None
    BY <2>3, ReadingNone
  <2> QED BY <1>1, <1>2, <2>1, <2>2, <2>3, <2>4 DEF ReadingUnder, ReadingAccepted, ReadingAnswered
<1>9. CASE Reading!Bounded
  BY <1>4, <1>9 DEF Reading!Bounded
<1>10. CASE Reading!Polled
  <2>1. /\ report' = [report EXCEPT !.view = Reading!View] /\ artifact' = artifact
        /\ at' = "observed" /\ at = "poll"
    BY <1>10 DEF Reading!Polled, Reading!Keeps, Reading!Goto
  <2>2. report'.view = server /\ report'.status = report.status /\ report'.answers = report.answers
    BY <1>2, <1>5, <2>1 DEF Reading!Reports
  <2> QED BY <1>1, <1>2, <2>1, <2>2 DEF ReadingUnder, ReadingAccepted, ReadingAnswered
<1>11. CASE Reading!Ready
  <2>1. /\ report' = [report EXCEPT !.stored = server.versions] /\ artifact' = artifact
        /\ at' = "answer" /\ step'.item = 1 /\ at = "ready" /\ report.view.status = "READY"
    BY <1>4, <1>11 DEF Reading!Ready, Reading!Persisted, Reading!Keeps, Reading!Goto
  <2>2. /\ report'.view = report.view /\ report'.status = report.status
        /\ report'.answers = report.answers /\ report'.accepted = report.accepted
        /\ report'.stored = server.versions
    BY <1>2, <2>1 DEF Reading!Reports
  <2>3. report.view \in Reading!Servers /\ report.accepted = report.view.versions /\ report.view # None
    BY <1>2, <2>1 DEF ReadingAccepted, Reading!WorkflowAssumption
  <2>4. /\ Len(report'.accepted) = N /\ NotNewer(report'.accepted, report'.stored)
        /\ NotNewer(report'.stored, server'.versions)
    <3>1. ReadingWhole(report.view) /\ ReadingGrows(report.view, server)
      BY <1>2, <2>3 DEF ReadingUnder
    <3> QED BY <1>1, <1>2, <2>1, <2>2, <2>3, <3>1 DEF ReadingWhole, ReadingGrows
  <2>5. report'.answers = [q \in 1 .. step'.item - 1 |-> q]
    <3>1. report'.answers = <<>> /\ step'.item - 1 = 0
      BY <1>2, <2>1, <2>2 DEF ReadingAnswered
    <3>2. <<>> = [q \in 1 .. 0 |-> q]
      OBVIOUS
    <3> QED BY <3>1, <3>2
  <2> QED BY <1>1, <1>2, <2>1, <2>2, <2>4, <2>5 DEF ReadingUnder, ReadingAccepted, ReadingAnswered
<1>12. CASE Reading!Answers
  <2>1. /\ report' = [report EXCEPT !.answers = Append(report.answers, step.item)] /\ artifact' = report'
        /\ at' = "observe" /\ step'.item = step.item /\ at = "answer"
    BY <1>12 DEF Reading!Answers, Reading!Saves, Reading!Goto
  <2>2. step.item \in 1 .. N
    BY <1>1, <2>1 DEF ReadingPlace
  <2>3. /\ report'.view = report.view /\ report'.status = report.status
        /\ report'.answers = Append(report.answers, step.item)
        /\ report'.accepted = report.accepted /\ report'.stored = report.stored
    BY <1>2, <2>1 DEF Reading!Reports
  <2>4. report'.answers = [q \in 1 .. step'.item |-> q]
    <3>1. report.answers = [q \in 1 .. step.item - 1 |-> q]
      BY <1>2, <2>1 DEF ReadingAnswered
    <3>2. step.item - 1 \in Nat /\ step.item = (step.item - 1) + 1
      BY <1>1, <2>2
    <3>3. Append([q \in 1 .. step.item - 1 |-> q], (step.item - 1) + 1)
            = [q \in 1 .. (step.item - 1) + 1 |-> q]
      BY <3>2, OneMore
    <3> QED BY <2>1, <2>3, <3>1, <3>2, <3>3
  <2>5. report' # None
    <3>1. Append(report.answers, step.item) \in Seq(Reading!Questions)
      BY <1>1, <1>2, <2>2 DEF Reading!Reports
    <3>2. report' \in Reading!Reports
      BY <1>2, <2>1, <3>1 DEF Reading!Reports
    <3> QED BY <3>2, ReadingNone
  <2> QED BY <1>1, <1>2, <2>1, <2>3, <2>4, <2>5 DEF ReadingUnder, ReadingAccepted, ReadingAnswered
<1>13. CASE Reading!AnswerObserved
  <2> DEFINE new == [report EXCEPT !.view = Reading!View]
  <2>1. /\ Reading!Consistent(new.view) /\ Reading!Saves(Accepting(new)) /\ at = "observe"
        /\ \/ at' = "final" /\ step.item = N
           \/ at' = "answer" /\ step.item # N /\ step'.item = step.item + 1
    BY <1>4, <1>13 DEF Reading!AnswerObserved, Reading!Accepts, Accepting, Reading!Goto
  <2>2. /\ new \in Reading!Reports /\ new.view = server /\ new.accepted = report.accepted
        /\ new.answers = report.answers /\ new.stored = report.stored /\ new.status = report.status
    BY <1>1, <1>2, <1>5 DEF Reading!Reports
  <2> HIDE DEF new
  <2>3. /\ artifact' = report' /\ report' \in Reading!Reports
        /\ report'.view = server /\ report'.answers = report.answers /\ report'.stored = report.stored
        /\ report'.status = report.status /\ report'.accepted = server.versions
        /\ \A q \in DOMAIN report.accepted :
             q \in DOMAIN server.versions /\ server.versions[q] = report.accepted[q]
    BY <1>1, <1>2, <2>1, <2>2, ReadingAcceptsView
  <2>4. /\ Len(report.accepted) = N /\ NotNewer(report.accepted, report.stored)
        /\ NotNewer(report.stored, server.versions)
        /\ report.accepted \in Seq(Nat) /\ report.stored \in Seq(Nat)
    BY <1>2, <2>1 DEF ReadingAccepted, Reading!Reports
  <2>5. report.accepted = server.versions
    <3>1. Len(server.versions) \in Nat /\ Len(server.versions) <= N
      BY <1>1, <1>2 DEF ReadingWhole
    <3>2. N \in DOMAIN server.versions
      BY <1>1, <2>3, <2>4
    <3>3. Len(server.versions) = N
      BY <1>1, <1>2, <3>1, <3>2
    <3>4. \A q \in 1 .. Len(report.accepted) : report.accepted[q] = server.versions[q]
      BY <2>3, <2>4
    <3> QED BY <1>2, <2>4, <3>3, <3>4, SeqEqual
  <2>6. report.stored = report.accepted
    BY <2>4, <2>5, NotNewerIsAnOrder
  <2>7. report' # None /\ server # None
    BY <1>1, <2>3, ReadingNone DEF Reading!WorkflowAssumption
  <2>8. report.answers = [q \in 1 .. step.item |-> q] /\ step.item \in 1 .. N
    BY <1>1, <1>2, <2>1 DEF ReadingAnswered, ReadingPlace
  <2>9. ReadingUnder'
    BY <1>1, <1>2, <2>3, <2>7 DEF ReadingUnder
  <2>10. ReadingAccepted'
    BY <1>1, <2>1, <2>3, <2>4, <2>5, <2>6 DEF ReadingAccepted
  <2>11. ReadingAnswered'
    <3>1. CASE at' = "final" /\ step.item = N
      BY <1>1, <2>3, <2>8, <3>1 DEF ReadingAnswered
    <3>2. CASE at' = "answer" /\ step'.item = step.item + 1
      <4>1. step'.item - 1 = step.item
        BY <1>1, <2>8, <3>2
      <4> QED BY <2>3, <2>8, <3>2, <4>1 DEF ReadingAnswered
    <3> QED BY <2>1, <2>3, <3>1, <3>2
  <2> QED BY <2>9, <2>10, <2>11
<1>14. CASE Reading!Final
  BY <1>4, <1>14 DEF Reading!Final
<1> QED BY <1>6, <1>7, <1>8, <1>9, <1>10, <1>11, <1>12, <1>13, <1>14 DEF Reading!Process

(* Every step. *)
LEMMA ReadingTellsBegun ==
  ASSUME Reading!WorkflowAssumption, ReadingIInv, ReadingTold, Reading!Starts \/ Reading!Resumes
  PROVE  ReadingTold'
<1>1. /\ server' = server /\ ReadingWhole(server) /\ at = "off" /\ at' \in {"start", "again"}
      /\ report' = artifact' /\ artifact \in Reading!Reports \cup {None}
  BY DEF Reading!Starts, Reading!Resumes, Reading!Goto, Reading!Opens, ReadingTold, ReadingIInv, ClientState
<1>2. ReadingIInv'
  BY ReadingOpens, ReadingNone, ClientGoesOn DEF ReadingIInv, ReadingKept
<1>3. report' # None
  BY <1>1, <1>2 DEF ReadingIInv, ClientState, ClientIInv, TellsErrors
<1>4. report'.status # "COMPLETED" /\ report'.view = None /\ report'.answers = <<>>
  <2>1. CASE Reading!Starts
    BY <2>1 DEF Reading!Starts, Reading!Opens
  <2>2. CASE Reading!Resumes
    <3> DEFINE old == Preserved(artifact)
    <3>1. /\ artifact \in Reading!Reports /\ artifact.answers = <<>>
          /\ report' = [old EXCEPT !.status = "RESUMED_EXISTING_SET_ONLY", !.resumed = TRUE,
                          !.accepted = <<>>, !.view = None]
      BY <1>1, <2>2, ReadingClient DEF Reading!Resumes, Reading!Resumable, Reading!Opens
    <3>2. /\ {"status", "resumed", "accepted", "view", "answers"} \subseteq DOMAIN old
          /\ old.answers = artifact.answers
      BY <3>1 DEF Preserved, Reading!Reports
    <3>3. old \in [DOMAIN old -> {old[k] : k \in DOMAIN old}]
      BY <3>1 DEF Preserved, Reading!Reports
    <3> HIDE DEF old
    <3> QED BY <3>1, <3>2, <3>3
  <2> QED BY <2>1, <2>2
<1>5. ReadingUnder' /\ ReadingAccepted' /\ ReadingAnswered'
  BY <1>1, <1>3, <1>4 DEF ReadingUnder, ReadingAccepted, ReadingAnswered
<1> QED BY <1>1, <1>5 DEF ReadingTold
LEMMA ReadingTellsAlways ==
  ASSUME Reading!WorkflowAssumption, ReadingIInv, ReadingTold,
         Reading!Next \/ UNCHANGED Reading!vars
  PROVE  ReadingTold'
<1>1. ReadingWhole(server') /\ ReadingGrows(server, server')
  BY ReadingServerGrows DEF ReadingTold
<1>2. server' \in Reading!Servers
  BY ReadingSteps DEF ReadingKept
<1>3. CASE UNCHANGED <<at, step, reportVars>>
  BY <1>1, <1>2, <1>3, ReadingToldStays
<1>4. CASE at' = "off"
  BY <1>1, <1>4 DEF ReadingTold
<1>5. CASE Reading!Starts \/ Reading!Resumes
  BY <1>5, ReadingTellsBegun
<1>6. CASE Reading!Process
  BY <1>6, ReadingTellsOn
<1>7. \/ UNCHANGED <<at, step, reportVars>> \/ at' = "off"
      \/ Reading!Starts \/ Reading!Resumes \/ Reading!Process
  BY DEF Reading!Next, Reading!vars, Reading!Works, Reading!Ask, Reading!Asks, Reading!Lost,
     Reading!Reaches, Reading!Unanswered, Reading!Fails, Reading!ServerWorks, Reading!Killed,
     Reading!RemovesLock, Reading!Sends, Reading!Hears, Reading!reportVars, reportVars
<1> QED BY <1>3, <1>4, <1>5, <1>6, <1>7

(* What ends a run, and how the report is then. *)
LEMMA ReadingSaysCompleted ==
  ASSUME Reading!WorkflowAssumption, ReadingIInv, ReadingTold,
         Reading!Next \/ UNCHANGED Reading!vars, at # "off", artifact' # None,
         artifact'.status = "COMPLETED"
  PROVE  Reading!Final /\ artifact' = [report EXCEPT !.status = "COMPLETED"]
<1>1. /\ report \in Reading!Reports /\ ReadingUnder /\ server \in Reading!Servers
      /\ Reading!View \in Reading!Servers
  BY ReadingRun DEF ReadingTold, ReadingIInv, Reading!View, Reading!Servers
<1>2. ASSUME NEW new \in Reading!Reports, NEW error, Reading!Fails(new, error) PROVE FALSE
  BY <1>2 DEF Reading!Fails, Reading!Reports
<1>3. at' = "off"
  <2>1. at' # "off" => ReadingUnder'
    BY ReadingTellsAlways DEF ReadingTold
  <2> QED BY <2>1 DEF ReadingUnder
<1>4. CASE Reading!Process
  <2>1. \A v \in Reading!Servers :
          /\ [report EXCEPT !.view = v] \in Reading!Reports
          /\ [report EXCEPT !.set = TRUE, !.view = v] \in Reading!Reports
    BY <1>1, ReadingWrites DEF ReadingAlike
  <2>2. \A error : /\ ~Reading!Fails(report, error)
                   /\ ~Reading!Fails([report EXCEPT !.view = Reading!View], error)
                   /\ ~Reading!Fails([report EXCEPT !.set = TRUE, !.view = Reading!View], error)
    BY <1>1, <1>2, <2>1
  <2>3. \A stage \in ReadingStages \ {"off"} : \A item, count : ~Reading!Goto(stage, item, count)
    BY <1>3 DEF Reading!Goto
  <2>4. ~Reading!SetSeen
    BY <2>2, <2>3 DEF Reading!SetSeen, ReadingStages
  <2>5. ~Reading!Snapshot
    BY <2>2, <2>3 DEF Reading!Snapshot, ReadingStages
  <2>6. ~Reading!Observed
    BY <2>2, <2>3 DEF Reading!Observed, Reading!Accepts, ReadingStages
  <2>7. ~Reading!Bounded /\ ~Reading!Polled /\ ~Reading!Answers
    BY <2>2, <2>3 DEF Reading!Bounded, Reading!Polled, Reading!Answers, ReadingStages
  <2>8. ~Reading!AnswerObserved
    BY <2>2, <2>3 DEF Reading!AnswerObserved, Reading!Accepts, ReadingStages
  <2>9. ~Reading!Ready
    <3>1. ~Reading!Returns([report EXCEPT !.status = "GENERATION_TERMINAL_NO_RETRY"])
      BY <1>1 DEF Reading!Returns, Reading!Reports
    <3> QED BY <2>2, <2>3, <3>1 DEF Reading!Ready, ReadingStages
  <2>10. Reading!Final
    BY <1>4, <2>4, <2>5, <2>6, <2>7, <2>8, <2>9 DEF Reading!Process
  <2> QED BY <2>2, <2>10 DEF Reading!Final, Reading!Returns
<1>5. CASE artifact' = artifact
  BY <1>1, <1>5 DEF ReadingUnder
<1>6. CASE \E error : Reading!Fails(report, error)
  BY <1>1, <1>2, <1>6
<1>7. Reading!Process \/ artifact' = artifact \/ \E error : Reading!Fails(report, error)
  <2>1. Reading!Asks(Reading!Request) => artifact' = artifact \/ \E error : Reading!Fails(report, error)
    BY DEF Reading!Asks, Reading!reportVars
  <2>2. Reading!Unanswered(Reading!Errors("ValueError")) => \E error : Reading!Fails(report, error)
    BY DEF Reading!Unanswered
  <2>3. Reading!Starts \/ Reading!Resumes => at = "off"
    BY DEF Reading!Starts, Reading!Resumes
  <2> QED BY <2>1, <2>2, <2>3 DEF Reading!Next, Reading!vars, Reading!Works, Reading!Ask, Reading!Lost,
     Reading!Reaches, Reading!ServerWorks, Reading!Killed, Reading!RemovesLock, Reading!Sends,
     Reading!Hears, Reading!reportVars
<1> QED BY <1>4, <1>5, <1>6, <1>7

(* The reading workflow: a report that says COMPLETED tells of the questions the database has,
   each of which was answered, although the workflow compares them at different moments while the
   back end may still change them. *)
THEOREM ReadingReportsAreTrue ==
  ASSUME Reading!WorkflowAssumption
  PROVE  Reading!Spec => [][Reading!CompletesTruly]_(Reading!vars)
<1>1. Reading!Init => ReadingIInv /\ ReadingTold
  <2> SUFFICES ASSUME Reading!Init PROVE ReadingIInv /\ ReadingTold
    OBVIOUS
  <2>1. ReadingIInv
    BY ReadingInitially
  <2>2. server = Reading!NoServer /\ at = "off" /\ N \in Nat
    BY ReadingNone DEF Reading!Init, Reading!ClientInit
  <2>3. Len(<<>>) = 0
    OBVIOUS
  <2>4. ReadingWhole(server)
    BY <2>2, <2>3, ReadingNone DEF Reading!NoServer, ReadingWhole, Reading!WorkflowAssumption,
       Reading!ClientAssumption, Reading!Servers
  <2> QED BY <2>1, <2>2, <2>4 DEF ReadingTold
<1>2. ReadingIInv /\ ReadingTold /\ [Reading!Next]_(Reading!vars) => ReadingIInv' /\ ReadingTold'
  BY ReadingNext, ReadingTellsAlways
<1>3. ReadingIInv /\ ReadingTold /\ [Reading!Next]_(Reading!vars) => [Reading!CompletesTruly]_(Reading!vars)
  <2> SUFFICES ASSUME ReadingIInv, ReadingTold, Reading!Next \/ UNCHANGED Reading!vars,
                      at # "off", artifact' # None, artifact'.status = "COMPLETED"
               PROVE  /\ artifact'.accepted = server.versions
                      /\ artifact'.answers = [q \in Reading!Questions |-> q]
                      /\ \A q \in Reading!Questions : server.answered[q]
    BY DEF Reading!CompletesTruly
  <2>1. Reading!Final /\ artifact' = [report EXCEPT !.status = "COMPLETED"]
    BY ReadingSaysCompleted
  <2>2. report \in Reading!Reports /\ ReadingUnder /\ ReadingAccepted /\ ReadingAnswered
    BY ReadingRun DEF ReadingTold
  <2>3. artifact'.accepted = report.accepted /\ artifact'.answers = report.answers
    BY <2>1, <2>2 DEF Reading!Reports
  <2>4. /\ at = "final" /\ server.versions = report.stored
        /\ \A q \in Reading!Questions : report.view.answered[q]
    <3>1. \A error : ~Reading!Fails(report, error)
      BY <2>2 DEF Reading!Fails, Reading!Reports
    <3> QED BY <2>1, <3>1 DEF Reading!Final, Reading!Persisted
  <2>5. report.accepted = report.stored /\ report.view \in Reading!Servers
    BY <2>2, <2>4 DEF ReadingAccepted
  <2>6. report.view # None
    BY <2>5 DEF Reading!WorkflowAssumption
  <2>7. \A q \in Reading!Questions : server.answered[q]
    BY <2>2, <2>4, <2>6 DEF ReadingUnder, ReadingGrows
  <2> QED BY <2>2, <2>3, <2>4, <2>5, <2>7 DEF ReadingAnswered
<1> QED BY <1>1, <1>2, <1>3, PTL DEF Reading!Spec
-----------------------------------------------------------------------------
(* The listening workflow. The back end has got what the client has sent, and each thing
   once: so what it has evaluated is not submitted again. *)
ListeningServed ==
  /\ OutIsCounted(Listening!Requests)
  /\ \A i \in Listening!Items : server.attempts[i] # "OPEN" => reached[<<"submit", i>>] # 0
  /\ \A a \in Actors :
       sent[a] # None /\ sent[a].id = <<"complete">> /\ sent[a].got => server.complete
ListeningGrows(old, new) ==
  /\ old.complete => new.complete
  /\ \A i \in Listening!Items : old.attempts[i] = "EVALUATED" => new.attempts[i] = "EVALUATED"

(* The items before this one are evaluated, and the report has it of the back end. What the
   last stages wait for is the end of the session. *)
ListeningDone(i) == report.rows[i] = "EVALUATED" /\ server.attempts[i] = "EVALUATED"
ItemStages == {"item", "audio", "validate", "answer", "submit", "evaluation"}
ListeningUnder ==
  /\ report.status # "COMPLETED" /\ artifact # None /\ artifact.status # "COMPLETED"
  /\ at \in ItemStages => \A i \in 1 .. step.item - 1 : ListeningDone(i)
  /\ at \in {"complete", "result"} => \A i \in Listening!Items : ListeningDone(i)
  /\ at = "complete" /\ sent["workflow"] # None => sent["workflow"].id = <<"complete">>
  /\ at = "result" => server.complete
ListeningTold == ListeningServed /\ (at # "off" => ListeningUnder)

LEMMA ListeningUnheard ==
  ASSUME Listening!WorkflowAssumption, Listening!Next \/ UNCHANGED Listening!vars
  PROVE  Unheard(Listening!Request) \/ \E actor \in Actors : Listening!Reaches(actor)
<1>1. Listening!Starts \/ Listening!Resumes \/ Listening!Local \/ Listening!ServerWorks
        \/ UNCHANGED Listening!vars => UNCHANGED clientVars
  BY DEF Listening!Starts, Listening!Resumes, Listening!Local, Listening!Snapshot, Listening!Validated,
     Listening!ServerWorks, Listening!vars, Listening!clientVars, clientVars
<1>2. Listening!Ask => Unheard(Listening!Request)
  BY ListeningClient DEF Listening!Ask, Asks, Unheard
<1>3. Listening!Lost => Unheard(Listening!Request)
  BY ListeningClient DEF Lost, Unheard, Actors
<1>4. Listening!Hears200 => Listening!Answered
  BY ListeningAnswered
<1>5. Answered => Unheard(Listening!Request)
  BY DEF Answered, Unheard, Actors
<1>6. Listening!Unanswered(Listening!Errors("RuntimeError")) => Unheard(Listening!Request)
  BY ListeningClient DEF Unanswered, Unheard, Actors
<1>7. Listening!Sends \/ Listening!Hears => Unheard(Listening!Request)
  BY ListeningClient DEF Sends, Hears, Unheard, Actors
<1>8. Listening!Killed \/ Listening!RemovesLock => Unheard(Listening!Request)
  BY ListeningClient DEF Unheard
<1> QED BY <1>1, <1>2, <1>3, <1>4, <1>5, <1>6, <1>7, <1>8, ListeningClient
        DEF Unheard, Listening!Next, Listening!Works, Actors
LEMMA ListeningServerGrows ==
  ASSUME Listening!WorkflowAssumption, ListeningIInv, ListeningServed,
         Listening!Next \/ UNCHANGED Listening!vars
  PROVE  ListeningServed' /\ ListeningGrows(server, server')
<1>1. /\ server \in Listening!Servers /\ server' \in Listening!Servers
      /\ ClientStep(Listening!Requests)
      /\ ClientShape(Listening!Requests) /\ SendsOnce(Listening!Requests)
      /\ ClientAssumption(Listening!Requests)
  BY ListeningSteps, ListeningNone DEF ListeningIInv, ListeningKept, ClientKeeps, ClientState, ClientIInv
<1>2. /\ OutIsCounted(Listening!Requests)'
      /\ \A id \in Listening!Requests : reached[id] # 0 => reached'[id] # 0
  BY <1>1, CountsGrow DEF ListeningServed
<1>3. /\ \A i \in Listening!Items : <<"submit", i>> \in Listening!Requests
      /\ <<"complete">> \in Listening!Requests
  BY DEF Listening!Requests
(* Nothing goes to the back end. *)
<1>4. ASSUME server' = server,
             \A a \in Actors : sent'[a] # None /\ sent'[a].got =>
               sent[a] # None /\ sent[a].got /\ sent[a].id = sent'[a].id
      PROVE  ListeningServed' /\ ListeningGrows(server, server')
  BY <1>2, <1>3, <1>4 DEF ListeningServed, ListeningGrows
<1>5. ASSUME NEW actor \in Actors, Listening!Reaches(actor)
      PROVE  ListeningServed' /\ ListeningGrows(server, server')
  <2> DEFINE id == sent[actor].id
  <2>1. /\ sent[actor] # None /\ ~sent[actor].out /\ Goes(actor, TRUE)
        /\ server' = Listening!Served(id) /\ sent[actor] \in Sendings(Listening!Requests)
        /\ id \in Listening!Requests \cup {Read}
    BY <1>1, <1>5, ListeningClient DEF Listening!Reaches, Goes, ClientShape, Sendings
  <2>2. id \in Listening!Requests => reached[id] = 0
    BY <1>1, <2>1 DEF SendsOnce
  <2>3. id \in Listening!Requests => reached'[id] # 0
    <3>1. sent' = [sent EXCEPT ![actor] = [sent[actor] EXCEPT !.out = TRUE, !.got = TRUE]]
      BY <1>1, <2>1 DEF Goes, ClientShape
    <3>2. sent'[actor] = [sent[actor] EXCEPT !.out = TRUE, !.got = TRUE]
      BY <1>1, <3>1 DEF ClientShape
    <3>3. sent'[actor] # None /\ sent'[actor].id = id /\ sent'[actor].out
      BY <1>1, <2>1, <3>2 DEF Sendings, ClientAssumption
    <3> QED BY <1>2, <3>3 DEF OutIsCounted
  <2>4. ASSUME NEW a \in Actors, sent'[a] # None, sent'[a].got
        PROVE  \/ sent[a] # None /\ sent[a].got /\ sent[a].id = sent'[a].id
               \/ a = actor /\ sent'[a].id = id
    <3>1. sent' = [sent EXCEPT ![actor] = [sent[actor] EXCEPT !.out = TRUE, !.got = TRUE]]
      BY <1>1, <2>1 DEF Goes, ClientShape
    <3>2. sent'[a] = IF a = actor THEN [sent[actor] EXCEPT !.out = TRUE, !.got = TRUE] ELSE sent[a]
      BY <1>1, <3>1 DEF ClientShape
    <3> QED BY <2>1, <2>4, <3>2 DEF Sendings
  <2> HIDE DEF id
  <2>5. CASE id # <<"create">> /\ id # <<"session">> /\ id[1] = "submit"
    <3>1. id \in Listening!Requests /\ id[2] \in Listening!Items /\ id = <<"submit", id[2]>>
      BY <2>1, <2>5 DEF Listening!Requests, Read
    <3>2. server' = [server EXCEPT !.attempts[id[2]] = "SUBMITTED"]
      BY <2>1, <2>5 DEF Listening!Served
    <3>3. /\ server'.complete = server.complete
          /\ \A i \in Listening!Items :
               server'.attempts[i] = IF i = id[2] THEN "SUBMITTED" ELSE server.attempts[i]
      BY <1>1, <3>1, <3>2 DEF Listening!Servers
    <3>4. server.attempts[id[2]] = "OPEN"
      BY <2>2, <3>1 DEF ListeningServed
    <3>5. \A i \in Listening!Items : server'.attempts[i] # "OPEN" => reached'[<<"submit", i>>] # 0
      BY <1>2, <1>3, <2>3, <3>1, <3>3 DEF ListeningServed
    <3>6. <<"complete">> # id
      BY <2>5
    <3> QED BY <1>2, <2>4, <3>3, <3>4, <3>5, <3>6 DEF ListeningServed, ListeningGrows
  <2>6. CASE ~(id # <<"create">> /\ id # <<"session">> /\ id[1] = "submit")
    <3>1. server'.attempts = server.attempts /\ (server.complete => server'.complete)
      BY <1>1, <2>1, <2>6 DEF Listening!Served, Listening!Servers
    <3>2. id = <<"complete">> => server'.complete
      BY <1>1, <2>1 DEF Listening!Served, Listening!Servers
    <3> QED BY <1>2, <1>3, <2>4, <3>1, <3>2 DEF ListeningServed, ListeningGrows
  <2> QED BY <2>5, <2>6
<1>6. CASE Listening!ServerWorks
  <2>1. sent' = sent /\ reached' = reached
    BY <1>6 DEF Listening!ServerWorks, Listening!clientVars
  <2>2. /\ server'.complete = server.complete
        /\ \A i \in Listening!Items :
             \/ server'.attempts[i] = server.attempts[i]
             \/ server.attempts[i] = "SUBMITTED"
    <3>1. CASE Listening!Voiced \/ Listening!Replaced \/ Listening!GenerationEnds
      BY <1>1, <3>1 DEF Listening!Voiced, Listening!Replaced, Listening!GenerationEnds, Listening!Servers
    <3>2. CASE Listening!Evaluated
      <4>1. PICK i \in Listening!Items, status \in {"EVALUATED", "EVALUATION_FAILED"} :
              /\ server.attempts[i] = "SUBMITTED"
              /\ server' = [server EXCEPT !.attempts[i] = status]
        BY <3>2 DEF Listening!Evaluated
      <4> QED BY <1>1, <4>1 DEF Listening!Servers
    <3> QED BY <1>6, <3>1, <3>2 DEF Listening!ServerWorks
  <2>3. OutIsCounted(Listening!Requests)'
    BY <1>2
  <2> QED BY <2>1, <2>2, <2>3 DEF ListeningServed, ListeningGrows
<1>7. ASSUME ~(\E actor \in Actors : Listening!Reaches(actor)), NEW a \in Actors, sent'[a] # None, sent'[a].got
      PROVE  sent[a] # None /\ sent[a].got /\ sent[a].id = sent'[a].id
  BY <1>1, <1>7, ListeningUnheard, UnheardKeeps
<1>8. server' = server \/ Listening!ServerWorks \/ \E actor \in Actors : Listening!Reaches(actor)
  BY DEF Listening!Next, Listening!vars, Listening!Starts, Listening!Resumes, Listening!Works, Listening!Ask,
     Listening!Asks, Listening!Lost, Listening!Hears200, Listening!Local, Listening!Unanswered, Listening!Killed,
     Listening!RemovesLock, Listening!Sends, Listening!Hears, Actors
<1> QED BY <1>4, <1>5, <1>6, <1>7, <1>8

(* What is known of a run stays true while it does nothing, or ends. *)
LEMMA ListeningToldStays ==
  ASSUME Listening!WorkflowAssumption, ListeningIInv, ListeningTold,
         Listening!Next \/ UNCHANGED Listening!vars, UNCHANGED <<at, step, reportVars>>
  PROVE  ListeningTold'
<1>1. ListeningServed' /\ ListeningGrows(server, server')
  BY ListeningServerGrows DEF ListeningTold
<1>2. SUFFICES ASSUME at # "off" PROVE ListeningUnder'
  BY <1>1 DEF ListeningTold
<1>3. ListeningUnder /\ UNCHANGED <<at, step, report, artifact>>
  BY <1>2 DEF ListeningTold, reportVars
<1>4. at \in ItemStages => step.item \in Listening!Items
  BY DEF ListeningIInv, ListeningPlace, ItemStages
<1>5. \A i \in Listening!Items : ListeningDone(i) => ListeningDone(i)'
  BY <1>1, <1>3 DEF ListeningDone, ListeningGrows
<1>6. ASSUME at \in ItemStages PROVE \A i \in 1 .. step.item - 1 : ListeningDone(i)'
  <2>1. \A i \in 1 .. step.item - 1 : i \in Listening!Items
    BY <1>4, <1>6, ListeningNone DEF Listening!Items
  <2> QED BY <1>3, <1>5, <1>6, <2>1 DEF ListeningUnder
<1>7. ASSUME at = "complete", sent'["workflow"] # None PROVE sent'["workflow"].id = <<"complete">>
  <2>1. /\ ClientAssumption(Listening!Requests) /\ ClientShape(Listening!Requests) /\ "workflow" \in Actors
    BY ListeningNone DEF ListeningIInv, ClientState, ClientIInv, Actors
  <2>2. Listening!Request = <<"complete">>
    BY <1>7 DEF Listening!Request
  <2>3. \/ sent["workflow"] # None /\ sent'["workflow"].id = sent["workflow"].id
        \/ sent'["workflow"].id = Listening!Request
    <3>1. CASE Unheard(Listening!Request)
      BY <1>7, <2>1, <3>1, UnheardKeeps
    <3>2. ASSUME NEW actor \in Actors, Goes(actor, TRUE)
          PROVE  sent["workflow"] # None /\ sent'["workflow"].id = sent["workflow"].id
      BY <1>7, <2>1, <3>2, GoesKeeps
    <3> QED BY <3>1, <3>2, ListeningUnheard, ListeningClient DEF Listening!Reaches
  <2> QED BY <1>3, <1>7, <2>2, <2>3 DEF ListeningUnder
<1> QED BY <1>1, <1>3, <1>5, <1>6, <1>7 DEF ListeningUnder, ListeningGrows

(* A stage of the process tells the truth, or ends the run. *)
LEMMA ListeningTellsOn ==
  ASSUME Listening!WorkflowAssumption, ListeningIInv, ListeningTold,
         Listening!Hears200 \/ Listening!Local
  PROVE  ListeningTold'
<1>1. Listening!Next /\ server' = server /\ at # "off"
  BY ListeningAnswered DEF Listening!Next, Listening!Works, Listening!Local, Listening!Snapshot,
     Listening!Validated
<1>2. /\ ListeningServed' /\ ListeningServed /\ ListeningUnder /\ report \in Listening!Reports
      /\ N \in Nat \ {0} /\ Listening!Items = 1 .. N
      /\ server.attempts \in [Listening!Items -> Listening!Attempts] /\ ListeningPlace
      /\ report.rows \in [Listening!Items -> Listening!Attempts \cup {"STARTED", None}]
  BY <1>1, ListeningServerGrows, ListeningRun, ListeningNone
     DEF ListeningTold, ListeningIInv, Listening!Servers, Listening!Reports, Listening!Items
<1>3. SUFFICES ASSUME at' # "off" PROVE ListeningUnder'
  BY <1>2 DEF ListeningTold
<1>4. \A new, error : ~Listening!Fails(new, error) /\ ~Listening!Returns(new)
  BY <1>3 DEF Listening!Fails, Listening!Returns
<1>4a. report' # None
  <2>1. ListeningIInv'
    BY <1>1, ListeningNext
  <2> QED BY <1>3, <2>1 DEF ListeningIInv, ClientState, ClientIInv, TellsErrors
(* The report keeps what it has of the items; the stage may be another one. *)
<1>5. ASSUME artifact' \in {artifact, report'}, report'.status = report.status,
             report'.rows = report.rows,
             at' \in ItemStages => \A i \in 1 .. step'.item - 1 : ListeningDone(i),
             at' \notin {"complete", "result"}
      PROVE  ListeningUnder'
  BY <1>1, <1>2, <1>4a, <1>5 DEF ListeningUnder, ListeningDone
<1>6. CASE Listening!Created
  <2>1. report' = [report EXCEPT !.set = TRUE] /\ artifact' = report' /\ at' = "poll"
    BY <1>6 DEF Listening!Created, Listening!Saves, Listening!Goto
  <2>2. report'.status = report.status /\ report'.rows = report.rows
    BY <1>2, <2>1 DEF Listening!Reports
  <2> QED BY <1>5, <2>1, <2>2 DEF ItemStages
<1>7. CASE Listening!Polled
  <2> DEFINE generation == [rows |-> server.rows, working |-> server.working]
  <2>1. /\ \/ report' = [report EXCEPT !.generation = generation] /\ at' = "snapshot"
           \/ report' = report /\ at' = at
        /\ artifact' = artifact /\ at = "poll"
    BY <1>7 DEF Listening!Polled, Listening!Keeps, Listening!Goto, Listening!PollsOn, Listening!reportVars
  <2> HIDE DEF generation
  <2>2. report'.status = report.status /\ report'.rows = report.rows
    BY <1>2, <2>1 DEF Listening!Reports
  <2> QED BY <1>5, <2>1, <2>2 DEF ItemStages
<1>8. CASE Listening!Snapshot
  <2> DEFINE rows == server.rows
  <2>1. /\ report' = [report EXCEPT !.seen = rows] /\ artifact' = artifact /\ at' = "session"
    BY <1>4, <1>8 DEF Listening!Snapshot, Listening!Physical, Listening!Keeps, Listening!Goto
  <2> HIDE DEF rows
  <2>2. report'.status = report.status /\ report'.rows = report.rows
    BY <1>2, <2>1 DEF Listening!Reports
  <2> QED BY <1>5, <2>1, <2>2 DEF ItemStages
<1>9. CASE Listening!SessionOpened
  <2>1. /\ report' = [report EXCEPT !.session = TRUE] /\ artifact' = artifact /\ at' = "item"
        /\ step'.item = 1
    BY <1>9 DEF Listening!SessionOpened, Listening!Keeps, Listening!Goto
  <2>2. report'.status = report.status /\ report'.rows = report.rows
    BY <1>2, <2>1 DEF Listening!Reports
  <2> QED BY <1>5, <2>1, <2>2 DEF ItemStages
(* The stages of an item, whose number stays. *)
<1>10. ASSUME at \in ItemStages, at' \in ItemStages, step'.item = step.item, UNCHANGED <<report, artifact>>
       PROVE  ListeningUnder'
  BY <1>2, <1>5, <1>10 DEF ListeningUnder, ItemStages
(* An item that is evaluated. *)
<1>11. ASSUME at \in ItemStages, Listening!Answered, Listening!Terminal(server.attempts[step.item]),
              Listening!Concludes(server.attempts[step.item])
       PROVE  ListeningUnder'
  <2> DEFINE status == server.attempts[step.item]
  <2>1. step.item \in 1 .. N
    BY <1>2, <1>11 DEF ListeningPlace, ItemStages
  <2>2. /\ report' = [report EXCEPT !.rows = [report.rows EXCEPT ![step.item] = status]] /\ artifact' = report'
        /\ status = "EVALUATED" /\ Listening!Following
    BY <1>4, <1>11 DEF Listening!Concludes, Listening!Terminal, Listening!FailedEvaluation,
       Listening!Saves, Listening!Recorded
  <2>3. /\ report'.status = report.status
        /\ report'.rows = [report.rows EXCEPT ![step.item] = status]
    BY <1>2, <2>2 DEF Listening!Reports
  <2>4. \A i \in 1 .. step.item : ListeningDone(i)'
    <3>1. \A i \in 1 .. step.item - 1 : ListeningDone(i)
      BY <1>2, <1>11 DEF ListeningUnder
    <3>2. ASSUME NEW i \in 1 .. step.item PROVE report'.rows[i] = "EVALUATED" /\ server.attempts[i] = "EVALUATED"
      <4>1. i \in Listening!Items
        BY <1>2, <2>1
      <4>2. CASE i = step.item
        BY <1>2, <2>2, <2>3, <4>1, <4>2
      <4>3. CASE i # step.item
        <5>1. i \in 1 .. step.item - 1
          BY <2>1, <4>3
        <5> QED BY <1>2, <2>3, <3>1, <4>1, <4>3, <5>1 DEF ListeningDone
      <4> QED BY <4>2, <4>3
    <3> QED BY <1>1, <3>2 DEF ListeningDone
  <2>5. sent'["workflow"] = None
    <3>1. sent' = [sent EXCEPT !["workflow"] = None]
      BY <1>11 DEF Listening!Answered, Listening!Concluded
    <3> QED BY <3>1 DEF ListeningIInv, ClientState, ClientIInv, ClientShape, Actors
  <2>6. \/ at' = "complete" /\ step.item = N
        \/ at' = "item" /\ step'.item = step.item + 1
    BY <2>2 DEF Listening!Following, Listening!Goto
  <2>7. CASE at' = "complete" /\ step.item = N
    BY <1>2, <1>4a, <2>2, <2>3, <2>4, <2>5, <2>7 DEF ListeningUnder, ItemStages
  <2>8. CASE at' = "item" /\ step'.item = step.item + 1
    <3>1. step'.item - 1 = step.item
      BY <2>1, <2>8
    <3> QED BY <1>2, <1>4a, <2>2, <2>3, <2>4, <2>8, <3>1 DEF ListeningUnder, ItemStages
  <2> QED BY <2>6, <2>7, <2>8
<1>12. CASE Listening!ItemRead
  <2>1. \/ Listening!Terminal(server.attempts[step.item]) /\ Listening!Concludes(server.attempts[step.item])
        \/ UNCHANGED <<report, artifact>> /\ at' = "audio" /\ step'.item = step.item
    BY <1>4, <1>12 DEF Listening!ItemRead, Listening!reportVars, Listening!Goto
  <2> QED BY <1>10, <1>11, <1>12, <2>1 DEF Listening!ItemRead, ItemStages
<1>13. CASE Listening!AudioHeard
  <2>1. /\ report' = [report EXCEPT !.rows = [report.rows EXCEPT ![step.item] = "STARTED"]]
        /\ artifact' = report' /\ at = "audio" /\ at' = "validate" /\ step'.item = step.item
    BY <1>4, <1>13 DEF Listening!AudioHeard, Listening!Recorded, Listening!Saves, Listening!Goto
  <2>2. /\ report'.status = report.status
        /\ report'.rows = [report.rows EXCEPT ![step.item] = "STARTED"]
    BY <1>2, <2>1 DEF Listening!Reports
  <2>3. step.item \in 1 .. N
    BY <1>2, <2>1 DEF ListeningPlace
  <2>4. \A i \in 1 .. step.item - 1 : ListeningDone(i)
    BY <1>2, <2>1 DEF ListeningUnder, ItemStages
  <2>5. \A i \in 1 .. step.item - 1 : i \in Listening!Items /\ i # step.item
    BY <1>2, <2>3
  <2>6. \A i \in 1 .. step.item - 1 : ListeningDone(i)'
    BY <1>1, <1>2, <2>2, <2>4, <2>5 DEF ListeningDone
  <2> QED BY <1>2, <1>4a, <2>1, <2>2, <2>6 DEF ListeningUnder, ItemStages
<1>14. CASE Listening!Validated
  <2>1. UNCHANGED report /\ artifact' = report /\ at = "validate" /\ at' = "answer" /\ step'.item = step.item
    BY <1>4, <1>14 DEF Listening!Validated, Listening!AudioRaises, Listening!Saves, Listening!Goto
  <2> QED BY <1>2, <1>5, <2>1 DEF ListeningUnder, ItemStages
<1>15. CASE Listening!AnswerGiven \/ Listening!Submitted
  <2>1. /\ UNCHANGED <<report, artifact>> /\ at \in {"answer", "submit"}
        /\ at' \in {"answer", "submit", "evaluation"} /\ step'.item = step.item
    BY <1>15 DEF Listening!AnswerGiven, Listening!Submitted, Listening!reportVars, Listening!Goto
  <2> QED BY <1>10, <2>1 DEF ItemStages
<1>16. CASE Listening!EvaluationPolled
  <2>1. \/ Listening!Terminal(server.attempts[step.item]) /\ Listening!Concludes(server.attempts[step.item])
        \/ UNCHANGED <<report, artifact>> /\ at' = at /\ step'.item = step.item
    BY <1>4, <1>16 DEF Listening!EvaluationPolled, Listening!PollsOn, Listening!reportVars, Listening!Goto
  <2> QED BY <1>10, <1>11, <1>16, <2>1 DEF Listening!EvaluationPolled, ItemStages
<1>17. CASE Listening!Completed
  <2>1. /\ UNCHANGED <<report, artifact>> /\ at = "complete" /\ at' = "result"
        /\ sent["workflow"] # None /\ sent["workflow"].got
    BY <1>17 DEF Listening!Completed, Listening!Answered, Listening!reportVars, Listening!Goto
  <2>2. server.complete
    BY <1>2, <2>1 DEF ListeningUnder, ListeningServed, Actors
  <2> QED BY <1>1, <1>2, <2>1, <2>2 DEF ListeningUnder, ListeningDone, ItemStages
<1>18. CASE Listening!ResultRead
  BY <1>4, <1>18 DEF Listening!ResultRead
<1> QED BY <1>6, <1>7, <1>8, <1>9, <1>12, <1>13, <1>14, <1>15, <1>16, <1>17, <1>18
        DEF Listening!Hears200, Listening!Local

(* Every step. *)
LEMMA ListeningTellsBegun ==
  ASSUME Listening!WorkflowAssumption, ListeningIInv, ListeningTold,
         Listening!Starts \/ Listening!Resumes
  PROVE  ListeningTold'
<1>1. /\ at' \in {"create", "poll"} /\ report' = artifact' /\ at = "off"
      /\ artifact \in Listening!Reports \cup {None} /\ Listening!Next
  BY DEF Listening!Starts, Listening!Resumes, Listening!Goto, Listening!Opens, ListeningIInv, ClientState,
     Listening!Next
<1>2. report' # None
  <2>1. ListeningIInv'
    BY <1>1, ListeningNext
  <2> QED BY <1>1, <2>1 DEF ListeningIInv, ClientState, ClientIInv, TellsErrors
<1>3. report'.status # "COMPLETED"
  <2>1. CASE Listening!Starts
    BY <2>1 DEF Listening!Starts, Listening!Opens
  <2>2. CASE Listening!Resumes
    <3> DEFINE old == Preserved(artifact)
    <3>1. /\ artifact \in Listening!Reports
          /\ report' = [old EXCEPT !.status = "RESUMED_EXISTING_GENERATION_ONLY"]
      BY <1>1, <2>2, ListeningClient DEF Listening!Resumes, Listening!Opens
    <3>2. "status" \in DOMAIN old
      BY <3>1 DEF Preserved, Listening!Reports
    <3> HIDE DEF old
    <3> QED BY <3>1, <3>2
  <2> QED BY <2>1, <2>2
<1>4. ListeningServed'
  BY <1>1, ListeningServerGrows DEF ListeningTold
<1> QED BY <1>1, <1>2, <1>3, <1>4 DEF ListeningTold, ListeningUnder, ItemStages
LEMMA ListeningTellsAlways ==
  ASSUME Listening!WorkflowAssumption, ListeningIInv, ListeningTold,
         Listening!Next \/ UNCHANGED Listening!vars
  PROVE  ListeningTold'
<1>1. ListeningServed'
  BY ListeningServerGrows DEF ListeningTold
<1>2. CASE UNCHANGED <<at, step, reportVars>>
  BY <1>2, ListeningToldStays
<1>3. CASE at' = "off"
  BY <1>1, <1>3 DEF ListeningTold
<1>4. \/ UNCHANGED <<at, step, reportVars>> \/ at' = "off" \/ Listening!Starts \/ Listening!Resumes
      \/ Listening!Hears200 \/ Listening!Local
  BY DEF Listening!Next, Listening!vars, Listening!Works, Listening!Ask, Listening!Asks, Listening!Lost,
     Listening!Reaches, Listening!Unanswered, Listening!Fails, Listening!ServerWorks, Listening!Killed,
     Listening!RemovesLock, Listening!Sends, Listening!Hears, Listening!reportVars, reportVars
<1> QED BY <1>2, <1>3, <1>4, ListeningTellsBegun, ListeningTellsOn

(* What ends a run, and how the report is then. *)
LEMMA ListeningSaysCompleted ==
  ASSUME Listening!WorkflowAssumption, ListeningIInv, ListeningTold,
         Listening!Next \/ UNCHANGED Listening!vars, at # "off", artifact' # None,
         artifact'.status = "COMPLETED"
  PROVE  at = "result" /\ artifact' = [report EXCEPT !.status = "COMPLETED"]
<1>1. /\ report \in Listening!Reports /\ ListeningUnder /\ server \in Listening!Servers
      /\ server.rows \in Listening!Rows /\ ListeningPlace
  BY ListeningRun DEF ListeningTold, ListeningIInv, Listening!Servers
<1>2. ASSUME NEW new \in Listening!Reports, NEW error, Listening!Fails(new, error) PROVE FALSE
  BY <1>2 DEF Listening!Fails, Listening!Reports
<1>3. at' = "off"
  <2>1. at' # "off" => ListeningUnder'
    BY ListeningTellsAlways DEF ListeningTold
  <2> QED BY <2>1 DEF ListeningUnder
<1>4. \A stage \in ListeningStages \ {"off"} : \A item, count : ~Listening!Goto(stage, item, count)
  BY <1>3 DEF Listening!Goto
<1>5. \A error : ~Listening!Fails(report, error)
  BY <1>1, <1>2
<1>6. ~Listening!PollsOn
  BY <1>1, <1>3 DEF Listening!PollsOn, Listening!Goto
<1>7. ASSUME Listening!Concludes(server.attempts[step.item]) PROVE FALSE
  <2> DEFINE status == server.attempts[step.item]
             rows == [report.rows EXCEPT ![step.item] = status]
  <2>1. \/ artifact' = [[report EXCEPT !.rows = rows] EXCEPT !.status = "EVALUATION_FAILED_NO_RETRY"]
        \/ at' # "off"
    BY <1>4, <1>7 DEF Listening!Concludes, Listening!Recorded, Listening!Returns, Listening!Following,
       ListeningStages
  <2> HIDE DEF rows
  <2>2. [[report EXCEPT !.rows = rows] EXCEPT !.status = "EVALUATION_FAILED_NO_RETRY"].status
          = "EVALUATION_FAILED_NO_RETRY"
    BY <1>1 DEF Listening!Reports
  <2> QED BY <1>3, <2>1, <2>2
<1>8. CASE Listening!Hears200
  <2>1. ~Listening!Created /\ ~Listening!Polled /\ ~Listening!SessionOpened /\ ~Listening!AnswerGiven
        /\ ~Listening!Submitted /\ ~Listening!Completed
    BY <1>4, <1>6 DEF Listening!Created, Listening!Polled, Listening!SessionOpened, Listening!AnswerGiven,
       Listening!Submitted, Listening!Completed, ListeningStages
  <2>2. ~Listening!ItemRead /\ ~Listening!AudioHeard /\ ~Listening!EvaluationPolled
    BY <1>4, <1>5, <1>6, <1>7 DEF Listening!ItemRead, Listening!AudioHeard, Listening!EvaluationPolled,
       ListeningStages
  <2>3. Listening!ResultRead
    BY <1>8, <2>1, <2>2 DEF Listening!Hears200
  <2> QED BY <2>3 DEF Listening!ResultRead, Listening!Returns
<1>9. ~Listening!Local
  <2> DEFINE rows == server.rows
             new == [report EXCEPT !.seen = rows]
  <2>1. new \in Listening!Reports /\ [new EXCEPT !.status = "GENERATION_NOT_FIVE_READY"].status # "COMPLETED"
    BY <1>1 DEF Listening!Reports
  <2>2. Listening!Snapshot => \/ Listening!Returns([new EXCEPT !.status = "GENERATION_NOT_FIVE_READY"])
                              \/ Listening!Fails(new, "ValueError") \/ Listening!Goto("session", 0, 0)
    BY DEF Listening!Snapshot, Listening!Physical
  <2> HIDE DEF new
  <2>3. ~Listening!Snapshot
    BY <1>2, <1>4, <2>1, <2>2 DEF Listening!Returns, ListeningStages
  <2>4. ~Listening!Validated
    BY <1>4, <1>5 DEF Listening!Validated, Listening!AudioRaises, ListeningStages
  <2> QED BY <2>3, <2>4 DEF Listening!Local
<1>10. artifact' # artifact
  BY <1>1 DEF ListeningUnder
<1>11. Listening!Hears200 \/ Listening!Local \/ artifact' = artifact \/ \E error : Listening!Fails(report, error)
  <2>1. Listening!Asks(Listening!Request) => artifact' = artifact \/ \E error : Listening!Fails(report, error)
    BY DEF Listening!Asks, Listening!reportVars
  <2>2. Listening!Unanswered(Listening!Errors("RuntimeError")) => \E error : Listening!Fails(report, error)
    BY DEF Listening!Unanswered
  <2>3. Listening!Starts \/ Listening!Resumes => at = "off"
    BY DEF Listening!Starts, Listening!Resumes
  <2> QED BY <2>1, <2>2, <2>3 DEF Listening!Next, Listening!vars, Listening!Works, Listening!Ask, Listening!Lost,
     Listening!Reaches, Listening!ServerWorks, Listening!Killed, Listening!RemovesLock, Listening!Sends,
     Listening!Hears, Listening!reportVars
<1> QED BY <1>5, <1>8, <1>9, <1>10, <1>11

(* The listening workflow: a report that says COMPLETED tells of every item what the back end has of
   it, each was evaluated and the session is complete: what a killed run or the operator has
   submitted too, for nothing is submitted twice. *)
THEOREM ListeningReportsAreTrue ==
  ASSUME Listening!WorkflowAssumption
  PROVE  Listening!Spec => [][Listening!CompletesTruly]_(Listening!vars)
<1>1. Listening!Init => ListeningIInv /\ ListeningTold
  <2> SUFFICES ASSUME Listening!Init PROVE ListeningIInv /\ ListeningTold
    OBVIOUS
  <2>1. server = Listening!NoServer /\ at = "off" /\ \A a \in Actors : sent[a] = None
    BY DEF Listening!Init, Listening!ClientInit, Listening!Actors, Actors
  <2>2. ListeningServed
    BY <2>1 DEF ListeningServed, OutIsCounted, Listening!NoServer
  <2> QED BY <2>1, <2>2, ListeningInitially DEF ListeningTold
<1>2. ListeningIInv /\ ListeningTold /\ [Listening!Next]_(Listening!vars) => ListeningIInv' /\ ListeningTold'
  BY ListeningNext, ListeningTellsAlways
<1>3. ListeningIInv /\ ListeningTold /\ [Listening!Next]_(Listening!vars)
        => [Listening!CompletesTruly]_(Listening!vars)
  <2> SUFFICES ASSUME ListeningIInv, ListeningTold, Listening!Next \/ UNCHANGED Listening!vars,
                      at # "off", artifact' # None, artifact'.status = "COMPLETED"
               PROVE  /\ server.complete
                      /\ \A i \in Listening!Items :
                           artifact'.rows[i] = server.attempts[i] /\ server.attempts[i] = "EVALUATED"
    BY DEF Listening!CompletesTruly
  <2>1. at = "result" /\ artifact' = [report EXCEPT !.status = "COMPLETED"]
    BY ListeningSaysCompleted
  <2>2. report \in Listening!Reports /\ ListeningUnder
    BY ListeningRun DEF ListeningTold
  <2>3. artifact'.rows = report.rows
    BY <2>1, <2>2 DEF Listening!Reports
  <2> QED BY <2>1, <2>2, <2>3 DEF ListeningUnder, ListeningDone
<1> QED BY <1>1, <1>2, <1>3, PTL DEF Listening!Spec
-----------------------------------------------------------------------------
(* The speaking workflow. What a stage does to the record the report has of the turns: nothing,
   or it begins a turn, or takes over what the back end has of it. *)
SpeakingRecords(turns) ==
  \/ turns = report.turns
  \/ /\ at = "prepare"
     /\ \E status \in {"STARTED", "PREPARING_SYNTHETIC_AUDIO"} :
          turns = [report.turns EXCEPT ![step.item] = [report.turns[step.item] EXCEPT !.status = status]]
  \/ /\ \/ at = "turn"
        \/ /\ at = "readback" /\ report.turns[step.item].status = "PARTIAL_FAILURE"
           /\ Speaking!Kept(report.turns[step.item], server.turns[step.item])
     /\ turns = [report.turns EXCEPT ![step.item] = server.turns[step.item]]
(* This is what the report tells then, in memory or at the end of the run. *)
Completions == {"COMPLETED", "COMPLETED_WITH_NON_EVALUABLE_PROBLEM"}
SpeakingWritten(turns) ==
  /\ at' # "off" => /\ report'.turns = turns /\ report'.status = report.status
                    /\ artifact' \in {artifact, report'}
  /\ at' = "off" => /\ artifact' # None /\ artifact'.turns = turns
                    /\ artifact'.status \in Completions =>
                         at = "final" /\ server.evaluation = "EVALUATED" /\ turns = report.turns
(* Where a stage leads to: the next turn is one the report has or another. *)
LastStages == {"turns done", "complete", "final"}
SpeakingBegins(t) ==
  \/ at' = "turns done" /\ t > Turns
  \/ /\ at' \in {"readback", "prepare"} /\ t \in 1 .. Turns /\ step'.item = t
     /\ at' = "prepare" => report.turns[t].status = None
SpeakingLeads(turns) ==
  \/ at' = at /\ step'.item = step.item /\ turns = report.turns
  \/ /\ at \notin TurnStages \cup LastStages
     /\ at' \in {"create", "opening", "reread"} \/ SpeakingBegins(1)
  \/ /\ step'.item = step.item
     /\ \/ <<at, at'>> \in {<<"prepare", "grant">>, <<"silence", "silent">>, <<"silent", "rerecord">>,
                            <<"rerecord", "turn">>, <<"audio", "evaluate">>, <<"evaluate", "evaluation">>}
        \/ at = "grant" /\ at' = (IF Probe /\ step.item = 1 THEN "silence" ELSE "turn")
        \/ /\ at = "turn" /\ at' = "audio" /\ server.turns[step.item].status = "READY"
           /\ turns[step.item] = server.turns[step.item]
  \/ /\ at = "readback" /\ server.turns[step.item].status = "READY"
     /\ turns[step.item] = server.turns[step.item] /\ SpeakingBegins(step.item + 1)
  \/ at \in {"audio", "evaluation"} /\ SpeakingBegins(step.item + 1)
  \/ at \in LastStages /\ at' \in LastStages
SpeakingMoved(turns) ==
  SpeakingRecords(turns) /\ SpeakingWritten(turns) /\ (at' # "off" => SpeakingLeads(turns))

LEMMA SpeakingTurnBegins ==
  ASSUME Speaking!WorkflowAssumption, NEW t \in 1 .. Turns + 1, Speaking!TurnStage(t)
  PROVE  SpeakingBegins(t) /\ at' # "off"
<1>1. t > Turns \/ t \in 1 .. Turns
  BY SpeakingNone
<1>2. CASE t > Turns
  BY <1>2 DEF Speaking!TurnStage, Speaking!Goto, SpeakingBegins
<1>3. CASE ~(t > Turns) /\ report.turns[t].status = None
  <2>1. Speaking!Goto("prepare", t, 0)
    BY <1>3 DEF Speaking!TurnStage
  <2> QED BY <1>1, <1>3, <2>1 DEF Speaking!Goto, SpeakingBegins
<1>4. CASE ~(t > Turns) /\ report.turns[t].status # None
  <2>1. Speaking!Goto("readback", t, 0)
    BY <1>4 DEF Speaking!TurnStage
  <2> QED BY <1>1, <1>4, <2>1 DEF Speaking!Goto, SpeakingBegins
<1> QED BY <1>2, <1>3, <1>4
(* The report with another entry. *)
SpeakingIs(new, turns, status) ==
  new \in Speaking!Reports /\ new.turns = turns /\ new.status = status
LEMMA SpeakingEntries ==
  ASSUME Speaking!WorkflowAssumption, NEW r \in Speaking!Reports
  PROVE  /\ \A t \in 1 .. Turns, record \in Speaking!TurnRecords :
              SpeakingIs([r EXCEPT !.turns[t] = record], [r.turns EXCEPT ![t] = record], r.status)
         /\ \A p \in Speaking!Problems, status \in Speaking!Evaluations :
              SpeakingIs([r EXCEPT !.problems = Append(@, [problem |-> p, status |-> status])],
                         r.turns, r.status)
         /\ \A s \in Endings :
              SpeakingIs([r EXCEPT !.status = s], r.turns, s)
<1>1. ASSUME NEW t \in 1 .. Turns, NEW record \in Speaking!TurnRecords
      PROVE  SpeakingIs([r EXCEPT !.turns[t] = record], [r.turns EXCEPT ![t] = record], r.status)
  <2>1. [r EXCEPT !.turns[t] = record] \in Speaking!Reports
    BY SpeakingWrites DEF SpeakingAlike
  <2> QED BY <2>1 DEF SpeakingIs, Speaking!Reports
<1>2. ASSUME NEW p \in Speaking!Problems, NEW status \in Speaking!Evaluations
      PROVE  SpeakingIs([r EXCEPT !.problems = Append(@, [problem |-> p, status |-> status])],
                        r.turns, r.status)
  <2> DEFINE more == Append(r.problems, [problem |-> p, status |-> status])
  <2>1. [r EXCEPT !.problems = more] \in Speaking!Reports
    BY SpeakingWrites DEF SpeakingAlike
  <2> HIDE DEF more
  <2>2. SpeakingIs([r EXCEPT !.problems = more], r.turns, r.status)
    BY <2>1 DEF SpeakingIs, Speaking!Reports
  <2> QED BY <2>2 DEF more
<1>3. ASSUME NEW s \in Endings
      PROVE  SpeakingIs([r EXCEPT !.status = s], r.turns, s)
  <2>1. [r EXCEPT !.status = s] \in Speaking!Reports
    BY SpeakingWrites DEF SpeakingAlike
  <2> QED BY <2>1 DEF SpeakingIs, Speaking!Reports
<1> QED BY <1>1, <1>2, <1>3

(* Each stage does. *)
LEMMA SpeakingMoves ==
  ASSUME Speaking!WorkflowAssumption, SpeakingIInv,
         Speaking!Hears200 \/ (Speaking!Prepared /\ UNCHANGED server)
  PROVE  \E turns : SpeakingMoved(turns)
<1>1. /\ server \in Speaking!Servers /\ SpeakingPlace /\ at # "off" /\ report \in Speaking!Reports
  <2>1. at # "off"
    BY SpeakingAnswered DEF Speaking!Prepared
  <2> QED BY <2>1, SpeakingRun DEF SpeakingIInv
<1>2. /\ None \notin Speaking!Reports /\ Turns \in Nat \ {0} /\ 1 \in 1 .. Turns + 1
      /\ {"ValueError", "TimeoutError"} \subseteq ErrorNames
  BY SpeakingNone DEF ErrorNames
<1>3. /\ at \in TurnStages => step.item \in 1 .. Turns /\ step.item + 1 \in 1 .. Turns + 1
      /\ \A t \in 1 .. Turns : server.turns[t] \in Speaking!TurnRecords
      /\ \A p \in Speaking!Problems : server.problems[p] \in Speaking!Evaluations
  BY <1>1, <1>2 DEF SpeakingPlace, Speaking!Servers
<1>4. UNCHANGED Speaking!reportVars => report' = report /\ artifact' = artifact
  BY DEF Speaking!reportVars
<1> DEFINE Good == \E turns : SpeakingMoved(turns)
<1>5. ASSUME NEW new \in Speaking!Reports, NEW error \in ErrorNames, Speaking!Fails(new, error),
             SpeakingRecords(new.turns)
      PROVE  Good
  <2>1. /\ at' = "off" /\ artifact' \in Speaking!Reports /\ artifact'.turns = new.turns
        /\ artifact'.status \notin Completions
    BY <1>5 DEF Speaking!Fails, Speaking!Reports, Speaking!ErrorNames, ErrorNames, Completions
  <2> QED BY <1>2, <1>5, <2>1 DEF SpeakingMoved, SpeakingWritten
<1>6. ASSUME NEW new \in Speaking!Reports, Speaking!Returns(new), SpeakingRecords(new.turns),
             new.status \notin Completions
      PROVE  Good
  BY <1>2, <1>6 DEF Speaking!Returns, SpeakingMoved, SpeakingWritten
<1>7. ASSUME NEW new \in Speaking!Reports, Speaking!Saves(new) \/ Speaking!Keeps(new),
             SpeakingRecords(new.turns), new.status = report.status, at' # "off", SpeakingLeads(new.turns)
      PROVE  Good
  BY <1>7 DEF Speaking!Saves, Speaking!Keeps, SpeakingMoved, SpeakingWritten
<1>8. ASSUME UNCHANGED Speaking!reportVars, at' # "off", SpeakingLeads(report.turns)
      PROVE  Good
  BY <1>4, <1>8 DEF SpeakingMoved, SpeakingWritten, SpeakingRecords
<1>9. SpeakingRecords(report.turns)
  BY DEF SpeakingRecords
<1>10. Speaking!PollsOn => Good
  <2>1. Speaking!PollsOn => at' # "off" /\ SpeakingLeads(report.turns) /\ UNCHANGED Speaking!reportVars
    BY <1>1 DEF Speaking!PollsOn, Speaking!Goto, SpeakingLeads
  <2> QED BY <1>8, <2>1
<1>11. \A error \in ErrorNames : Speaking!Fails(report, error) => Good
  BY <1>1, <1>5, <1>9
<1> SUFFICES Good
  BY DEF Good
<1> HIDE DEF Good
<1>12. CASE Speaking!NoneActive \/ Speaking!Created \/ Speaking!OpeningHeard \/ Speaking!DetailRead
  <2>1. at \notin TurnStages \cup LastStages
    BY <1>12 DEF Speaking!NoneActive, Speaking!Created, Speaking!OpeningHeard, Speaking!DetailRead,
       TurnStages, LastStages
  <2>2. Speaking!TurnStage(1) => at' # "off" /\ SpeakingLeads(report.turns)
    BY <1>2, <2>1, SpeakingTurnBegins DEF SpeakingLeads
  <2>3. \A stage \in {"create", "opening", "reread"} : \A item, count :
          Speaking!Goto(stage, item, count) => at' # "off" /\ SpeakingLeads(report.turns)
    BY <2>1 DEF SpeakingLeads, Speaking!Goto
  <2>4. CASE Speaking!Created
    <3> DEFINE new == [report EXCEPT !.session = TRUE]
    <3>1. new \in Speaking!Reports /\ new.turns = report.turns /\ new.status = report.status
      BY <1>1 DEF Speaking!Reports
    <3>2. Speaking!Saves(new) /\ Speaking!Goto("opening", 0, 0)
      BY <2>4 DEF Speaking!Created
    <3> HIDE DEF new
    <3> QED BY <1>7, <1>9, <2>3, <3>1, <3>2
  <2>5. CASE ~Speaking!Created
    <3>1. \/ Speaking!Fails(report, "ValueError")
          \/ /\ UNCHANGED Speaking!reportVars
             /\ \/ Speaking!Goto("create", 0, 0) \/ Speaking!Goto("reread", 1, 0)
                \/ Speaking!TurnStage(1)
      BY <1>12, <2>5 DEF Speaking!NoneActive, Speaking!OpeningHeard, Speaking!DetailRead, Speaking!AudioRaises
    <3> QED BY <1>2, <1>8, <1>11, <2>2, <2>3, <3>1
  <2> QED BY <2>4, <2>5
<1>13. ASSUME NEW p \in Speaking!Problems
       PROVE  LET new == [report EXCEPT !.problems = Append(@, [problem |-> p, status |-> server.problems[p]])]
                  last == [new EXCEPT !.status = "EVALUATION_NOT_EVALUATED_NO_RETRY"]
              IN  /\ new \in Speaking!Reports /\ new.status = report.status /\ new.turns = report.turns
                  /\ last \in Speaking!Reports /\ last.status \notin Completions /\ last.turns = report.turns
  <2> DEFINE new == [report EXCEPT !.problems = Append(@, [problem |-> p, status |-> server.problems[p]])]
  <2>1. new \in Speaking!Reports /\ new.status = report.status /\ new.turns = report.turns
    <3>1. SpeakingIs(new, report.turns, report.status)
      BY <1>1, <1>3, SpeakingEntries
    <3> QED BY <3>1 DEF SpeakingIs
  <2> DEFINE last == [new EXCEPT !.status = "EVALUATION_NOT_EVALUATED_NO_RETRY"]
  <2>2. last \in Speaking!Reports /\ last.status = "EVALUATION_NOT_EVALUATED_NO_RETRY" /\ last.turns = new.turns
    <3> HIDE DEF new
    <3>1. SpeakingIs(last, new.turns, "EVALUATION_NOT_EVALUATED_NO_RETRY")
      BY <2>1, SpeakingEntries
    <3> QED BY <3>1 DEF SpeakingIs
  <2> QED BY <2>1, <2>2 DEF Completions
<1>14. CASE Speaking!ProblemReread
  <2> DEFINE p == report.priorProblems[step.item].problem
             new == [report EXCEPT !.problems = Append(@, [problem |-> p, status |-> server.problems[p]])]
             last == [new EXCEPT !.status = "EVALUATION_NOT_EVALUATED_NO_RETRY"]
  <2>1. p \in Speaking!Problems
    <3> DEFINE records == [problem : Speaking!Problems, status : Speaking!Evaluations]
               prior == report.priorProblems
    <3>1. prior \in Seq(records) /\ step.item \in DOMAIN prior
      BY <1>1, <1>14 DEF Speaking!Reports, Speaking!ProblemRecords, Speaking!ProblemReread, SpeakingPlace
    <3> HIDE DEF records, prior
    <3>2. prior[step.item] \in records
      BY <3>1, ElementOfSeq
    <3> QED BY <3>2 DEF records, prior
  <2>2. /\ new \in Speaking!Reports /\ new.status = report.status /\ new.turns = report.turns
        /\ last \in Speaking!Reports /\ last.status \notin Completions /\ last.turns = report.turns
    <3> HIDE DEF p
    <3> QED BY <1>13, <2>1
  <2>3. /\ at = "reread"
        /\ \/ Speaking!PollsOn \/ Speaking!Fails(report, "TimeoutError")
           \/ Speaking!Returns(last) \/ Speaking!Fails(new, "ValueError")
           \/ /\ Speaking!Keeps(new)
              /\ Speaking!TurnStage(1) \/ Speaking!Goto("reread", step.item + 1, 0)
    BY <1>14 DEF Speaking!ProblemReread, Speaking!EvidenceRaises
  <2> HIDE DEF new, last
  <2>4. CASE Speaking!Keeps(new) /\ (Speaking!TurnStage(1) \/ Speaking!Goto("reread", step.item + 1, 0))
    <3>1. at' # "off" /\ SpeakingLeads(new.turns)
      <4>1. Speaking!TurnStage(1) => at' # "off" /\ SpeakingLeads(new.turns)
        BY <1>2, <2>3, SpeakingTurnBegins DEF SpeakingLeads, TurnStages, LastStages
      <4>2. Speaking!Goto("reread", step.item + 1, 0) => at' # "off" /\ SpeakingLeads(new.turns)
        BY <2>3 DEF SpeakingLeads, TurnStages, LastStages, Speaking!Goto
      <4> QED BY <2>4, <4>1, <4>2
    <3> QED BY <1>7, <1>9, <2>2, <2>4, <3>1
  <2>5. CASE Speaking!Returns(last)
    BY <1>6, <1>9, <2>2, <2>5
  <2>6. CASE Speaking!Fails(new, "ValueError")
    BY <1>2, <1>5, <1>9, <2>2, <2>6
  <2> QED BY <1>2, <1>10, <1>11, <2>3, <2>4, <2>5, <2>6
<1>15. CASE Speaking!TurnReadBack
  <2> DEFINE t == step.item
             new == [report EXCEPT !.turns[t] = server.turns[t]]
             last == [report EXCEPT !.status = "AUTHORIZED_RETRY_DID_NOT_PRESERVE_STT_NO_FURTHER_RETRY"]
  <2>1. at = "readback" /\ t \in 1 .. Turns /\ t + 1 \in 1 .. Turns + 1
    BY <1>3, <1>15 DEF Speaking!TurnReadBack, TurnStages
  <2>2. /\ new \in Speaking!Reports /\ new.status = report.status
        /\ new.turns = [report.turns EXCEPT ![t] = server.turns[t]]
        /\ last \in Speaking!Reports /\ last.status \notin Completions /\ last.turns = report.turns
    <3>1. SpeakingIs(new, [report.turns EXCEPT ![t] = server.turns[t]], report.status)
      BY <1>1, <1>3, <2>1, SpeakingEntries
    <3>2. SpeakingIs(last, report.turns, "AUTHORIZED_RETRY_DID_NOT_PRESERVE_STT_NO_FURTHER_RETRY")
      BY <1>1, SpeakingEntries
    <3> QED BY <3>1, <3>2 DEF SpeakingIs, Completions
  <2>3. new.turns[t] = server.turns[t]
    <3>1. t \in DOMAIN report.turns
      BY <1>1, <2>1 DEF Speaking!Reports
    <3> HIDE DEF new
    <3> QED BY <2>2, <3>1
  <2>4. Speaking!TurnStage(t + 1) => SpeakingBegins(t + 1) /\ at' # "off"
    BY <2>1, SpeakingTurnBegins
  <2>5. CASE report.retried /\ report.turns[t].status = "PARTIAL_FAILURE"
    <3>1. \/ Speaking!Returns(last)
          \/ /\ Speaking!Kept(report.turns[t], server.turns[t])
             /\ \/ Speaking!Fails(new, "ValueError")
                \/ Speaking!Keeps(new) /\ Speaking!TurnStage(t + 1)
      BY <1>15, <2>5 DEF Speaking!TurnReadBack, Speaking!AudioRaises
    <3>2. Speaking!Kept(report.turns[t], server.turns[t]) => SpeakingRecords(new.turns)
      BY <2>1, <2>2, <2>5 DEF SpeakingRecords
    <3>3. Speaking!Kept(report.turns[t], server.turns[t]) /\ Speaking!TurnStage(t + 1)
            => SpeakingLeads(new.turns) /\ at' # "off"
      BY <2>1, <2>3, <2>4 DEF SpeakingLeads, Speaking!Kept
    <3> HIDE DEF new, last
    <3> QED BY <1>2, <1>5, <1>6, <1>7, <1>9, <2>2, <3>1, <3>2, <3>3
  <2>6. CASE ~(report.retried /\ report.turns[t].status = "PARTIAL_FAILURE")
    <3>1. \/ Speaking!Fails(report, "ValueError")
          \/ /\ UNCHANGED Speaking!reportVars /\ Speaking!TurnStage(t + 1)
             /\ server.turns[t].status = "READY" /\ server.turns[t] = report.turns[t]
      BY <1>15, <2>6 DEF Speaking!TurnReadBack, Speaking!Same
    <3>2. server.turns[t].status = "READY" /\ server.turns[t] = report.turns[t] /\ Speaking!TurnStage(t + 1)
            => SpeakingLeads(report.turns) /\ at' # "off"
      BY <2>1, <2>4 DEF SpeakingLeads
    <3> HIDE DEF new, last
    <3> QED BY <1>2, <1>8, <1>11, <3>1, <3>2
  <2> QED BY <2>5, <2>6
<1>16. CASE Speaking!Granted \/ Speaking!SilenceSent \/ Speaking!RerecordGranted \/ Speaking!EvaluationAsked
  <2>1. UNCHANGED Speaking!reportVars /\ at' # "off" /\ step'.item = step.item
    BY <1>16 DEF Speaking!Granted, Speaking!SilenceSent, Speaking!RerecordGranted, Speaking!EvaluationAsked,
       Speaking!Goto
  <2>2. \/ at = "grant" /\ at' = (IF Probe /\ step.item = 1 THEN "silence" ELSE "turn")
        \/ <<at, at'>> \in {<<"silence", "silent">>, <<"rerecord", "turn">>, <<"evaluate", "evaluation">>}
    BY <1>16 DEF Speaking!Granted, Speaking!SilenceSent, Speaking!RerecordGranted, Speaking!EvaluationAsked,
       Speaking!Goto
  <2>3. SpeakingLeads(report.turns)
    BY <2>1, <2>2 DEF SpeakingLeads
  <2> QED BY <1>8, <2>1, <2>3
<1>17. CASE Speaking!SilenceSeen
  <2> DEFINE last == [report EXCEPT !.status = "SILENCE_REJECTION_NOT_AS_EXPECTED"]
  <2>1. last \in Speaking!Reports /\ last.status \notin Completions /\ last.turns = report.turns
    <3>1. SpeakingIs(last, report.turns, "SILENCE_REJECTION_NOT_AS_EXPECTED")
      BY <1>1, SpeakingEntries
    <3> QED BY <3>1 DEF SpeakingIs, Completions
  <2>2. \/ Speaking!Saves(report) /\ Speaking!Goto("rerecord", step.item, 0) /\ at = "silent"
        \/ Speaking!Fails(report, "ValueError") \/ Speaking!Returns(last)
    BY <1>17 DEF Speaking!SilenceSeen, Speaking!AudioRaises
  <2>3. CASE Speaking!Saves(report) /\ Speaking!Goto("rerecord", step.item, 0) /\ at = "silent"
    <3>1. SpeakingLeads(report.turns) /\ at' # "off"
      BY <2>3 DEF SpeakingLeads, Speaking!Goto
    <3> QED BY <1>1, <1>7, <1>9, <2>3, <3>1
  <2> HIDE DEF last
  <2> QED BY <1>2, <1>6, <1>9, <1>11, <2>1, <2>2, <2>3
<1>18. CASE Speaking!TurnTaken
  <2> DEFINE t == step.item
             new == [report EXCEPT !.turns[t] = server.turns[t]]
             last == [new EXCEPT !.status = "TURN_FAILED_NO_RETRY"]
  <2>1. at = "turn" /\ t \in 1 .. Turns
    BY <1>3, <1>18 DEF Speaking!TurnTaken, TurnStages
  <2>2. /\ new \in Speaking!Reports /\ new.status = report.status
        /\ new.turns = [report.turns EXCEPT ![t] = server.turns[t]]
    <3>1. SpeakingIs(new, [report.turns EXCEPT ![t] = server.turns[t]], report.status)
      BY <1>1, <1>3, <2>1, SpeakingEntries
    <3> QED BY <3>1 DEF SpeakingIs
  <2>3. last \in Speaking!Reports /\ last.status \notin Completions /\ last.turns = new.turns
    <3> HIDE DEF new
    <3>1. SpeakingIs(last, new.turns, "TURN_FAILED_NO_RETRY")
      BY <2>2, SpeakingEntries
    <3> QED BY <3>1 DEF SpeakingIs, Completions
  <2>4. new.turns[t] = server.turns[t]
    <3>1. t \in DOMAIN report.turns
      BY <1>1, <2>1 DEF Speaking!Reports
    <3> HIDE DEF new
    <3> QED BY <2>2, <3>1
  <2>5. SpeakingRecords(new.turns)
    BY <2>1, <2>2 DEF SpeakingRecords
  <2>6. \/ Speaking!Returns(last)
        \/ server.turns[t].status = "READY" /\ Speaking!Saves(new) /\ Speaking!Goto("audio", t, 0)
    BY <1>18 DEF Speaking!TurnTaken
  <2> HIDE DEF new, last
  <2>7. CASE server.turns[t].status = "READY" /\ Speaking!Saves(new) /\ Speaking!Goto("audio", t, 0)
    <3>1. SpeakingLeads(new.turns) /\ at' # "off"
      BY <2>1, <2>4, <2>7 DEF SpeakingLeads, Speaking!Goto
    <3> QED BY <1>7, <2>2, <2>5, <2>7, <3>1
  <2> QED BY <1>6, <2>3, <2>5, <2>6, <2>7
<1>19. CASE Speaking!AudioReadBack
  <2>1. /\ at = "audio"
        /\ \/ UNCHANGED Speaking!reportVars /\ Speaking!Goto("evaluate", step.item, 0)
           \/ Speaking!Saves(report) /\ Speaking!TurnStage(step.item + 1)
           \/ Speaking!Fails(report, "ValueError")
    BY <1>19 DEF Speaking!AudioReadBack, Speaking!AudioRaises
  <2>2. Speaking!Goto("evaluate", step.item, 0) => SpeakingLeads(report.turns) /\ at' # "off"
    BY <2>1 DEF Speaking!Goto, SpeakingLeads
  <2>3. Speaking!TurnStage(step.item + 1) => SpeakingLeads(report.turns) /\ at' # "off"
    BY <1>3, <2>1, SpeakingTurnBegins DEF SpeakingLeads, TurnStages
  <2> QED BY <1>1, <1>2, <1>7, <1>8, <1>9, <1>11, <2>1, <2>2, <2>3
<1>20. CASE Speaking!ProblemPolled
  <2> DEFINE p == step.item \div 2
             new == [report EXCEPT !.problems = Append(@, [problem |-> p, status |-> server.problems[p]])]
             last == [new EXCEPT !.status = "EVALUATION_NOT_EVALUATED_NO_RETRY"]
  <2>1. p \in Speaking!Problems
    BY <1>1, <1>20 DEF Speaking!ProblemPolled, SpeakingPlace
  <2>2. /\ new \in Speaking!Reports /\ new.status = report.status /\ new.turns = report.turns
        /\ last \in Speaking!Reports /\ last.status \notin Completions /\ last.turns = report.turns
    <3> HIDE DEF p
    <3> QED BY <1>13, <2>1
  <2>3. /\ at = "evaluation"
        /\ \/ Speaking!PollsOn \/ Speaking!Fails(report, "TimeoutError")
           \/ Speaking!Returns(last) \/ Speaking!Fails(new, "ValueError")
           \/ Speaking!Saves(new) /\ Speaking!TurnStage(step.item + 1)
    BY <1>20 DEF Speaking!ProblemPolled, Speaking!EvidenceRaises
  <2>4. Speaking!TurnStage(step.item + 1) => SpeakingLeads(new.turns) /\ at' # "off"
    BY <1>3, <2>3, SpeakingTurnBegins DEF SpeakingLeads, TurnStages
  <2> HIDE DEF new, last
  <2>5. CASE Speaking!Saves(new) /\ Speaking!TurnStage(step.item + 1)
    BY <1>7, <1>9, <2>2, <2>4, <2>5
  <2>6. CASE Speaking!Returns(last)
    BY <1>6, <1>9, <2>2, <2>6
  <2>7. CASE Speaking!Fails(new, "ValueError")
    BY <1>2, <1>5, <1>9, <2>2, <2>7
  <2> QED BY <1>2, <1>10, <1>11, <2>3, <2>5, <2>6, <2>7
<1>21. CASE Speaking!TurnsDone \/ Speaking!CompletionAsked
  <2>1. UNCHANGED Speaking!reportVars /\ at' # "off" /\ SpeakingLeads(report.turns)
    BY <1>21 DEF Speaking!TurnsDone, Speaking!CompletionAsked, Speaking!Goto, SpeakingLeads, LastStages
  <2> QED BY <1>8, <2>1
<1>22. CASE Speaking!FinalPolled
  <2> DEFINE last == [report EXCEPT !.status = Speaking!Outcome]
             short == [report EXCEPT !.status = "INSUFFICIENT_REAL_AUDIO_DURATION_NO_PADDING"]
  <2>1. /\ Speaking!Outcome \in {"EVALUATION_NOT_EVALUATED_NO_RETRY", "COMPLETED_WITH_NON_EVALUABLE_PROBLEM", "COMPLETED"}
        /\ Speaking!Outcome \in Completions => server.evaluation = "EVALUATED"
    BY DEF Speaking!Outcome, Completions
  <2>2. /\ last \in Speaking!Reports /\ last.status = Speaking!Outcome /\ last.turns = report.turns
        /\ short \in Speaking!Reports /\ short.status \notin Completions /\ short.turns = report.turns
    <3>1. SpeakingIs(last, report.turns, Speaking!Outcome)
      <4> DEFINE outcome == Speaking!Outcome
      <4> HIDE DEF outcome
      <4>1. outcome \in {"EVALUATION_NOT_EVALUATED_NO_RETRY", "COMPLETED_WITH_NON_EVALUABLE_PROBLEM", "COMPLETED"}
        BY <2>1 DEF outcome
      <4>2. SpeakingIs([report EXCEPT !.status = outcome], report.turns, outcome)
        BY <1>1, <4>1, SpeakingEntries
      <4> QED BY <4>2 DEF outcome
    <3>2. SpeakingIs(short, report.turns, "INSUFFICIENT_REAL_AUDIO_DURATION_NO_PADDING")
      BY <1>1, SpeakingEntries
    <3> QED BY <3>1, <3>2 DEF SpeakingIs, Completions
  <2>3. /\ at = "final"
        /\ \/ Speaking!Returns(last) \/ Speaking!Returns(short) \/ Speaking!PollsOn
           \/ Speaking!Fails(report, "ValueError") \/ Speaking!Fails(report, "TimeoutError")
    BY <1>22 DEF Speaking!FinalPolled, Speaking!EvidenceRaises
  <2> HIDE DEF last, short
  <2>4. CASE Speaking!Returns(last)
    <3>1. SpeakingMoved(report.turns)
      BY <1>2, <1>9, <2>1, <2>2, <2>3, <2>4 DEF Speaking!Returns, SpeakingMoved, SpeakingWritten
    <3> QED BY <3>1 DEF Good
  <2>5. CASE Speaking!Returns(short)
    BY <1>6, <1>9, <2>2, <2>5
  <2> QED BY <1>2, <1>10, <1>11, <2>3, <2>4, <2>5
<1>23. CASE Speaking!Prepared
  <2> DEFINE Begun(status) == [report.turns[step.item] EXCEPT !.status = status]
  <2>1. /\ at = "prepare"
        /\ \/ Speaking!Saves(Speaking!Begun("STARTED")) /\ Speaking!Goto("grant", step.item, 0)
           \/ Speaking!Fails(Speaking!Begun("PREPARING_SYNTHETIC_AUDIO"), "ValueError")
    BY <1>23 DEF Speaking!Prepared, Speaking!LearnerRaises
  <2>2. ASSUME NEW status \in {"STARTED", "PREPARING_SYNTHETIC_AUDIO"}
        PROVE  /\ Speaking!Begun(status) \in Speaking!Reports /\ Speaking!Begun(status).status = report.status
               /\ SpeakingRecords(Speaking!Begun(status).turns)
    <3>1. step.item \in 1 .. Turns
      BY <1>3, <2>1 DEF TurnStages
    <3>2. Begun(status) \in Speaking!TurnRecords
      BY <1>1, <3>1 DEF Speaking!TurnRecords, Speaking!TurnStatuses, Speaking!Reports
    <3>3. Speaking!Begun(status) = [report EXCEPT !.turns[step.item] = Begun(status)]
      BY DEF Speaking!Begun
    <3> DEFINE record == Begun(status)
    <3>4. record = [report.turns[step.item] EXCEPT !.status = status]
      OBVIOUS
    <3> HIDE DEF record
    <3>5. SpeakingIs([report EXCEPT !.turns[step.item] = record],
                     [report.turns EXCEPT ![step.item] = record], report.status)
      <4>1. record \in Speaking!TurnRecords
        BY <3>2 DEF record
      <4> QED BY <1>1, <3>1, <4>1, SpeakingEntries
    <3>6. SpeakingRecords([report.turns EXCEPT ![step.item] = record])
      BY <2>1, <2>2, <3>4 DEF SpeakingRecords
    <3> QED BY <3>3, <3>5, <3>6 DEF record, SpeakingIs
  <2>3. Speaking!Goto("grant", step.item, 0) => at' # "off" /\ \A turns : SpeakingLeads(turns)
    BY <2>1 DEF Speaking!Goto, SpeakingLeads
  <2>4. CASE Speaking!Saves(Speaking!Begun("STARTED")) /\ Speaking!Goto("grant", step.item, 0)
    BY <1>7, <2>2, <2>3, <2>4
  <2>5. CASE Speaking!Fails(Speaking!Begun("PREPARING_SYNTHETIC_AUDIO"), "ValueError")
    BY <1>2, <1>5, <2>2, <2>5
  <2> QED BY <2>1, <2>4, <2>5
<1> QED BY <1>12, <1>14, <1>15, <1>16, <1>17, <1>18, <1>19, <1>20, <1>21, <1>22, <1>23
        DEF Speaking!Hears200

(* The back end. It has a turn anew when it is sent, and otherwise only when it has failed. *)
SpeakingTakes(actor, t) ==
  sent[actor] # None /\ ~sent[actor].out /\ sent[actor].id \in {<<"turn", t>>, <<"again", t>>}
LEMMA SpeakingServesTurns ==
  ASSUME Speaking!WorkflowAssumption, server \in Speaking!Servers,
         NEW id \in Speaking!Requests \cup {Read}, NEW new \in Speaking!Served(id), NEW t \in 1 .. Turns
  PROVE  \/ new.turns[t] = server.turns[t]
         \/ /\ new.turns[t].status # None
            /\ id \in {<<"turn", t>>, <<"again", t>>} \/ server.turns[t].status = "PARTIAL_FAILURE"
<1>1. /\ 1 \in 1 .. Turns /\ None \notin Speaking!TurnStatuses
      /\ \A u \in 1 .. Turns : server.turns[u] \in Speaking!TurnRecords
  BY SpeakingNone DEF Speaking!WorkflowAssumption, Speaking!Servers
<1>2. id[1] \in {"turn", "again", "retry turn"} => id[2] \in 1 .. Turns /\ id = <<id[1], id[2]>>
  <2>1. CASE id \in {<<"create">>, <<"complete">>, <<"retry evaluation">>, <<"read">>}
    <3>1. PICK name \in {"create", "complete", "retry evaluation", "read"} : id = <<name>>
      BY <2>1
    <3>2. id[1] = name
      BY <3>1
    <3> QED BY <3>1, <3>2
  <2>2. CASE id \in {"grant", "turn", "rerecord", "again", "retry turn"} \X (1 .. Turns)
    <3> DEFINE kinds == {"grant", "turn", "rerecord", "again", "retry turn"}
               turns == 1 .. Turns
    <3> HIDE DEF kinds, turns
    <3>1. id \in kinds \X turns
      BY <2>2 DEF kinds, turns
    <3>2. id = <<id[1], id[2]>> /\ id[2] \in turns
      BY <3>1
    <3> QED BY <3>2 DEF turns
  <2>3. CASE id \in {"evaluate", "retry problem"} \X Speaking!Problems
    BY <2>3
  <2> QED BY <2>1, <2>2, <2>3 DEF Speaking!Requests, Read
<1>3. \/ new.turns = server.turns
      \/ /\ id[1] \in {"turn", "again"}
         /\ \E record \in Speaking!Taken(server.turns[id[2]]) \cup Speaking!Silent(server.turns[id[2]]) :
              new = [server EXCEPT !.turns[id[2]] = record]
      \/ /\ id[1] = "retry turn" /\ server.turns[id[2]].status = "PARTIAL_FAILURE"
         /\ \E record \in Speaking!Retried(server.turns[id[2]]) :
              new = [server EXCEPT !.turns[id[2]] = record]
  <2>1. \/ new = server
        \/ new = [server EXCEPT !.session = "IN_PROGRESS"]
        \/ new = [server EXCEPT !.evaluation = "EVALUATING"]
        \/ \E p : new = [server EXCEPT !.problems[p] = "EVALUATING"]
        \/ /\ id[1] \in {"turn", "again"}
           /\ \E record \in Speaking!Taken(server.turns[id[2]]) \cup Speaking!Silent(server.turns[id[2]]) :
                new = [server EXCEPT !.turns[id[2]] = record]
        \/ /\ id[1] = "retry turn" /\ server.turns[id[2]].status = "PARTIAL_FAILURE"
           /\ \E record \in Speaking!Retried(server.turns[id[2]]) :
                new = [server EXCEPT !.turns[id[2]] = record]
    BY DEF Speaking!Served, Speaking!Turned
  <2>2. \/ new = server
        \/ new = [server EXCEPT !.session = "IN_PROGRESS"]
        \/ new = [server EXCEPT !.evaluation = "EVALUATING"]
        \/ \E p : new = [server EXCEPT !.problems[p] = "EVALUATING"]
        => new.turns = server.turns
    BY DEF Speaking!Servers
  <2> QED BY <2>1, <2>2
<1>4. ASSUME NEW u \in 1 .. Turns, NEW record, record.status # None,
             new = [server EXCEPT !.turns[u] = record], t # u => new.turns[t] = server.turns[t]
      PROVE  new.turns[t] = server.turns[t] \/ (t = u /\ new.turns[t].status # None)
  BY <1>4 DEF Speaking!Servers
<1>5. ASSUME NEW u \in 1 .. Turns, NEW record, new = [server EXCEPT !.turns[u] = record]
      PROVE  t # u => new.turns[t] = server.turns[t]
  BY <1>5 DEF Speaking!Servers
<1>6. ASSUME NEW u \in 1 .. Turns,
             NEW record \in Speaking!Taken(server.turns[u]) \cup Speaking!Silent(server.turns[u])
                              \cup Speaking!Retried(server.turns[u])
      PROVE  record.status # None
  <2>1. server.turns[u] \in Speaking!TurnRecords
    BY <1>1
  <2>2. record.status \in {"READY", "FAILED", "PARTIAL_FAILURE", "SILENT"}
    <3>1. CASE record \in Speaking!Taken(server.turns[u]) \cup Speaking!Silent(server.turns[u])
      BY <2>1, <3>1 DEF Speaking!Taken, Speaking!Silent, Speaking!TurnRecords
    <3>2. CASE record \in Speaking!Retried(server.turns[u])
      BY <3>2 DEF Speaking!Retried
    <3> QED BY <1>6, <3>1, <3>2
  <2> QED BY <1>1, <2>2 DEF Speaking!TurnStatuses
<1> QED BY <1>2, <1>3, <1>4, <1>5, <1>6
LEMMA SpeakingServerTurns ==
  ASSUME Speaking!WorkflowAssumption, SpeakingIInv, Speaking!Next \/ UNCHANGED Speaking!vars,
         NEW t \in 1 .. Turns
  PROVE  \/ server'.turns[t] = server.turns[t]
         \/ /\ server'.turns[t].status # None
            /\ (\E actor \in Actors : SpeakingTakes(actor, t)) \/ server.turns[t].status = "PARTIAL_FAILURE"
<1>1. server \in Speaking!Servers
  BY DEF SpeakingIInv
<1>2. ASSUME NEW actor \in Actors, Speaking!Reaches(actor)
      PROVE  \/ server'.turns[t] = server.turns[t]
             \/ /\ server'.turns[t].status # None
                /\ SpeakingTakes(actor, t) \/ server.turns[t].status = "PARTIAL_FAILURE"
  <2>1. /\ sent[actor] # None /\ ~sent[actor].out /\ server' \in Speaking!Served(sent[actor].id)
        /\ sent[actor].id \in Speaking!Requests \cup {Read}
    BY <1>2 DEF Speaking!Reaches, Speaking!Goes, SpeakingIInv, ClientState, ClientIInv, ClientShape, Sendings
  <2> QED BY <1>1, <2>1, SpeakingServesTurns DEF SpeakingTakes
<1>3. Speaking!ServerWorks => server'.turns = server.turns
  <2>1. Speaking!ProblemEvaluated => server'.turns = server.turns
    BY <1>1 DEF Speaking!ProblemEvaluated, Speaking!Servers
  <2>2. Speaking!SessionEvaluated => server'.turns = server.turns
    BY <1>1 DEF Speaking!SessionEvaluated, Speaking!Servers
  <2> QED BY <2>1, <2>2 DEF Speaking!ServerWorks
<1>4. server' = server \/ Speaking!ServerWorks \/ \E actor \in Actors : Speaking!Reaches(actor)
  BY DEF Speaking!Next, Speaking!vars, Speaking!Starts, Speaking!Resumes, Speaking!Works, Speaking!Ask,
     Speaking!Asks, Speaking!Lost, Speaking!Hears200, Speaking!Unanswered, Speaking!Killed,
     Speaking!RemovesLock, Speaking!Sends, Speaking!Hears, Actors
<1> QED BY <1>2, <1>3, <1>4
LEMMA SpeakingUnheard ==
  ASSUME Speaking!WorkflowAssumption, Speaking!Next \/ UNCHANGED Speaking!vars
  PROVE  Unheard(Speaking!Request) \/ \E actor \in Actors : Speaking!Reaches(actor)
<1>1. Speaking!Starts \/ Speaking!Resumes \/ Speaking!Prepared \/ Speaking!ServerWorks
        \/ UNCHANGED Speaking!vars => UNCHANGED clientVars
  BY DEF Speaking!Starts, Speaking!Resumes, Speaking!Prepared,
     Speaking!ServerWorks, Speaking!vars, Speaking!clientVars, clientVars
<1>2. Speaking!Ask => Unheard(Speaking!Request)
  BY SpeakingClient DEF Speaking!Ask, Asks, Unheard
<1>3. Speaking!Lost => Unheard(Speaking!Request)
  BY SpeakingClient DEF Lost, Unheard, Actors
<1>4. Speaking!Hears200 => \E status : Concluded("workflow", status)
  BY SpeakingAnswered DEF Answered
<1>5. Speaking!Hears200 => Unheard(Speaking!Request)
  BY <1>4 DEF Unheard, Actors
<1>6. ASSUME NEW errors, Speaking!Unanswered(errors) PROVE Unheard(Speaking!Request)
  BY <1>6, SpeakingClient DEF Unanswered, Unheard, Actors
<1>7. Speaking!Sends \/ Speaking!Hears => Unheard(Speaking!Request)
  BY SpeakingClient DEF Sends, Hears, Unheard, Actors
<1>8. Speaking!Killed \/ Speaking!RemovesLock => Unheard(Speaking!Request)
  BY SpeakingClient DEF Unheard
<1>9. UNCHANGED clientVars => Unheard(Speaking!Request)
  BY DEF Unheard
<1>10. "workflow" \in Actors /\ "operator" \in Actors
  BY DEF Actors
<1>11. \/ Speaking!Starts \/ Speaking!Resumes \/ Speaking!Prepared \/ Speaking!ServerWorks
       \/ UNCHANGED Speaking!vars \/ Speaking!Ask \/ Speaking!Lost \/ Speaking!Hears200
       \/ (\E errors : Speaking!Unanswered(errors))
       \/ Speaking!Sends \/ Speaking!Hears \/ Speaking!Killed \/ Speaking!RemovesLock
       \/ \E actor \in Actors : Speaking!Reaches(actor)
  BY <1>10 DEF Speaking!Next, Speaking!Works
<1> QED BY <1>1, <1>2, <1>3, <1>5, <1>6, <1>7, <1>8, <1>9, <1>11

(* What a step does to the report: nothing; it begins or resumes a run; it ends one, with an error
   or without a word; or it is a stage of it. *)
LEMMA SpeakingDoes ==
  ASSUME Speaking!WorkflowAssumption, SpeakingIInv, Speaking!Next \/ UNCHANGED Speaking!vars
  PROVE  \/ UNCHANGED <<at, step, reportVars>>
         \/ Speaking!Starts \/ Speaking!Resumes
         \/ /\ at # "off" /\ at' = "off"
            /\ artifact' = artifact \/ \E error \in ErrorNames : Speaking!Fails(report, error)
         \/ Speaking!Hears200 \/ (Speaking!Prepared /\ UNCHANGED server)
<1>1. ASSUME NEW errors \in SUBSET ErrorNames, Speaking!Unanswered(errors)
      PROVE  at # "off" /\ at' = "off" /\ \E error \in ErrorNames : Speaking!Fails(report, error)
  BY <1>1 DEF Speaking!Unanswered, Speaking!Fails, Speaking!Concluded, SpeakingIInv, ClientState, Waits
<1>2. Speaking!Ask => \/ UNCHANGED <<at, step, reportVars>>
                      \/ at # "off" /\ at' = "off" /\ \E error \in ErrorNames : Speaking!Fails(report, error)
  <2>1. Speaking!Refusal \in ErrorNames
    BY DEF Speaking!Refusal, ErrorNames
  <2> QED BY <2>1 DEF Speaking!Ask, Speaking!Asks, Speaking!Fails, Speaking!reportVars, reportVars
<1>3. Speaking!Killed => at # "off" /\ at' = "off" /\ artifact' = artifact
  BY DEF Speaking!Killed
<1>4. Speaking!Lost \/ Speaking!ServerWorks \/ Speaking!RemovesLock \/ Speaking!Sends \/ Speaking!Hears
        \/ (\E actor : Speaking!Reaches(actor)) \/ UNCHANGED Speaking!vars
        => UNCHANGED <<at, step, reportVars>>
  BY DEF Speaking!Lost, Speaking!Reaches, Speaking!ServerWorks, Speaking!RemovesLock, Speaking!Sends,
     Speaking!Hears, Speaking!vars, Speaking!reportVars, reportVars
<1>5. Speaking!Errors("RuntimeError") \ (IF at = "silence" THEN {"RuntimeError"} ELSE {}) \in SUBSET ErrorNames
  BY DEF Speaking!Errors, ErrorNames
<1>6. Speaking!Works => \/ Speaking!Ask \/ (\E actor : Speaking!Reaches(actor)) \/ Speaking!Lost
                        \/ Speaking!Hears200 \/ (Speaking!Prepared /\ UNCHANGED server)
                        \/ \E errors \in SUBSET ErrorNames : Speaking!Unanswered(errors)
  BY <1>5 DEF Speaking!Works
<1>7. \/ Speaking!Starts \/ Speaking!Resumes \/ Speaking!Works \/ Speaking!ServerWorks \/ Speaking!Killed
      \/ Speaking!RemovesLock \/ Speaking!Sends \/ (\E actor : Speaking!Reaches(actor)) \/ Speaking!Hears
      \/ UNCHANGED Speaking!vars
  BY DEF Speaking!Next
<1> QED BY <1>1, <1>2, <1>3, <1>4, <1>6, <1>7

(* What has been recognised in a turn is not recognised again: there is no text before the turn
   is sent, and one that was sent is only read back. *)
Blank(turns) == \A t \in 1 .. Turns : turns[t].status = None => turns[t].text = None
TextsKept(old, new) == \A t \in 1 .. Turns : old[t].text # None => new[t].text = old[t].text
Sending == {"prepare", "grant", "silence", "silent", "rerecord", "turn"}
SpeakingTexts ==
  /\ Blank(server.turns) /\ (artifact # None => Blank(artifact.turns))
  /\ at # "off" => /\ artifact # None /\ Blank(report.turns) /\ TextsKept(artifact.turns, report.turns)
                   /\ at \in Sending => report.turns[step.item].text = None

(* Only the record of this turn changes. *)
LEMMA SpeakingRecordsOne ==
  ASSUME Speaking!WorkflowAssumption, SpeakingIInv, at # "off", NEW turns, SpeakingRecords(turns)
  PROVE  /\ turns \in [1 .. Turns -> Speaking!TurnRecords]
         /\ \A t \in 1 .. Turns : t # step.item => turns[t] = report.turns[t]
         /\ at \notin {"prepare", "turn", "readback"} => turns = report.turns
         /\ at = "prepare" => /\ turns[step.item].text = report.turns[step.item].text
                              /\ \/ turns[step.item].status \in {"STARTED", "PREPARING_SYNTHETIC_AUDIO"}
                                 \/ turns = report.turns
         /\ at \in {"turn", "readback"} => turns = report.turns \/ turns[step.item] = server.turns[step.item]
<1>1. report \in Speaking!Reports /\ server \in Speaking!Servers /\ SpeakingPlace
  BY SpeakingRun DEF SpeakingIInv
<1>2. /\ report.turns \in [1 .. Turns -> Speaking!TurnRecords]
      /\ \A t \in 1 .. Turns : server.turns[t] \in Speaking!TurnRecords
      /\ at \in TurnStages => step.item \in 1 .. Turns
  BY <1>1 DEF Speaking!Reports, Speaking!Servers, SpeakingPlace
<1>3. CASE turns = report.turns
  BY <1>2, <1>3 DEF TurnStages
<1>4. ASSUME at = "prepare",
             NEW status \in {"STARTED", "PREPARING_SYNTHETIC_AUDIO"},
             turns = [report.turns EXCEPT ![step.item] = [report.turns[step.item] EXCEPT !.status = status]]
      PROVE  /\ turns \in [1 .. Turns -> Speaking!TurnRecords]
             /\ \A t \in 1 .. Turns : t # step.item => turns[t] = report.turns[t]
             /\ turns[step.item].text = report.turns[step.item].text /\ turns[step.item].status = status
  <2>1. step.item \in 1 .. Turns
    BY <1>2, <1>4 DEF TurnStages
  <2> DEFINE record == [report.turns[step.item] EXCEPT !.status = status]
  <2>2. record \in Speaking!TurnRecords /\ record.status = status /\ record.text = report.turns[step.item].text
    BY <1>2, <2>1 DEF Speaking!TurnRecords, Speaking!TurnStatuses
  <2>3. turns = [report.turns EXCEPT ![step.item] = record]
    BY <1>4
  <2> HIDE DEF record
  <2> QED BY <1>2, <2>1, <2>2, <2>3
<1>5. CASE at \in {"turn", "readback"} /\ turns = [report.turns EXCEPT ![step.item] = server.turns[step.item]]
  BY <1>2, <1>5 DEF TurnStages
<1> QED BY <1>3, <1>4, <1>5 DEF SpeakingRecords

LEMMA SpeakingRecordsText ==
  ASSUME Speaking!WorkflowAssumption, SpeakingIInv, SpeakingTexts, at # "off",
         NEW turns, SpeakingRecords(turns)
  PROVE  Blank(turns) /\ TextsKept(report.turns, turns) /\ TextsKept(artifact.turns, turns)
<1>1. /\ report \in Speaking!Reports /\ server \in Speaking!Servers
      /\ None \notin Speaking!TurnStatuses /\ SpeakingPlace
  BY SpeakingRun DEF Speaking!WorkflowAssumption, SpeakingIInv
<1>2. /\ report.turns \in [1 .. Turns -> Speaking!TurnRecords]
      /\ \A t \in 1 .. Turns : server.turns[t] \in Speaking!TurnRecords
  BY <1>1 DEF Speaking!Reports, Speaking!Servers
<1>3. /\ Blank(report.turns) /\ TextsKept(artifact.turns, report.turns) /\ Blank(server.turns)
      /\ at \in Sending => report.turns[step.item].text = None
  BY DEF SpeakingTexts
<1>4. SUFFICES Blank(turns) /\ TextsKept(report.turns, turns)
  BY <1>3 DEF TextsKept
<1>5. ASSUME step.item \in 1 .. Turns,
             NEW record, turns = [report.turns EXCEPT ![step.item] = record],
             record.status = None => record.text = None,
             report.turns[step.item].text # None => record.text = report.turns[step.item].text
      PROVE  Blank(turns) /\ TextsKept(report.turns, turns)
  <2>1. \A t \in 1 .. Turns : turns[t] = IF t = step.item THEN record ELSE report.turns[t]
    BY <1>2, <1>5
  <2> QED BY <1>3, <1>5, <2>1 DEF Blank, TextsKept
<1>6. CASE turns = report.turns
  BY <1>3, <1>6 DEF TextsKept
<1>7. ASSUME at = "prepare",
             NEW status \in {"STARTED", "PREPARING_SYNTHETIC_AUDIO"},
             turns = [report.turns EXCEPT ![step.item] = [report.turns[step.item] EXCEPT !.status = status]]
      PROVE  Blank(turns) /\ TextsKept(report.turns, turns)
  <2>1. step.item \in 1 .. Turns
    BY <1>1, <1>7 DEF SpeakingPlace, TurnStages
  <2> DEFINE record == [report.turns[step.item] EXCEPT !.status = status]
  <2>2. record.status = status /\ record.text = report.turns[step.item].text /\ status # None
    BY <1>1, <1>2, <2>1 DEF Speaking!TurnRecords, Speaking!TurnStatuses
  <2>3. turns = [report.turns EXCEPT ![step.item] = record]
    BY <1>7
  <2> HIDE DEF record
  <2> QED BY <1>5, <2>1, <2>2, <2>3
<1>8. ASSUME \/ at = "turn"
             \/ at = "readback" /\ Speaking!Kept(report.turns[step.item], server.turns[step.item]),
             turns = [report.turns EXCEPT ![step.item] = server.turns[step.item]]
      PROVE  Blank(turns) /\ TextsKept(report.turns, turns)
  <2>1. step.item \in 1 .. Turns
    BY <1>1, <1>8 DEF SpeakingPlace, TurnStages
  <2>2. /\ server.turns[step.item].status = None => server.turns[step.item].text = None
        /\ report.turns[step.item].text # None => server.turns[step.item].text = report.turns[step.item].text
    BY <1>3, <1>8, <2>1 DEF Blank, Speaking!Kept, Sending
  <2> QED BY <1>5, <1>8, <2>1, <2>2
<1> QED BY <1>6, <1>7, <1>8 DEF SpeakingRecords

(* Every step keeps the texts, and so what is on disk of them. *)
LEMMA SpeakingTextStages ==
  ASSUME Speaking!WorkflowAssumption, SpeakingIInv, SpeakingTexts, Blank(server'.turns),
         Speaking!Hears200 \/ (Speaking!Prepared /\ UNCHANGED server), SpeakingIInv'
  PROVE  SpeakingTexts' /\ Speaking!KeepsText
<1>1. PICK turns : SpeakingMoved(turns)
  BY SpeakingMoves
<1>2. at # "off"
  BY SpeakingAnswered DEF Speaking!Prepared
<1>3. /\ Blank(turns) /\ TextsKept(report.turns, turns) /\ TextsKept(artifact.turns, turns)
      /\ artifact # None /\ Blank(report.turns) /\ Blank(artifact.turns)
  BY <1>1, <1>2, SpeakingRecordsText DEF SpeakingMoved, SpeakingTexts
<1>4. CASE at' = "off"
  <2>1. artifact' # None /\ artifact'.turns = turns
    BY <1>1, <1>4 DEF SpeakingMoved, SpeakingWritten
  <2> QED BY <1>3, <1>4, <2>1 DEF SpeakingTexts, Speaking!KeepsText, TextsKept, Blank
<1>5. CASE at' # "off"
  <2>1. report'.turns = turns /\ artifact' \in {artifact, report'} /\ SpeakingLeads(turns)
    BY <1>1, <1>5 DEF SpeakingMoved, SpeakingWritten
  <2>2. report' # None
    BY <1>5 DEF SpeakingIInv, ClientState, ClientIInv, TellsErrors
  <2>3. Blank(artifact'.turns) /\ TextsKept(artifact'.turns, turns) /\ artifact' # None
    BY <1>3, <2>1, <2>2 DEF TextsKept
  <2>4. Speaking!KeepsText
    BY <1>3, <2>1 DEF Speaking!KeepsText, TextsKept
  <2>5. ASSUME at' \in Sending PROVE turns[step'.item].text = None
    <3>1. /\ \A t \in 1 .. Turns : t # step.item => turns[t] = report.turns[t]
          /\ at \notin {"prepare", "turn", "readback"} => turns = report.turns
          /\ at = "prepare" => turns[step.item].text = report.turns[step.item].text
      BY <1>1, <1>2, SpeakingRecordsOne DEF SpeakingMoved
    <3>2. at \in Sending => report.turns[step.item].text = None
      BY <1>2 DEF SpeakingTexts
    <3>3. ASSUME NEW k \in 1 .. Turns, SpeakingBegins(k), turns[k] = report.turns[k]
          PROVE  turns[step'.item].text = None
      BY <1>3, <2>5, <3>3 DEF SpeakingBegins, Blank, Sending
    <3>4. \A k : SpeakingBegins(k) => k \in 1 .. Turns
      BY <2>5 DEF SpeakingBegins, Sending
    <3>5. CASE at' = at /\ step'.item = step.item /\ turns = report.turns
      BY <2>5, <3>2, <3>5
    <3>6. CASE at \notin TurnStages /\ SpeakingBegins(1)
      BY <3>1, <3>3, <3>4, <3>6 DEF TurnStages
    <3>7. CASE at \in {"prepare", "grant", "silence", "silent", "rerecord"} /\ step'.item = step.item
      BY <3>1, <3>2, <3>7 DEF Sending
    <3>8. CASE at \in {"readback", "audio", "evaluation"} /\ SpeakingBegins(step.item + 1)
      <4>1. step.item \in 1 .. Turns
        BY <3>8 DEF SpeakingIInv, SpeakingPlace, TurnStages
      <4>2. step.item + 1 # step.item /\ step.item + 1 \in 1 .. Turns
        BY <3>4, <3>8, <4>1
      <4> QED BY <3>1, <3>3, <3>8, <4>2
    <3> QED BY <2>1, <2>5, <3>5, <3>6, <3>7, <3>8 DEF SpeakingLeads, Sending, LastStages
  <2> QED BY <1>3, <1>5, <2>1, <2>3, <2>4, <2>5 DEF SpeakingTexts, Blank
<1> QED BY <1>4, <1>5

LEMMA SpeakingTextSteps ==
  ASSUME Speaking!WorkflowAssumption, SpeakingIInv, SpeakingTexts, Speaking!Next \/ UNCHANGED Speaking!vars
  PROVE  SpeakingTexts' /\ Speaking!KeepsText
<1>1. SpeakingIInv' /\ Blank(server.turns) /\ Blank(server'.turns)
  <2>1. Blank(server.turns)
    BY DEF SpeakingTexts
  <2> QED BY <2>1, SpeakingNext, SpeakingServerTurns DEF Blank
<1>2. CASE UNCHANGED <<at, step, reportVars>>
  BY <1>1, <1>2 DEF SpeakingTexts, Speaking!KeepsText, TextsKept, Blank, reportVars
<1>3. CASE Speaking!Hears200 \/ (Speaking!Prepared /\ UNCHANGED server)
  BY <1>1, <1>3, SpeakingTextStages
<1>4. CASE at # "off" /\ at' = "off" /\ artifact' = artifact
  BY <1>1, <1>4 DEF SpeakingTexts, Speaking!KeepsText, Blank
<1>5. ASSUME at # "off", NEW error \in ErrorNames, Speaking!Fails(report, error)
      PROVE  SpeakingTexts' /\ Speaking!KeepsText
  <2>1. report \in Speaking!Reports
    BY <1>5, SpeakingRun
  <2>2. at' = "off" /\ artifact'.turns = report.turns
    BY <1>5, <2>1 DEF Speaking!Fails, Speaking!Reports
  <2> QED BY <1>1, <1>5, <2>2 DEF SpeakingTexts, Speaking!KeepsText, TextsKept, Blank
(* What a run begins with. *)
<1>6. ASSUME at' \in {"active", "detail"}, report' = artifact', Blank(artifact'.turns), Speaking!KeepsText
      PROVE  SpeakingTexts' /\ Speaking!KeepsText
  <2>1. artifact' # None
    BY <1>1, <1>6 DEF SpeakingIInv, ClientState, ClientIInv, TellsErrors
  <2> QED BY <1>1, <1>6, <2>1 DEF SpeakingTexts, TextsKept, Blank, Sending
<1>7. CASE Speaking!Starts
  <2>1. /\ at' = "active" /\ report' = artifact' /\ artifact = None
        /\ artifact'.turns = [t \in 1 .. Turns |-> Speaking!NoTurn]
    BY <1>7 DEF Speaking!Starts, Speaking!Opens, Speaking!Goto
  <2> QED BY <1>6, <2>1 DEF Blank, Speaking!NoTurn, Speaking!KeepsText
<1>8. CASE Speaking!Resumes
  <2>1. artifact \in Speaking!Reports /\ artifact # None
    BY <1>8 DEF Speaking!Resumes, SpeakingIInv, ClientState
  <2>2. at' = "detail" /\ report' = artifact' /\ artifact'.turns = artifact.turns
    <3> DEFINE old == Preserved(artifact)
               prior == IF artifact.problems # <<>> THEN artifact.problems ELSE old.priorProblems
               retried == Speaking!FailedConversation(artifact)
    <3>1. /\ at' = "detail" /\ report' = artifact'
          /\ artifact' = [old EXCEPT !.status = "RESUMED_EXISTING_SESSION_ONLY", !.resumed = TRUE,
                            !.problems = <<>>, !.priorProblems = prior, !.retried = retried]
      BY <1>8, SpeakingClient DEF Speaking!Resumes, Speaking!Opens, Speaking!Goto
    <3>2. old.turns = artifact.turns
      BY <2>1 DEF Preserved, Speaking!Reports
    <3> HIDE DEF old, prior, retried
    <3> QED BY <3>1, <3>2
  <2>3. Blank(artifact.turns)
    BY <2>1 DEF SpeakingTexts
  <2> QED BY <1>6, <2>2, <2>3 DEF Speaking!KeepsText
<1> QED BY <1>2, <1>3, <1>4, <1>5, <1>7, <1>8, SpeakingDoes

(* The speaking workflow: a text that was recognised in a turn is in every later report what it
   was, although a retry of the operator may make another of it in the back end. *)
THEOREM SpeakingTextsAreKept ==
  ASSUME Speaking!WorkflowAssumption
  PROVE  Speaking!Spec => [][Speaking!KeepsText]_(Speaking!vars)
<1>1. Speaking!Init => SpeakingIInv /\ SpeakingTexts
  <2> SUFFICES ASSUME Speaking!Init PROVE SpeakingIInv /\ SpeakingTexts
    OBVIOUS
  <2>1. server = Speaking!NoServer /\ at = "off" /\ artifact = None
    BY DEF Speaking!Init, Speaking!ClientInit
  <2>2. Blank(server.turns)
    BY <2>1 DEF Speaking!NoServer, Speaking!NoTurn, Blank
  <2> QED BY <2>1, <2>2, SpeakingInitially DEF SpeakingTexts
<1>2. SpeakingIInv /\ SpeakingTexts /\ [Speaking!Next]_(Speaking!vars)
        => SpeakingIInv' /\ SpeakingTexts' /\ Speaking!KeepsText
  BY SpeakingNext, SpeakingTextSteps
<1> QED BY <1>1, <1>2, PTL DEF Speaking!Spec

(* A turn that was sent, with the probe a second time, is not sent again. What the report has of a
   turn beyond its beginning was sent, by the run or before it. *)
Spent(t) == reached[<<"turn", t>>] # 0 /\ (Probe /\ t = 1 => reached[<<"again", t>>] # 0)
RecordsSpent(turns) == \A t \in 1 .. Turns :
  turns[t].status \notin {None, "STARTED", "PREPARING_SYNTHETIC_AUDIO"} => Spent(t)
SpeakingServed ==
  /\ OutIsCounted(Speaking!Requests)
  /\ \A a \in Actors : \A t \in 1 .. Turns :
       sent[a] # None /\ sent[a].id = <<"again", t>> => Probe /\ t = 1

(* The turns before this one, and all of them at the end, are READY, and the report has them of
   the back end. *)
SpeakingDone(t) == report.turns[t] = server.turns[t] /\ server.turns[t].status = "READY"
SpeakingUnder ==
  /\ report.status \notin Completions /\ artifact # None /\ artifact.status \notin Completions
  /\ RecordsSpent(report.turns)
  /\ sent["workflow"] # None => sent["workflow"].id = Speaking!Request
  /\ at \in {"silence", "silent", "rerecord"} => Probe /\ step.item = 1
  /\ at \in {"silent", "rerecord"} \/ (at = "turn" /\ Probe /\ step.item = 1) =>
       reached[<<"turn", 1>>] # 0
  /\ at \in TurnStages => \A t \in 1 .. step.item - 1 : SpeakingDone(t)
  /\ at \in {"audio", "evaluate", "evaluation"} => SpeakingDone(step.item)
  /\ at \in LastStages => \A t \in 1 .. Turns : SpeakingDone(t)
SpeakingTold ==
  /\ SpeakingServed /\ (artifact # None => RecordsSpent(artifact.turns))
  /\ at # "off" => SpeakingUnder

LEMMA SpeakingOnceMore ==
  ASSUME Speaking!WorkflowAssumption, Speaking!NothingRerecorded, NEW t \in 1 .. Turns
  PROVE  /\ Speaking!Request = <<"again", t>> => Probe /\ t = 1
         /\ <<"again", t>> \notin Manual
         /\ <<"turn", t>> \in Speaking!Requests /\ <<"again", t>> \in Speaking!Requests
<1>1. Speaking!Request = <<"again", t>> => Probe /\ t = 1
  <2>1. Speaking!Request = <<"again", t>> => Speaking!Request[1] = "again" /\ Speaking!Request[2] = t
    OBVIOUS
  <2>2. Speaking!Request[1] = "again" => at = "turn"
    BY DEF Speaking!Request, Speaking!Read
  <2>3. at = "turn" => Speaking!Request = <<IF Probe /\ step.item = 1 THEN "again" ELSE "turn", step.item>>
    BY DEF Speaking!Request
  <2> QED BY <2>1, <2>2, <2>3
<1>2. <<"again", t>> \notin Manual
  BY DEF Speaking!NothingRerecorded
<1> QED BY <1>1, <1>2 DEF Speaking!Requests
LEMMA SpeakingServedOn ==
  ASSUME Speaking!WorkflowAssumption, Speaking!NothingRerecorded, SpeakingIInv, SpeakingServed,
         Speaking!Next \/ UNCHANGED Speaking!vars
  PROVE  /\ SpeakingServed' /\ \A id \in Speaking!Requests : reached[id] # 0 => reached'[id] # 0
         /\ \A t \in 1 .. Turns : Spent(t) => Spent(t)'
         /\ \A t \in 1 .. Turns : Spent(t) /\ server.turns[t].status = "READY" =>
              server'.turns[t] = server.turns[t]
<1>1. /\ ClientStep(Speaking!Requests) /\ ClientShape(Speaking!Requests) /\ SendsOnce(Speaking!Requests)
      /\ ClientAssumption(Speaking!Requests)
  BY SpeakingSteps, SpeakingNone DEF SpeakingIInv, SpeakingKept, ClientKeeps, ClientState, ClientIInv
<1>2. /\ OutIsCounted(Speaking!Requests)'
      /\ \A id \in Speaking!Requests : reached[id] # 0 => reached'[id] # 0
  BY <1>1, CountsGrow DEF SpeakingServed
<1>3. \A t \in 1 .. Turns : Spent(t) => Spent(t)'
  BY <1>2, SpeakingOnceMore DEF Spent
<1>4. ASSUME NEW t \in 1 .. Turns, Spent(t), server.turns[t].status = "READY"
      PROVE  server'.turns[t] = server.turns[t]
  <2>1. ASSUME NEW actor \in Actors, SpeakingTakes(actor, t) PROVE FALSE
    <3>1. \A id \in Speaking!Requests : sent[actor].id = id => reached[id] = 0
      BY <1>1, <2>1 DEF SpeakingTakes, SendsOnce
    <3>2. sent[actor].id = <<"again", t>> => Probe /\ t = 1
      BY <2>1 DEF SpeakingTakes, SpeakingServed
    <3> QED BY <1>4, <2>1, <3>1, <3>2, SpeakingOnceMore DEF SpeakingTakes, Spent
  <2> QED BY <1>4, <2>1, SpeakingServerTurns
<1>5. ASSUME NEW a \in Actors, NEW t \in 1 .. Turns, sent'[a] # None, sent'[a].id = <<"again", t>>
      PROVE  Probe /\ t = 1
  <2>1. CASE sent[a] # None /\ sent'[a].id = sent[a].id
    BY <1>5, <2>1 DEF SpeakingServed
  <2>2. CASE sent'[a].id = Speaking!Request \/ sent'[a].id \in Manual
    BY <1>5, <2>2, SpeakingOnceMore
  <2>3. CASE Unheard(Speaking!Request)
    BY <1>1, <1>5, <2>1, <2>2, <2>3, UnheardKeeps
  <2>4. ASSUME NEW actor \in Actors, Goes(actor, TRUE) PROVE Probe /\ t = 1
    BY <1>1, <1>5, <2>1, <2>4, GoesKeeps
  <2> QED BY <2>3, <2>4, SpeakingUnheard, SpeakingClient DEF Speaking!Reaches
<1> QED BY <1>2, <1>3, <1>4, <1>5 DEF SpeakingServed

(* What is known of the turns stays true. *)
LEMMA SpeakingDoneStays ==
  ASSUME Speaking!WorkflowAssumption, Speaking!NothingRerecorded, SpeakingIInv, SpeakingServed,
         Speaking!Next \/ UNCHANGED Speaking!vars, NEW turns,
         \A t \in 1 .. Turns : Spent(t) => Spent(t)', NEW t \in 1 .. Turns,
         turns[t] = server.turns[t], server.turns[t].status = "READY", RecordsSpent(turns)
  PROVE  server'.turns[t] = server.turns[t]
<1>1. Spent(t)
  BY DEF RecordsSpent, Speaking!WorkflowAssumption, Speaking!TurnStatuses
<1> QED BY <1>1, SpeakingServedOn
LEMMA SpeakingToldStays ==
  ASSUME Speaking!WorkflowAssumption, Speaking!NothingRerecorded, SpeakingIInv, SpeakingTold,
         Speaking!Next \/ UNCHANGED Speaking!vars, UNCHANGED <<at, step, reportVars>>
  PROVE  SpeakingTold'
<1>1. /\ SpeakingServed /\ SpeakingServed'
      /\ \A id \in Speaking!Requests : reached[id] # 0 => reached'[id] # 0
      /\ \A t \in 1 .. Turns : Spent(t) => Spent(t)'
      /\ report' = report /\ artifact' = artifact
  BY SpeakingServedOn DEF SpeakingTold, reportVars
<1>2. \A turns : RecordsSpent(turns) => \A t \in 1 .. Turns :
        turns[t].status \notin {None, "STARTED", "PREPARING_SYNTHETIC_AUDIO"} => Spent(t)'
  BY <1>1 DEF RecordsSpent
<1>3. artifact' # None => RecordsSpent(artifact.turns)'
  BY <1>1, <1>2 DEF SpeakingTold, RecordsSpent
<1>4. SUFFICES ASSUME at # "off" PROVE SpeakingUnder'
  BY <1>1, <1>3 DEF SpeakingTold
<1>5. SpeakingUnder /\ UNCHANGED <<at, step, report, artifact>>
  BY <1>1, <1>4 DEF SpeakingTold
<1>6. RecordsSpent(report.turns)'
  BY <1>2, <1>5 DEF SpeakingUnder, RecordsSpent
<1>7. \A t \in 1 .. Turns : SpeakingDone(t) => SpeakingDone(t)'
  <2>1. ASSUME NEW t \in 1 .. Turns, SpeakingDone(t) PROVE server'.turns[t] = server.turns[t]
    BY <1>1, <1>5, <2>1, SpeakingDoneStays DEF SpeakingDone, SpeakingUnder
  <2> QED BY <1>5, <2>1 DEF SpeakingDone
<1>8. ASSUME sent'["workflow"] # None PROVE sent'["workflow"].id = Speaking!Request'
  <2>1. /\ ClientAssumption(Speaking!Requests) /\ ClientShape(Speaking!Requests) /\ "workflow" \in Actors
    BY SpeakingNone DEF SpeakingIInv, ClientState, ClientIInv, Actors
  <2>2. Speaking!Request' = Speaking!Request
    BY <1>5 DEF Speaking!Request, Speaking!Read
  <2>3. \/ sent["workflow"] # None /\ sent'["workflow"].id = sent["workflow"].id
        \/ sent'["workflow"].id = Speaking!Request
    <3>1. CASE Unheard(Speaking!Request)
      BY <1>8, <2>1, <3>1, UnheardKeeps
    <3>2. ASSUME NEW actor \in Actors, Goes(actor, TRUE)
          PROVE  sent["workflow"] # None /\ sent'["workflow"].id = sent["workflow"].id
      BY <1>8, <2>1, <3>2, GoesKeeps
    <3> QED BY <3>1, <3>2, SpeakingUnheard, SpeakingClient DEF Speaking!Reaches
  <2> QED BY <1>5, <2>2, <2>3 DEF SpeakingUnder
<1>9. ASSUME at \in TurnStages
      PROVE  step.item \in 1 .. Turns /\ \A t \in 1 .. step.item - 1 : t \in 1 .. Turns
  <2>1. step.item \in 1 .. Turns /\ Turns \in Nat
    BY <1>9, SpeakingNone DEF SpeakingIInv, SpeakingPlace
  <2> QED BY <2>1
<1>10. /\ 1 \in 1 .. Turns
       /\ reached[<<"turn", 1>>] # 0 => reached'[<<"turn", 1>>] # 0
  <2>1. 1 \in 1 .. Turns
    BY SpeakingNone
  <2>2. <<"turn", 1>> \in Speaking!Requests
    BY <2>1, SpeakingOnceMore
  <2> QED BY <1>1, <2>1, <2>2
<1>11. /\ at' \in TurnStages => \A t \in 1 .. step'.item - 1 : SpeakingDone(t)'
       /\ at' \in {"audio", "evaluate", "evaluation"} => SpeakingDone(step.item)'
       /\ at' \in LastStages => \A t \in 1 .. Turns : SpeakingDone(t)'
  <2>1. at \in {"audio", "evaluate", "evaluation"} => at \in TurnStages
    BY DEF TurnStages
  <2> QED BY <1>5, <1>7, <1>9, <2>1 DEF SpeakingUnder
<1> QED BY <1>5, <1>6, <1>8, <1>10, <1>11 DEF SpeakingUnder, SpeakingDone

(* A stage of the run: what it takes over was sent before, and what it has done stays done. *)
LEMMA SpeakingHeard ==
  ASSUME Speaking!WorkflowAssumption, SpeakingIInv, SpeakingTold,
         Speaking!Hears200 \/ (Speaking!Prepared /\ UNCHANGED server)
  PROVE  /\ at # "off" /\ sent'["workflow"] = None /\ server' = server
         /\ at # "prepare" /\ Speaking!Request \in Speaking!Requests => reached[Speaking!Request] # 0
<1>1. at # "off" /\ server' = server
  BY SpeakingAnswered DEF Speaking!Prepared
<1>2. ClientShape(Speaking!Requests) /\ Waits(SpeakingQuiet) /\ "workflow" \in Actors /\ SpeakingUnder
      /\ OutIsCounted(Speaking!Requests)
  BY <1>1 DEF SpeakingIInv, ClientState, ClientIInv, Actors, SpeakingTold, SpeakingServed
<1>3. CASE Speaking!Prepared
  <2>1. at = "prepare" /\ sent' = sent
    BY <1>3 DEF Speaking!Prepared, Speaking!clientVars
  <2> QED BY <1>1, <1>2, <2>1 DEF Waits, SpeakingQuiet
<1>4. CASE Speaking!Hears200
  <2>1. \E status : Concluded("workflow", status)
    BY <1>4, SpeakingAnswered DEF Answered
  <2>2. /\ sent["workflow"] # None /\ sent["workflow"].out
        /\ sent' = [sent EXCEPT !["workflow"] = None]
    BY <2>1 DEF Concluded
  <2>3. sent'["workflow"] = None
    BY <1>2, <2>2 DEF ClientShape
  <2>4. sent["workflow"].id = Speaking!Request
    BY <1>2, <2>2 DEF SpeakingUnder
  <2> QED BY <1>1, <1>2, <2>2, <2>3, <2>4 DEF OutIsCounted
<1> QED BY <1>3, <1>4
LEMMA SpeakingStageSpends ==
  ASSUME Speaking!WorkflowAssumption, Speaking!NothingRerecorded, SpeakingIInv, SpeakingTold,
         Speaking!Hears200 \/ (Speaking!Prepared /\ UNCHANGED server),
         NEW turns, SpeakingRecords(turns)
  PROVE  RecordsSpent(turns)
<1>1. /\ at # "off" /\ (at # "prepare" /\ Speaking!Request \in Speaking!Requests =>
                          reached[Speaking!Request] # 0)
      /\ SpeakingUnder /\ SpeakingPlace /\ RecordsSpent(report.turns)
  BY SpeakingHeard DEF SpeakingTold, SpeakingUnder, SpeakingIInv
<1>2. /\ turns \in [1 .. Turns -> Speaking!TurnRecords]
      /\ \A t \in 1 .. Turns : t # step.item => turns[t] = report.turns[t]
      /\ at = "prepare" => \/ turns[step.item].status \in {"STARTED", "PREPARING_SYNTHETIC_AUDIO"}
                           \/ turns = report.turns
  BY <1>1, SpeakingRecordsOne
<1>3. CASE turns = report.turns
  BY <1>1, <1>3
<1>4. ASSUME step.item \in 1 .. Turns,
             \/ turns[step.item].status \in {"STARTED", "PREPARING_SYNTHETIC_AUDIO"}
             \/ Spent(step.item)
      PROVE  RecordsSpent(turns)
  BY <1>1, <1>2, <1>4 DEF RecordsSpent
<1>5. at \in {"prepare", "turn", "readback"} => step.item \in 1 .. Turns
  BY <1>1 DEF SpeakingPlace, TurnStages
<1>6. CASE at = "prepare"
  BY <1>2, <1>3, <1>4, <1>5, <1>6
<1>7. CASE at = "turn"
  <2>1. /\ <<"turn", step.item>> \in Speaking!Requests /\ <<"again", step.item>> \in Speaking!Requests
        /\ step.item \in 1 .. Turns
    BY <1>5, <1>7, SpeakingOnceMore
  <2>2. Speaking!Request = <<IF Probe /\ step.item = 1 THEN "again" ELSE "turn", step.item>>
    BY <1>7 DEF Speaking!Request
  <2>3. CASE Probe /\ step.item = 1
    <3>1. reached[<<"again", step.item>>] # 0
      BY <1>1, <1>7, <2>1, <2>2, <2>3
    <3>2. reached[<<"turn", step.item>>] # 0
      BY <1>1, <1>7, <2>3 DEF SpeakingUnder
    <3> QED BY <1>4, <2>1, <3>1, <3>2 DEF Spent
  <2>4. CASE ~(Probe /\ step.item = 1)
    <3>1. reached[<<"turn", step.item>>] # 0
      BY <1>1, <1>7, <2>1, <2>2, <2>4
    <3> QED BY <1>4, <2>1, <2>4, <3>1 DEF Spent
  <2> QED BY <2>3, <2>4
<1>8. CASE at = "readback" /\ report.turns[step.item].status = "PARTIAL_FAILURE"
  <2>1. Spent(step.item)
    BY <1>1, <1>5, <1>8 DEF RecordsSpent, Speaking!WorkflowAssumption, Speaking!TurnStatuses
  <2> QED BY <1>4, <1>5, <1>8, <2>1
<1> QED BY <1>3, <1>6, <1>7, <1>8 DEF SpeakingRecords
LEMMA SpeakingTellsOn ==
  ASSUME Speaking!WorkflowAssumption, Speaking!NothingRerecorded, SpeakingIInv, SpeakingIInv', SpeakingTold,
         Speaking!Hears200 \/ (Speaking!Prepared /\ UNCHANGED server), Speaking!Next,
         NEW turns, SpeakingMoved(turns)
  PROVE  SpeakingTold'
<1>1. /\ at # "off" /\ server' = server /\ sent'["workflow"] = None
      /\ at # "prepare" /\ Speaking!Request \in Speaking!Requests => reached[Speaking!Request] # 0
      /\ SpeakingUnder /\ SpeakingPlace /\ Turns \in Nat \ {0} /\ SpeakingWritten(turns)
      /\ SpeakingRecords(turns) /\ RecordsSpent(turns)
  BY SpeakingHeard, SpeakingStageSpends, SpeakingNone DEF SpeakingTold, SpeakingIInv, SpeakingMoved
<1>2. /\ SpeakingServed'
      /\ \A id \in Speaking!Requests : reached[id] # 0 => reached'[id] # 0
      /\ \A t \in 1 .. Turns : Spent(t) => Spent(t)'
  BY SpeakingServedOn DEF SpeakingTold
<1>3. \A records : RecordsSpent(records) => \A t \in 1 .. Turns :
        records[t].status \notin {None, "STARTED", "PREPARING_SYNTHETIC_AUDIO"} => Spent(t)'
  BY <1>2 DEF RecordsSpent
<1>4. CASE at' = "off"
  <2>1. artifact'.turns = turns
    BY <1>1, <1>4 DEF SpeakingWritten
  <2>2. RecordsSpent(artifact.turns)'
    BY <1>1, <1>3, <2>1 DEF RecordsSpent
  <2> QED BY <1>2, <1>4, <2>2 DEF SpeakingTold
<1>5. ASSUME at' # "off" PROVE SpeakingTold'
  <2> DEFINE Ready(t) == turns[t] = server.turns[t] /\ server.turns[t].status = "READY"
  <2>1. /\ report'.turns = turns /\ report'.status = report.status /\ artifact' \in {artifact, report'}
        /\ SpeakingLeads(turns) /\ report' # None
    BY <1>1, <1>5 DEF SpeakingWritten, SpeakingMoved, SpeakingIInv, ClientState, ClientIInv, TellsErrors
  <2>2. RecordsSpent(report.turns)' /\ (artifact' # None => RecordsSpent(artifact.turns)')
    <3>1. RecordsSpent(report.turns)'
      BY <1>1, <1>3, <2>1 DEF RecordsSpent
    <3>2. artifact' = artifact => RecordsSpent(artifact.turns)'
      BY <1>1, <1>3 DEF SpeakingTold, SpeakingUnder, RecordsSpent
    <3>3. artifact' = report' => RecordsSpent(artifact.turns)'
      BY <3>1 DEF RecordsSpent
    <3> QED BY <2>1, <3>1, <3>2, <3>3
  <2>3. SUFFICES SpeakingUnder'
    BY <1>2, <2>2 DEF SpeakingTold
  <2>4. /\ \A t \in 1 .. Turns : Ready(t) => SpeakingDone(t)'
        /\ \A t \in 1 .. Turns : SpeakingDone(t) /\ t # step.item => Ready(t)
        /\ at \notin {"prepare", "turn", "readback"} => turns = report.turns
        /\ turns = report.turns => \A t \in 1 .. Turns : SpeakingDone(t) => Ready(t)
    <3>1. /\ \A t \in 1 .. Turns : t # step.item => turns[t] = report.turns[t]
          /\ at \notin {"prepare", "turn", "readback"} => turns = report.turns
      BY <1>1, SpeakingRecordsOne
    <3> QED BY <1>1, <2>1, <3>1 DEF SpeakingDone
  <2> HIDE DEF Ready
  <2>5. /\ report'.status \notin Completions /\ artifact' # None /\ artifact'.status \notin Completions
        /\ sent'["workflow"] = None
    BY <1>1, <2>1 DEF SpeakingUnder
  <2>6. /\ 1 \in 1 .. Turns /\ (reached[<<"turn", 1>>] # 0 => reached'[<<"turn", 1>>] # 0)
        /\ at \in TurnStages => step.item \in 1 .. Turns /\ \A t \in 1 .. step.item - 1 : t \in 1 .. Turns
    <3>1. 1 \in 1 .. Turns
      BY <1>1
    <3>2. <<"turn", 1>> \in Speaking!Requests
      BY <3>1, SpeakingOnceMore
    <3> QED BY <1>1, <1>2, <3>1, <3>2 DEF SpeakingPlace
(* The next turn begins when those before it are done. *)
  <2>7. ASSUME NEW k \in 1 .. Turns + 1, SpeakingBegins(k), \A t \in 1 .. k - 1 : Ready(t)
        PROVE  SpeakingUnder'
    <3>1. CASE at' = "turns done" /\ k > Turns
      <4>1. \A t \in 1 .. Turns : Ready(t)
        <5>1. Turns \in Nat /\ k \in 1 .. Turns + 1 /\ k > Turns
          BY <1>1, <2>7, <3>1
        <5>2. k - 1 = Turns
          BY <5>1
        <5> QED BY <2>7, <5>2
      <4> QED BY <2>2, <2>4, <2>5, <3>1, <4>1 DEF SpeakingUnder, TurnStages, LastStages
    <3>2. CASE at' \in {"readback", "prepare"} /\ k \in 1 .. Turns /\ step'.item = k
      <4>1. \A t \in 1 .. k - 1 : SpeakingDone(t)'
        BY <1>1, <2>4, <2>7, <3>2
      <4>2. \A t \in 1 .. step'.item - 1 : SpeakingDone(t)'
        BY <3>2, <4>1
      <4> QED BY <2>2, <2>5, <3>2, <4>2 DEF SpeakingUnder, LastStages
    <3> QED BY <2>7, <3>1, <3>2 DEF SpeakingBegins
  <2>8. CASE at' = at /\ step'.item = step.item /\ turns = report.turns
    <3>1. at \in {"audio", "evaluate", "evaluation"} => at \in TurnStages
      BY DEF TurnStages
    <3>2. /\ at' \in TurnStages => \A t \in 1 .. step'.item - 1 : SpeakingDone(t)'
          /\ at' \in {"audio", "evaluate", "evaluation"} => SpeakingDone(step.item)'
          /\ at' \in LastStages => \A t \in 1 .. Turns : SpeakingDone(t)'
      <4>1. at \in {"audio", "evaluate", "evaluation"} => SpeakingDone(step.item)'
        BY <1>1, <2>4, <2>6, <2>8, <3>1 DEF SpeakingUnder, SpeakingDone
      <4> QED BY <1>1, <2>4, <2>6, <2>8, <4>1 DEF SpeakingUnder
    <3> QED BY <1>1, <2>2, <2>5, <2>6, <2>8, <3>2 DEF SpeakingUnder, SpeakingDone
  <2>9. CASE at \notin TurnStages \cup LastStages /\ at' \in {"create", "opening", "reread"}
    BY <2>2, <2>5, <2>9 DEF SpeakingUnder, TurnStages, LastStages
  <2>10. CASE at \notin TurnStages \cup LastStages /\ SpeakingBegins(1)
    BY <1>1, <2>7, <2>10
(* A turn goes on. *)
  <2>11. ASSUME at \in TurnStages, at' \in TurnStages, step'.item = step.item,
                at' \in {"silence", "silent", "rerecord"} => Probe /\ step.item = 1,
                at' \in {"silent", "rerecord"} \/ (at' = "turn" /\ Probe /\ step.item = 1) =>
                  reached[<<"turn", 1>>] # 0,
                at' \in {"audio", "evaluate", "evaluation"} => Ready(step.item)
         PROVE  SpeakingUnder'
    <3>1. \A t \in 1 .. step.item - 1 : SpeakingDone(t) /\ t # step.item
      BY <1>1, <2>6, <2>11 DEF SpeakingUnder
    <3>2. \A t \in 1 .. step'.item - 1 : SpeakingDone(t)'
      BY <2>4, <2>6, <2>11, <3>1
    <3>3. at' \in {"audio", "evaluate", "evaluation"} => SpeakingDone(step.item)'
      BY <2>4, <2>6, <2>11 DEF SpeakingDone
    <3>4. at' \notin LastStages
      BY <2>11 DEF TurnStages, LastStages
    <3> QED BY <2>2, <2>5, <2>6, <2>11, <3>2, <3>3, <3>4 DEF SpeakingUnder, SpeakingDone
  <2>12. CASE at \in {"prepare", "grant"} /\ step'.item = step.item
              /\ at' = (IF at = "prepare" THEN "grant" ELSE IF Probe /\ step.item = 1 THEN "silence" ELSE "turn")
    BY <2>11, <2>12 DEF TurnStages
  <2>13. CASE at = "silence" /\ at' = "silent" /\ step'.item = step.item
    <3>1. Probe /\ step.item = 1 /\ Speaking!Request = <<"turn", 1>>
      BY <1>1, <2>13 DEF SpeakingUnder, Speaking!Request
    <3>2. reached[<<"turn", 1>>] # 0
      BY <1>1, <2>6, <2>13, <3>1, SpeakingOnceMore
    <3> QED BY <2>11, <2>13, <3>1, <3>2 DEF TurnStages
  <2>14. CASE <<at, at'>> \in {<<"silent", "rerecord">>, <<"rerecord", "turn">>} /\ step'.item = step.item
    <3>1. Probe /\ step.item = 1 /\ reached[<<"turn", 1>>] # 0
      BY <1>1, <2>14 DEF SpeakingUnder
    <3> QED BY <2>11, <2>14, <3>1 DEF TurnStages
  <2>15. CASE <<at, at'>> \in {<<"audio", "evaluate">>, <<"evaluate", "evaluation">>} /\ step'.item = step.item
    <3>1. SpeakingDone(step.item) /\ turns = report.turns /\ step.item \in 1 .. Turns
      BY <1>1, <2>4, <2>6, <2>15 DEF SpeakingUnder, TurnStages
    <3> QED BY <2>4, <2>11, <2>15, <3>1 DEF TurnStages
  <2>16. CASE at = "turn" /\ at' = "audio" /\ step'.item = step.item
              /\ server.turns[step.item].status = "READY" /\ turns[step.item] = server.turns[step.item]
    BY <2>11, <2>16 DEF TurnStages, Ready
(* A turn is done. *)
  <2>17. ASSUME at \in {"readback", "audio", "evaluation"}, SpeakingBegins(step.item + 1),
                Ready(step.item)
         PROVE  SpeakingUnder'
    <3>1. at \in TurnStages /\ step.item \in 1 .. Turns
      BY <2>6, <2>17 DEF TurnStages
    <3>2. \A t \in 1 .. step.item - 1 : t \in 1 .. Turns /\ SpeakingDone(t) /\ t # step.item
      BY <1>1, <2>6, <3>1 DEF SpeakingUnder
    <3>3. \A t \in 1 .. step.item - 1 : Ready(t)
      BY <2>4, <3>2
    <3>4. \A t \in 1 .. step.item : t = step.item \/ t \in 1 .. step.item - 1
      BY <3>1
    <3>5. step.item + 1 \in 1 .. Turns + 1 /\ (step.item + 1) - 1 = step.item
      BY <1>1, <3>1
    <3>6. \A t \in 1 .. (step.item + 1) - 1 : Ready(t)
      BY <2>17, <3>3, <3>4, <3>5
    <3> QED BY <2>7, <2>17, <3>5, <3>6
  <2>18. CASE at = "readback" /\ server.turns[step.item].status = "READY"
              /\ turns[step.item] = server.turns[step.item] /\ SpeakingBegins(step.item + 1)
    BY <2>17, <2>18 DEF Ready
  <2>19. CASE at \in {"audio", "evaluation"} /\ SpeakingBegins(step.item + 1)
    <3>1. SpeakingDone(step.item) /\ turns = report.turns /\ step.item \in 1 .. Turns
      BY <1>1, <2>4, <2>6, <2>19 DEF SpeakingUnder, TurnStages
    <3> QED BY <2>4, <2>17, <2>19, <3>1
  <2>20. CASE at \in LastStages /\ at' \in LastStages
    <3>1. \A t \in 1 .. Turns : SpeakingDone(t)'
      BY <1>1, <2>4, <2>20 DEF SpeakingUnder, LastStages
    <3> QED BY <2>2, <2>5, <2>20, <3>1 DEF SpeakingUnder, TurnStages, LastStages
  <2> QED BY <2>1, <2>8, <2>9, <2>10, <2>12, <2>13, <2>14, <2>15, <2>16, <2>18, <2>19, <2>20
          DEF SpeakingLeads
<1> QED BY <1>4, <1>5

(* What a run begins with, and every other step. *)
LEMMA SpeakingTellsBegun ==
  ASSUME Speaking!WorkflowAssumption, Speaking!NothingRerecorded, SpeakingIInv, SpeakingIInv', SpeakingTold,
         Speaking!Starts \/ Speaking!Resumes
  PROVE  SpeakingTold'
<1>1. /\ SpeakingServed' /\ \A t \in 1 .. Turns : Spent(t) => Spent(t)'
  BY SpeakingServedOn DEF SpeakingTold, Speaking!Next
<1>2. /\ at' \in {"active", "detail"} /\ report' = artifact' /\ at = "off" /\ sent' = sent
  <2>1. \A new : Speaking!Opens(new) => report' = artifact'
    BY DEF Speaking!Opens
  <2>2. \A stage : Speaking!Goto(stage, 0, 0) => at' = stage
    BY DEF Speaking!Goto
  <2>3. Speaking!Starts => at = "off" /\ sent' = sent /\ at' = "active" /\ report' = artifact'
    BY <2>1, <2>2 DEF Speaking!Starts, Speaking!clientVars
  <2>4. Speaking!Resumes => at = "off" /\ sent' = sent /\ at' = "detail" /\ report' = artifact'
    BY <2>1, <2>2 DEF Speaking!Resumes, Speaking!clientVars
  <2> QED BY <2>3, <2>4
<1>3. report' # None
  BY <1>2 DEF SpeakingIInv, ClientState, ClientIInv, TellsErrors
<1>4. sent["workflow"] = None
  BY <1>2 DEF SpeakingIInv, ClientState, Waits
<1>5. ASSUME artifact'.status \notin Completions,
             \A t \in 1 .. Turns : \/ artifact'.turns[t].status = None
                                   \/ artifact # None /\ artifact'.turns[t] = artifact.turns[t]
      PROVE  SpeakingTold'
  <2>1. RecordsSpent(artifact.turns)'
    BY <1>1, <1>5 DEF RecordsSpent, SpeakingTold
  <2>2. RecordsSpent(report.turns)'
    BY <1>2, <2>1
  <2> QED BY <1>1, <1>2, <1>3, <1>4, <1>5, <2>1, <2>2 DEF SpeakingTold, SpeakingUnder, TurnStages, LastStages
<1>6. CASE Speaking!Starts
  <2>1. artifact'.turns = [t \in 1 .. Turns |-> Speaking!NoTurn] /\ artifact'.status = "STARTED"
    BY <1>6 DEF Speaking!Starts, Speaking!Opens
  <2> QED BY <1>5, <2>1 DEF Speaking!NoTurn, Completions
<1>7. CASE Speaking!Resumes
  <2>1. artifact \in Speaking!Reports /\ artifact # None
    BY <1>7 DEF Speaking!Resumes, SpeakingIInv, ClientState
  <2> DEFINE old == Preserved(artifact)
             prior == IF artifact.problems # <<>> THEN artifact.problems ELSE old.priorProblems
             retried == Speaking!FailedConversation(artifact)
  <2>2. artifact' = [old EXCEPT !.status = "RESUMED_EXISTING_SESSION_ONLY", !.resumed = TRUE,
                       !.problems = <<>>, !.priorProblems = prior, !.retried = retried]
    BY <1>7, SpeakingClient DEF Speaking!Resumes, Speaking!Opens
  <2>3. old.turns = artifact.turns /\ "status" \in DOMAIN old
    BY <2>1 DEF Preserved, Speaking!Reports
  <2> HIDE DEF old, prior, retried
  <2>4. artifact'.turns = artifact.turns /\ artifact'.status = "RESUMED_EXISTING_SESSION_ONLY"
    BY <2>2, <2>3
  <2> QED BY <1>5, <2>1, <2>4 DEF Completions
<1> QED BY <1>6, <1>7
LEMMA SpeakingTellsAlways ==
  ASSUME Speaking!WorkflowAssumption, Speaking!NothingRerecorded, SpeakingIInv, SpeakingTold,
         Speaking!Next \/ UNCHANGED Speaking!vars
  PROVE  SpeakingTold'
<1>1. SpeakingIInv' /\ SpeakingServed' /\ \A t \in 1 .. Turns : Spent(t) => Spent(t)'
  BY SpeakingNext, SpeakingServedOn DEF SpeakingTold
<1>2. CASE UNCHANGED <<at, step, reportVars>>
  BY <1>2, SpeakingToldStays
<1>3. CASE Speaking!Starts \/ Speaking!Resumes
  BY <1>1, <1>3, SpeakingTellsBegun
<1>4. ASSUME at # "off", at' = "off",
             artifact' = artifact \/ \E error \in ErrorNames : Speaking!Fails(report, error)
      PROVE  SpeakingTold'
  <2>1. report \in Speaking!Reports /\ RecordsSpent(report.turns) /\ RecordsSpent(artifact.turns)
    BY <1>4, SpeakingRun DEF SpeakingTold, SpeakingUnder
  <2>2. artifact'.turns = artifact.turns \/ artifact'.turns = report.turns
    BY <1>4, <2>1 DEF Speaking!Fails, Speaking!Reports
  <2>3. RecordsSpent(artifact.turns)'
    BY <1>1, <2>1, <2>2 DEF RecordsSpent
  <2> QED BY <1>1, <1>4, <2>3 DEF SpeakingTold
<1>5. CASE Speaking!Hears200 \/ (Speaking!Prepared /\ UNCHANGED server)
  <2>1. \E turns : SpeakingMoved(turns)
    BY <1>5, SpeakingMoves
  <2>2. Speaking!Next
    BY <1>5 DEF Speaking!Next, Speaking!Works
  <2> QED BY <1>1, <1>5, <2>1, <2>2, SpeakingTellsOn
<1> QED BY <1>2, <1>3, <1>4, <1>5, SpeakingDoes

(* The speaking workflow, when no turn is recorded again: a report that says it has completed tells
   of every turn what the back end has of it, each is READY and the session was evaluated. A turn
   that is READY stays as it is, for what was sent is not sent again: by a run that is resumed, or
   by the operator, who may only have retried what had failed. *)
THEOREM SpeakingReportsAreTrue ==
  ASSUME Speaking!WorkflowAssumption, Speaking!NothingRerecorded
  PROVE  Speaking!Spec => [][Speaking!CompletesTruly]_(Speaking!vars)
<1>1. Speaking!Init => SpeakingIInv /\ SpeakingTold
  <2> SUFFICES ASSUME Speaking!Init PROVE SpeakingIInv /\ SpeakingTold
    OBVIOUS
  <2>1. at = "off" /\ artifact = None /\ \A a \in Actors : sent[a] = None
    BY DEF Speaking!Init, Speaking!ClientInit, Speaking!Actors, Actors
  <2> QED BY <2>1, SpeakingInitially DEF SpeakingTold, SpeakingServed, OutIsCounted
<1>2. SpeakingIInv /\ SpeakingTold /\ [Speaking!Next]_(Speaking!vars) => SpeakingIInv' /\ SpeakingTold'
  BY SpeakingNext, SpeakingTellsAlways
<1>3. SpeakingIInv /\ SpeakingTold /\ [Speaking!Next]_(Speaking!vars)
        => [Speaking!CompletesTruly]_(Speaking!vars)
  <2> SUFFICES ASSUME SpeakingIInv, SpeakingTold, Speaking!Next \/ UNCHANGED Speaking!vars,
                      at # "off", artifact' # None, artifact'.status \in Completions
               PROVE  /\ server.evaluation = "EVALUATED"
                      /\ \A t \in 1 .. Turns :
                           artifact'.turns[t] = server.turns[t] /\ server.turns[t].status = "READY"
    BY DEF Speaking!CompletesTruly, Completions
  <2>1. SpeakingUnder /\ report \in Speaking!Reports /\ artifact # None
    BY SpeakingRun DEF SpeakingTold, SpeakingUnder
  <2>2. at' = "off" /\ artifact' # artifact
    <3>1. at' # "off" => SpeakingUnder'
      BY SpeakingTellsAlways DEF SpeakingTold
    <3> QED BY <2>1, <3>1 DEF SpeakingUnder
  <2>3. \A error : ~Speaking!Fails(report, error)
    BY <2>1 DEF Speaking!Fails, Speaking!Reports, Completions
  <2>4. Speaking!Hears200 \/ (Speaking!Prepared /\ UNCHANGED server)
    <3>1. ~Speaking!Starts /\ ~Speaking!Resumes
      BY DEF Speaking!Starts, Speaking!Resumes
    <3> QED BY <2>2, <2>3, <3>1, SpeakingDoes DEF reportVars
  <2>5. PICK turns : SpeakingMoved(turns)
    BY <2>4, SpeakingMoves
  <2>6. at = "final" /\ server.evaluation = "EVALUATED" /\ artifact'.turns = report.turns
    BY <2>2, <2>5 DEF SpeakingMoved, SpeakingWritten
  <2> QED BY <2>1, <2>6 DEF SpeakingUnder, SpeakingDone, LastStages
<1> QED BY <1>1, <1>2, <1>3, PTL DEF Speaking!Spec
-----------------------------------------------------------------------------
(* The quality campaign. *)

Places == {"new", "slotted", "upstream", "answered", "settled", "over"}
Booked == [call : Calls, status : {"STARTED", "COMPLETED", "FAILED", "CANCELLED"}, reserved : {Cost},
           accounted : Nat \cup {Nothing}, staged : BOOLEAN, noted : BOOLEAN]
QualityTypes ==
  /\ ledger \in [stopped : BOOLEAN, calls : Seq(Booked)]
  /\ callAt \in [Calls -> Places] /\ slot \in [Calls -> Nat \cup {Nothing}]
  /\ used \in [Calls -> Nat] /\ open \subseteq Processes

(* A call has one entry, from its reservation on, and that is open until the provider has
   answered and the answer is settled. *)
HasBooking(c) == \E i \in All(ledger.calls) : ledger.calls[i].call = c
CallsAreBooked ==
  /\ \A i, j \in All(ledger.calls) : ledger.calls[i].call = ledger.calls[j].call => i = j
  /\ \A c \in Calls :
       /\ callAt[c] \in {"new", "slotted"} => ~HasBooking(c)
       /\ callAt[c] \in {"upstream", "answered", "settled"} => HasBooking(c)
  /\ \A i \in All(ledger.calls) : callAt[ledger.calls[i].call] \in {"upstream", "answered"} =>
       ledger.calls[i].status = "STARTED" /\ ledger.calls[i].accounted = Nothing

(* Nothing is used before the provider is called or without an entry, and an entry has
   what its call used or no amount. *)
UsageIsBooked ==
  /\ \A c \in Calls :
       /\ callAt[c] \in {"new", "slotted", "upstream"} => used[c] = 0
       /\ used[c] > 0 => HasBooking(c)
  /\ \A i \in All(ledger.calls) : ledger.calls[i].accounted \in {Nothing, used[ledger.calls[i].call]}

(* A call has its slot until it is over. *)
SlotsAreHeld ==
  /\ \A c, d \in Calls : slot[c] # Nothing /\ slot[c] = slot[d] => c = d
  /\ \A c \in Calls : callAt[c] \in {"slotted", "upstream", "answered", "settled"} =>
       slot[c] \in 1 .. Maximum[Owner[c]]

(* The calls before the stage have ended, and only a note that was due when it was
   approved can change them. *)
PriorHasEnded == admission # Nothing =>
  /\ admission.start \in 0 .. Len(ledger.calls)
  /\ admission.prior \in Seq(Booked) /\ Len(admission.prior) = admission.start
  /\ \A i \in 1 .. admission.start :
       /\ callAt[ledger.calls[i].call] \in {"settled", "over"}
       /\ admission.unnoted
          \/ /\ ledger.calls[i] = admission.prior[i]
             /\ ~(callAt[ledger.calls[i].call] = "settled" /\ NotesLate(ledger.calls[i].call))

QualityIInv ==
  /\ QualityTypes /\ CallsAreBooked /\ UsageIsBooked /\ SlotsAreHeld /\ PriorHasEnded
  /\ BudgetIsKept /\ StageIsKept
-----------------------------------------------------------------------------
(* Sums. A sum is what the recursive function of Sum computes, because there is one
   function that satisfies its equation. *)

(* f has the sums of the first elements of s, up to m of them. *)
IsSum(f, s, m) ==
  f \in [0 .. m -> Nat] /\ f[0] = 0 /\ \A i \in 1 .. m : f[i] = f[i - 1] + s[i]

LEMMA SumExists ==
  ASSUME NEW s \in Seq(Nat), NEW m \in 0 .. Len(s)
  PROVE  \E f : IsSum(f, s, m)
<1> DEFINE T == { n \in Nat : n <= Len(s) /\ ~ \E f : IsSum(f, s, n) }
<1>0. Len(s) \in Nat /\ \A i \in 1 .. Len(s) : s[i] \in Nat
  BY LenProperties, ElementOfSeq
<1>1. SUFFICES ASSUME T # {} PROVE FALSE
  BY <1>0
<1>2. PICK n \in T : \A y \in T : n <= y
  BY <1>1, LeastNumber
<1>3. n # 0
  <2>1. IsSum([i \in 0 .. 0 |-> 0], s, 0)
    BY DEF IsSum
  <2> QED BY <2>1
<1>4. PICK f : IsSum(f, s, n - 1)
  <2>1. n - 1 \in Nat /\ n - 1 <= Len(s) /\ ~(n <= n - 1)
    BY <1>0, <1>3
  <2>2. n - 1 \notin T
    BY <1>2, <2>1
  <2> QED BY <2>1, <2>2
<1>5. IsSum([i \in 0 .. n |-> IF i = n THEN f[n - 1] + s[n] ELSE f[i]], s, n)
  BY <1>0, <1>3, <1>4 DEF IsSum
<1> QED BY <1>5

(* Sums of elements that are no larger are no larger. *)
LEMMA SumOrder ==
  ASSUME NEW s \in Seq(Nat), NEW t \in Seq(Nat), NEW m \in Nat, m <= Len(s), m <= Len(t),
         NEW f, IsSum(f, s, m), NEW g, IsSum(g, t, m), \A i \in 1 .. m : s[i] <= t[i]
  PROVE  \A i \in 0 .. m : f[i] <= g[i]
<1> DEFINE T == { n \in 0 .. m : ~(f[n] <= g[n]) }
<1>0. \A i \in 1 .. m : s[i] \in Nat /\ t[i] \in Nat
  <2>1. Len(s) \in Nat /\ Len(t) \in Nat
    BY LenProperties
  <2> QED BY <2>1, ElementOfSeq
<1>1. SUFFICES ASSUME T # {} PROVE FALSE
  OBVIOUS
<1>2. PICK n \in T : \A y \in T : n <= y
  <2>1. T \subseteq Nat
    OBVIOUS
  <2> HIDE DEF T
  <2> QED BY <1>1, <2>1, LeastNumber
<1>3. n # 0
  BY DEF IsSum
<1>4. n - 1 \in 0 .. m /\ f[n - 1] <= g[n - 1]
  <2>1. n \in Nat /\ n - 1 \in 0 .. m /\ ~(n <= n - 1)
    BY <1>3
  <2>2. n - 1 \notin T
    BY <1>2, <2>1
  <2> QED BY <2>1, <2>2
<1>5. f[n] = f[n - 1] + s[n] /\ g[n] = g[n - 1] + t[n] /\ s[n] <= t[n]
  <2>1. n \in 1 .. m
    BY <1>3
  <2> HIDE DEF T
  <2> QED BY <2>1 DEF IsSum
<1>6. f[n - 1] \in Nat /\ g[n - 1] \in Nat /\ s[n] \in Nat /\ t[n] \in Nat
  BY <1>0, <1>3, <1>4 DEF IsSum
<1> QED BY <1>4, <1>5, <1>6

LEMMA SumMeans ==
  ASSUME NEW s \in Seq(Nat)
  PROVE  \E f : IsSum(f, s, Len(s)) /\ Sum(s) = f[Len(s)]
<1> DEFINE Is(f) == f = [n \in 0 .. Len(s) |-> IF n = 0 THEN 0 ELSE f[n - 1] + s[n]]
<1>0. Len(s) \in Nat
  BY LenProperties
<1>1. PICK g : IsSum(g, s, Len(s))
  BY <1>0, SumExists
<1>2. Is(g)
  BY <1>0, <1>1 DEF IsSum
<1>3. Sum(s) = (CHOOSE f : Is(f))[Len(s)]
  BY DEF Sum
<1>4. \A f : Is(f) => f = g
  <2> SUFFICES ASSUME NEW f, Is(f) PROVE f = g
    OBVIOUS
  <2> DEFINE T == { n \in 0 .. Len(s) : f[n] # g[n] }
  <2>1. CASE T = {}
    <3>1. \A n \in 0 .. Len(s) : f[n] = g[n]
      BY <2>1
    <3>2. f \in [0 .. Len(s) -> {f[n] : n \in 0 .. Len(s)}]
      OBVIOUS
    <3>3. g \in [0 .. Len(s) -> Nat]
      BY <1>1 DEF IsSum
    <3> QED BY <3>1, <3>2, <3>3
  <2>2. CASE T # {}
    <3>1. PICK n \in T : \A y \in T : n <= y
      <4>1. T \subseteq Nat
        BY <1>0
      <4> HIDE DEF T
      <4> QED BY <2>2, <4>1, LeastNumber
    <3>2. n # 0
      BY <1>1 DEF IsSum
    <3>3. n - 1 \in 0 .. Len(s) /\ ~(n <= n - 1)
      BY <1>0, <3>2
    <3>4. f[n - 1] = g[n - 1]
      BY <3>1, <3>3
    <3>5. f[n] = f[n - 1] + s[n]
      BY <1>0, <3>2
    <3>6. g[n] = g[n - 1] + s[n]
      BY <1>0, <1>1, <3>2 DEF IsSum
    <3> QED BY <3>4, <3>5, <3>6
  <2> QED BY <2>1, <2>2
<1>5. (CHOOSE f : Is(f)) = g
  BY <1>2, <1>4
<1> QED BY <1>1, <1>3, <1>5

(* The sum of more elements that are no smaller, of one element more, and of none. *)
LEMMA SumGrows ==
  ASSUME NEW s \in Seq(Nat), NEW t \in Seq(Nat), Len(s) = Len(t),
         \A i \in 1 .. Len(s) : s[i] <= t[i]
  PROVE  Sum(s) \in Nat /\ Sum(t) \in Nat /\ Sum(s) <= Sum(t)
<1>0. Len(s) \in Nat
  BY LenProperties
<1>1. PICK f : IsSum(f, s, Len(s)) /\ Sum(s) = f[Len(s)]
  BY SumMeans
<1>2. PICK g : IsSum(g, t, Len(t)) /\ Sum(t) = g[Len(t)]
  BY SumMeans
<1>3. f[Len(s)] <= g[Len(s)]
  BY <1>0, <1>1, <1>2, SumOrder
<1> QED BY <1>0, <1>1, <1>2, <1>3 DEF IsSum

LEMMA SumAppends ==
  ASSUME NEW s \in Seq(Nat), NEW t \in Seq(Nat), Len(t) = Len(s) + 1,
         \A i \in 1 .. Len(s) : s[i] = t[i]
  PROVE  Sum(s) \in Nat /\ Sum(t) = Sum(s) + t[Len(t)]
<1>0. Len(s) \in Nat /\ \A i \in 1 .. Len(s) : s[i] \in Nat
  BY LenProperties, ElementOfSeq
<1>1. PICK f : IsSum(f, s, Len(s)) /\ Sum(s) = f[Len(s)]
  BY SumMeans
<1>2. PICK g : IsSum(g, t, Len(t)) /\ Sum(t) = g[Len(t)]
  BY SumMeans
<1> DEFINE h == [i \in 0 .. Len(s) |-> g[i]]
<1>3. IsSum(h, t, Len(s))
  BY <1>0, <1>2 DEF IsSum
<1>4. f[Len(s)] <= h[Len(s)] /\ h[Len(s)] <= f[Len(s)]
  <2>1. /\ \A i \in 1 .. Len(s) : s[i] <= t[i]
        /\ \A i \in 1 .. Len(s) : t[i] <= s[i]
        /\ Len(s) <= Len(s) /\ Len(s) <= Len(t)
    BY <1>0
  <2> HIDE DEF h
  <2>2. \A i \in 0 .. Len(s) : f[i] <= h[i]
    BY <1>0, <1>1, <1>3, <2>1, SumOrder
  <2>3. \A i \in 0 .. Len(s) : h[i] <= f[i]
    BY <1>0, <1>1, <1>3, <2>1, SumOrder
  <2> QED BY <1>0, <2>2, <2>3
<1>5. f[Len(s)] \in Nat /\ h[Len(s)] = g[Len(s)] /\ g[Len(s)] \in Nat
  BY <1>0, <1>1, <1>2 DEF IsSum
<1>6. g[Len(t)] = g[Len(s)] + t[Len(t)]
  <2>1. Len(t) \in 1 .. Len(t) /\ Len(t) - 1 = Len(s)
    BY <1>0
  <2> QED BY <1>2, <2>1 DEF IsSum
<1> HIDE DEF h
<1>7. f[Len(s)] = g[Len(s)]
  BY <1>4, <1>5
<1> QED BY <1>1, <1>2, <1>5, <1>6, <1>7

LEMMA SumOfNothing ==
  ASSUME NEW s \in Seq(Nat), \A i \in 1 .. Len(s) : s[i] = 0
  PROVE  Sum(s) = 0
<1>0. Len(s) \in Nat
  BY LenProperties
<1>1. PICK f : IsSum(f, s, Len(s)) /\ Sum(s) = f[Len(s)]
  BY SumMeans
<1> DEFINE h == [i \in 0 .. Len(s) |-> 0]
<1>2. IsSum(h, s, Len(s)) /\ h[Len(s)] = 0
  BY <1>0 DEF IsSum
<1> HIDE DEF h
<1>3. \A i \in 0 .. Len(s) : f[i] <= h[i]
  BY <1>0, <1>1, <1>2, SumOrder
<1> QED BY <1>0, <1>1, <1>2, <1>3 DEF IsSum
-----------------------------------------------------------------------------
(* What parts of the ledger come to. *)

LEMMA AmountsAre ==
  ASSUME NEW calls \in Seq(Booked), NEW p
  PROVE  /\ Amounts(calls, p) \in Seq(Nat) /\ Len(Amounts(calls, p)) = Len(calls)
         /\ \A i \in All(calls) : Charged(calls[i]) \in Nat
         /\ \A i \in All(calls) : Amounts(calls, p)[i] = IF i \in p THEN Charged(calls[i]) ELSE 0
<1>0. Len(calls) \in Nat
  BY LenProperties
<1>1. \A i \in All(calls) : Charged(calls[i]) \in Nat
  <2> SUFFICES ASSUME NEW i \in All(calls) PROVE Charged(calls[i]) \in Nat
    OBVIOUS
  <2>1. calls[i] \in Booked
    BY ElementOfSeq DEF All
  <2>2. calls[i].reserved = Cost /\ calls[i].accounted \in Nat \cup {Nothing} /\ Cost \in Nat
    BY <2>1, QualityAssumption DEF Booked
  <2> QED BY <2>2 DEF Charged
<1>2. Amounts(calls, p) \in [1 .. Len(calls) -> Nat]
  BY <1>1 DEF Amounts, All
<1> QED BY <1>0, <1>1, <1>2, SeqDef DEF Amounts, All

LEMMA TotalIsNat == ASSUME NEW calls \in Seq(Booked), NEW p PROVE Total(calls, p) \in Nat
<1>0. Len(calls) \in Nat
  BY LenProperties
<1>1. /\ Amounts(calls, p) \in Seq(Nat)
      /\ \A i \in 1 .. Len(Amounts(calls, p)) : Amounts(calls, p)[i] \in Nat
  BY AmountsAre, ElementOfSeq
<1>2. \A i \in 1 .. Len(Amounts(calls, p)) : Amounts(calls, p)[i] <= Amounts(calls, p)[i]
  BY <1>1
<1> QED BY <1>1, <1>2, SumGrows DEF Total

(* The entries may be charged less. *)
LEMMA TotalFalls ==
  ASSUME NEW calls \in Seq(Booked), NEW new \in Seq(Booked), NEW p, Len(new) = Len(calls),
         \A i \in All(calls) : Charged(new[i]) <= Charged(calls[i])
  PROVE  Total(new, p) <= Total(calls, p)
<1>1. /\ Amounts(calls, p) \in Seq(Nat) /\ Amounts(new, p) \in Seq(Nat)
      /\ Len(Amounts(calls, p)) = Len(calls) /\ Len(Amounts(new, p)) = Len(calls)
  BY AmountsAre
<1>2. \A i \in 1 .. Len(calls) : Amounts(new, p)[i] <= Amounts(calls, p)[i]
  <2> SUFFICES ASSUME NEW i \in All(calls) PROVE Amounts(new, p)[i] <= Amounts(calls, p)[i]
    BY DEF All
  <2>1. i \in All(new) /\ Charged(new[i]) <= Charged(calls[i])
    BY DEF All
  <2>2. Amounts(calls, p)[i] = IF i \in p THEN Charged(calls[i]) ELSE 0
    BY AmountsAre
  <2>3. Amounts(new, p)[i] = IF i \in p THEN Charged(new[i]) ELSE 0
    BY <2>1, AmountsAre
  <2> QED BY <2>1, <2>2, <2>3
<1> QED BY <1>1, <1>2, SumGrows DEF Total

(* One more is charged its amount, if it belongs to the part. *)
LEMMA TotalAppends ==
  ASSUME NEW calls \in Seq(Booked), NEW e \in Booked, NEW p, NEW q,
         \A i \in All(calls) : i \in p <=> i \in q
  PROVE  Total(Append(calls, e), q) = Total(calls, p) + (IF Len(calls) + 1 \in q THEN Charged(e) ELSE 0)
<1> DEFINE new == Append(calls, e)
<1>0. /\ Len(calls) \in Nat /\ new \in Seq(Booked) /\ Len(new) = Len(calls) + 1
      /\ new[Len(calls) + 1] = e /\ \A i \in 1 .. Len(calls) : new[i] = calls[i]
  BY LenProperties, AppendProperties
<1> HIDE DEF new
<1>1. /\ Amounts(calls, p) \in Seq(Nat) /\ Len(Amounts(calls, p)) = Len(calls)
      /\ \A i \in All(calls) : Amounts(calls, p)[i] = IF i \in p THEN Charged(calls[i]) ELSE 0
  BY AmountsAre
<1>2. /\ Amounts(new, q) \in Seq(Nat) /\ Len(Amounts(new, q)) = Len(new)
      /\ \A i \in All(new) : Amounts(new, q)[i] = IF i \in q THEN Charged(new[i]) ELSE 0
  BY <1>0, AmountsAre
<1>3. \A i \in 1 .. Len(calls) : Amounts(calls, p)[i] = Amounts(new, q)[i]
  <2> SUFFICES ASSUME NEW i \in 1 .. Len(calls) PROVE Amounts(calls, p)[i] = Amounts(new, q)[i]
    OBVIOUS
  <2>1. i \in All(calls) /\ i \in All(new) /\ new[i] = calls[i]
    BY <1>0 DEF All
  <2> QED BY <1>1, <1>2, <2>1
<1>4. Total(new, q) = Total(calls, p) + Amounts(new, q)[Len(new)]
  BY <1>0, <1>1, <1>2, <1>3, SumAppends DEF Total
<1>5. Len(new) \in All(new) /\ new[Len(new)] = e
  BY <1>0 DEF All
<1> QED BY <1>0, <1>2, <1>4, <1>5 DEF new

LEMMA TotalOfNothing ==
  ASSUME NEW calls \in Seq(Booked), NEW p, \A i \in All(calls) : i \notin p
  PROVE  Total(calls, p) = 0
<1>1. /\ Amounts(calls, p) \in Seq(Nat) /\ Len(Amounts(calls, p)) = Len(calls)
      /\ \A i \in All(calls) : Amounts(calls, p)[i] = 0
  BY AmountsAre
<1>2. \A i \in 1 .. Len(Amounts(calls, p)) : Amounts(calls, p)[i] = 0
  BY <1>1 DEF All
<1> QED BY <1>1, <1>2, SumOfNothing DEF Total
-----------------------------------------------------------------------------
(* The steps that leave the number of entries as it is. *)

Ended == {"COMPLETED", "FAILED", "CANCELLED"}
(* What they do to an entry: it is closed with the usage of its call or none, or noted. *)
EntryStep(i) ==
  LET e == ledger.calls[i]
      f == ledger'.calls[i]
      c == ledger.calls[i].call
  IN  \/ f = e
      \/ /\ callAt[c] \in {"upstream", "answered"} /\ callAt'[c] = "settled"
         /\ \E status \in Ended, amount \in {Nothing, used'[c]} :
              f = [e EXCEPT !.status = status, !.accounted = amount]
      \/ /\ callAt[c] = "settled" /\ callAt'[c] = "over" /\ NotesLate(c)
         /\ f = [e EXCEPT !.noted = TRUE]
(* And to a call. *)
CallStep(c) ==
  /\ \/ callAt'[c] = callAt[c]
     \/ callAt[c] \in {"new", "slotted"} /\ callAt'[c] \in {"slotted", "over"}
     \/ callAt[c] = "upstream" /\ callAt'[c] \in {"answered", "settled", "over"}
     \/ callAt[c] = "answered" /\ callAt'[c] \in {"settled", "over"}
     \/ callAt[c] = "settled" /\ callAt'[c] = "over"
  /\ \/ used'[c] = used[c]
     \/ callAt[c] = "upstream" /\ callAt'[c] # "upstream"

LEMMA CallsAre ==
  ASSUME QualityTypes
  PROVE  /\ ledger.calls \in Seq(Booked) /\ Len(ledger.calls) \in Nat
         /\ \A i \in All(ledger.calls) :
              /\ ledger.calls[i] \in Booked /\ ledger.calls[i].call \in Calls
              /\ ledger.calls[i].reserved = Cost
<1>1. ledger.calls \in Seq(Booked)
  BY DEF QualityTypes
<1>2. \A i \in All(ledger.calls) : ledger.calls[i] \in Booked
  BY <1>1, ElementOfSeq DEF All
<1> QED BY <1>1, <1>2, LenProperties DEF Booked

LEMMA CallsWillBe ==
  ASSUME QualityTypes'
  PROVE  /\ ledger'.calls \in Seq(Booked) /\ Len(ledger'.calls) \in Nat
         /\ \A i \in All(ledger'.calls) : ledger'.calls[i] \in Booked
<1>1. ledger'.calls \in Seq(Booked)
  BY DEF QualityTypes
<1>2. \A i \in All(ledger'.calls) : ledger'.calls[i] \in Booked
  BY <1>1, ElementOfSeq DEF All
<1> QED BY <1>1, <1>2, LenProperties

(* What is recorded under it, and the money of it. *)
LEMMA EntryStepKeeps ==
  ASSUME QualityIInv, QualityTypes', NEW i \in All(ledger.calls), EntryStep(i),
         CallStep(ledger.calls[i].call)
  PROVE  LET e == ledger.calls[i]
             f == ledger'.calls[i]
         IN  /\ f.call = e.call /\ f.staged = e.staged
             /\ callAt'[e.call] \in {"upstream", "answered"} => f = e
             /\ f.accounted \in {Nothing, used'[e.call]}
             /\ used'[e.call] <= Cost => Charged(f) <= Charged(e)
<1> DEFINE e == ledger.calls[i]
           f == ledger'.calls[i]
           c == ledger.calls[i].call
<1>1. /\ e \in Booked /\ c \in Calls /\ e.reserved = Cost /\ Cost \in Nat
      /\ callAt[c] \in Places /\ used[c] \in Nat /\ used'[c] \in Nat /\ Nothing \notin Nat
  BY CallsAre, QualityAssumption DEF QualityIInv, QualityTypes
<1>2. /\ e.accounted \in {Nothing, used[c]}
      /\ callAt[c] \in {"upstream", "answered"} => e.accounted = Nothing
  BY DEF QualityIInv, UsageIsBooked, CallsAreBooked
<1> HIDE DEF e, f, c
<1>3. CASE f = e
  <2>1. e.accounted \in {Nothing, used'[c]}
    BY <1>2 DEF CallStep, c
  <2>2. Charged(e) \in Nat
    BY <1>1, <1>2 DEF Charged
  <2> QED BY <1>3, <2>1, <2>2 DEF e, f, c
<1>4. CASE /\ callAt[c] \in {"upstream", "answered"} /\ callAt'[c] = "settled"
           /\ \E status \in Ended, amount \in {Nothing, used'[c]} :
                f = [e EXCEPT !.status = status, !.accounted = amount]
  <2>1. PICK status \in Ended, amount \in {Nothing, used'[c]} :
          f = [e EXCEPT !.status = status, !.accounted = amount]
    BY <1>4
  <2>2. /\ f.call = e.call /\ f.staged = e.staged /\ f.accounted = amount /\ f.reserved = e.reserved
    BY <1>1, <2>1 DEF Booked
  <2>3. Charged(e) = Cost
    BY <1>1, <1>2, <1>4 DEF Charged
  <2>4. used'[c] <= Cost => Charged(f) <= Cost
    BY <1>1, <2>2 DEF Charged
  <2> QED BY <1>4, <2>2, <2>3, <2>4 DEF e, f, c
<1>5. CASE callAt[c] = "settled" /\ callAt'[c] = "over" /\ f = [e EXCEPT !.noted = TRUE]
  <2>1. /\ f.call = e.call /\ f.staged = e.staged /\ f.accounted = e.accounted
        /\ f.reserved = e.reserved
    BY <1>1, <1>5 DEF Booked
  <2>2. used'[c] = used[c]
    BY <1>5 DEF CallStep, c
  <2>3. Charged(e) \in Nat /\ Charged(f) = Charged(e)
    BY <1>1, <1>2, <2>1 DEF Charged
  <2> QED BY <1>2, <1>5, <2>1, <2>2, <2>3 DEF e, f, c
<1> QED BY <1>3, <1>4, <1>5 DEF EntryStep, e, f, c

LEMMA RewritingKeepsBudget ==
  ASSUME QualityIInv, QualityTypes', admission' = admission, Len(ledger'.calls) = Len(ledger.calls),
         ~SomeOverran' => ~SomeOverran,
         \A i \in All(ledger.calls) :
           /\ ledger'.calls[i].call = ledger.calls[i].call
           /\ ledger'.calls[i].staged = ledger.calls[i].staged
           /\ ~SomeOverran' => Charged(ledger'.calls[i]) <= Charged(ledger.calls[i])
  PROVE  BudgetIsKept' /\ StageIsKept'
<1>0. /\ ledger.calls \in Seq(Booked) /\ ledger'.calls \in Seq(Booked) /\ Len(ledger.calls) \in Nat
      /\ All(ledger'.calls) = All(ledger.calls)
  BY CallsAre, CallsWillBe DEF QualityIInv, All
<1>1. SUFFICES ASSUME ~SomeOverran' PROVE BudgetIsKept' /\ StageIsKept'
  BY DEF BudgetIsKept, StageIsKept
<1>2. \A p : /\ Total(ledger'.calls, p) <= Total(ledger.calls, p)
             /\ Total(ledger'.calls, p) \in Nat /\ Total(ledger.calls, p) \in Nat
  BY <1>0, <1>1, TotalFalls, TotalIsNat
<1>3. Exploring(ledger'.calls) = Exploring(ledger.calls)
  BY <1>0 DEF Exploring
<1>4. /\ Total(ledger.calls, All(ledger.calls)) <= Limit /\ Len(ledger.calls) <= MaxStarts
      /\ Total(ledger.calls, Exploring(ledger.calls)) <= ExploreLimit
      /\ Cardinality(Exploring(ledger.calls)) <= ExploreStarts
  BY <1>1 DEF QualityIInv, BudgetIsKept
<1>n. {Limit, ExploreLimit, StageLimit, Protected} \subseteq Nat
  BY QualityAssumption
<1>5. /\ Total(ledger'.calls, All(ledger'.calls)) <= Limit /\ Len(ledger'.calls) <= MaxStarts
      /\ Total(ledger'.calls, Exploring(ledger'.calls)) <= ExploreLimit
      /\ Cardinality(Exploring(ledger'.calls)) <= ExploreStarts
  BY <1>0, <1>2, <1>3, <1>4, <1>n
<1>6. BudgetIsKept'
  BY <1>5 DEF BudgetIsKept
<1>7. StageIsKept'
  <2> SUFFICES ASSUME admission # Nothing PROVE StageIsKept'
    BY DEF StageIsKept
  <2>0. admission.start \in Nat
    BY <1>0 DEF QualityIInv, PriorHasEnded
  <2>1. Since' = Since /\ Since \subseteq All(ledger.calls)
    BY <1>0, <2>0 DEF Since, All
  <2>2. Own' = Own
    BY <2>1 DEF Own
  <2>3. StageIsKept /\ ~SomeOverran
    BY <1>1 DEF QualityIInv
  <2>4. Total(ledger'.calls, Own') <= StageLimit /\ Cardinality(Own') <= StageStarts
    BY <1>2, <1>n, <2>2, <2>3 DEF StageIsKept
  <2>5. \A i \in Own' : Phase[ledger'.calls[i].call] \in StagePhases
    BY <2>1, <2>2, <2>3 DEF StageIsKept, Own
  <2>6. Own' = Since' /\ Own' # {} => Total(ledger'.calls, All(ledger'.calls)) + Protected <= Limit
    BY <1>0, <1>2, <1>n, <2>1, <2>2, <2>3 DEF StageIsKept
  <2>7. \A i, j \in Since' : i < j /\ ledger'.calls[j].staged => ledger'.calls[i].staged
    BY <2>1, <2>3 DEF StageIsKept
  <2> QED BY <2>4, <2>5, <2>6, <2>7 DEF StageIsKept
<1> QED BY <1>6, <1>7

LEMMA RewritingKeeps ==
  ASSUME QualityIInv, QualityTypes', SlotsAreHeld', admission' = admission,
         Len(ledger'.calls) = Len(ledger.calls),
         \A i \in All(ledger.calls) : EntryStep(i), \A c \in Calls : CallStep(c)
  PROVE  QualityIInv'
<1>0. /\ ledger.calls \in Seq(Booked) /\ ledger'.calls \in Seq(Booked) /\ Len(ledger.calls) \in Nat
      /\ All(ledger'.calls) = All(ledger.calls)
      /\ \A i \in All(ledger.calls) : ledger.calls[i].call \in Calls
  BY CallsAre, CallsWillBe DEF QualityIInv, All
<1>t. callAt \in [Calls -> Places] /\ used \in [Calls -> Nat] /\ used' \in [Calls -> Nat] /\ Cost \in Nat
  BY QualityAssumption DEF QualityIInv, QualityTypes
<1>1. \A i \in All(ledger.calls) :
        LET e == ledger.calls[i]
            f == ledger'.calls[i]
        IN  /\ f.call = e.call /\ f.staged = e.staged
            /\ callAt'[e.call] \in {"upstream", "answered"} => f = e
            /\ f.accounted \in {Nothing, used'[e.call]}
            /\ used'[e.call] <= Cost => Charged(f) <= Charged(e)
  BY <1>0, EntryStepKeeps
<1>2. \A c \in Calls : HasBooking(c)' <=> HasBooking(c)
  BY <1>0, <1>1 DEF HasBooking
<1>3. CallsAreBooked'
  <2>1. \A i, j \in All(ledger'.calls) : ledger'.calls[i].call = ledger'.calls[j].call => i = j
    BY <1>0, <1>1 DEF QualityIInv, CallsAreBooked
  <2>2. \A c \in Calls :
          /\ callAt'[c] \in {"new", "slotted"} => ~HasBooking(c)
          /\ callAt'[c] \in {"upstream", "answered", "settled"} => HasBooking(c)
    BY <1>t DEF QualityIInv, CallsAreBooked, CallStep, Places
  <2>3. \A i \in All(ledger'.calls) : callAt'[ledger'.calls[i].call] \in {"upstream", "answered"} =>
          ledger'.calls[i].status = "STARTED" /\ ledger'.calls[i].accounted = Nothing
    <3> SUFFICES ASSUME NEW i \in All(ledger.calls),
                        callAt'[ledger'.calls[i].call] \in {"upstream", "answered"}
                 PROVE  ledger'.calls[i].status = "STARTED" /\ ledger'.calls[i].accounted = Nothing
      BY <1>0
    <3>1. ledger'.calls[i] = ledger.calls[i] /\ ledger.calls[i].call \in Calls
      BY <1>0, <1>1
    <3>2. callAt[ledger.calls[i].call] \in {"upstream", "answered"}
      BY <3>1 DEF CallStep
    <3> QED BY <3>1, <3>2 DEF QualityIInv, CallsAreBooked
  <2> QED BY <1>2, <2>1, <2>2, <2>3 DEF CallsAreBooked
<1>4. UsageIsBooked'
  <2>1. \A c \in Calls :
          /\ callAt'[c] \in {"new", "slotted", "upstream"} => used'[c] = 0
          /\ used'[c] > 0 => HasBooking(c)
    BY <1>t DEF QualityIInv, UsageIsBooked, CallsAreBooked, CallStep, Places
  <2>2. \A i \in All(ledger'.calls) : ledger'.calls[i].accounted \in {Nothing, used'[ledger'.calls[i].call]}
    BY <1>0, <1>1
  <2> QED BY <1>2, <2>1, <2>2 DEF UsageIsBooked
<1>5. ~SomeOverran' => ~SomeOverran
  <2> SUFFICES ASSUME NEW c \in Calls, used[c] > Cost PROVE used'[c] > Cost
    BY DEF SomeOverran
  <2> QED BY <1>t DEF QualityIInv, UsageIsBooked, CallStep
<1>6. ~SomeOverran' => \A c \in Calls : used'[c] <= Cost
  BY <1>t DEF SomeOverran
<1>7. BudgetIsKept' /\ StageIsKept'
  BY <1>0, <1>1, <1>5, <1>6, RewritingKeepsBudget
<1>8. PriorHasEnded'
  <2> SUFFICES ASSUME admission # Nothing PROVE PriorHasEnded'
    BY DEF PriorHasEnded
  <2>1. /\ admission.start \in 0 .. Len(ledger.calls)
        /\ admission.prior \in Seq(Booked) /\ Len(admission.prior) = admission.start
    BY DEF QualityIInv, PriorHasEnded
  <2>2. ASSUME NEW i \in 1 .. admission.start
        PROVE  LET c == ledger.calls[i].call IN
               /\ ledger'.calls[i].call = c /\ callAt'[c] \in {"settled", "over"}
               /\ \/ admission.unnoted
                  \/ ledger'.calls[i] = admission.prior[i] /\ ~(callAt'[c] = "settled" /\ NotesLate(c))
    <3> DEFINE c == ledger.calls[i].call
    <3>1. i \in All(ledger.calls) /\ c \in Calls /\ ledger'.calls[i].call = c
      BY <1>0, <1>1, <2>1 DEF All
    <3>2. /\ callAt[c] \in {"settled", "over"}
          /\ \/ admission.unnoted
             \/ ledger.calls[i] = admission.prior[i] /\ ~(callAt[c] = "settled" /\ NotesLate(c))
      BY DEF QualityIInv, PriorHasEnded
    <3>3. EntryStep(i) /\ CallStep(c)
      BY <3>1
    <3> HIDE DEF c
    <3>4. callAt'[c] \in {"settled", "over"} /\ (callAt'[c] = "settled" => callAt[c] = "settled")
      BY <3>2, <3>3 DEF CallStep
    <3>5. ~admission.unnoted => ledger'.calls[i] = ledger.calls[i]
      BY <3>2, <3>3 DEF EntryStep, c
    <3> QED BY <3>1, <3>2, <3>4, <3>5 DEF c
  <2> QED BY <2>1, <2>2 DEF PriorHasEnded
<1> QED BY <1>3, <1>4, <1>7, <1>8 DEF QualityIInv

-----------------------------------------------------------------------------
(* The step that adds an entry. *)

Reserved(c) ==
  /\ Has(c, "slotted") /\ Allowed(c) /\ ~Denied
  /\ ledger' = [ledger EXCEPT !.calls = Append(@, Entry(c, Owner[c] \in Staged))]
  /\ Move(c, "upstream") /\ UNCHANGED <<slot, admission, open, used>>

LEMMA ReservationAdds ==
  ASSUME QualityIInv, NEW c \in Calls, Reserved(c)
  PROVE  LET e == Entry(c, Owner[c] \in Staged) IN
         /\ e \in Booked /\ Charged(e) = Cost /\ ledger.calls \in Seq(Booked) /\ Len(ledger.calls) \in Nat
         /\ ledger'.calls = Append(ledger.calls, e) /\ Len(ledger'.calls) = Len(ledger.calls) + 1
         /\ ledger'.calls[Len(ledger.calls) + 1] = e
         /\ \A i \in All(ledger.calls) : ledger'.calls[i] = ledger.calls[i]
         /\ All(ledger'.calls) = All(ledger.calls) \cup {Len(ledger.calls) + 1}
         /\ QualityTypes' /\ ~HasBooking(c)
<1> DEFINE e == Entry(c, Owner[c] \in Staged)
<1>0. /\ ledger \in [stopped : BOOLEAN, calls : Seq(Booked)] /\ ledger.calls \in Seq(Booked)
      /\ Len(ledger.calls) \in Nat
  BY CallsAre DEF QualityIInv, QualityTypes
<1>1. e \in Booked /\ Charged(e) = Cost
  BY DEF Booked, Entry, Charged
<1> HIDE DEF e
<1>2. ledger' = [ledger EXCEPT !.calls = Append(ledger.calls, e)]
  BY DEF Reserved, e
<1>3. /\ Append(ledger.calls, e) \in Seq(Booked) /\ Len(Append(ledger.calls, e)) = Len(ledger.calls) + 1
      /\ Append(ledger.calls, e)[Len(ledger.calls) + 1] = e
      /\ \A i \in 1 .. Len(ledger.calls) : Append(ledger.calls, e)[i] = ledger.calls[i]
  BY <1>0, <1>1, AppendProperties
<1>4. /\ ledger'.calls = Append(ledger.calls, e) /\ ledger' \in [stopped : BOOLEAN, calls : Seq(Booked)]
  BY <1>0, <1>2, <1>3
<1>5. QualityTypes'
  BY <1>4 DEF QualityIInv, QualityTypes, Reserved, Move, Places
<1>6. callAt[c] = "slotted" /\ ~HasBooking(c)
  BY DEF Reserved, Has, QualityIInv, CallsAreBooked
<1>7. All(ledger'.calls) = All(ledger.calls) \cup {Len(ledger.calls) + 1}
  BY <1>0, <1>3, <1>4 DEF All
<1> QED BY <1>0, <1>1, <1>3, <1>4, <1>5, <1>6, <1>7 DEF All, e

LEMMA ReservationIsBooked ==
  ASSUME QualityIInv, NEW c \in Calls, Reserved(c)
  PROVE  CallsAreBooked' /\ UsageIsBooked' /\ SlotsAreHeld' /\ PriorHasEnded'
<1> DEFINE n == Len(ledger.calls)
<1>0. /\ n \in Nat /\ All(ledger'.calls) = All(ledger.calls) \cup {n + 1} /\ n + 1 \notin All(ledger.calls)
      /\ ledger'.calls[n + 1] = Entry(c, Owner[c] \in Staged)
      /\ \A i \in All(ledger.calls) : ledger'.calls[i] = ledger.calls[i]
      /\ Len(ledger'.calls) = n + 1 /\ ~HasBooking(c)
  BY ReservationAdds DEF All
<1>1. /\ callAt[c] = "slotted" /\ callAt' = [callAt EXCEPT ![c] = "upstream"]
      /\ callAt \in [Calls -> Places] /\ slot' = slot /\ admission' = admission /\ used' = used
  BY DEF Reserved, Has, Move, QualityIInv, QualityTypes
<1>2. /\ ledger'.calls[n + 1].call = c /\ ledger'.calls[n + 1].status = "STARTED"
      /\ ledger'.calls[n + 1].accounted = Nothing
  BY <1>0 DEF Entry
<1>3. \A i \in All(ledger.calls) : ledger.calls[i].call # c /\ ledger.calls[i].call \in Calls
  BY <1>0, CallsAre DEF HasBooking, QualityIInv
<1> HIDE DEF n
<1>4. \A d \in Calls : HasBooking(d)' <=> HasBooking(d) \/ d = c
  BY <1>0, <1>2 DEF HasBooking
<1>5. CallsAreBooked'
  <2>1. \A i, j \in All(ledger'.calls) : ledger'.calls[i].call = ledger'.calls[j].call => i = j
    BY <1>0, <1>2, <1>3 DEF QualityIInv, CallsAreBooked
  <2>2. \A d \in Calls :
          /\ callAt'[d] \in {"new", "slotted"} => ~(HasBooking(d) \/ d = c)
          /\ callAt'[d] \in {"upstream", "answered", "settled"} => HasBooking(d) \/ d = c
    BY <1>1 DEF QualityIInv, CallsAreBooked
  <2>3. \A i \in All(ledger'.calls) : callAt'[ledger'.calls[i].call] \in {"upstream", "answered"} =>
          ledger'.calls[i].status = "STARTED" /\ ledger'.calls[i].accounted = Nothing
    BY <1>0, <1>1, <1>2, <1>3 DEF QualityIInv, CallsAreBooked
  <2> QED BY <1>4, <2>1, <2>2, <2>3 DEF CallsAreBooked
<1>6. UsageIsBooked'
  <2>1. \A d \in Calls :
          /\ callAt'[d] \in {"new", "slotted", "upstream"} => used'[d] = 0
          /\ used'[d] > 0 => HasBooking(d)
    BY <1>1 DEF QualityIInv, UsageIsBooked
  <2>2. \A i \in All(ledger'.calls) : ledger'.calls[i].accounted \in {Nothing, used'[ledger'.calls[i].call]}
    BY <1>0, <1>1, <1>2 DEF QualityIInv, UsageIsBooked
  <2> QED BY <1>4, <2>1, <2>2 DEF UsageIsBooked
<1>7. SlotsAreHeld'
  BY <1>1 DEF QualityIInv, SlotsAreHeld
<1>8. PriorHasEnded'
  <2> SUFFICES ASSUME admission # Nothing PROVE PriorHasEnded'
    BY <1>1 DEF PriorHasEnded
  <2>1. /\ admission.start \in 0 .. n
        /\ admission.prior \in Seq(Booked) /\ Len(admission.prior) = admission.start
    BY DEF QualityIInv, PriorHasEnded, n
  <2>2. ASSUME NEW i \in 1 .. admission.start
        PROVE  ledger'.calls[i] = ledger.calls[i] /\ callAt'[ledger.calls[i].call] = callAt[ledger.calls[i].call]
    <3>1. i \in All(ledger.calls)
      BY <1>0, <2>1 DEF All, n
    <3> QED BY <1>0, <1>1, <1>3, <3>1
  <2>3. admission.start \in 0 .. Len(ledger'.calls)
    BY <1>0, <2>1
  <2> QED BY <1>1, <2>1, <2>2, <2>3 DEF QualityIInv, PriorHasEnded
<1> QED BY <1>5, <1>6, <1>7, <1>8

LEMMA ReservationKeepsBudget ==
  ASSUME QualityIInv, NEW c \in Calls, Reserved(c)
  PROVE  BudgetIsKept' /\ StageIsKept'
<1> DEFINE n == Len(ledger.calls)
           e == Entry(c, Owner[c] \in Staged)
           old == ledger.calls
           new == Append(old, e)
<1>0. /\ n \in Nat /\ old \in Seq(Booked) /\ e \in Booked /\ Charged(e) = Cost /\ ledger'.calls = new
      /\ All(new) = All(old) \cup {n + 1} /\ n + 1 \notin All(old) /\ new[n + 1] = e
      /\ \A i \in All(old) : new[i] = old[i]
      /\ Len(new) = n + 1 /\ e.call = c /\ e.staged = (Owner[c] \in Staged)
  BY ReservationAdds DEF All, Entry
<1>1. admission' = admission /\ used' = used /\ (SomeOverran' <=> SomeOverran) /\ ~Denied /\ Allowed(c)
  BY DEF Reserved, SomeOverran
<1>2. SUFFICES ASSUME ~SomeOverran PROVE BudgetIsKept' /\ StageIsKept'
  BY <1>1 DEF BudgetIsKept, StageIsKept
<1>n. {Cost, MaxStarts, Limit, ExploreStarts, ExploreLimit, StageStarts, StageLimit, Protected} \subseteq Nat
  BY QualityAssumption
<1> HIDE DEF e, new, old, n
<1>t. \A p : Total(old, p) \in Nat
  BY <1>0, TotalIsNat
<1>3. \A p, q : (\A i \in All(old) : i \in p <=> i \in q) =>
        Total(new, q) = Total(old, p) + (IF n + 1 \in q THEN Cost ELSE 0)
  BY <1>0, TotalAppends DEF new, old, n
<1>4. /\ Total(new, All(new)) = Total(old, All(old)) + Cost /\ Total(new, All(new)) <= Limit
      /\ Len(new) <= MaxStarts
  <2>1. n < MaxStarts /\ Total(old, All(old)) + Cost <= Limit
    BY <1>0, <1>1, <1>n, <1>t DEF Denied, old, n
  <2>2. Total(new, All(new)) = Total(old, All(old)) + Cost
    BY <1>0, <1>3
  <2> QED BY <1>0, <1>n, <2>1, <2>2
<1>5. Total(new, Exploring(new)) <= ExploreLimit /\ Cardinality(Exploring(new)) <= ExploreStarts
  <2>0. Total(old, Exploring(old)) <= ExploreLimit /\ Cardinality(Exploring(old)) <= ExploreStarts
    BY <1>2 DEF QualityIInv, BudgetIsKept, old
  <2>1. CASE Final(c)
    <3>1. Exploring(new) = Exploring(old) /\ n + 1 \notin Exploring(new)
      BY <1>0, <2>1 DEF Exploring
    <3>2. Total(new, Exploring(new)) = Total(old, Exploring(old)) + 0
      BY <1>3, <3>1
    <3> QED BY <1>t, <2>0, <3>1, <3>2
  <2>2. CASE ~Final(c)
    <3>1. Exploring(new) = Exploring(old) \cup {n + 1} /\ n + 1 \notin Exploring(old)
      BY <1>0, <2>2 DEF Exploring
    <3>2. Total(new, Exploring(new)) = Total(old, Exploring(old)) + Cost
      <4>1. \A i \in All(old) : i \in Exploring(old) <=> i \in Exploring(new)
        BY <1>0, <3>1
      <4> QED BY <1>3, <3>1, <4>1
    <3>3. /\ Cardinality(Exploring(old)) + 1 <= ExploreStarts
          /\ Total(old, Exploring(old)) + Cost <= ExploreLimit
      BY <1>1, <2>2 DEF Allowed, LeavesFinalReserve, old
    <3>4. IsFiniteSet(Exploring(old))
      <4>1. IsFiniteSet(All(old)) /\ Exploring(old) \subseteq All(old)
        BY <1>0, FS_Interval DEF All, Exploring, n
      <4> QED BY <4>1, FS_Subset
    <3>5. Cardinality(Exploring(new)) = Cardinality(Exploring(old)) + 1
      BY <3>1, <3>4, FS_AddElement
    <3> QED BY <3>2, <3>3, <3>5
  <2> QED BY <2>1, <2>2
<1>6. BudgetIsKept'
  BY <1>0, <1>4, <1>5 DEF BudgetIsKept
<1>7. StageIsKept'
  <2> SUFFICES ASSUME admission # Nothing PROVE StageIsKept'
    BY <1>1 DEF StageIsKept
  <2>0. admission.start \in 0 .. n
    BY DEF QualityIInv, PriorHasEnded, n
  <2>1. /\ Since' = Since \cup {n + 1} /\ n + 1 \notin Since /\ Since \subseteq All(old)
        /\ IsFiniteSet(Since) /\ Cardinality(Since') = Cardinality(Since) + 1
    <3>1. Since = admission.start + 1 .. n /\ Since' = admission.start + 1 .. n + 1
      BY <1>0, <1>1 DEF Since, n, old
    <3>2. Since' = Since \cup {n + 1} /\ n + 1 \notin Since /\ Since \subseteq All(old)
      BY <1>0, <2>0, <3>1 DEF All, n
    <3>3. IsFiniteSet(Since)
      <4>1. admission.start + 1 \in Int /\ n \in Int
        BY <1>0, <2>0
      <4>2. IsFiniteSet(admission.start + 1 .. n)
        BY <4>1, FS_Interval
      <4> QED BY <3>1, <4>2
    <3> QED BY <3>2, <3>3, FS_AddElement
  <2>2. /\ Total(old, Own) <= StageLimit /\ Cardinality(Own) <= StageStarts
        /\ \A i \in Own : Phase[old[i].call] \in StagePhases
        /\ \A i, j \in Since : i < j /\ old[j].staged => old[i].staged
    BY <1>2 DEF QualityIInv, StageIsKept, old
  <2>3. Own = { i \in Since : old[i].staged } /\ Own' = { i \in Since' : new[i].staged }
    BY <1>0 DEF Own, old
  <2>4. CASE Owner[c] \in Staged
    <3>1. StageStands /\ StageFits(c)
      BY <1>1, <2>4 DEF Allowed
    <3>2. \A i \in Since : old[i].staged
      BY <3>1 DEF StageStands, OnlyOwn, old
    <3>3. \A i \in Since' : new[i].staged
      BY <1>0, <2>1, <2>4, <3>2
    <3>4. Own = Since /\ Own' = Since'
      BY <2>3, <3>2, <3>3
    <3>5. /\ Phase[c] \in StagePhases /\ Cardinality(Since) + 1 <= StageStarts
          /\ Total(old, Since) + Cost <= StageLimit
          /\ Total(old, All(old)) + Cost + Protected <= Limit
      BY <3>1 DEF StageFits, old
    <3>6. Total(new, Since') = Total(old, Since) + Cost
      <4>1. \A i \in All(old) : i \in Since <=> i \in Since'
        BY <1>0, <2>1
      <4> QED BY <1>3, <2>1, <4>1
    <3>7. \A i \in Since' : Phase[new[i].call] \in StagePhases
      BY <1>0, <2>1, <2>2, <3>4, <3>5
    <3> QED BY <1>0, <1>4, <2>1, <3>3, <3>4, <3>5, <3>6, <3>7 DEF StageIsKept
  <2>5. CASE Owner[c] \notin Staged
    <3>1. ~new[n + 1].staged /\ n + 1 \in Since'
      BY <1>0, <2>1, <2>5
    <3>2. Own' = Own /\ Own' # Since' /\ n + 1 \notin Own
      BY <1>0, <2>1, <2>3, <3>1
    <3>3. Total(new, Own') = Total(old, Own) + 0
      BY <1>3, <3>2
    <3>4. \A i \in Own' : Phase[new[i].call] \in StagePhases
      BY <1>0, <2>1, <2>2, <2>3, <3>2
    <3>5. \A i, j \in Since' : i < j /\ new[j].staged => new[i].staged
      <4> SUFFICES ASSUME NEW i \in Since', NEW j \in Since', i < j, new[j].staged PROVE new[i].staged
        OBVIOUS
      <4>1. j # n + 1 /\ j \in Since /\ i \in All(old) \cup {n + 1}
        BY <2>1, <3>1
      <4>2. i # n + 1
        BY <1>0, <2>1, <4>1 DEF All, n
      <4> QED BY <1>0, <2>1, <2>2, <4>1, <4>2
    <3>6. Total(new, Own') <= StageLimit /\ Cardinality(Own') <= StageStarts
      BY <1>t, <2>2, <3>2, <3>3
    <3> QED BY <1>0, <3>2, <3>4, <3>5, <3>6 DEF StageIsKept
  <2> QED BY <2>4, <2>5
<1> QED BY <1>6, <1>7

LEMMA ReservationKeeps ==
  ASSUME QualityIInv, NEW c \in Calls, Reserved(c)
  PROVE  QualityIInv'
BY ReservationAdds, ReservationIsBooked, ReservationKeepsBudget DEF QualityIInv

-----------------------------------------------------------------------------
(* The steps of a call. *)

LEMMA QuietKeeps ==
  ASSUME QualityIInv, QualityTypes', SlotsAreHeld', admission' = admission,
         ledger'.calls = ledger.calls, \A c \in Calls : CallStep(c)
  PROVE  QualityIInv'
<1>1. \A i \in All(ledger.calls) : EntryStep(i)
  BY DEF EntryStep
<1> QED BY <1>1, RewritingKeeps

LEMMA EntryIsFound ==
  ASSUME QualityIInv, NEW c \in Calls, callAt[c] \in {"upstream", "answered", "settled"}
  PROVE  EntryOf(c) \in All(ledger.calls) /\ ledger.calls[EntryOf(c)].call = c
<1>1. DOMAIN ledger.calls = All(ledger.calls)
  BY CallsAre, LenProperties DEF QualityIInv, All
<1>2. \E i \in All(ledger.calls) : ledger.calls[i].call = c
  BY DEF QualityIInv, CallsAreBooked, HasBooking
<1> QED BY <1>1, <1>2 DEF EntryOf

LEMMA FinishingIs ==
  ASSUME QualityIInv, NEW c \in Calls, callAt[c] \in {"upstream", "answered"}, callAt'[c] = "settled",
         NEW status \in Ended, NEW usage \in {Nothing, used'[c]}, used'[c] \in Nat,
         Finished(c, status, usage)
  PROVE  /\ ledger' \in [stopped : BOOLEAN, calls : Seq(Booked)]
         /\ Len(ledger'.calls) = Len(ledger.calls) /\ \A i \in All(ledger.calls) : EntryStep(i)
<1> DEFINE k == EntryOf(c)
           entry == [ledger.calls[k] EXCEPT !.status = status, !.accounted = usage]
           calls == [ledger.calls EXCEPT ![k] = entry]
           stop == ledger.stopped \/ Overrun(entry) \/ Total(calls, All(calls)) > Limit
<1>0. /\ k \in All(ledger.calls) /\ ledger.calls[k].call = c /\ ledger.calls \in Seq(Booked)
      /\ ledger.calls[k] \in Booked /\ ledger \in [stopped : BOOLEAN, calls : Seq(Booked)]
  BY EntryIsFound, CallsAre DEF QualityIInv, QualityTypes
<1>1. ledger' = [ledger EXCEPT !.calls = calls, !.stopped = stop]
  BY DEF Finished
<1>2. entry \in Booked
  <2>1. usage \in Nat \cup {Nothing} /\ status \in {"STARTED", "COMPLETED", "FAILED", "CANCELLED"}
    BY DEF Ended
  <2> QED BY <1>0, <2>1 DEF Booked
<1>s. stop \in BOOLEAN
  OBVIOUS
<1>e. entry = [ledger.calls[k] EXCEPT !.status = status, !.accounted = usage]
  OBVIOUS
<1>k. k = EntryOf(c)
  OBVIOUS
<1>c. calls = [ledger.calls EXCEPT ![k] = entry]
  OBVIOUS
<1> HIDE DEF k, entry, calls, stop
<1>3. /\ calls \in Seq(Booked) /\ Len(calls) = Len(ledger.calls)
      /\ \A i \in All(ledger.calls) : calls[i] = IF i = k THEN entry ELSE ledger.calls[i]
  BY <1>0, <1>2, <1>c, ExceptSeq DEF All
<1>4. ledger'.calls = calls /\ ledger' \in [stopped : BOOLEAN, calls : Seq(Booked)]
  BY <1>0, <1>1, <1>3, <1>s
<1>5. \A i \in All(ledger.calls) : EntryStep(i)
  <2> SUFFICES ASSUME NEW i \in All(ledger.calls) PROVE EntryStep(i)
    OBVIOUS
  <2>1. CASE i = k
    BY <1>0, <1>3, <1>4, <1>e, <2>1 DEF EntryStep
  <2>2. CASE i # k
    BY <1>3, <1>4, <2>2 DEF EntryStep
  <2> QED BY <2>1, <2>2
<1> QED BY <1>3, <1>4, <1>5

LEMMA NotingIs ==
  ASSUME QualityIInv, NEW c \in Calls, callAt[c] = "settled", callAt'[c] = "over", NotesLate(c),
         ledger' = [ledger EXCEPT !.calls[EntryOf(c)].noted = TRUE]
  PROVE  /\ ledger' \in [stopped : BOOLEAN, calls : Seq(Booked)]
         /\ Len(ledger'.calls) = Len(ledger.calls) /\ \A i \in All(ledger.calls) : EntryStep(i)
<1> DEFINE k == EntryOf(c)
           entry == [ledger.calls[k] EXCEPT !.noted = TRUE]
           calls == [ledger.calls EXCEPT ![k] = entry]
<1>0. /\ k \in All(ledger.calls) /\ ledger.calls[k].call = c /\ ledger.calls \in Seq(Booked)
      /\ ledger.calls[k] \in Booked /\ ledger \in [stopped : BOOLEAN, calls : Seq(Booked)]
  BY EntryIsFound, CallsAre DEF QualityIInv, QualityTypes
<1>1. ledger' = [ledger EXCEPT !.calls = calls]
  OBVIOUS
<1>2. entry \in Booked
  BY <1>0 DEF Booked
<1>e. entry = [ledger.calls[k] EXCEPT !.noted = TRUE] /\ calls = [ledger.calls EXCEPT ![k] = entry]
  OBVIOUS
<1> HIDE DEF k, entry, calls
<1>3. /\ calls \in Seq(Booked) /\ Len(calls) = Len(ledger.calls)
      /\ \A i \in All(ledger.calls) : calls[i] = IF i = k THEN entry ELSE ledger.calls[i]
  BY <1>0, <1>2, <1>e, ExceptSeq DEF All
<1>4. ledger'.calls = calls /\ ledger' \in [stopped : BOOLEAN, calls : Seq(Booked)]
  BY <1>0, <1>1, <1>3
<1>5. \A i \in All(ledger.calls) : EntryStep(i)
  <2> SUFFICES ASSUME NEW i \in All(ledger.calls) PROVE EntryStep(i)
    OBVIOUS
  <2>1. CASE i = k
    BY <1>0, <1>3, <1>4, <1>e, <2>1 DEF EntryStep
  <2>2. CASE i # k
    BY <1>3, <1>4, <2>2 DEF EntryStep
  <2> QED BY <2>1, <2>2
<1> QED BY <1>3, <1>4, <1>5

LEMMA AcquireKeeps ==
  ASSUME QualityIInv, NEW c \in Calls, Acquire(c)
  PROVE  QualityIInv'
<1> DEFINE n == CHOOSE n \in Free(Owner[c]) : \A m \in Free(Owner[c]) : n <= m
<1>0. Owner[c] \in Processes /\ Maximum[Owner[c]] \in Nat /\ Nothing \notin Nat
  BY QualityAssumption
<1>1. n \in Free(Owner[c])
  <2>1. Free(Owner[c]) \subseteq Nat /\ Free(Owner[c]) # {}
    BY <1>0 DEF Free, Acquire
  <2>2. \E x \in Free(Owner[c]) : \A m \in Free(Owner[c]) : x <= m
    BY <2>1, LeastNumber
  <2> QED BY <2>2
<1>2. slot' = [slot EXCEPT ![c] = n]
  BY DEF Acquire
<1> HIDE DEF n
<1>3. n \in 1 .. Maximum[Owner[c]] /\ n \in Nat /\ \A d \in Calls : slot[d] # n
  BY <1>0, <1>1 DEF Free
<1>4. /\ callAt[c] = "new" /\ callAt' = [callAt EXCEPT ![c] = "slotted"]
      /\ ledger' = ledger /\ admission' = admission /\ open' = open /\ used' = used
      /\ callAt \in [Calls -> Places] /\ slot \in [Calls -> Nat \cup {Nothing}]
  BY DEF Acquire, Has, Move, QualityIInv, QualityTypes
<1>5. QualityTypes'
  BY <1>2, <1>3, <1>4 DEF QualityIInv, QualityTypes, Places
<1>6. SlotsAreHeld'
  <2>1. \A d, x \in Calls : slot'[d] # Nothing /\ slot'[d] = slot'[x] => d = x
    BY <1>2, <1>3, <1>4 DEF QualityIInv, SlotsAreHeld
  <2>2. \A d \in Calls : callAt'[d] \in {"slotted", "upstream", "answered", "settled"} =>
          slot'[d] \in 1 .. Maximum[Owner[d]]
    BY <1>2, <1>3, <1>4 DEF QualityIInv, SlotsAreHeld
  <2> QED BY <2>1, <2>2 DEF SlotsAreHeld
<1>7. \A d \in Calls : CallStep(d)
  BY <1>4 DEF CallStep
<1> QED BY <1>4, <1>5, <1>6, <1>7, QuietKeeps

(* A call that goes on or ends, with or without its slot. *)
LEMMA GoingKeepsTypes ==
  ASSUME QualityIInv, NEW c \in Calls, NEW place \in Places \ {"new", "slotted"}, Move(c, place),
         callAt[c] \in {"slotted", "upstream", "answered", "settled"} \/ place = "over",
         slot' = slot \/ (place = "over" /\ slot' = [slot EXCEPT ![c] = Nothing])
  PROVE  /\ callAt' \in [Calls -> Places] /\ slot' \in [Calls -> Nat \cup {Nothing}] /\ SlotsAreHeld'
         /\ \A d \in Calls \ {c} : callAt'[d] = callAt[d]
         /\ callAt'[c] = place
<1>1. /\ callAt' = [callAt EXCEPT ![c] = place] /\ callAt \in [Calls -> Places]
      /\ slot \in [Calls -> Nat \cup {Nothing}]
  BY DEF Move, QualityIInv, QualityTypes
<1>2. SlotsAreHeld'
  <2>1. \A d, x \in Calls : slot'[d] # Nothing /\ slot'[d] = slot'[x] => d = x
    BY <1>1 DEF QualityIInv, SlotsAreHeld
  <2>2. \A d \in Calls : callAt'[d] \in {"slotted", "upstream", "answered", "settled"} =>
          slot'[d] \in 1 .. Maximum[Owner[d]]
    BY <1>1 DEF QualityIInv, SlotsAreHeld
  <2> QED BY <2>1, <2>2 DEF SlotsAreHeld
<1> QED BY <1>1, <1>2

LEMMA LeavingKeeps ==
  ASSUME QualityIInv, NEW c \in Calls, TurnAway(c) \/ CancelWait(c)
  PROVE  QualityIInv'
<1>1. /\ Move(c, "over") /\ ledger' = ledger /\ admission' = admission /\ open' = open /\ used' = used
      /\ slot' = slot /\ callAt[c] = "new"
  BY DEF TurnAway, CancelWait, Has
<1>2. /\ callAt' \in [Calls -> Places] /\ slot' \in [Calls -> Nat \cup {Nothing}] /\ SlotsAreHeld'
      /\ \A d \in Calls \ {c} : callAt'[d] = callAt[d]
      /\ callAt'[c] = "over"
  BY <1>1, GoingKeepsTypes DEF Places
<1>3. QualityTypes'
  BY <1>1, <1>2 DEF QualityIInv, QualityTypes
<1>4. \A d \in Calls : CallStep(d)
  BY <1>1, <1>2 DEF CallStep
<1> QED BY <1>1, <1>2, <1>3, <1>4, QuietKeeps

LEMMA ReserveKeeps ==
  ASSUME QualityIInv, NEW c \in Calls, Reserve(c)
  PROVE  QualityIInv'
<1>1. CASE Reserved(c)
  BY <1>1, ReservationKeeps
<1>2. CASE Leaves(c) /\ (ledger' = ledger \/ ledger' = [ledger EXCEPT !.stopped = TRUE])
  <2>1. /\ Move(c, "over") /\ slot' = [slot EXCEPT ![c] = Nothing] /\ callAt[c] = "slotted"
        /\ admission' = admission /\ open' = open /\ used' = used
    BY <1>2 DEF Reserve, Has, Leaves
  <2>2. /\ callAt' \in [Calls -> Places] /\ slot' \in [Calls -> Nat \cup {Nothing}] /\ SlotsAreHeld'
        /\ \A d \in Calls \ {c} : callAt'[d] = callAt[d]
        /\ callAt'[c] = "over"
    BY <2>1, GoingKeepsTypes DEF Places
  <2>3. ledger' \in [stopped : BOOLEAN, calls : Seq(Booked)] /\ ledger'.calls = ledger.calls
    BY <1>2 DEF QualityIInv, QualityTypes
  <2>4. QualityTypes'
    BY <2>1, <2>2, <2>3 DEF QualityIInv, QualityTypes
  <2>5. \A d \in Calls : CallStep(d)
    BY <2>1, <2>2 DEF CallStep
  <2> QED BY <2>1, <2>2, <2>3, <2>4, <2>5, QuietKeeps
<1> QED BY <1>1, <1>2 DEF Reserve, Reserved

LEMMA AnswersKeeps ==
  ASSUME QualityIInv, NEW c \in Calls, Answers(c)
  PROVE  QualityIInv'
<1>1. /\ Move(c, "answered") /\ ledger' = ledger /\ admission' = admission /\ open' = open
      /\ slot' = slot /\ callAt[c] = "upstream"
  BY DEF Answers, Has
<1>2. /\ callAt' \in [Calls -> Places] /\ slot' \in [Calls -> Nat \cup {Nothing}] /\ SlotsAreHeld'
      /\ \A d \in Calls \ {c} : callAt'[d] = callAt[d]
      /\ callAt'[c] = "answered"
  BY <1>1, GoingKeepsTypes DEF Places
<1>3. PICK use \in 1 .. Cost + 1 : used' = [used EXCEPT ![c] = IF Kind[c] = "speech" THEN Cost ELSE use]
  BY DEF Answers
<1>4. used \in [Calls -> Nat] /\ used' \in [Calls -> Nat] /\ \A d \in Calls \ {c} : used'[d] = used[d]
  BY <1>3, QualityAssumption DEF QualityIInv, QualityTypes
<1>5. QualityTypes'
  BY <1>1, <1>2, <1>4 DEF QualityIInv, QualityTypes
<1>6. \A d \in Calls : CallStep(d)
  BY <1>1, <1>2, <1>4 DEF CallStep
<1> QED BY <1>1, <1>2, <1>5, <1>6, QuietKeeps

LEMMA FinishingKeeps ==
  ASSUME QualityIInv, NEW c \in Calls, Settle(c) \/ CallFails(c)
  PROVE  QualityIInv'
<1>1. /\ Move(c, "settled") /\ admission' = admission /\ open' = open
      /\ slot' = slot /\ callAt[c] \in {"upstream", "answered"}
  BY DEF Settle, CallFails, Has
<1>2. /\ callAt' \in [Calls -> Places] /\ slot' \in [Calls -> Nat \cup {Nothing}] /\ SlotsAreHeld'
      /\ \A d \in Calls \ {c} : callAt'[d] = callAt[d]
      /\ callAt'[c] = "settled"
  BY <1>1, GoingKeepsTypes DEF Places
<1>3. /\ used \in [Calls -> Nat] /\ used' \in [Calls -> Nat]
      /\ \/ used' = used
         \/ callAt[c] = "upstream" /\ \A d \in Calls \ {c} : used'[d] = used[d]
  <2>1. CASE Settle(c)
    BY <2>1 DEF Settle, QualityIInv, QualityTypes
  <2>2. CASE CallFails(c)
    BY <2>2, QualityAssumption DEF CallFails, Has, QualityIInv, QualityTypes
  <2> QED BY <2>1, <2>2
<1>4. CASE \E status \in Ended, usage \in {Nothing, used'[c]} : Finished(c, status, usage)
  <2>1. PICK status \in Ended, usage \in {Nothing, used'[c]} : Finished(c, status, usage)
    BY <1>4
  <2>2. /\ ledger' \in [stopped : BOOLEAN, calls : Seq(Booked)]
        /\ Len(ledger'.calls) = Len(ledger.calls) /\ \A i \in All(ledger.calls) : EntryStep(i)
    BY <1>1, <1>2, <1>3, <2>1, FinishingIs
  <2>3. QualityTypes'
    BY <1>1, <1>2, <1>3, <2>2 DEF QualityIInv, QualityTypes
  <2>4. \A d \in Calls : CallStep(d)
    BY <1>1, <1>2, <1>3 DEF CallStep
  <2> QED BY <1>1, <1>2, <2>2, <2>3, <2>4, RewritingKeeps
<1>5. CASE ledger' = ledger
  <2>1. QualityTypes'
    BY <1>1, <1>2, <1>3, <1>5 DEF QualityIInv, QualityTypes
  <2>2. \A d \in Calls : CallStep(d)
    BY <1>1, <1>2, <1>3 DEF CallStep
  <2> QED BY <1>1, <1>2, <1>5, <2>1, <2>2, QuietKeeps
<1>6. (\E status \in Ended, usage \in {Nothing, used'[c]} : Finished(c, status, usage)) \/ ledger' = ledger
  <2>1. CASE Settle(c)
    <3>1. used' = used
      BY <2>1 DEF Settle
    <3> QED BY <2>1, <3>1 DEF Settle, SettleProfile, SettleLive, SettleSpeech, Ended
  <2>2. CASE CallFails(c)
    BY <2>2 DEF CallFails, UsageOnFailure, Ended
  <2> QED BY <2>1, <2>2
<1> QED BY <1>4, <1>5, <1>6

LEMMA DepartKeeps ==
  ASSUME QualityIInv, NEW c \in Calls, Depart(c)
  PROVE  QualityIInv'
<1>1. /\ Move(c, "over") /\ slot' = [slot EXCEPT ![c] = Nothing] /\ callAt[c] = "settled"
      /\ admission' = admission /\ open' = open /\ used' = used
  BY DEF Depart, Has, Leaves
<1>2. /\ callAt' \in [Calls -> Places] /\ slot' \in [Calls -> Nat \cup {Nothing}] /\ SlotsAreHeld'
      /\ \A d \in Calls \ {c} : callAt'[d] = callAt[d]
      /\ callAt'[c] = "over"
  BY <1>1, GoingKeepsTypes DEF Places
<1>3. \A d \in Calls : CallStep(d)
  BY <1>1, <1>2 DEF CallStep
<1>4. CASE NotesLate(c)
  <2>1. ledger' = [ledger EXCEPT !.calls[EntryOf(c)].noted = TRUE]
    BY <1>4 DEF Depart
  <2>2. /\ ledger' \in [stopped : BOOLEAN, calls : Seq(Booked)]
        /\ Len(ledger'.calls) = Len(ledger.calls) /\ \A i \in All(ledger.calls) : EntryStep(i)
    BY <1>1, <1>2, <1>4, <2>1, NotingIs
  <2>3. QualityTypes'
    BY <1>1, <1>2, <2>2 DEF QualityIInv, QualityTypes
  <2> QED BY <1>1, <1>2, <1>3, <2>2, <2>3, RewritingKeeps
<1>5. CASE ~NotesLate(c)
  <2>1. ledger' = ledger
    BY <1>5 DEF Depart
  <2>2. QualityTypes'
    BY <1>1, <1>2, <2>1 DEF QualityIInv, QualityTypes
  <2> QED BY <1>1, <1>2, <1>3, <2>1, <2>2, QuietKeeps
<1> QED BY <1>4, <1>5

-----------------------------------------------------------------------------
(* The steps of a process and of the operator. *)

LEMMA ProcessKeeps ==
  ASSUME QualityIInv, NEW p \in Processes, Open(p) \/ Kill(p)
  PROVE  QualityIInv'
<1>1. CASE Open(p)
  <2>1. UNCHANGED <<ledger, admission, callAt, slot, used>> /\ open' = open \cup {p}
    BY <1>1 DEF Open
  <2>2. QualityTypes' /\ SlotsAreHeld'
    BY <2>1 DEF QualityIInv, QualityTypes, SlotsAreHeld
  <2>3. \A c \in Calls : CallStep(c)
    BY <2>1 DEF CallStep
  <2> QED BY <2>1, <2>2, <2>3, QuietKeeps
<1>2. CASE Kill(p)
  <2>1. /\ callAt' = [c \in Calls |-> IF c \in InFlight(p) THEN "over" ELSE callAt[c]]
        /\ slot' = [c \in Calls |-> IF c \in InFlight(p) THEN Nothing ELSE slot[c]]
        /\ used' = [c \in Calls |-> IF c \in InFlight(p) /\ callAt[c] = "upstream" THEN Cost ELSE used[c]]
        /\ ledger' = ledger /\ admission' = admission /\ open' = open \ {p}
    BY <1>2 DEF Kill
  <2>2. /\ callAt \in [Calls -> Places] /\ slot \in [Calls -> Nat \cup {Nothing}]
        /\ used \in [Calls -> Nat] /\ Cost \in Nat
    BY QualityAssumption DEF QualityIInv, QualityTypes
  <2>3. QualityTypes'
    BY <2>1, <2>2 DEF QualityIInv, QualityTypes, Places
  <2>4. SlotsAreHeld'
    <3>1. \A d, x \in Calls : slot'[d] # Nothing /\ slot'[d] = slot'[x] => d = x
      BY <2>1, <2>2 DEF QualityIInv, SlotsAreHeld
    <3>2. \A d \in Calls : callAt'[d] \in {"slotted", "upstream", "answered", "settled"} =>
            slot'[d] \in 1 .. Maximum[Owner[d]]
      BY <2>1, <2>2 DEF QualityIInv, SlotsAreHeld
    <3> QED BY <3>1, <3>2 DEF SlotsAreHeld
  <2>5. \A c \in Calls : CallStep(c)
    BY <2>1, <2>2 DEF CallStep, InFlight, Places
  <2> QED BY <2>1, <2>3, <2>4, <2>5, QuietKeeps
<1> QED BY <1>1, <1>2

LEMMA ApproveKeeps ==
  ASSUME QualityIInv, Approve
  PROVE  QualityIInv'
<1>0. /\ UNCHANGED <<ledger, open, callAt, slot, used>>
      /\ admission' = [start |-> Len(ledger.calls), prior |-> ledger.calls,
                       unnoted |-> \E c \in Calls : callAt[c] = "settled" /\ NotesLate(c)]
  BY DEF Approve
<1>1. /\ ledger.calls \in Seq(Booked) /\ Len(ledger.calls) \in Nat
      /\ \A i \in All(ledger.calls) : ledger.calls[i].call \in Calls
  BY CallsAre DEF QualityIInv
<1>2. \A i \in All(ledger.calls) : ledger.calls[i].status # "STARTED"
  BY <1>1, LenProperties DEF Approve, All
<1>3. QualityTypes' /\ SlotsAreHeld' /\ CallsAreBooked' /\ UsageIsBooked'
  BY <1>0 DEF QualityIInv, QualityTypes, SlotsAreHeld, CallsAreBooked, UsageIsBooked, HasBooking
<1>4. (SomeOverran' <=> SomeOverran) /\ BudgetIsKept'
  BY <1>0 DEF QualityIInv, BudgetIsKept, SomeOverran
<1>5. PriorHasEnded'
  <2>1. ASSUME NEW i \in All(ledger.calls)
        PROVE  callAt[ledger.calls[i].call] \in {"settled", "over"}
    <3>1. ledger.calls[i].call \in Calls /\ HasBooking(ledger.calls[i].call)
      BY <1>1 DEF HasBooking
    <3>2. callAt[ledger.calls[i].call] \in Places
      BY <3>1 DEF QualityIInv, QualityTypes
    <3> QED BY <1>2, <3>1, <3>2 DEF QualityIInv, CallsAreBooked, Places
  <2>2. \A i \in All(ledger.calls) :
          \/ admission'.unnoted
          \/ ~(callAt[ledger.calls[i].call] = "settled" /\ NotesLate(ledger.calls[i].call))
    BY <1>0, <1>1
  <2>3. admission'.start = Len(ledger.calls) /\ admission'.prior = ledger.calls
    BY <1>0
  <2>4. \A i \in 1 .. admission'.start :
          /\ callAt'[ledger'.calls[i].call] \in {"settled", "over"}
          /\ \/ admission'.unnoted
             \/ /\ ledger'.calls[i] = admission'.prior[i]
                /\ ~(callAt'[ledger'.calls[i].call] = "settled" /\ NotesLate(ledger'.calls[i].call))
    BY <1>0, <2>1, <2>2, <2>3 DEF All
  <2>5. /\ admission'.start \in 0 .. Len(ledger'.calls)
        /\ admission'.prior \in Seq(Booked) /\ Len(admission'.prior) = admission'.start
    BY <1>0, <1>1, <2>3
  <2> QED BY <2>4, <2>5 DEF PriorHasEnded
<1>6. StageIsKept'
  <2>1. Since' = {} /\ Own' = {}
    <3>1. Since' = Len(ledger.calls) + 1 .. Len(ledger.calls)
      BY <1>0 DEF Since
    <3>2. Since' = {}
      BY <1>1, <3>1
    <3> QED BY <3>2 DEF Own
  <2>2. Total(ledger'.calls, {}) = 0 /\ Cardinality({}) = 0
    BY <1>0, <1>1, TotalOfNothing, FS_EmptySet
  <2>3. {StageLimit, StageStarts} \subseteq Nat
    BY QualityAssumption
  <2> QED BY <2>1, <2>2, <2>3 DEF StageIsKept
<1> QED BY <1>3, <1>4, <1>5, <1>6 DEF QualityIInv

LEMMA QualityInitially == ASSUME QualityInit PROVE QualityIInv
<1>1. /\ ledger = [stopped |-> FALSE, calls |-> <<>>] /\ ledger.calls = <<>> /\ <<>> \in Seq(Booked)
      /\ Len(ledger.calls) = 0 /\ All(ledger.calls) = {}
  BY EmptySeq DEF QualityInit, All
<1>2. QualityTypes
  BY <1>1 DEF QualityInit, QualityTypes, Places
<1>3. CallsAreBooked /\ UsageIsBooked /\ SlotsAreHeld /\ PriorHasEnded /\ StageIsKept
  BY <1>1 DEF QualityInit, CallsAreBooked, UsageIsBooked, SlotsAreHeld, PriorHasEnded, StageIsKept, HasBooking
<1>4. BudgetIsKept
  <2>1. Exploring(ledger.calls) = {} /\ Cardinality({}) = 0 /\ Total(ledger.calls, {}) = 0
    BY <1>1, TotalOfNothing, FS_EmptySet DEF Exploring
  <2>2. {Limit, MaxStarts, ExploreLimit, ExploreStarts} \subseteq Nat
    BY QualityAssumption
  <2>3. Total(ledger.calls, All(ledger.calls)) = 0 /\ Total(ledger.calls, Exploring(ledger.calls)) = 0
    BY <1>1, <2>1, Zenon
  <2>4. Cardinality(Exploring(ledger.calls)) = 0
    BY <2>1, Zenon
  <2> QED BY <1>1, <2>2, <2>3, <2>4 DEF BudgetIsKept
<1> QED BY <1>2, <1>3, <1>4 DEF QualityIInv

LEMMA QualityFollows == ASSUME QualityIInv PROVE QualityInv
<1>1. QualityTypeOK
  <2>1. DOMAIN ledger.calls = All(ledger.calls)
    BY CallsAre, LenProperties DEF QualityIInv, All
  <2> QED BY <2>1 DEF QualityIInv, QualityTypes, CallsAreBooked, QualityTypeOK, Places
<1>2. NothingIsFree
  <2> SUFFICES ASSUME NEW c \in Calls, used[c] > 0
               PROVE  \E i \in DOMAIN ledger.calls : ledger.calls[i].call = c
                        /\ (Charged(ledger.calls[i]) >= used[c] \/ used[c] > Cost)
    BY DEF NothingIsFree
  <2>1. PICK i \in All(ledger.calls) : ledger.calls[i].call = c
    BY DEF QualityIInv, UsageIsBooked, HasBooking
  <2>2. i \in DOMAIN ledger.calls /\ ledger.calls[i].reserved = Cost
    BY <2>1, CallsAre, LenProperties DEF QualityIInv, All
  <2>3. ledger.calls[i].accounted \in {Nothing, used[c]} /\ used[c] \in Nat /\ Cost \in Nat
    BY <2>1, QualityAssumption DEF QualityIInv, QualityTypes, UsageIsBooked
  <2> QED BY <2>1, <2>2, <2>3 DEF Charged
<1>3. OneCallPerSlot
  BY DEF QualityIInv, SlotsAreHeld, OneCallPerSlot
<1>4. OnlyLateNotesCloseTheStage
  <2> SUFFICES ASSUME admission # Nothing, ~admission.unnoted PROVE Prior = admission.prior
    BY DEF OnlyLateNotesCloseTheStage
  <2>1. /\ admission.start \in 0 .. Len(ledger.calls)
        /\ admission.prior \in Seq(Booked) /\ Len(admission.prior) = admission.start
        /\ \A i \in 1 .. admission.start : ledger.calls[i] = admission.prior[i]
    BY DEF QualityIInv, PriorHasEnded
  <2>2. \A i \in 1 .. admission.start : ledger.calls[i] \in Booked
    BY <2>1, CallsAre DEF QualityIInv, All
  <2>3. /\ Prior \in Seq(Booked) /\ Len(Prior) = admission.start
        /\ \A i \in 1 .. admission.start : Prior[i] = ledger.calls[i]
    <3>1. 1 \in Int /\ admission.start \in Int /\ admission.start - 1 + 1 = admission.start
      BY <2>1, CallsAre DEF QualityIInv
    <3>2. /\ SubSeq(ledger.calls, 1, admission.start) \in Seq(Booked)
          /\ Len(SubSeq(ledger.calls, 1, admission.start)) =
               IF 1 <= admission.start THEN admission.start - 1 + 1 ELSE 0
          /\ \A i \in 1 .. admission.start - 1 + 1 :
               SubSeq(ledger.calls, 1, admission.start)[i] = ledger.calls[1 + i - 1]
      BY <2>2, <3>1, SubSeqProperties
    <3> QED BY <2>1, <3>1, <3>2 DEF Prior
  <2> QED BY <2>1, <2>3, SeqEqual
<1> QED BY <1>1, <1>2, <1>3, <1>4 DEF QualityInv, QualityIInv

(* Whatever the processes, their calls and the limits, and whoever is killed when: what has
   been used is charged, the campaign, its exploration and its stage keep to their budgets
   as long as no call used more than it reserved, a slot has one call at a time, and only a
   note that was due closes an approved stage. *)
THEOREM QualityCorrect == QualitySpec => []QualityInv
<1>1. QualityIInv /\ [QualityNext]_qualityVars => QualityIInv'
  <2> SUFFICES ASSUME QualityIInv, [QualityNext]_qualityVars PROVE QualityIInv'
    OBVIOUS
  <2>1. CASE UNCHANGED qualityVars
    <3>1. QualityTypes' /\ SlotsAreHeld'
      BY <2>1 DEF qualityVars, QualityIInv, QualityTypes, SlotsAreHeld
    <3>2. \A c \in Calls : CallStep(c)
      BY <2>1 DEF qualityVars, CallStep
    <3> QED BY <2>1, <3>1, <3>2, QuietKeeps DEF qualityVars
  <2>2. ASSUME NEW c \in Calls, QualityStep(c) \/ CancelWait(c) PROVE QualityIInv'
    BY <2>2, AcquireKeeps, LeavingKeeps, ReserveKeeps, AnswersKeeps, FinishingKeeps, DepartKeeps DEF QualityStep
  <2>3. ASSUME NEW p \in Processes, Open(p) \/ Kill(p) PROVE QualityIInv'
    BY <2>3, ProcessKeeps
  <2>4. CASE Approve
    BY <2>4, ApproveKeeps
  <2> QED BY <2>1, <2>2, <2>3, <2>4 DEF QualityNext
<1> QED BY <1>1, QualityInitially, QualityFollows, PTL DEF QualitySpec
=============================================================================
