----------------------------- MODULE FleetStart -----------------------------
(* A fleet from its settings to its guests: gen-compose accepts or refuses *)
(* the settings, docker compose starts the services of the stack it        *)
(* rendered, the ernics register with the mesh manager, containers crash   *)
(* and are restarted. docker compose, the health checks as Docker runs     *)
(* them, the mesh and the device servers are external and modelled from    *)
(* what the rendered stack and its comments say of them.                   *)
EXTENDS FleetPlan

CONSTANTS Settings,    \* the fleets considered
          Profiles,    \* sets of profiles an `up` may enable
          MaxServices, \* larger fleets are planned and not started
          MaxCrashes   \* crashes of containers considered

(* plan() turns what it counts with into ints.                             *)
FleetAssumption ==
    \A s \in Settings : {s.count, s.ernic, s.rocjitsu, s.sdxi, s.width} \subseteq Int
ASSUME FleetAssumption

VARIABLES settings,
          stack,     \* docker-compose.yml: what each service waits for
          phase,     \* "plan", "refused", "rendered", "up", "failed", "started"
          svc,       \* container of each service of the stack
          health,    \* what Docker says of it
          node,      \* the mesh node ids of the NICs, 0 the manager
          nextNode,  \* the next id the manager gives out
          taps,      \* NICs whose tap0 exists
          crashed,   \* containers that died, with a bound on their number
          failed     \* rounds of a service's installation that failed
vars == <<settings, stack, phase, svc, health, node, nextNode, taps, crashed, failed>>

NoNode == -1
None == [x \in {} |-> 0]

Names == DOMAIN stack
Manager == NicAt(settings, 1)
IsNic(x) == x[1] = "ernic"
NicOf(x) == <<"ernic">> \o Tail(x)
HasTap(x) == IsNic(x) /\ settings.tap

Running == phase \in {"up", "failed", "started"}

Init == /\ settings \in Settings
        /\ phase = "plan" /\ stack = None
        /\ svc = None /\ health = None /\ node = None /\ nextNode = 1
        /\ taps = {} /\ crashed = {} /\ failed = None

---------------------------------------------------------------------------
Plan == /\ phase = "plan"
        /\ phase' = IF Refused(settings) THEN "refused" ELSE "rendered"
        /\ UNCHANGED <<settings, stack, svc, health, node, nextNode, taps, crashed, failed>>

(* docker compose up creates every container of the selected profiles.     *)
Up == /\ phase = "rendered"
      /\ settings.count <= MaxServices
      /\ \E p \in Profiles : stack' = Compose(settings, p)
      /\ Cardinality(DOMAIN stack') <= MaxServices
      /\ phase' = "up"
      /\ svc' = [x \in DOMAIN stack' |-> "absent"]
      /\ health' = [x \in DOMAIN stack' |-> "starting"]
      /\ node' = [x \in Nics(settings) |-> NoNode]
      /\ failed' = [x \in {y \in DOMAIN stack' : Installs(y)} |-> 0]
      /\ UNCHANGED <<settings, nextNode, taps, crashed>>

Met(d) == IF d.condition = "healthy" THEN health[d.on] = "healthy" ELSE svc[d.on] # "absent"

StartService(x) ==
    /\ phase = "up" /\ svc[x] = "absent"
    /\ \A d \in stack[x] : Met(d)
    /\ svc' = [svc EXCEPT ![x] = "starting"]
    /\ UNCHANGED <<settings, stack, phase, health, node, nextNode, taps, crashed, failed>>

(* "dependency failed to start": it is unhealthy, or it is gone for good.  *)
UpFails ==
    /\ phase = "up"
    /\ \E x \in Names : svc[x] = "absent" /\ \E d \in stack[x] :
          /\ d.condition = "healthy"
          /\ health[d.on] = "unhealthy"
               \/ (svc[d.on] = "dead" /\ RunsOnce(settings, d.on))
    /\ phase' = "failed"
    /\ UNCHANGED <<settings, stack, svc, health, node, nextNode, taps, crashed, failed>>

UpEnds ==
    /\ phase = "up" /\ \A x \in Names : svc[x] # "absent"
    /\ phase' = "started"
    /\ UNCHANGED <<settings, stack, svc, health, node, nextNode, taps, crashed, failed>>

---------------------------------------------------------------------------
(* The processes in the containers.                                        *)

Becomes(x, st) == svc' = [svc EXCEPT ![x] = st]

Dies(x) ==
    /\ Becomes(x, "dead")
    /\ health' = [health EXCEPT ![x] = "starting"]
    /\ crashed' = crashed \cup {x}

(* The sidecar makes the tap in its NIC's namespace and exits.             *)
MakeTap(x) ==
    /\ x[1] = "tapsetup" /\ svc[x] = "starting"
    /\ Becomes(x, "ready")
    /\ taps' = taps \cup {NicOf(x)}
    /\ UNCHANGED <<settings, stack, phase, health, node, nextNode, crashed, failed>>

(* An ernic waits for its tap, then binds its socket; the manager goes on  *)
(* to listen, a worker to register.                                        *)
Bind(x) ==
    /\ IsNic(x) /\ svc[x] = "starting"
    /\ HasTap(x) => x \in taps
    /\ Becomes(x, "bound")
    /\ UNCHANGED <<settings, stack, phase, health, node, nextNode, taps, crashed, failed>>

(* ... for 240 rounds; then it exits.                                      *)
GiveUpOnTap(x) ==
    /\ HasTap(x) /\ svc[x] = "starting" /\ x \notin taps
    /\ Cardinality(crashed) < MaxCrashes
    /\ Dies(x)
    /\ UNCHANGED <<settings, stack, phase, node, nextNode, taps, failed>>

Listen(x) ==
    /\ x = Manager /\ svc[x] = "bound"
    /\ Becomes(x, "ready")
    /\ node' = [node EXCEPT ![x] = 0]
    /\ UNCHANGED <<settings, stack, phase, health, nextNode, taps, crashed, failed>>

(* The manager numbers its workers in the order in which they connect, and *)
(* a worker that reconnects anew.                                          *)
Register(x) ==
    /\ IsNic(x) /\ x # Manager /\ svc[x] = "bound"
    /\ svc[Manager] = "ready" /\ nextNode < MESH_MAX
    /\ Becomes(x, "ready")
    /\ node' = [node EXCEPT ![x] = nextNode]
    /\ nextNode' = nextNode + 1
    /\ UNCHANGED <<settings, stack, phase, health, taps, crashed, failed>>

(* A round of the installation fails: the resolver drops the query.        *)
InstallFails(x) ==
    /\ Installs(x) /\ svc[x] = "starting" /\ failed[x] < PipxInstall(settings)
    /\ failed' = [failed EXCEPT ![x] = @ + 1]
    /\ UNCHANGED <<settings, stack, phase, svc, health, node, nextNode, taps, crashed>>

(* After the last round there is nothing to exec.                          *)
Installed(x) == Installs(x) => failed[x] < PipxInstall(settings)

(* run-vm execs QEMU, which exits if one of its sockets is missing.        *)
Attach(x) ==
    LET socks == Range(QemuService(settings, x[2]).userdev)
    IN  /\ x[1] = "qemu" /\ svc[x] = "starting"
        /\ IF Installed(x) /\ \A y \in socks : svc[y] \in {"bound", "ready"}
           THEN Becomes(x, "ready") ELSE Becomes(x, "dead")
        /\ UNCHANGED <<settings, stack, phase, health, node, nextNode, taps, crashed, failed>>

Serve(x) ==
    /\ x[1] \notin {"qemu", "ernic", "tapsetup"} /\ svc[x] = "starting"
    /\ Becomes(x, IF Installed(x) THEN "ready" ELSE "dead")
    /\ UNCHANGED <<settings, stack, phase, health, node, nextNode, taps, crashed, failed>>

(* A device server or a service dies. The workers lose a manager that      *)
(* dies, and their registration with it.                                   *)
Crash(x) ==
    /\ Cardinality(crashed) < MaxCrashes
    /\ x[1] \notin {"qemu", "tapsetup"} /\ svc[x] \in {"bound", "ready"}
    /\ crashed' = crashed \cup {x}
    /\ IF x = Manager
       THEN /\ svc' = [y \in Names |-> IF y = x THEN "dead"
                         ELSE IF IsNic(y) /\ svc[y] = "ready" THEN "bound" ELSE svc[y]]
            /\ node' = [y \in Nics(settings) |-> NoNode]
       ELSE /\ Becomes(x, "dead")
            /\ node' = IF IsNic(x) THEN [node EXCEPT ![x] = NoNode] ELSE node
    /\ health' = [health EXCEPT ![x] = "starting"]
    /\ UNCHANGED <<settings, stack, phase, nextNode, taps, failed>>

(* restart: on-failure. The tap went with the network namespace, or not.   *)
Restart(x) ==
    /\ svc[x] = "dead" /\ ~RunsOnce(settings, x)
    /\ Becomes(x, "starting")
    /\ taps' \in {taps, taps \ {x}}
    /\ UNCHANGED <<settings, stack, phase, health, node, nextNode, crashed, failed>>

(* Docker's health checks: the manager's port listens, a worker's          *)
(* connection to it is established, a socket listens.                      *)
Healthy(x) == svc[x] = "ready"

CheckPasses(x) ==
    /\ Healthy(x) /\ HasCheck(x) /\ health[x] # "healthy"
    /\ health' = [health EXCEPT ![x] = "healthy"]
    /\ UNCHANGED <<settings, stack, phase, svc, node, nextNode, taps, crashed, failed>>

(* Thirty checks failed in a row.                                          *)
CheckFails(x) ==
    /\ HasCheck(x) /\ svc[x] \in {"starting", "bound"}
    /\ health[x] # "unhealthy"
    /\ health' = [health EXCEPT ![x] = "unhealthy"]
    /\ UNCHANGED <<settings, stack, phase, svc, node, nextNode, taps, crashed, failed>>

Works(x) == StartService(x) \/ MakeTap(x) \/ Bind(x) \/ Listen(x) \/ Register(x)
              \/ Attach(x) \/ Serve(x) \/ Restart(x) \/ CheckPasses(x)
Fails(x) == InstallFails(x) \/ GiveUpOnTap(x) \/ Crash(x) \/ CheckFails(x)

Work == Running /\ \E x \in Names : Works(x)
Next == \/ Plan \/ Up \/ UpFails \/ UpEnds
        \/ Work
        \/ Running /\ \E x \in Names : Fails(x)

(* Docker starts what it may, restarts what it must and polls what it      *)
(* watches, and a process that can go on does: as long as any of this is   *)
(* left to do, some of it happens. Nothing has to fail.                    *)
Fairness == WF_vars(Plan) /\ WF_vars(Up) /\ WF_vars(UpFails) /\ WF_vars(UpEnds) /\ WF_vars(Work)

Spec == Init /\ [][Next]_vars /\ Fairness

---------------------------------------------------------------------------
Planned == phase = "rendered"

(* In every fleet gen-compose renders, no two services share an address,   *)
(* the addresses of NICs and guests and the guests' own are addresses of a *)
(* /24 each, and the last byte of a MAC is the ordinal that the mesh takes *)
(* it for (gen_compose.py:616-665, 1310).                                  *)
AddressesFit ==
    Planned =>
        LET a == Addresses(settings)
        IN  /\ Cardinality({e[1] : e \in a}) = Cardinality(a)
            /\ Cardinality({e[2] : e \in a}) = Cardinality(a)
            /\ \A e \in a : e[2][1] \in {NET_ERNIC, NET_QEMU} => e[2][2] \in 1..254
            /\ \A o \in 1..NicCount(settings) : Ip(o) \in 11..254 /\ Mac(o)[2] = o

(* With a switch as wide as a GPU and its share of the NICs, every GPU of  *)
(* a guest sits under a switch with exactly its NICs, whatever else the    *)
(* guest attaches (gen_compose.py:677-687, run_vm.py:445-464).             *)
SwitchHoldsAGpuAndItsNics ==
    LET s == settings  per == s.ernic \div s.rocjitsu
    IN  Planned /\ per >= 1 /\ s.width = per + 1 =>
          \A n \in 1..s.count : \A g \in 1..s.rocjitsu :
              Range(Switches(s, n)[g]) =
                 {VmGpus(s, n)[g]} \cup {VmNics(s, n)[d] : d \in ((g - 1) * per + 1)..(g * per)}

(* The three files agree: what the inventory tells Ansible of a guest is   *)
(* what its container publishes and its ernics are started with, and what  *)
(* Prometheus scrapes exists (gen_compose.py:1871-2079).                   *)
ArtifactsAgree ==
    LET s == settings
        NicsOf(n) == {o \in 1..NicCount(s) : NicService(s, o).sock \in Range(QemuService(s, n).userdev)}
    IN  Planned =>
          /\ \A n \in 1..s.count :
                /\ Inventory(s)[n].port = QemuService(s, n).port
                /\ {<<e.mac, e.ip>> : e \in Range(Inventory(s)[n].nics)}
                     = {NicService(s, o).gids : o \in NicsOf(n)}
          /\ Prometheus(s) \subseteq {e[2] : e \in Addresses(s)}

(* As long as no container died, a NIC that is registered has the node id  *)
(* that the GID resolver computes from its MAC, however the starts         *)
(* interleave (gen_compose.py:1310-1328).                                  *)
NodeIdIsMacByte ==
    Running /\ crashed = {} =>
        \A o \in 1..NicCount(settings) :
            node[NicAt(settings, o)] \in {NoNode, Mac(o)[2] - 1}

(* A guest whose QEMU did not start is one of whose device servers died,   *)
(* or whose installation failed in every round it is given: no order of    *)
(* starts and health checks loses a guest, and with PyPI no single failed  *)
(* query does (gen_compose.py:1077-1091, 1417-1441).                       *)
GuestsLostOnlyToFailures ==
    Running => \A n \in 1..settings.count : svc[Qemu(n)] = "dead" =>
        \/ crashed \cap Range(QemuService(settings, n).userdev) # {}
        \/ failed[Qemu(n)] = PipxInstall(settings)

(* If nothing dies, no installation runs out of rounds and no health check *)
(* out of retries, the fleet comes up completely: the chain of workers,    *)
(* the sidecars and the guests never wait for each other in a circle       *)
(* (gen_compose.py:1280-1335).                                             *)
Quiet == /\ crashed = {} /\ \A x \in DOMAIN health : health[x] # "unhealthy"
         /\ \A x \in DOMAIN failed : failed[x] < PipxInstall(settings)
FleetComesUp ==
    ([]Quiet) => [](phase = "up" => <>(phase = "started" /\ \A n \in 1..settings.count : svc[Qemu(n)] = "ready"))
=============================================================================
