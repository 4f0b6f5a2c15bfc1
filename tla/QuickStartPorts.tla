--------------------------- MODULE QuickStartPorts ---------------------------
(***************************************************************************)
(* quick-start and the ports it publishes.  Every verb is a process of its *)
(* own: what `up` decided reaches `test` and `down` only through the files *)
(* beside the stack, the generated env.ports overlay and docker-compose.yml*)
(* (where the ports are baked in).  A verb can be killed between any two   *)
(* of its steps, and other programs take and release ports at any time.    *)
(*                                                                         *)
(* The account, the images and the keypair, which travel the same way, are *)
(* in QuickStartImages.                                                    *)
(***************************************************************************)
EXTENDS Integers, FiniteSetsExt

CONSTANTS
  VMs,          \* VM_COUNT
  Default,      \* [Keys -> Nat], the ports of the fleet XML and of _DEFAULTS
  Scan,         \* how many ports _next_free_port tries (200)
  Foreign,      \* ports other programs may listen on
  MetricsFlags, \* the --metrics/--no-metrics choices users make
  NetworkFlags, \* the --in-network choices users make
  MaxVerbs      \* bound: verbs started

Keys == {"PROM_PORT", "GRAFANA_PORT", "VM_SSH_PORT_BASE"}
Ssh  == "VM_SSH_PORT_BASE"
MetricsKeys == Keys \ {Ssh}
Absent == 0      \* a key the file does not have

ASSUME VMsAssumption     == VMs \in Nat \ {0}
ASSUME ScanAssumption    == Scan \in Nat \ {0}
ASSUME DefaultAssumption == Default \in [Keys -> Nat \ {0}]
ASSUME BoundAssumption   == MaxVerbs \in Nat
ASSUME FlagsAssumption   == MetricsFlags \subseteq BOOLEAN /\ NetworkFlags \subseteq BOOLEAN

Verbs == {"up", "all", "test", "down"}

VARIABLES
  taken,    \* ports other programs listen on
  layer,    \* env.ports: [Keys -> Nat], Absent where it has no such key
  yaml,     \* the ports baked into docker-compose.yml
  stack,    \* the ports the running containers publish; NoPorts when down
  stuck,    \* the ports of containers left in state "created"; NoPorts if none
  verb, metrics, inNetwork,    \* the command line of the running verb
  pc, attempt,                 \* where it is, and which try of up() this is
  tried,    \* history: the SSH base of this process's failed first try
  kept,     \* history: the present try could not remove stuck containers
  verbs     \* verbs started so far

files  == <<layer, yaml>>
docker == <<stack, stuck>>
flags  == <<verb, metrics, inNetwork>>
vars   == <<taken, files, docker, flags, pc, attempt, tried, kept, verbs>>

NoPorts == [k \in Keys |-> Absent]

(* _rescan_layers, _reload and _State.get: env.ports over the settings. *)
Value(k) == IF layer[k] = Absent THEN Default[k] ELSE layer[k]
Values   == [k \in Keys |-> Value(k)]

GuestPorts(base) == base .. (base + VMs - 1)
Published(ports, m) ==
  IF ports = NoPorts THEN {}
  ELSE GuestPorts(ports[Ssh]) \union (IF m THEN {ports[k] : k \in MetricsKeys} ELSE {})

(* _port_free: somebody listens, this stack's own containers included. *)
PortFree(q) == q \notin taken /\ q \notin Published(stack, TRUE)

(* Mutant: the scan starts at the base instead of past the range. *)
NextFreePort_FromZero(start) ==
  LET free == {q \in (start - VMs) .. (start + Scan - 1) : PortFree(q)}
  IN  IF free = {} THEN start ELSE Min(free)

(* _next_free_port: the first free port of the scan, or where it started. *)
NextFreePort(start) ==
  LET free == {q \in start .. (start + Scan - 1) : PortFree(q)}
  IN  IF free = {} THEN start ELSE Min(free)

GuestPortsTaken(base) == {q \in GuestPorts(base) : ~PortFree(q)}

Init ==
  /\ taken \in SUBSET Foreign
  /\ layer = NoPorts /\ yaml = NoPorts
  /\ stack = NoPorts /\ stuck = NoPorts
  /\ verb = "up" /\ metrics = FALSE /\ inNetwork = FALSE
  /\ pc = "idle" /\ attempt = 0
  /\ tried = Absent /\ kept = FALSE /\ verbs = 0

-----------------------------------------------------------------------------
(* run(): the verb's process starts from what the last one left on disk.   *)

Start(v, m, n) ==
  /\ pc = "idle" /\ verbs < MaxVerbs
  /\ verb' = v /\ metrics' = m /\ inNetwork' = n
  /\ pc' = CASE v \in {"up", "all"} -> "resolve"
             [] v = "test"          -> "wait"
             [] v = "down"          -> "down"
  /\ attempt' = 1 /\ tried' = Absent /\ kept' = FALSE /\ verbs' = verbs + 1
  /\ UNCHANGED <<taken, files, docker>>

(* _resolve_ports: the default answers, as without a terminal.  The whole  *)
(* snapshot is written when any port of it moved.                          *)
Resolve ==
  /\ pc = "resolve"
  /\ LET wanted == IF metrics THEN MetricsKeys ELSE {}
         moved  == {k \in wanted : ~PortFree(Value(k))}
                   \union (IF GuestPortsTaken(Value(Ssh)) # {} /\ ~inNetwork
                           THEN {Ssh} ELSE {})
         Answer(k) == IF k \notin moved THEN Value(k)
                      ELSE IF k = Ssh THEN NextFreePort(Value(Ssh) + VMs)
                      ELSE NextFreePort(Value(k) + 1)
     IN  layer' = IF moved = {} THEN layer
                  ELSE [k \in Keys |-> IF k \in wanted \union {Ssh}
                                       THEN Answer(k) ELSE Absent]
  /\ pc' = "confirm"
  /\ UNCHANGED <<taken, yaml, docker, flags, attempt, tried, kept, verbs>>

(* "Bring this up now?" *)
Confirm ==
  /\ pc = "confirm"
  /\ pc' \in {"generate", "idle"}
  /\ UNCHANGED <<taken, files, docker, flags, attempt, tried, kept, verbs>>

(* generate_stack: the values of this moment are baked into the YAML,      *)
(* before the first try and after each remap.                              *)
Generate ==
  /\ pc \in {"generate", "regenerate"}
  /\ yaml' = Values
  /\ pc' = IF pc = "generate" THEN "check" ELSE "compose"
  /\ UNCHANGED <<taken, layer, docker, flags, attempt, tried, kept, verbs>>

(* Containers stuck in "created" are looked for and removed; what docker   *)
(* answers to either command is ignored.                                   *)
RemoveStuck ==
  /\ stuck' \in {NoPorts, stuck}
  /\ kept' = (stuck' # NoPorts)

(* Mutant: the remap reaches env.ports and not the YAML. *)
UpCheck_NoRegenerate ==
  /\ pc = "check"
  /\ RemoveStuck
  /\ LET base == Value(Ssh)
     IN  IF ~inNetwork /\ (GuestPortsTaken(base) # {} \/ attempt = 2)
         THEN layer' = [k \in Keys |-> IF k = Ssh THEN NextFreePort(base + VMs)
                                      ELSE IF metrics THEN Value(k) ELSE Absent]
         ELSE UNCHANGED layer
  /\ pc' = "compose"
  /\ UNCHANGED <<taken, yaml, stack, flags, attempt, tried, verbs>>

(* up(), first half of a try: stuck containers go, the guest ports are     *)
(* checked again, and a remap (always on the second try) rewrites          *)
(* env.ports, after which the YAML has to be generated again.              *)
UpCheck ==
  /\ pc = "check"
  /\ RemoveStuck
  /\ LET base == Value(Ssh)
     IN  IF ~inNetwork /\ (GuestPortsTaken(base) # {} \/ attempt = 2)
         THEN /\ layer' = [k \in Keys |->
                             CASE k = Ssh -> NextFreePort(base + VMs)
                               [] k # Ssh /\ metrics  -> Value(k)
                               [] k # Ssh /\ ~metrics -> Absent]
              /\ pc' = "regenerate"
         ELSE UNCHANGED layer /\ pc' = "compose"
  /\ UNCHANGED <<taken, yaml, stack, flags, attempt, tried, verbs>>

(* On WSL2 a Grafana port held by a Windows process ends the verb. *)
GrafanaHeld ==
  /\ pc = "check" /\ metrics /\ Value("GRAFANA_PORT") \in taken
  /\ RemoveStuck
  /\ pc' = "idle"
  /\ UNCHANGED <<taken, files, stack, flags, attempt, tried, verbs>>

(* `docker compose up --detach`.  A container left in "created" keeps the  *)
(* ports it was created with; running ones are recreated.                  *)
Wanted == IF stuck # NoPorts THEN stuck ELSE yaml
CanBind == Published(Wanted, metrics) \intersect taken = {}

ComposeUp ==
  /\ pc = "compose" /\ CanBind
  /\ stack' = [k \in Keys |-> IF k = Ssh \/ metrics THEN Wanted[k] ELSE stack[k]]
  /\ stuck' = NoPorts
  /\ pc' = "health"
  /\ UNCHANGED <<taken, files, flags, attempt, tried, kept, verbs>>

(* It fails: before it touched a container, or (a port went in between)    *)
(* when the ones it recreated could not bind and stay in "created".        *)
ComposeFails ==
  /\ pc = "compose"
  /\ \/ UNCHANGED docker
     \/ stack' = NoPorts /\ stuck' = Wanted
  /\ pc' = IF attempt = 1 THEN "retry" ELSE "idle"
  /\ UNCHANGED <<taken, files, flags, attempt, tried, kept, verbs>>

(* `docker compose down`, whose failure the retry does not look at. *)
ComposeDown == stack' \in {NoPorts, stack} /\ stuck' \in {NoPorts, stuck}

(* Mutant: the second try is taken for a first one. *)
Retry_Uncounted ==
  /\ pc = "retry"
  /\ ComposeDown
  /\ tried' = yaml[Ssh]
  /\ pc' = "check"
  /\ UNCHANGED <<taken, files, flags, attempt, kept, verbs>>

(* The second try, with a forced remap. *)
Retry ==
  /\ pc = "retry"
  /\ ComposeDown
  /\ attempt' = 2 /\ tried' = yaml[Ssh]
  /\ pc' = "check"
  /\ UNCHANGED <<taken, files, flags, kept, verbs>>

(* The NIC servers become healthy within 120 s, or the verb dies. *)
Healthy ==
  /\ pc = "health"
  /\ pc' \in {IF verb = "all" THEN "wait" ELSE "idle", "idle"}
  /\ UNCHANGED <<taken, files, docker, flags, attempt, tried, kept, verbs>>

(* wait_for_guests asks guest_port(1), guest_port(2), ...: the published   *)
(* base, or the in-network port 2222 that no remap moves.                  *)
WaitForGuests ==
  /\ pc = "wait"
  /\ pc' = "idle"
  /\ UNCHANGED <<taken, files, docker, flags, attempt, tried, kept, verbs>>

(* down(): the guests' clean shutdown is GuestShutdown; then compose down. *)
Down ==
  /\ pc = "down"
  /\ ComposeDown
  /\ pc' = "idle"
  /\ UNCHANGED <<taken, files, flags, attempt, tried, kept, verbs>>

Killed ==
  /\ pc # "idle"
  /\ pc' = "idle"
  /\ UNCHANGED <<taken, files, docker, flags, attempt, tried, kept, verbs>>

(* Another program starts or stops listening. *)
Elsewhere ==
  /\ \E q \in Foreign :
       \/ q \notin taken \union Published(stack, TRUE) /\ taken' = taken \union {q}
       \/ q \in taken /\ taken' = taken \ {q}
  /\ UNCHANGED <<files, docker, flags, pc, attempt, tried, kept, verbs>>

Verb ==
  \/ \E v \in Verbs, m \in MetricsFlags, n \in NetworkFlags : Start(v, m, n)
  \/ Resolve \/ Confirm \/ Generate \/ UpCheck \/ GrafanaHeld
  \/ ComposeUp \/ ComposeFails \/ Retry \/ Healthy \/ WaitForGuests \/ Down

Next == Verb \/ Killed \/ Elsewhere
Spec == Init /\ [][Next]_vars

(* A started verb goes on unless it is killed; docker answers. *)
FairSpec == Spec /\ WF_vars(Verb /\ verbs' = verbs)
-----------------------------------------------------------------------------
(* Every variable keeps its type; a scan that finds nothing still answers  *)
(* with a port.                                                            *)
TypeOK ==
  /\ taken \subseteq Foreign
  /\ layer \in [Keys -> Nat] /\ yaml \in [Keys -> Nat]
  /\ stack \in [Keys -> Nat] /\ stuck \in [Keys -> Nat]
  /\ verb \in Verbs /\ metrics \in BOOLEAN /\ inNetwork \in BOOLEAN
  /\ pc \in {"idle", "resolve", "confirm", "generate", "check",
             "regenerate", "compose", "health", "retry", "wait", "down"}
  /\ attempt \in 0..2 /\ tried \in Nat /\ kept \in BOOLEAN
  /\ verbs \in 0..MaxVerbs

(* The process that brought the stack up expects each guest (and           *)
(* Prometheus and Grafana) at the port its container publishes: a remap    *)
(* that did not reach the YAML, or a container of an earlier try, would    *)
(* leave it looking at a port nobody listens on.  Only stuck containers    *)
(* that Docker did not list or remove keep the ports they were made with.  *)
UpAgreesWithItself ==
  (pc = "health" \/ (pc = "wait" /\ verb = "all")) /\ ~kept =>
    \A k \in Keys : k = Ssh \/ metrics => stack[k] = Value(k)

(* The second try of up() asks for guest ports none of which the first,    *)
(* failed try asked for: the proxy that took one of them is out of the way.*)
RetryMovesOn ==
  pc = "compose" /\ attempt = 2 /\ ~inNetwork =>
    GuestPorts(yaml[Ssh]) \intersect GuestPorts(tried) = {}

(* A verb that is not killed comes to an end. *)
VerbEnds == pc # "idle" ~> pc = "idle"

=============================================================================
