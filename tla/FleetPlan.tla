----------------------------- MODULE FleetPlan -----------------------------
(* gen_compose.plan() and what the three renderers read from it: from the  *)
(* settings of a fleet to its services, their addresses, sockets and       *)
(* dependencies. Pure operators over one settings record s:                *)
(*   count, ernic, rocjitsu, sdxi   guests, and devices of each per guest  *)
(*   width                          devices per PCIe switch, 0 for none    *)
(*   tap, logs, grafana, lmcache    the switches that add services         *)
(*   images, lag                    image tags, and IMAGE_ALLOW_GUEST_LAG  *)
(*   src                            QEMU_TOOL_SRC holds a source checkout   *)
(*   perVm                          lengths of the comma lists given       *)
(* Names, prefixes and octets that no decision depends on are left out; a  *)
(* service is <<kind, suffix...>> as in its name, an address <<third       *)
(* octet, fourth octet>>.                                                  *)
EXTENDS Integers, Sequences, FiniteSets, SequencesExt

MESH_MAX == 64
NET_ERNIC == 1
NET_ROCJITSU == 2
NET_QEMU == 3
NET_INFRA == 0
NET_SDXI == 4

Servers == {"qemu", "ernic", "rocjitsu"}
ImageKeys == Servers \cup {"backing"}
NoTag == [stamp |-> "none", vfu |-> "none"]

---------------------------------------------------------------------------
(* Refusals.                                                               *)

(* The tags that take part in the comparison: those that carry a stamp;    *)
(* the guest's is excused by IMAGE_ALLOW_GUEST_LAG.                        *)
Compared(s) == {k \in ImageKeys \ (IF s.lag THEN {"backing"} ELSE {}) :
                   s.images[k].stamp \notin {"none", "local"}}

CheckImageCoherence(s) ==
    /\ Cardinality({s.images[k].stamp : k \in Compared(s)}) <= 1
    /\ Cardinality({s.images[k].vfu : k \in Compared(s)} \ {"none"}) <= 1

(* Every rocm-ernic process is a node of the mesh.                         *)
NicCount_Guests(s) == s.count
NicCount(s) == s.count * s.ernic

SplitPerVm(len, count) == len \in {1, count}

Refused(s) == \/ s.count < 1 \/ s.ernic < 1 \/ s.rocjitsu < 1
              \/ NicCount(s) > MESH_MAX
              \/ ~CheckImageCoherence(s)
              \/ \E len \in s.perVm : ~SplitPerVm(len, s.count)

---------------------------------------------------------------------------
(* Devices. A device is [n, d, o]: guest, number within the guest, number  *)
(* within the fleet.                                                       *)

Devices(s, per) == [o \in 1..(s.count * per) |->
                      [n |-> (o - 1) \div per + 1, d |-> ((o - 1) % per) + 1, o |-> o]]

DevSuffix(n, d, per) == IF per = 1 THEN <<n>> ELSE <<n, d>>

Nic(s, v) == <<"ernic">> \o DevSuffix(v.n, v.d, s.ernic)
Gpu(s, v) == <<"rocjitsu">> \o DevSuffix(v.n, v.d, s.rocjitsu)
Sdxi(s, v) == <<"sdxi">> \o DevSuffix(v.n, v.d, s.sdxi)
Tapsetup(s, v) == <<"tapsetup">> \o DevSuffix(v.n, v.d, s.ernic)
Qemu(n) == <<"qemu", n>>

NicAt(s, o) == Nic(s, Devices(s, s.ernic)[o])
NicAddr(o) == <<NET_ERNIC, o>>

(* prefix:o>>8:o&0xff, and subnet.(10+o).                                  *)
Mac(o) == <<o \div 256, o % 256>>
Ip(o) == 10 + o

(* The devices of guest n, in order, as services.                          *)
VmDevices(per, n) == [d \in 1..per |-> [n |-> n, d |-> d, o |-> (n - 1) * per + d]]
VmNics(s, n) == [d \in 1..s.ernic |-> Nic(s, VmDevices(s.ernic, n)[d])]
VmGpus(s, n) == [d \in 1..s.rocjitsu |-> Gpu(s, VmDevices(s.rocjitsu, n)[d])]
VmSdxi(s, n) == [d \in 1..s.sdxi |-> Sdxi(s, VmDevices(s.sdxi, n)[d])]

(* Round robin, keeping any tail.                                          *)
RoundRobin(a, b) ==
    LET m == IF Len(a) < Len(b) THEN Len(a) ELSE Len(b)
    IN  [i \in 1..(2 * m) |-> IF i % 2 = 1 THEN a[(i + 1) \div 2] ELSE b[i \div 2]]
          \o SubSeq(a, m + 1, Len(a)) \o SubSeq(b, m + 1, Len(b))

(* per NICs, then one GPU, for every GPU; then the NICs left over.         *)
GroupSocksForSwitches_RoundRobin(nics, gpus, per) == RoundRobin(nics, gpus)
GroupSocksForSwitches(nics, gpus, per) ==
    IF per <= 1 THEN RoundRobin(nics, gpus)
    ELSE LET End(i) == IF i * per > Len(nics) THEN Len(nics) ELSE i * per
         IN  FlattenSeq([i \in 1..Len(gpus) |->
                            Append(SubSeq(nics, (i - 1) * per + 1, End(i)), gpus[i])])
               \o SubSeq(nics, Len(gpus) * per + 1, Len(nics))

NicsPerSwitch(s) == IF s.width > 0 /\ s.rocjitsu > 0 THEN s.ernic \div s.rocjitsu ELSE 1

(* --vfio-userdev of guest n: the order in which it attaches its devices.  *)
VfioUserdev(s, n) ==
    GroupSocksForSwitches(VmNics(s, n), VmGpus(s, n), NicsPerSwitch(s)) \o VmSdxi(s, n)

(* run_vm._vfio_user_switch_args: full switches of `width` devices, in     *)
(* that order; a remainder goes on root ports of its own.                  *)
Switches(s, n) ==
    LET socks == VfioUserdev(s, n)
    IN  [k \in 1..(Len(socks) \div s.width) |-> SubSeq(socks, (k - 1) * s.width + 1, k * s.width)]

---------------------------------------------------------------------------
(* docker-compose.yml.                                                     *)

Nics(s) == {Nic(s, v) : v \in Range(Devices(s, s.ernic))}
Gpus(s) == {Gpu(s, v) : v \in Range(Devices(s, s.rocjitsu))}
Sdxis(s) == {Sdxi(s, v) : v \in Range(Devices(s, s.sdxi))}
Qemus(s) == {Qemu(n) : n \in 1..s.count}
Tapsetups(s) == IF s.tap THEN {Tapsetup(s, v) : v \in Range(Devices(s, s.ernic))} ELSE {}

Metrics(s) == {<<"exporter">>, <<"prometheus">>}
                \cup (IF s.logs THEN {<<"loki">>, <<"alloy">>} ELSE {})
                \cup (IF s.grafana THEN {<<"grafana">>} ELSE {})
Lmcache(s) == IF s.lmcache THEN {<<"coordinator">>, <<"lmcache-stats">>} ELSE {}

InfraOctet == [x \in {<<"exporter">>, <<"prometheus">>, <<"coordinator">>, <<"grafana">>,
                      <<"lmcache-stats">>, <<"loki">>, <<"alloy">>} |->
    CASE x = <<"exporter">> -> 10 [] x = <<"prometheus">> -> 11 [] x = <<"coordinator">> -> 12
      [] x = <<"grafana">> -> 13 [] x = <<"lmcache-stats">> -> 14 [] x = <<"loki">> -> 15
      [] x = <<"alloy">> -> 16]

(* ipv4_address of every service that has one; a tapsetup lives in its     *)
(* NIC's network namespace.                                                *)
Addresses(s) ==
    {<<Nic(s, v), NicAddr(v.o)>> : v \in Range(Devices(s, s.ernic))}
      \cup {<<Gpu(s, v), <<NET_ROCJITSU, v.o>>>> : v \in Range(Devices(s, s.rocjitsu))}
      \cup {<<Sdxi(s, v), <<NET_SDXI, v.o>>>> : v \in Range(Devices(s, s.sdxi))}
      \cup {<<Qemu(n), <<NET_QEMU, n>>>> : n \in 1..s.count}
      \cup {<<x, <<NET_INFRA, InfraOctet[x]>>>> : x \in Metrics(s) \cup Lmcache(s)}

(* What an ernic is started with: -m, ERNIC_TCP_GUEST_GIDS, -s, -b.        *)
NicService(s, o) ==
    [sock |-> NicAt(s, o), mac |-> Mac(o), gids |-> <<Mac(o), Ip(o)>>,
     dials |-> IF o = 1 THEN <<>> ELSE NicAddr(1)]

(* What a guest's service is started with.                                 *)
QemuService(s, n) == [name |-> n, port |-> n - 1, userdev |-> VfioUserdev(s, n)]

On(x, condition) == [on |-> x, condition |-> condition]

(* depends_on. The workers are chained over the whole fleet, so that they  *)
(* register with the manager in the order of their ordinals.               *)
WorkerDeps_Manager(s, o) == IF o = 1 THEN {} ELSE {On(NicAt(s, 1), "healthy")}
WorkerDeps(s, o) == IF o = 1 THEN {} ELSE {On(NicAt(s, o - 1), "healthy")}

QemuDeps_FirstNic(s, n) ==
    {On(x, "healthy") : x \in {VmNics(s, n)[1]} \cup Range(VmGpus(s, n)) \cup Range(VmSdxi(s, n))}
QemuDeps(s, n) ==
    {On(x, "healthy") : x \in Range(VmNics(s, n)) \cup Range(VmGpus(s, n)) \cup Range(VmSdxi(s, n))}

TapsetupDeps_Healthy(nic) == {On(nic, "healthy")}
TapsetupDeps(nic) == {On(nic, "started")}

InfraDeps(x) == CASE x = <<"alloy">> -> {On(<<"loki">>, "healthy")}
                  [] x = <<"grafana">> -> {On(<<"prometheus">>, "started")}
                  [] x = <<"lmcache-stats">> -> {On(<<"coordinator">>, "healthy")}
                  [] OTHER -> {}

(* The stack an `up` with these profiles runs: every service with what it  *)
(* waits for.                                                              *)
Compose(s, profiles) ==
    LET infra == (IF "metrics" \in profiles THEN Metrics(s) ELSE {})
                   \cup (IF "lmcache" \in profiles THEN Lmcache(s) ELSE {})
        nics  == Range(Devices(s, s.ernic))
        The(x) == CHOOSE v \in nics : x \in {Nic(s, v), Tapsetup(s, v)}
    IN  [x \in Nics(s) \cup Gpus(s) \cup Sdxis(s) \cup Qemus(s) \cup Tapsetups(s) \cup infra |->
            CASE x[1] = "ernic" -> WorkerDeps(s, The(x).o)
              [] x[1] = "tapsetup" -> TapsetupDeps(Nic(s, The(x)))
              [] x[1] = "qemu" -> QemuDeps(s, x[2])
              [] x[1] \in {"rocjitsu", "sdxi"} -> {}
              [] OTHER -> InfraDeps(x)]

(* The services with a health check.                                       *)
HasCheck(x) == x[1] \in {"ernic", "rocjitsu", "sdxi", "loki", "coordinator"}

(* restart: "no". The manager's crash must stay visible; a guest, a        *)
(* sidecar and what merges the qemu anchor run once; the rest is restarted *)
(* on failure.                                                             *)
RunsOnce(s, x) == x = NicAt(s, 1)
                    \/ x[1] \in {"qemu", "tapsetup", "exporter", "lmcache-stats"}

(* The services that install qemu-tool before they exec it, and how often  *)
(* the entrypoint tries: PyPI five times, a source checkout once.          *)
Installs(x) == x[1] \in {"qemu", "exporter", "lmcache-stats"}
PipxInstall(s) == IF s.src THEN 1 ELSE 5
---------------------------------------------------------------------------
(* prometheus.yml and fleet-inventory.yml.                                 *)

(* The addresses scraped: four or five exporters behind every guest, and   *)
(* the fleet's own.                                                        *)
Prometheus(s) ==
    {<<NET_QEMU, n>> : n \in 1..s.count}
      \cup {<<NET_INFRA, InfraOctet[x]>> : x \in {<<"exporter">>} \cup Lmcache(s)}

InventoryNics_ByGuest(s, n) == [d \in 1..s.ernic |-> [mac |-> Mac(n), ip |-> Ip(n)]]
InventoryNics(s, n) == [d \in 1..s.ernic |-> LET o == (n - 1) * s.ernic + d
                                             IN  [mac |-> Mac(o), ip |-> Ip(o)]]

(* A host of the inventory, under the name of its guest.                   *)
Inventory(s) == [n \in 1..s.count |-> [port |-> n - 1, nics |-> InventoryNics(s, n)]]

=============================================================================
