----------------------------- MODULE MgmtBridge -----------------------------
(***************************************************************************)
(* The management network of run-vm and gen-vm (--mgmt-tap): one bridge,   *)
(* TAP, dnsmasq and a set of iptables rules per SSH port, and the one      *)
(* switch all of them share, net.ipv4.ip_forward.  Every process runs the  *)
(* same _ensure_mgmt_bridge and, when it gets that far, the same           *)
(* _teardown_mgmt_bridge; each command it runs is a step of its own,       *)
(* because nothing serialises two processes on one host.                   *)
(*                                                                         *)
(* run-vm ends in os.execvp: the process image, its atexit handlers and    *)
(* _ip_forward_was_ours included, is replaced by QEMU.  gen-vm starts      *)
(* QEMU as a child, tears the network down when Ansible is done, and then  *)
(* runs the same teardown again as an atexit handler.                      *)
(***************************************************************************)
EXTENDS Integers

CONSTANTS
  Procs,   \* the run-vm and gen-vm processes of one host
  Ports,   \* SSH ports (numbers: the subnet is computed from them)
  Port,    \* [Procs -> Ports], --ssh-port of each process
  Kind,    \* [Procs -> {"run", "gen"}]
  MaxFaults \* bound: failing commands and kills, over all processes

ASSUME PortsAssumption == Ports \subseteq Nat
ASSUME PortAssumption  == Port \in [Procs -> Ports]
ASSUME KindAssumption  == Kind \in [Procs -> {"run", "gen"}]
ASSUME FaultAssumption == MaxFaults \in Nat

(* 172.16.<octet>.0/24: 254 subnets for all the ports there are. *)
MgmtSubnet(port) == ((port - 2000) % 254) + 1

Subnets == {MgmtSubnet(o) : o \in Ports}

(* The iptables rules of one network: MASQUERADE for its subnet, and       *)
(* FORWARD from and to its bridge.                                         *)
RuleKinds == {"nat", "from", "to"}
RuleIds   == ({"nat"} \X Subnets) \union ({"from", "to"} \X Ports)

VARIABLES
  pc,         \* where each process is
  after,      \* where a running teardown returns to: "post" or "gone"
  bridges,    \* ports whose qemu-br<port> exists
  addressed,  \* ... and carries its address
  up,         \* ... and is up
  taps,       \* ports whose mt<port> exists
  joined,     \* ... and is a port of the bridge
  dnsmasq,    \* ports with a live dnsmasq
  pids,       \* ports with a /tmp/qemu-dnsmasq-<port>.pid
  rules,      \* [RuleIds -> Nat] how often each rule is in its chain
  ipForward,  \* /proc/sys/net/ipv4/ip_forward
  ours,       \* [Procs -> BOOLEAN] _ip_forward_was_ours of each process
  handler,    \* [Procs -> BOOLEAN] the teardown is an atexit handler
  wasOn,      \* history: ip_forward before any of the processes started
  failed,     \* history: the teardown commands of each process that failed
  exposed,    \* history: processes no restore of the switch had to see
  faults      \* how many faults there were

bridge == <<bridges, addressed, up>>
tap    == <<taps, joined>>
dns    == <<dnsmasq, pids>>
net    == <<bridge, tap, dns, rules>>
own    == <<ours, handler>>
hist   == <<wasOn, failed, exposed>>
vars   == <<pc, after, net, ipForward, own, hist, faults>>

Mine(p)    == Port[p]
Net(p)     == MgmtSubnet(Port[p])
Rule(p, k) == <<k, IF k = "nat" THEN Net(p) ELSE Mine(p)>>
Go(p, l)   == pc' = [pc EXCEPT ![p] = l]

(* The steps of each rule, and what follows them. *)
ShowAt   == [nat |-> "natShow", from |-> "fromShow", to |-> "toShow"]
AddAt    == [nat |-> "natAdd",  from |-> "fromAdd",  to |-> "toAdd"]
DeleteAt == [nat |-> "tdNat",   from |-> "tdFrom",   to |-> "tdTo"]
AfterAdd == [nat |-> "fromShow", from |-> "toShow",  to |-> "dnsShow"]

(* The commands run with check=True, whose failure is an exception. *)
Checked == {"linkAdd", "addrAdd", "linkUp", "ipSet", "natAdd", "fromAdd",
            "toAdd", "dnsStart", "tapAdd", "tapMaster", "tapUp", "boot"}
(* The commands whose failure nobody looks at, and what follows each. *)
Unchecked == {"tdDns", "tdNat", "tdFrom", "tdTo", "tdTap", "tdLink"}
AfterTd   == [tdDns |-> "tdNat", tdNat |-> "tdFrom", tdFrom |-> "tdTo",
              tdTo |-> "tdTap", tdTap |-> "tdLink", tdLink |-> "tdOurs"]
Labels == Checked \union Unchecked \union
          {"linkShow", "ipRead", "natShow", "fromShow", "toShow", "dnsShow",
           "tapShow", "guest", "tdOurs", "tdOff", "post", "gone"}

Init ==
  /\ pc = [p \in Procs |-> "linkShow"]
  /\ after = [p \in Procs |-> "gone"]
  /\ bridges = {} /\ addressed = {} /\ up = {}
  /\ taps = {} /\ joined = {}
  /\ dnsmasq = {} /\ pids = {}
  /\ rules = [r \in RuleIds |-> 0]
  /\ wasOn \in BOOLEAN
  /\ ipForward = wasOn
  /\ ours = [p \in Procs |-> FALSE]
  /\ handler = [p \in Procs |-> FALSE]
  /\ failed = [p \in Procs |-> {}]
  /\ exposed = {}
  /\ faults = 0

-----------------------------------------------------------------------------
(* _ensure_mgmt_bridge, command by command.                                *)

LinkShow(p) ==
  /\ pc[p] = "linkShow"
  /\ Go(p, IF Mine(p) \in bridges THEN "ipRead" ELSE "linkAdd")
  /\ UNCHANGED <<after, net, ipForward, own, hist>>

LinkAdd(p) ==
  /\ pc[p] = "linkAdd"
  /\ Mine(p) \notin bridges
  /\ bridges' = bridges \union {Mine(p)}
  /\ Go(p, "addrAdd")
  /\ UNCHANGED <<after, addressed, up, tap, dns, rules, ipForward, own, hist>>

AddrAdd(p) ==
  /\ pc[p] = "addrAdd"
  /\ Mine(p) \in bridges \ addressed
  /\ addressed' = addressed \union {Mine(p)}
  /\ Go(p, "linkUp")
  /\ UNCHANGED <<after, bridges, up, tap, dns, rules, ipForward, own, hist>>

LinkUp(p) ==
  /\ pc[p] = "linkUp"
  /\ Mine(p) \in bridges
  /\ up' = up \union {Mine(p)}
  /\ Go(p, "ipRead")
  /\ UNCHANGED <<after, bridges, addressed, tap, dns, rules, ipForward, own,
                 hist>>

(* Another process is past its scan for bridges and about to switch off:   *)
(* it has not seen the bridge of a process that comes to the switch now.   *)
Exposes(p) ==
  exposed' = IF \E q \in Procs : pc[q] = "tdOff" THEN exposed \union {p}
             ELSE exposed

(* Mutant: the switch is set and claimed whatever it was before. *)
IpRead_Always(p) ==
  /\ pc[p] = "ipRead"
  /\ Go(p, "ipSet")
  /\ UNCHANGED <<after, net, ipForward, own, hist>>

(* _enable_ip_forward. *)
IpRead(p) ==
  /\ pc[p] = "ipRead"
  /\ IF ipForward THEN Go(p, "natShow") /\ Exposes(p)
                  ELSE Go(p, "ipSet") /\ UNCHANGED exposed
  /\ UNCHANGED <<after, net, ipForward, own, wasOn, failed>>

(* A switch that cannot be read counts as on: neither set nor claimed. *)
IpUnreadable(p) ==
  /\ pc[p] = "ipRead"
  /\ exposed' = exposed \union {p}
  /\ Go(p, "natShow")
  /\ UNCHANGED <<after, net, ipForward, own, wasOn, failed>>

IpSet(p) ==
  /\ pc[p] = "ipSet"
  /\ ipForward' = TRUE
  /\ ours' = [ours EXCEPT ![p] = TRUE]
  /\ Exposes(p)
  /\ Go(p, "natShow")
  /\ UNCHANGED <<after, net, handler, wasOn, failed>>

(* _ipt_ensure: iptables -C, then -A only if the rule was not there. *)
RuleShow(p, k) ==
  /\ pc[p] = ShowAt[k]
  /\ Go(p, IF rules[Rule(p, k)] > 0 THEN AfterAdd[k] ELSE AddAt[k])
  /\ UNCHANGED <<after, net, ipForward, own, hist>>

RuleAdd(p, k) ==
  /\ pc[p] = AddAt[k]
  /\ rules' = [rules EXCEPT ![Rule(p, k)] = @ + 1]
  /\ Go(p, AfterAdd[k])
  /\ UNCHANGED <<after, bridge, tap, dns, ipForward, own, hist>>

(* Running: the pid file is read, and its process answers kill -0. *)
DnsShow(p) ==
  /\ pc[p] = "dnsShow"
  /\ Go(p, IF Mine(p) \in dnsmasq \intersect pids THEN "tapShow"
           ELSE "dnsStart")
  /\ UNCHANGED <<after, net, ipForward, own, hist>>

(* A second dnsmasq cannot bind the bridge's address. *)
DnsStart(p) ==
  /\ pc[p] = "dnsStart"
  /\ Mine(p) \in bridges \ dnsmasq
  /\ dnsmasq' = dnsmasq \union {Mine(p)}
  /\ pids' = pids \union {Mine(p)}
  /\ Go(p, "tapShow")
  /\ UNCHANGED <<after, bridge, tap, rules, ipForward, own, hist>>

TapShow(p) ==
  /\ pc[p] = "tapShow"
  /\ Go(p, IF Mine(p) \in taps THEN "tapMaster" ELSE "tapAdd")
  /\ UNCHANGED <<after, net, ipForward, own, hist>>

TapAdd(p) ==
  /\ pc[p] = "tapAdd"
  /\ Mine(p) \notin taps
  /\ taps' = taps \union {Mine(p)}
  /\ Go(p, "tapMaster")
  /\ UNCHANGED <<after, bridge, joined, dns, rules, ipForward, own, hist>>

TapMaster(p) ==
  /\ pc[p] = "tapMaster"
  /\ Mine(p) \in taps \intersect bridges
  /\ joined' = joined \union {Mine(p)}
  /\ Go(p, "tapUp")
  /\ UNCHANGED <<after, bridge, taps, dns, rules, ipForward, own, hist>>

(* Up, and the last line registers the teardown: no earlier failure runs it. *)
TapUp(p) ==
  /\ pc[p] = "tapUp"
  /\ Mine(p) \in taps
  /\ handler' = [handler EXCEPT ![p] = TRUE]
  /\ Go(p, "boot")
  /\ UNCHANGED <<after, net, ipForward, ours, hist>>

-----------------------------------------------------------------------------
(* What the process does with the network, and how it ends.                *)

(* The process image ends here: no handler will run, no memory is left. *)
Ends(p) ==
  /\ ours' = [ours EXCEPT ![p] = FALSE]
  /\ handler' = [handler EXCEPT ![p] = FALSE]

(* sys.exit, an uncaught exception or falling off main: atexit handlers. *)
ExitsThrough(p) ==
  IF handler[p]
  THEN /\ Go(p, "tdDns")
       /\ after' = [after EXCEPT ![p] = "gone"]
       /\ handler' = [handler EXCEPT ![p] = FALSE]
       /\ UNCHANGED ours
  ELSE Go(p, "gone") /\ Ends(p) /\ UNCHANGED after

(* run(): os.execvp replaces the process by QEMU. *)
Exec(p) ==
  /\ pc[p] = "boot" /\ Kind[p] = "run"
  /\ Go(p, "guest") /\ Ends(p)
  /\ UNCHANGED <<after, net, ipForward, hist>>

GuestExits(p) ==
  /\ pc[p] = "guest" /\ Kind[p] = "run"
  /\ Go(p, "gone")
  /\ UNCHANGED <<after, net, ipForward, own, hist>>

(* _run_ansible: Popen. *)
Boot(p) ==
  /\ pc[p] = "boot" /\ Kind[p] = "gen"
  /\ Go(p, "guest")
  /\ UNCHANGED <<after, net, ipForward, own, hist>>

(* Powered off after Ansible, or an exception in the try block: the guest  *)
(* is gone and the teardown is called, with the handler still registered.  *)
AnsibleEnds(p) ==
  /\ pc[p] = "guest" /\ Kind[p] = "gen"
  /\ Go(p, "tdDns")
  /\ after' = [after EXCEPT ![p] = "post"]
  /\ UNCHANGED <<net, ipForward, own, hist>>

(* No SSH in time or a failed playbook: SystemExit, which the try block's  *)
(* `except Exception` does not see.                                        *)
AnsibleFails(p) ==
  /\ pc[p] = "guest" /\ Kind[p] = "gen"
  /\ ExitsThrough(p)
  /\ UNCHANGED <<net, ipForward, hist>>

(* Compaction and the overlay are done, the interpreter exits. *)
GenExits(p) ==
  /\ pc[p] = "post"
  /\ ExitsThrough(p)
  /\ UNCHANGED <<net, ipForward, hist>>

(* A check=True command (or execvp, or Popen) raises. *)
CommandFails(p) ==
  /\ pc[p] \in Checked
  /\ ExitsThrough(p)
  /\ UNCHANGED <<net, ipForward, hist>>

(* SIGKILL, or SIGTERM, which Python does not turn into an exit. *)
Kill(p) ==
  /\ pc[p] # "gone" /\ ~(pc[p] = "guest" /\ Kind[p] = "run")
  /\ Go(p, "gone") /\ Ends(p)
  /\ UNCHANGED <<after, net, ipForward, hist>>

-----------------------------------------------------------------------------
(* _teardown_mgmt_bridge: every command's failure is ignored.  `failed` is *)
(* the commands whose last try failed.                                     *)

Succeeds(p) == failed' = [failed EXCEPT ![p] = @ \ {pc[p]}]
Fails(p)    == failed' = [failed EXCEPT ![p] = @ \union {pc[p]}]

(* Without a readable pid file there is nothing to kill. *)
TdDns(p) ==
  /\ pc[p] = "tdDns"
  /\ IF Mine(p) \in pids
     THEN /\ dnsmasq' = dnsmasq \ {Mine(p)}
          /\ pids' = pids \ {Mine(p)}
          /\ Succeeds(p)
     ELSE UNCHANGED <<dns, failed>>
  /\ Go(p, "tdNat")
  /\ UNCHANGED <<after, bridge, tap, rules, ipForward, own, wasOn, exposed>>

(* The kill, the unlink of the pid file, or both do not work. *)
TdDnsFails(p) ==
  /\ pc[p] = "tdDns" /\ Mine(p) \in pids
  /\ \E killed, unlinked \in BOOLEAN :
       /\ ~(killed /\ unlinked)
       /\ dnsmasq' = IF killed THEN dnsmasq \ {Mine(p)} ELSE dnsmasq
       /\ pids' = IF unlinked THEN pids \ {Mine(p)} ELSE pids
  /\ Fails(p)
  /\ Go(p, "tdNat")
  /\ UNCHANGED <<after, bridge, tap, rules, ipForward, own, wasOn, exposed>>

(* Mutant: -D names another rule than -A added. *)
RuleDelete_Other(p, k) ==
  /\ pc[p] = DeleteAt[k]
  /\ Succeeds(p)
  /\ Go(p, AfterTd[pc[p]])
  /\ UNCHANGED <<after, net, ipForward, own, wasOn, exposed>>

(* iptables -D removes one matching rule, if there is one. *)
RuleDelete(p, k) ==
  /\ pc[p] = DeleteAt[k]
  /\ rules' = [rules EXCEPT ![Rule(p, k)] = IF @ > 0 THEN @ - 1 ELSE @]
  /\ Succeeds(p)
  /\ Go(p, AfterTd[pc[p]])
  /\ UNCHANGED <<after, bridge, tap, dns, ipForward, own, wasOn, exposed>>

TdTap(p) ==
  /\ pc[p] = "tdTap"
  /\ taps' = taps \ {Mine(p)}
  /\ joined' = joined \ {Mine(p)}
  /\ Succeeds(p)
  /\ Go(p, "tdLink")
  /\ UNCHANGED <<after, bridge, dns, rules, ipForward, own, wasOn, exposed>>

(* Mutant: every qemu-br* is deleted, not this process's own. *)
TdLink_All(p) ==
  /\ pc[p] = "tdLink"
  /\ bridges' = {} /\ addressed' = {} /\ up' = {} /\ joined' = {}
  /\ Succeeds(p)
  /\ Go(p, "tdOurs")
  /\ UNCHANGED <<after, taps, dns, rules, ipForward, own, wasOn, exposed>>

(* A deleted bridge takes its address along and lets go of its ports. *)
TdLink(p) ==
  /\ pc[p] = "tdLink"
  /\ bridges' = bridges \ {Mine(p)}
  /\ addressed' = addressed \ {Mine(p)}
  /\ up' = up \ {Mine(p)}
  /\ joined' = joined \ {Mine(p)}
  /\ Succeeds(p)
  /\ Go(p, "tdOurs")
  /\ UNCHANGED <<after, taps, dns, rules, ipForward, own, wasOn, exposed>>

(* A command other than the kill fails: its resource stays. *)
TdFails(p) ==
  /\ pc[p] \in Unchecked \ {"tdDns"}
  /\ Fails(p)
  /\ Go(p, AfterTd[pc[p]])
  /\ UNCHANGED <<after, net, ipForward, own, wasOn, exposed>>

(* Back to the caller: gen-vm goes on, or the interpreter is gone. *)
Returns(p) ==
  /\ Go(p, after[p])
  /\ IF after[p] = "gone" THEN Ends(p) ELSE UNCHANGED own

(* Mutant: the other bridges are not looked for. *)
TdOurs_NoScan(p) ==
  /\ pc[p] = "tdOurs"
  /\ IF ours[p] THEN Go(p, "tdOff") /\ UNCHANGED own ELSE Returns(p)
  /\ UNCHANGED <<after, net, ipForward, hist>>

(* _restore_ip_forward up to the scan of /sys/class/net. *)
TdOurs(p) ==
  /\ pc[p] = "tdOurs"
  /\ IF ours[p] /\ bridges \ {Mine(p)} = {}
     THEN Go(p, "tdOff") /\ UNCHANGED own
     ELSE Returns(p)
  /\ UNCHANGED <<after, net, ipForward, hist>>

(* A /sys/class/net that cannot be listed counts as no other bridge. *)
TdScanFails(p) ==
  /\ pc[p] = "tdOurs" /\ ours[p]
  /\ Go(p, "tdOff")
  /\ exposed' = Procs
  /\ UNCHANGED <<after, net, ipForward, own, wasOn, failed>>

(* ... and the sysctl that follows it, after which the claim is dropped. *)
Unclaims(p) ==
  /\ pc[p] = "tdOff"
  /\ Go(p, after[p])
  /\ ours' = [ours EXCEPT ![p] = FALSE]
  /\ handler' = [handler EXCEPT ![p] = @ /\ after[p] # "gone"]
  /\ UNCHANGED <<after, net, hist>>

TdOff(p) == Unclaims(p) /\ ipForward' = FALSE

(* That sysctl is run without check: a failure forgets the claim as well. *)
TdOffFails(p) == Unclaims(p) /\ UNCHANGED ipForward

Ensure(p) ==
  \/ LinkShow(p) \/ LinkAdd(p) \/ AddrAdd(p) \/ LinkUp(p)
  \/ IpRead(p) \/ IpSet(p)
  \/ \E k \in RuleKinds : RuleShow(p, k) \/ RuleAdd(p, k)
  \/ DnsShow(p) \/ DnsStart(p)
  \/ TapShow(p) \/ TapAdd(p) \/ TapMaster(p) \/ TapUp(p)

TearsDown(p) ==
  \/ TdDns(p) \/ TdTap(p) \/ TdLink(p) \/ TdOurs(p) \/ TdOff(p)
  \/ \E k \in RuleKinds : RuleDelete(p, k)

Uses(p) ==
  \/ Exec(p) \/ GuestExits(p) \/ Boot(p) \/ AnsibleEnds(p) \/ AnsibleFails(p)
  \/ GenExits(p)

Clean(p) == (Ensure(p) \/ Uses(p) \/ TearsDown(p)) /\ UNCHANGED faults

Fault(p) ==
  /\ faults < MaxFaults
  /\ faults' = faults + 1
  /\ \/ IpUnreadable(p) \/ CommandFails(p) \/ Kill(p)
     \/ TdDnsFails(p) \/ TdFails(p) \/ TdScanFails(p) \/ TdOffFails(p)

Next == \E p \in Procs : Clean(p) \/ Fault(p)

Spec == Init /\ [][Next]_vars
-----------------------------------------------------------------------------
(* Every variable keeps its type. *)
TypeOK ==
  /\ pc \in [Procs -> Labels]
  /\ after \in [Procs -> {"post", "gone"}]
  /\ bridges \subseteq Ports /\ addressed \subseteq Ports /\ up \subseteq Ports
  /\ taps \subseteq Ports /\ joined \subseteq Ports
  /\ dnsmasq \subseteq Ports /\ pids \subseteq Ports
  /\ rules \in [RuleIds -> Nat]
  /\ ipForward \in BOOLEAN /\ wasOn \in BOOLEAN
  /\ ours \in [Procs -> BOOLEAN] /\ handler \in [Procs -> BOOLEAN]
  /\ failed \in [Procs -> SUBSET Unchecked]
  /\ exposed \subseteq Procs
  /\ faults \in 0..MaxFaults

(* A host that forwarded packets before the first VM started (its own      *)
(* routing, a libvirt network) still forwards them, however many processes *)
(* come, fail or are killed: "a run that found it already enabled must     *)
(* leave it that way" (_ip_forward_was_ours).                              *)
HostForwardingKept == wasOn => ipForward

(* Processes on ports of their own, in subnets of their own. *)
DistinctNetworks ==
  \A p, q \in Procs : p # q => Mine(p) # Mine(q) /\ Net(p) # Net(q)

(* While a guest runs, no other process's teardown switches forwarding off *)
(* under it (_restore_ip_forward's reason to look for other bridges),      *)
(* unless the guest's process came to the switch when that restore was     *)
(* already past its look, could not read it, or the look itself failed.    *)
ForwardingForGuests ==
  DistinctNetworks =>
    \A p \in Procs \ exposed : pc[p] = "guest" => ipForward

(* While a guest runs, nothing another process sets up, tears down (once   *)
(* or twice), fails in or is killed in takes away its bridge, TAP, DHCP    *)
(* server or firewall rules, if the ports and their subnets are distinct.  *)
GuestNetworkIntact ==
  DistinctNetworks =>
    \A p \in Procs : pc[p] = "guest" =>
      /\ Mine(p) \in bridges \intersect addressed \intersect up
      /\ Mine(p) \in taps \intersect joined
      /\ Mine(p) \in dnsmasq
      /\ \A k \in RuleKinds : rules[Rule(p, k)] > 0

(* A failed teardown command costs its own resource and no other: past a   *)
(* teardown (the first or the second of a gen-vm), whatever of the network *)
(* is still on the host is there because the command that removes it       *)
(* failed, and a rule is there only once.                                  *)
NothingLeftBehind ==
  DistinctNetworks =>
    \A p \in Procs : pc[p] \in {"tdOurs", "tdOff", "post"} =>
      /\ Mine(p) \in dnsmasq \union pids => "tdDns" \in failed[p]
      /\ \A k \in RuleKinds :
           rules[Rule(p, k)] <= (IF DeleteAt[k] \in failed[p] THEN 1 ELSE 0)
      /\ Mine(p) \in taps => "tdTap" \in failed[p]
      /\ Mine(p) \in bridges => "tdLink" \in failed[p]

(* Where a process has made sure of each resource and not yet let go of it *)
(* (the stages of _ensure_mgmt_bridge up to the running guest).            *)
HasJoin == {"tapUp", "boot", "guest"}
HasTap  == HasJoin \union {"tapMaster"}
HasDns  == HasTap \union {"tapShow", "tapAdd"}
HasRule == [to   |-> HasDns \union {"dnsShow", "dnsStart"},
            from |-> HasDns \union {"dnsShow", "dnsStart", "toShow", "toAdd"},
            nat  |-> HasDns \union {"dnsShow", "dnsStart", "toShow", "toAdd",
                                    "fromShow", "fromAdd"}]
PastIp  == HasRule["nat"] \union {"natShow", "natAdd"}
HasUp   == PastIp \union {"ipRead", "ipSet"}
HasAddr == HasUp \union {"linkUp"}
HasLink == HasAddr \union {"addrAdd"}

(* The inductive form of GuestNetworkIntact: every stage, not only the     *)
(* last, stands on what the stages before it made sure of.  A bridge that  *)
(* is there before its process makes it is none that this instance has.    *)
EveryStageIntact ==
  DistinctNetworks =>
    \A p \in Procs :
      /\ pc[p] = "linkShow" => Mine(p) \notin bridges
      /\ pc[p] \in HasLink => Mine(p) \in bridges
      /\ pc[p] \in HasAddr => Mine(p) \in addressed
      /\ pc[p] \in HasUp   => Mine(p) \in up
      /\ \A k \in RuleKinds : pc[p] \in HasRule[k] => rules[Rule(p, k)] > 0
      /\ pc[p] \in HasDns  => Mine(p) \in dnsmasq
      /\ pc[p] \in HasTap  => Mine(p) \in taps
      /\ pc[p] \in HasJoin => Mine(p) \in joined

(* The inductive form of HostForwardingKept: on a host that was forwarding *)
(* no process claims the switch or is about to set or clear it.            *)
NobodyClaims ==
  wasOn => /\ ipForward
           /\ \A p \in Procs : ~ours[p] /\ pc[p] \notin {"ipSet", "tdOff"}

(* The inductive form of ForwardingForGuests: from the switch on, nobody   *)
(* is about to clear it.                                                   *)
NobodyAboutToClear ==
  DistinctNetworks =>
    \A p \in Procs \ exposed : pc[p] \in PastIp =>
      ipForward /\ \A q \in Procs : pc[q] # "tdOff"

=============================================================================
