------------------------------ MODULE VmConfig ------------------------------
(* The settings of one guest: gen-vm and run-vm build them from a libvirt   *)
(* domain XML, a fleet XML, env files and flags (cli._build_config), and    *)
(* run-vm --convert-to-libvirt writes a domain XML that a later command is  *)
(* to start from. A field stands here for all those the code treats alike: *)
(*   vcpus         vmem, data_nic_queues, filesystem: elements of libvirt's *)
(*   nvme          nvme_trace, pci_testdev, ...: hints, and QEMU arguments  *)
(*   recreate      vram_bar, nvme_trace_file, ...: hints without arguments  *)
(*   mac           cpu_sockets, mgmt_tap, size, ...: not in a domain XML    *)
(*   dry_run       force, ansible_only, restore_image: likewise, and never  *)
(*                 taken from a settings file                               *)
EXTENDS FleetSettings, FiniteSetsExt

CONSTANTS EnvKey,      \* a field's key in env files
          First,       \* what is left of a text that holds a ';' once it is
                       \* split there, of all such texts
          Flags,       \* flags of each subcommand
          Clis,        \* flags typed, per command
          EnvFiles,    \* env files read, in order
          FleetFiles,  \* fleet files read, in order
          MaxTold      \* commands

(* 0 is None, or empty; a Boolean is No or Yes.                             *)
No == 1
Yes == 2

VMConfig == [name |-> 1, images |-> 1, vcpus |-> 1, agent |-> Yes, hostfwd |-> 0,
             shared |-> No, nvme |-> 0, recreate |-> No, userdev |-> 0, switch |-> 0,
             mac |-> 0, dry_run |-> No, backing_file |-> 0, backing_image |-> 0,
             ca_cert_file |-> 0]
Fields == DOMAIN VMConfig
NotConfigurable == {"dry_run", "recreate"}
Backings == {"backing_file", "backing_image"}

VmAssumption ==
    /\ "run-vm" \in DOMAIN Flags
    /\ \A s \in DOMAIN Flags : Flags[s] \subseteq Fields
    /\ \A e \in EnvFiles : e \in Seq(Range(e))
ASSUME VmAssumption

VARIABLES domain,  \* the domain XML written last, and from what
          done,    \* the last command: what it was told and what it built
          toTell
vmVars == <<domain, done, toTell>>
NoDomain == [from |-> VMConfig, xml |-> <<>>]

---------------------------------------------------------------------------
(* Domain XML.                                                             *)

(* Hints are joined with ';' and split there again, so that of a text that *)
(* holds one only its first part comes back. (What follows is taken to be  *)
(* no hint of its own: it has no '=', or no name a hint has.)              *)
Texts == {"nvme", "userdev", "hostfwd"}
Split(f, value) == IF f \in Texts /\ value \in DOMAIN First THEN First[value] ELSE value
Whole(cfg) == \A f \in Texts : cfg[f] \notin DOMAIN First

(* Options libvirt has no element for, passed to QEMU as they are.         *)
Arguments(cfg) == {f \in {"shared", "nvme", "userdev"} : cfg[f] # VMConfig[f]}

BuildHints_Args(cfg) ==
    [f \in {g \in {"nvme", "userdev"} : cfg[g] # VMConfig[g]} |-> cfg[f]]
BuildHints(cfg) ==
    [f \in {g \in {"nvme", "recreate", "shared", "userdev", "hostfwd", "agent"} :
              cfg[g] # VMConfig[g]} |-> cfg[f]]

(* Only a plain rule (1) has an element; other rules (2) are hints, and     *)
(* hints are written with the arguments, or not at all. The root disk is    *)
(* an element unless its backing file is shared.                            *)
CanEmit(cfg) == cfg.userdev = 0 \/ cfg.switch = 0
EmitDevices(cfg) ==
    [disk |-> IF cfg.shared = Yes THEN {} ELSE {<<cfg.images, cfg.name>>},
     forward |-> IF cfg.hostfwd = 1 THEN 1 ELSE 0,
     channel |-> cfg.agent = Yes]
Emit(cfg) ==
    [name |-> cfg.name, vcpus |-> cfg.vcpus, devices |-> EmitDevices(cfg),
     hints |-> IF Arguments(cfg) = {} THEN <<>> ELSE BuildHints(cfg)]

Hint(xml, f, otherwise) ==
    IF f \in DOMAIN xml.hints THEN Split(f, xml.hints[f]) ELSE otherwise
ParseDevices(xml) ==
    LET on == xml.devices
        root == CHOOSE d \in on.disk : TRUE
    IN  [VMConfig EXCEPT
            !.name = IF on.disk = {} THEN xml.name ELSE root[2],
            !.images = IF on.disk = {} THEN @ ELSE root[1],
            !.vcpus = xml.vcpus, !.hostfwd = on.forward,
            !.agent = IF on.channel THEN Yes ELSE Hint(xml, "agent", @)]
ApplyHints(xml, cfg) ==
    [f \in Fields |-> IF f = "agent" THEN cfg[f] ELSE Hint(xml, f, cfg[f])]
Parse(xml) == ApplyHints(xml, ParseDevices(xml))

---------------------------------------------------------------------------
(* Layers. Values by a name that is no field are dropped.                  *)

Over(base, overrides) ==
    [f \in Fields |-> IF f \in DOMAIN overrides THEN overrides[f] ELSE base[f]]

Overrides_Every(values) ==
    [f \in {g \in Fields : Given(values, EnvKey[g])} |-> values[EnvKey[f]]]
Overrides(values) ==
    [f \in {g \in Fields \ NotConfigurable : Given(values, EnvKey[g])} |-> values[EnvKey[f]]]

(* Where a flag's value goes: to the field it is named for, but for        *)
(* --ca-cert's, which is no field's name.                                  *)
FlagField(f) == IF f = "ca_cert_file" THEN "ca_cert" ELSE f

(* A backing given one way clears the other way's; a file, even one given  *)
(* by a flag beside it.                                                    *)
Cleared_None(typed) == {}
Cleared(typed) == IF "backing_file" \in typed THEN {"backing_image"}
                  ELSE IF "backing_image" \in typed THEN {"backing_file"} ELSE {}

ExtractCliOverrides(cli) ==
    LET typed == DOMAIN cli
        at == [k \in {FlagField(f) : f \in typed} |->
                 cli[CHOOSE f \in typed : FlagField(f) = k]]
    IN  Before([f \in Cleared(typed) |-> 0], at)

BuildConfig(base, fleet, env, cli) ==
    Over(Over(Over(base, fleet), Overrides(env)), ExtractCliOverrides(cli))

(* What one command was told: t.useDomain, t.fleets, t.envs, t.cli.        *)
Base(t) == IF t.useDomain THEN Parse(domain.xml) ELSE VMConfig
FleetEnv(t) == IF t.fleets = <<>> THEN <<>> ELSE FleetToEnv(ParseLayers(t.fleets))
Built(t) == BuildConfig(Base(t), FleetEnv(t), Merge(t.envs), t.cli)

(* gen-vm takes no two backings (gen_vm._validate).                        *)
Validate(cfg) == cfg.backing_image = 0 \/ cfg.backing_file = 0

Told(subcommand, t) ==
    /\ toTell > 0
    /\ t.useDomain => domain # NoDomain
    /\ DOMAIN t.cli \subseteq Flags[subcommand]
    /\ subcommand = "run-vm" => t.fleets = <<>>
    /\ done' = [told |-> t, base |-> Base(t), cfg |-> Built(t),
                refused |-> subcommand = "gen-vm" /\ ~Validate(Built(t))]
    /\ toTell' = toTell - 1

Use(subcommand, t) == Told(subcommand, t) /\ UNCHANGED domain
ConvertToLibvirt(t) ==
    /\ Told("run-vm", t)
    /\ CanEmit(Built(t))
    /\ domain' = [from |-> Built(t), xml |-> Emit(Built(t))]

VmInit ==
    /\ domain = NoDomain /\ toTell = MaxTold
    /\ done = [told |-> [useDomain |-> FALSE, fleets |-> <<>>, envs |-> <<>>, cli |-> <<>>],
               base |-> VMConfig, cfg |-> VMConfig, refused |-> FALSE]

Tellings == [useDomain : BOOLEAN, fleets : FleetFiles, envs : EnvFiles, cli : Clis]
VmNext == \E t \in Tellings :
              \/ \E s \in DOMAIN Flags : Use(s, t)
              \/ ConvertToLibvirt(t)
VmSpec == VmInit /\ [][VmNext]_vmVars

---------------------------------------------------------------------------
(* Properties.                                                             *)

(* Where no fleet file is given, each setting has the value of the highest  *)
(* layer that says it: flags, then the last env file naming it, if that     *)
(* says something, then the domain XML. What is done once - a dry run, a    *)
(* rebuild - no env file says. Not here: a flag that is lost, and backings  *)
(* where one is typed, whose two fields go together.                        *)
NamedBy(envs, key) == {i \in DOMAIN envs : key \in DOMAIN envs[i]}
SaidByEnv(envs, key) ==
    LET n == NamedBy(envs, key) IN n # {} /\ Given(envs[Max(n)], key)
HighestLayerWins ==
    LET t == done.told
        lost == {f \in DOMAIN t.cli : FlagField(f) # f}
        paired == IF Backings \cap DOMAIN t.cli = {} THEN {} ELSE Backings
    IN  t.fleets = <<>> =>
          \A f \in Fields \ (lost \cup paired) :
            done.cfg[f] = IF f \in DOMAIN t.cli THEN t.cli[f]
                          ELSE IF f \notin NotConfigurable /\ SaidByEnv(t.envs, EnvKey[f])
                               THEN t.envs[Max(NamedBy(t.envs, EnvKey[f]))][EnvKey[f]]
                               ELSE done.base[f]

(* A backing that one flag names is the only one gen-vm is given, so that   *)
(* it does not refuse the pair, though every env file of a fleet names the  *)
(* image of its first guest.                                                *)
TypedBackingStands ==
    LET cli == done.told.cli IN
    \A f \in Backings : DOMAIN cli \cap Backings = {f} =>
        /\ done.cfg[f] = cli[f] /\ \A g \in Backings \ {f} : done.cfg[g] = 0
        /\ ~done.refused

(* A domain XML gives back the guest it was written from: its elements     *)
(* always, its disk's place unless the backing file is shared, and every    *)
(* hinted setting once there is an argument to write hints beside and no    *)
(* text that a ';' splits. One with user devices was of a flat tree.        *)
Elements == {"name", "vcpus"}
Hinted == {"nvme", "recreate", "shared", "userdev", "hostfwd", "agent"}
DomainKeepsGuest ==
    domain # NoDomain =>
        LET back == Parse(domain.xml)
        IN  /\ \A f \in Elements : back[f] = domain.from[f]
            /\ domain.from.shared = No => back.images = domain.from.images
            /\ Arguments(domain.from) # {} /\ Whole(domain.from) =>
                  \A f \in Hinted : back[f] = domain.from[f]
            /\ back.userdev # 0 => domain.from.switch = 0

(* "gen-vm takes it repeatedly too, and it is where VM_IMAGES_DIR comes    *)
(* from": a fleet's images directory is the guest's, where no env file and  *)
(* no flag names another (the stack's README; broken by _merge).            *)
FleetReachesGenVm ==
    LET t == done.told IN
    t.fleets # <<>> /\ Merge(t.envs) = <<>> /\ "images" \notin DOMAIN t.cli =>
        done.cfg.images = FleetEnv(t)[EnvKey["images"]]
=============================================================================
