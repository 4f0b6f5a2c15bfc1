----------------------------- MODULE MCSettings -----------------------------
(* ComposeStack and VmConfig read settings alike and share no variable: a  *)
(* state of one is what it is whatever the other did. A behaviour here is  *)
(* one of either, the other staying as it begins.                          *)
EXTENDS ComposeStack, VmConfig

MCDefault == [count |-> 1, loki |-> 1, prom |-> 0,
              VM_IMAGES_DIR |-> 1, VM_vcpus |-> 0, VM_backing_image |-> 0]
MCOptional == {"prom", "VM_vcpus", "VM_backing_image"}

(* ComposeStack. *)
MCFallback == [count |-> 1, loki |-> 1, prom |-> 1, user |-> 0]
(* Fleets of one and two guests, data elsewhere; env files with users.     *)
MCLayer == <<[count |-> 1], [count |-> 2, loki |-> 2], [count |-> 1, prom |-> 2],
             [user |-> 2], [user |-> 3, loki |-> 1]>>
MCPlaces == {"home", "a"}
MCDirs == {"a", "b", "default", "scaleout"}
MCProject == [d \in MCDirs |-> IF d \in {"a", "b"} THEN "fleet" ELSE d]
MCNames == {"fleet.xml", "over.xml", ".env"}
MCFiles == {[p \in MCPlaces |-> [n \in MCNames |->
               IF p = "home" THEN (IF n = "fleet.xml" THEN 2 ELSE IF n = ".env" THEN e ELSE 3) ELSE 0]] :
            e \in {0, 4}}
MCRenders == {[dir |-> "a", cwd |-> "home", names |-> <<>>],
              [dir |-> "a", cwd |-> "home", names |-> <<"fleet.xml", "over.xml">>],
              [dir |-> "scaleout", cwd |-> "home", names |-> <<"fleet.xml">>]}
Plain == [verb |-> "up", dir |-> None, stack |-> None, var |-> None, cwd |-> "home",
          names |-> <<>>, user |-> Unset, metrics |-> TRUE]
MCUps == {[Plain EXCEPT !.cwd = "a"], [Plain EXCEPT !.dir = "a"], [Plain EXCEPT !.var = "a"],
          [Plain EXCEPT !.dir = "a", !.names = <<"fleet.xml", "over.xml">>],
          [Plain EXCEPT !.dir = "a", !.names = <<".env">>],
          [Plain EXCEPT !.dir = "a", !.user = 0], [Plain EXCEPT !.dir = "a", !.names = <<".env">>, !.user = 3],
          [Plain EXCEPT !.stack = "scaleout"], [Plain EXCEPT !.stack = "scaleout", !.dir = "a"],
          Plain}
MCDowns == {[Plain EXCEPT !.verb = "down", !.dir = "a", !.metrics = FALSE],
            [Plain EXCEPT !.verb = "down", !.dir = "a", !.cwd = "a", !.metrics = FALSE],
            [Plain EXCEPT !.verb = "down", !.metrics = FALSE],
            [Plain EXCEPT !.verb = "down", !.var = "a", !.metrics = TRUE]}
MCCommands == MCUps \cup MCDowns
MCDenied == {<<"loki", 1>>}

(* VmConfig. *)
MCEnvKey == [f \in Fields |-> IF f = "images" THEN "VM_IMAGES_DIR"
                              ELSE IF f = "name" THEN "VM_NAME" ELSE "VM_" \o f]
Shared == {"name", "images", "vcpus", "mac"}
MCFlags == [run |-> Shared \cup {"agent", "hostfwd", "shared", "nvme", "recreate",
                                 "userdev", "switch", "dry_run"},
            gen |-> Shared \cup {"backing_file", "backing_image", "ca_cert_file"}]
MCFlagsOf == ("run-vm" :> MCFlags.run) @@ ("gen-vm" :> MCFlags.gen)
(* An NVMe description, 9, that reads 1 up to its first ';'.               *)
MCFirst == 9 :> 1
MCClis ==
    {<<>>, [images |-> 2, name |-> 2], [images |-> 2, shared |-> Yes], [agent |-> No],
     [agent |-> No, nvme |-> 1], [nvme |-> 9], [nvme |-> 1, recreate |-> Yes], [hostfwd |-> 1, mac |-> 1],
     [hostfwd |-> 2], [hostfwd |-> 2, nvme |-> 2], [userdev |-> 1], [userdev |-> 1, switch |-> 1],
     [dry_run |-> Yes], [vcpus |-> 2], [backing_file |-> 1], [backing_image |-> 1, vcpus |-> 2],
     [ca_cert_file |-> 1], [backing_file |-> 1, backing_image |-> 1]}
Env1 == MCEnvKey["images"] :> 3 @@ MCEnvKey["vcpus"] :> 3 @@ MCEnvKey["backing_image"] :> 2
Env2 == MCEnvKey["vcpus"] :> 0 @@ MCEnvKey["dry_run"] :> Yes @@ MCEnvKey["nvme"] :> 3 @@ MCEnvKey["ca_cert_file"] :> 2
Env3 == MCEnvKey["shared"] :> Yes @@ MCEnvKey["agent"] :> No @@ MCEnvKey["recreate"] :> Yes
MCEnvFiles == {<<>>, <<Env1>>, <<Env2>>, <<Env1, Env2>>, <<Env3>>}
MCFleetFiles == {<<>>, <<[VM_IMAGES_DIR |-> 4]>>,
                 <<[VM_IMAGES_DIR |-> 4, VM_backing_image |-> 3], [VM_vcpus |-> 4]>>}

NothingTold == toTell = MaxTold
NothingComposed == left = [edits |-> MaxEdits, renders |-> MaxRenders, commands |-> MaxCommands]
SettingsNext == \/ NothingTold /\ Next /\ UNCHANGED vmVars
                \/ NothingComposed /\ VmNext /\ UNCHANGED vars
SettingsInit == Init /\ VmInit
SettingsSpec == SettingsInit /\ [][SettingsNext]_<<vars, vmVars>>
=============================================================================
