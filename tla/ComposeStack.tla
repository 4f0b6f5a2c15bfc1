---------------------------- MODULE ComposeStack ----------------------------
(* `qemu-tool gen-compose` and `qemu-tool compose`: stacks are rendered     *)
(* from settings files into directories, and every compose command decides  *)
(* for itself which stack it drives, with which settings, as which user.    *)
(* The files are edited, and stacks rendered again, between the steps of a  *)
(* command and between the commands.                                        *)
(*                                                                          *)
(* Settings: count and loki, which every fleet XML yields; prom, which only *)
(* a file that names it does; user (CONTAINER_USER), for env files alone.   *)
EXTENDS FleetSettings, FiniteSets, FiniteSetsExt

CONSTANTS Places,     \* directories a command is typed in, or files are in
          Home,       \* of these, where the search path ends
          Dirs,       \* stack directories
          DefaultDir, \* of these, the default stack's, which is hand-written
          Generated,  \* of these, the committed ones gen-compose renders
          Project,    \* docker's project for each: the directory's own name
          FleetXml, DotEnv, \* names of the files found without being named
          FileNames,  \* names of settings files
          XmlNames,   \* of these, those with the suffix .xml
          Layer,      \* the contents of settings files, by number from 1
          Files,      \* the settings files of a behaviour's beginning
          Renders,    \* what gen-compose is asked for
          Commands,   \* what compose is asked for
          Denied,     \* data directories the caller may not create
          None, MaxEdits, MaxRenders, MaxCommands

Keys == {"count", "loki", "prom", "user"}
DataKeys == {"loki", "prom"}
Unset == -1     \* a variable that is not in the environment
Caller == 1     \* users: 0 empty, 1 whoever runs the command, 2 another
Bad == 3        \* uid:gid, 3 what docker does not resolve or runs as root
Suits(k, n) == (n \in XmlNames) = ("count" \in DOMAIN Layer[k])

(* What a settings file holds is what its name says, and gen-compose reads *)
(* XML. The caller does not point it at the hand-written stack, which      *)
(* nothing else prevents; a stack driven by its name is that one or a      *)
(* committed one; and no setting of these is scaled.                       *)
DirOrNone == Dirs \cup {None}
ComposeAssumption ==
    /\ 0 \notin DOMAIN Layer
    /\ Home \in Places /\ DefaultDir \in Dirs /\ Generated \subseteq Dirs
    /\ XmlNames \subseteq FileNames /\ FleetXml \in XmlNames /\ DotEnv \in FileNames
    /\ Keys \ {"user"} \subseteq Tags \ Scaled
    /\ \A f \in Files :
          /\ f \in [Places -> [FileNames -> {0} \cup DOMAIN Layer]]
          /\ \A p \in Places, n \in FileNames : f[p][n] # 0 => Suits(f[p][n], n)
    /\ \A r \in Renders : /\ r.dir \in Dirs \ {DefaultDir} /\ r.cwd \in Places
                          /\ r.names \in Seq(XmlNames)
    /\ \A c \in Commands : /\ c.dir \in DirOrNone /\ c.var \in DirOrNone /\ c.cwd \in Places
                           /\ c.stack \in Generated \cup {DefaultDir, None}
                           /\ c.names \in Seq(FileNames)
ASSUME ComposeAssumption

NoStack == [kind |-> "none", names |-> <<>>, digest |-> <<>>, env |-> <<>>, torn |-> FALSE]
Foreign == [NoStack EXCEPT !.kind = "foreign"]

VARIABLES file,     \* contents by place and name, 0 for none
          stack,    \* docker-compose.yml of each stack directory
          running,  \* containers: project, service, and how they came up
          made,     \* data directories, and how Docker came to create some
          gen,      \* a gen-compose between reading and writing
          cmd,      \* the compose command in progress
          last,     \* the last teardown that ended
          left      \* edits, renders and commands still to come
vars == <<file, stack, running, made, gen, cmd, last, left>>

Exists(p) == file[p[1]][p[2]] # 0
Content(p) == file[p[1]][p[2]]
Contents(paths) == [i \in DOMAIN paths |-> Content(paths[i])]
LayersOf(paths) == [i \in DOMAIN paths |-> Layer[Content(paths[i])]]
Digest(paths) == Contents(paths)

(* The first of a few paths that exists, in a set of at most one.          *)
FirstOf(paths) ==
    {paths[i] : i \in {j \in DOMAIN paths :
        Exists(paths[j]) /\ \A k \in 1..(j - 1) : ~Exists(paths[k])}}

(* What files a command reads: {} when it refuses.                          *)
Typed(names, cwd) ==
    LET paths == [i \in DOMAIN names |-> <<cwd, names[i]>>]
    IN  {p \in {paths} : \A i \in DOMAIN p : Exists(p[i])}
Find(names, name, cwd) ==
    IF names # <<>> THEN Typed(names, cwd)
    ELSE LET found == FirstOf(<<<<cwd, name>>, <<Home, name>>>>)
         IN  IF found = {} THEN {<<>>} ELSE {<<p>> : p \in found}

---------------------------------------------------------------------------
(* gen-compose.                                                            *)

GenParse(r) ==
    /\ gen = None /\ left.renders > 0
    /\ \E paths \in Find(r.names, FleetXml, r.cwd) :
         /\ paths # <<>>
         /\ gen' = [dir |-> r.dir, paths |-> paths, torn |-> FALSE,
                    names |-> IF r.names # <<>> THEN r.names ELSE <<FleetXml>>,
                    env |-> FleetToEnv(ParseLayers(LayersOf(paths)))]
    /\ left' = [left EXCEPT !.renders = @ - 1]
    /\ UNCHANGED <<file, stack, running, made, cmd, last>>

(* The digest is taken of the files as they are by then; values a plan     *)
(* bakes are those read before.                                            *)
EnvDigest_Last(paths) == <<Content(Last(paths))>>
EnvDigest(paths) == Digest(paths)
Baked(env) == [k \in {"count", "loki", "prom"} |-> Get(env, k)]
GenWrite ==
    /\ gen # None
    /\ gen' = None
    /\ IF \A i \in DOMAIN gen.paths : Exists(gen.paths[i])
       THEN stack' = [stack EXCEPT ![gen.dir] =
                [kind |-> "rendered", names |-> gen.names,
                 digest |-> EnvDigest(gen.paths), env |-> Baked(gen.env),
                 torn |-> gen.torn]]
       ELSE stack' = stack
    /\ cmd' = IF cmd # None /\ cmd.dir = gen.dir THEN [cmd EXCEPT !.quiet = FALSE] ELSE cmd
    /\ UNCHANGED <<file, running, made, last, left>>
---------------------------------------------------------------------------
(* compose: which stack. A target is a directory, and whether it is driven *)
(* as a rendered one; no target, and the command refuses.                  *)

HasCompose(d) == stack[d].kind # "none"
IsRendered(d) == stack[d].kind = "rendered"
At(d, rendered) == [dir |-> d, rendered |-> rendered]

DiscoverStackDir(c) ==
    IF c.var # None THEN {At(d, TRUE) : d \in {e \in {c.var} : HasCompose(e)}}
    ELSE IF c.cwd \in Dirs /\ IsRendered(c.cwd) THEN {At(c.cwd, TRUE)}
    ELSE {At(DefaultDir, FALSE)}

Targets(c) ==
    IF c.dir # None /\ c.stack # None THEN {}
    ELSE IF c.dir # None THEN {At(d, TRUE) : d \in {e \in {c.dir} : HasCompose(e)}}
    ELSE IF c.stack # None THEN {At(d, FALSE) : d \in {e \in {c.stack} : HasCompose(e)}}
    ELSE DiscoverStackDir(c)

(* Which settings: those typed; those a rendered stack remembers, each in  *)
(* the stack's directory or in the working one; else the search path's.    *)
RememberedLayers(d, cwd) ==
    LET at == [i \in DOMAIN stack[d].names |->
                 FirstOf(<<<<d, stack[d].names[i]>>, <<cwd, stack[d].names[i]>>>>)]
    IN  {p \in {[i \in DOMAIN at |-> IF at[i] = {} THEN None ELSE CHOOSE q \in at[i] : TRUE]} :
            p # <<>> /\ \A i \in DOMAIN p : p[i] # None}

SettingsFor_Ambient(c, t) ==
    LET kept == IF t.rendered /\ c.names = <<>> /\ IsRendered(t.dir)
                THEN RememberedLayers(t.dir, c.cwd) ELSE {}
    IN  IF kept # {} THEN kept ELSE Find(c.names, DotEnv, c.cwd)
SettingsFor(c, t) ==
    IF t.rendered /\ c.names = <<>> /\ IsRendered(t.dir) THEN RememberedLayers(t.dir, c.cwd)
    ELSE Find(c.names, DotEnv, c.cwd)

(* One XML file makes all of them XML, and an env file is not.             *)
IsXml(paths) == \E i \in DOMAIN paths : paths[i][2] \in XmlNames
Parses(paths) == IsXml(paths) => \A i \in DOMAIN paths : paths[i][2] \in XmlNames
SettingsToEnv(paths) ==
    IF IsXml(paths) THEN FleetToEnv(ParseLayers(LayersOf(paths))) ELSE Merge(LayersOf(paths))

(* XML is converted for docker compose here, once; env files it reads      *)
(* itself, later.                                                          *)
Choose(c) ==
    /\ cmd = None /\ left.commands > 0
    /\ \E t \in Targets(c) : \E paths \in SettingsFor(c, t) :
         /\ Parses(paths)
         /\ cmd' = [pc |-> "check", c |-> c, dir |-> t.dir, rendered |-> t.rendered,
                    paths |-> paths, env |-> SettingsToEnv(paths), fill |-> FALSE,
                    warned |-> FALSE, denied |-> {}, quiet |-> TRUE]
    /\ left' = [left EXCEPT !.commands = @ - 1]
    /\ UNCHANGED <<file, stack, running, made, gen, last>>

---------------------------------------------------------------------------
(* compose: staleness, identity, data directories.                         *)

Stale == /\ cmd.paths # <<>>
         /\ cmd.rendered \/ cmd.dir \in Generated
         /\ IsRendered(cmd.dir)
         /\ stack[cmd.dir].digest # EnvDigest(cmd.paths)

InEnvironment(c) == c.user \notin {Unset, 0}
ResolveIdentity_LayersFirst(c, declared) ==
    IF Given(declared, "user") THEN declared["user"]
    ELSE IF InEnvironment(c) THEN c.user ELSE Caller
ResolveIdentity(c, declared) ==
    IF InEnvironment(c) THEN c.user
    ELSE IF Given(declared, "user") THEN declared["user"] ELSE Caller

Declared_All(env) == {<<k, Get(env, k)>> : k \in DataKeys}
Declared(env) == {<<k, env[k]>> : k \in {j \in DataKeys : Given(env, j)}}
PrecreateDataDirs_Loki(env) == {d \in Declared(env) : d[1] = "loki"}
PrecreateDataDirs(env) == Declared(env)

AllThere == \A i \in DOMAIN cmd.paths : Exists(cmd.paths[i])
Check ==
    /\ cmd # None /\ cmd.pc = "check"
    /\ AllThere
    /\ LET env == SettingsToEnv(cmd.paths)
           wanted == IF cmd.c.verb = "up" THEN PrecreateDataDirs(env) ELSE {}
       IN  /\ ResolveIdentity(cmd.c, env) # Bad
           /\ made' = [made EXCEPT !.ours = @ \cup (wanted \ (Denied \cup made.docker))]
           /\ cmd' = [cmd EXCEPT !.pc = "exec", !.warned = Stale,
                 !.fill = ~InEnvironment(cmd.c) /\ ~Given(env, "user"),
                 !.denied = wanted \cap Denied]
    /\ UNCHANGED <<file, stack, running, gen, last, left>>

(* A file gone, a user refused.                                            *)
Refuse ==
    /\ cmd # None /\ cmd.pc = "check"
    /\ AllThere => ResolveIdentity(cmd.c, SettingsToEnv(cmd.paths)) = Bad
    /\ cmd' = None
    /\ UNCHANGED <<file, stack, running, made, gen, last, left>>
---------------------------------------------------------------------------
(* docker compose itself, and the check after a teardown.                  *)

Guests(d) == IF IsRendered(d) THEN stack[d].env["count"] ELSE 1
Metrics == {"prometheus", "loki"}          \* in the profile metrics
Services(d) == {<<"qemu", n>> : n \in 1..Guests(d)}
               \cup (IF IsRendered(d) THEN {<<"metrics", m>> : m \in Metrics} ELSE {})
Gated(s) == s[1] = "metrics"
Mounts(d) == IF IsRendered(d) THEN {<<k, stack[d].env[k]>> : k \in DataKeys} ELSE {}

(* ${CONTAINER_USER:?}: the environment, even set to nothing, then files.  *)
InForce == IF IsXml(cmd.paths) THEN cmd.env ELSE Merge(LayersOf(cmd.paths))
ComposeUser == IF cmd.fill THEN Caller
               ELSE IF cmd.c.user # Unset THEN cmd.c.user
               ELSE IF Given(InForce, "user") THEN InForce["user"] ELSE 0
Accepted == (IsXml(cmd.paths) \/ AllThere) /\ ComposeUser # 0

Drifted == /\ IsRendered(cmd.dir) /\ cmd.paths # <<>>
           /\ \E k \in DOMAIN stack[cmd.dir].env : stack[cmd.dir].env[k] # Get(InForce, k)

Up == LET here == Project[cmd.dir]
          started == {s \in Services(cmd.dir) : Gated(s) => cmd.c.metrics}
          roots == IF cmd.c.metrics THEN Mounts(cmd.dir) \ (made.ours \cup made.docker) ELSE {}
      IN  /\ running' = {r \in running : r.project # here \/ r.service \notin started}
                \cup {[project |-> here, service |-> s, user |-> ComposeUser,
                       drifted |-> Drifted, warned |-> cmd.warned,
                       alone |-> cmd.quiet /\ ~stack[cmd.dir].torn] : s \in started}
          /\ made' = [made EXCEPT !.docker = @ \cup roots,
                !.unsaid = @ \cup {d \in roots : /\ ~cmd.warned /\ d \notin cmd.denied
                                                /\ cmd.quiet /\ ~stack[cmd.dir].torn
                                                /\ cmd.paths # <<>>},
                !.declared = @ \cup {d \in roots : Given(InForce, d[1])}]

(* --profile "*" unless the caller named profiles; services that the       *)
(* directory no longer has are Docker's orphans, and stay.                 *)
AllProfiles(c) == ~c.metrics
Down == /\ running' = {r \in running :
                \/ r.project # Project[cmd.dir]
                \/ r.service \notin Services(cmd.dir)
                \/ Gated(r.service) /\ ~cmd.c.metrics /\ ~AllProfiles(cmd.c)}
        /\ made' = made

Exec ==
    /\ cmd # None /\ cmd.pc = "exec"
    /\ Accepted
    /\ IF cmd.c.verb = "up" THEN Up ELSE Down
    /\ cmd' = IF cmd.c.verb = "down" /\ AllProfiles(cmd.c)
              THEN [cmd EXCEPT !.pc = "survivors"] ELSE None
    /\ last' = None
    /\ UNCHANGED <<file, stack, gen, left>>

(* Docker fails: an up may have started nothing, a down removed anything.  *)
Fails ==
    /\ cmd # None /\ cmd.pc = "exec"
    /\ \E kept \in SUBSET running :
         /\ kept # running => /\ cmd.c.verb = "down" /\ Accepted
                              /\ \A r \in running \ kept : r.project = Project[cmd.dir]
         /\ running' = kept
    /\ cmd' = None /\ last' = None
    /\ UNCHANGED <<file, stack, made, gen, left>>

(* `ps`, with the flags and in the directory of the teardown; a ps that    *)
(* fails lists nothing, and nothing is said.                               *)
Asked_Cwd == IF cmd.c.cwd \in Dirs THEN Project[cmd.c.cwd] ELSE cmd.c.cwd
Asked == Project[cmd.dir]
WarnAboutSurvivors ==
    /\ cmd # None /\ cmd.pc = "survivors"
    /\ \E answers \in BOOLEAN :
         last' = [project |-> Project[cmd.dir], answered |-> answers,
                  named |-> {r.service : r \in {x \in running : answers /\ x.project = Asked}}]
    /\ cmd' = None
    /\ UNCHANGED <<file, stack, running, made, gen, left>>

---------------------------------------------------------------------------
(* The operator edits a settings file, or removes it.                      *)
Edit(p, content) ==
    /\ left.edits > 0 /\ content # Content(p)
    /\ file' = [file EXCEPT ![p[1]][p[2]] = content]
    /\ left' = [left EXCEPT !.edits = @ - 1]
    /\ cmd' = IF cmd # None THEN [cmd EXCEPT !.quiet = FALSE] ELSE cmd
    /\ gen' = IF gen # None THEN [gen EXCEPT !.torn = TRUE] ELSE gen
    /\ UNCHANGED <<stack, running, made, last>>

Init ==
    /\ file \in Files
    /\ stack = [d \in Dirs |-> IF d = DefaultDir THEN Foreign ELSE NoStack]
    /\ running = {}
    /\ made = [ours |-> {}, docker |-> {}, unsaid |-> {}, declared |-> {}]
    /\ gen = None /\ cmd = None /\ last = None
    /\ left = [edits |-> MaxEdits, renders |-> MaxRenders, commands |-> MaxCommands]

Next ==
    \/ \E r \in Renders : GenParse(r)
    \/ GenWrite
    \/ \E c \in Commands : Choose(c)
    \/ Check \/ Refuse \/ Exec \/ Fails \/ WarnAboutSurvivors
    \/ \E p \in Places, n \in FileNames :
         \E content \in {0} \cup {k \in DOMAIN Layer : Suits(k, n)} : Edit(<<p, n>>, content)
Spec == Init /\ [][Next]_vars

---------------------------------------------------------------------------
(* Properties.                                                             *)

(* A container that runs with settings its stack was not rendered from     *)
(* was started by a command that warned, unless a file was being edited    *)
(* under that command or under the render. Neither remembered layers that  *)
(* resolve elsewhere, nor edits, nor a second render may be missed.        *)
DriftIsWarned == \A r \in running : r.drifted /\ r.alone => r.warned

(* What a stack bakes in is, setting by setting, what the last layer that   *)
(* names it says, be it the default; only what none names is defaulted.    *)
Naming(d, k) == {i \in DOMAIN stack[d].digest : k \in DOMAIN Layer[stack[d].digest[i]]}
LastLayerWins ==
    \A d \in Dirs : IsRendered(d) /\ ~stack[d].torn =>
        \A k \in DOMAIN stack[d].env :
            Naming(d, k) # {} =>
                stack[d].env[k] = Get(Layer[stack[d].digest[Max(Naming(d, k))]], k)

(* The user a container runs as is one qemu-tool has checked: whichever of *)
(* the environment and the layers docker compose takes it from.            *)
UserIsChecked == \A r \in running : r.alone => r.user # Bad

(* A data directory that the settings declare is the caller's, unless the  *)
(* command that started the stack said why not.                            *)
DeclaredDirsAreOurs == made.unsaid \cap made.declared = {}

(* An unscoped teardown that succeeded leaves no container of its project  *)
(* running without naming it, orphans of an earlier render included.       *)
TeardownStopsOrSays ==
    last # None /\ last.answered =>
        \A r \in running : r.project = last.project => r.service \in last.named
=============================================================================
