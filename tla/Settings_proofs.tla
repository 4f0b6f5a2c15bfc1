-------------------------- MODULE Settings_proofs --------------------------
(* Two proofs about settings. ComposeStack, for any stacks, settings       *)
(* files, renders and commands: there the argument turns on a command that *)
(* nothing was edited or rendered under ("quiet"): what it chose at its    *)
(* beginning is then still what the files say, and a digest that matches   *)
(* means that they say what the stack was rendered from. VmConfig, for any *)
(* settings: layers laid over one another keep a key's highest value, and  *)
(* what is written of a guest is read back, element by element and hint by *)
(* hint.                                                                   *)
EXTENDS ComposeStack, VmConfig, SequenceTheorems, WellFoundedInduction, TLAPS

Rendered(d) == [i \in DOMAIN stack[d].digest |-> Layer[stack[d].digest[i]]]
BakedKeys == {"count", "loki", "prom"}

FilesSuit ==
    /\ file \in [Places -> [FileNames -> {0} \cup DOMAIN Layer]]
    /\ \A p \in Places, n \in FileNames : file[p][n] # 0 => Suits(file[p][n], n)

GenOK ==
    gen # None =>
        /\ gen = [dir |-> gen.dir, paths |-> gen.paths, torn |-> gen.torn,
                  names |-> gen.names, env |-> gen.env]
        /\ gen.dir \in Dirs \ {DefaultDir}
        /\ gen.names \in Seq(XmlNames) /\ DOMAIN gen.paths = DOMAIN gen.names
        /\ \A i \in DOMAIN gen.paths : gen.paths[i] \in Places \X XmlNames
        /\ gen.torn \in BOOLEAN
        /\ ~gen.torn => gen.env = FleetToEnv(ParseLayers(LayersOf(gen.paths)))

StackOK ==
    /\ stack = [d \in Dirs |-> stack[d]]
    /\ \A d \in Dirs : IsRendered(d) =>
          /\ d # DefaultDir
          /\ stack[d].names \in Seq(XmlNames)
          /\ DOMAIN stack[d].digest = DOMAIN stack[d].names
          /\ \A i \in DOMAIN stack[d].digest :
                /\ stack[d].digest[i] \in DOMAIN Layer
                /\ "count" \in DOMAIN Layer[stack[d].digest[i]]
          /\ DOMAIN stack[d].env = BakedKeys
          /\ ~stack[d].torn => stack[d].env = Baked(FleetToEnv(ParseLayers(Rendered(d))))

CmdOK ==
    cmd # None =>
        /\ cmd = [pc |-> cmd.pc, c |-> cmd.c, dir |-> cmd.dir, rendered |-> cmd.rendered,
                  paths |-> cmd.paths, env |-> cmd.env, fill |-> cmd.fill,
                  warned |-> cmd.warned, denied |-> cmd.denied, quiet |-> cmd.quiet]
        /\ cmd.c \in Commands
        /\ cmd.dir \in Dirs /\ (cmd.rendered \/ cmd.dir \in Generated \cup {DefaultDir})
        /\ cmd.paths # <<>> => DOMAIN cmd.paths # {}
        /\ \A i \in DOMAIN cmd.paths :
              cmd.paths[i] \in Places \X FileNames \/ cmd.paths[i][2] \in XmlNames
        /\ cmd.pc \in {"check", "exec", "survivors"}
        /\ cmd.quiet \in BOOLEAN /\ cmd.warned \in BOOLEAN /\ cmd.fill \in BOOLEAN

Shapes == FilesSuit /\ GenOK /\ StackOK /\ CmdOK

(* What a command that nothing was changed under knows of its files.       *)
QuietOK ==
    cmd # None /\ cmd.quiet =>
        /\ cmd.env = SettingsToEnv(cmd.paths)
        /\ cmd.pc = "exec" =>
              LET env == SettingsToEnv(cmd.paths) IN
              /\ ResolveIdentity(cmd.c, env) # Bad
              /\ cmd.fill <=> ~InEnvironment(cmd.c) /\ ~Given(env, "user")
              /\ cmd.warned <=> Stale
              /\ cmd.c.verb = "up" =>
                    Declared(env) \subseteq made.ours \cup made.docker \cup cmd.denied

MadeOK ==
    /\ made = [ours |-> made.ours, docker |-> made.docker, unsaid |-> made.unsaid,
               declared |-> made.declared]
    /\ made.unsaid \subseteq made.docker /\ made.declared \subseteq made.docker
    /\ DeclaredDirsAreOurs

IInv == Shapes /\ QuietOK /\ MadeOK /\ DriftIsWarned /\ UserIsChecked

---------------------------------------------------------------------------
(* Finding files.                                                          *)

LEMMA FunctionOverNothing ==
  ASSUME NEW f, f = [x \in DOMAIN f |-> f[x]], DOMAIN f = {}
  PROVE  f = <<>>
<1>1. f \in [1..0 -> {1}]
  OBVIOUS
<1>2. f \in Seq({1}) /\ Len(f) = 0
  BY <1>1
<1> QED BY <1>2, EmptySeq

LEMMA FirstOfIn ==
  ASSUME NEW a, NEW b, NEW q \in FirstOf(<<a, b>>)
  PROVE  (q = a \/ q = b) /\ Exists(q)
  BY DEF FirstOf

LEMMA TypedIn ==
  ASSUME NEW names, NEW cwd, NEW paths \in Typed(names, cwd)
  PROVE  /\ DOMAIN paths = DOMAIN names
         /\ \A i \in DOMAIN paths : paths[i] = <<cwd, names[i]>> /\ Exists(paths[i])
  BY DEF Typed

LEMMA FindIn ==
  ASSUME NEW names, NEW name, NEW cwd, NEW paths \in Find(names, name, cwd)
  PROVE  IF names # <<>>
         THEN paths \in Typed(names, cwd)
         ELSE \/ paths = <<>>
              \/ \E p \in {<<cwd, name>>, <<Home, name>>} : paths = <<p>> /\ Exists(p)
<1>1. CASE names # <<>>
  BY <1>1 DEF Find
<1>2. CASE names = <<>>
  <2> DEFINE found == FirstOf(<<<<cwd, name>>, <<Home, name>>>>)
  <2>1. paths \in IF found = {} THEN {<<>>} ELSE {<<p>> : p \in found}
    BY <1>2 DEF Find
  <2>2. \A p \in found : p \in {<<cwd, name>>, <<Home, name>>} /\ Exists(p)
    BY FirstOfIn
  <2> HIDE DEF found
  <2> QED BY <1>2, <2>1, <2>2
<1> QED BY <1>1, <1>2

(* The files found are there by the names asked for.                       *)
LEMMA FoundAt ==
  ASSUME NEW N, NEW names \in Seq(N), NEW name \in N, NEW cwd \in Places, Home \in Places,
         NEW paths \in Find(names, name, cwd), paths # <<>>
  PROVE  /\ DOMAIN paths = DOMAIN (IF names # <<>> THEN names ELSE <<name>>)
         /\ \A i \in DOMAIN paths : paths[i] \in Places \X N
<1>1. CASE names # <<>>
  <2>1. paths \in Typed(names, cwd)
    BY <1>1, FindIn
  <2>2. /\ DOMAIN paths = DOMAIN names
        /\ \A i \in DOMAIN paths : paths[i] = <<cwd, names[i]>>
    BY <2>1, TypedIn
  <2>3. ASSUME NEW i \in DOMAIN paths PROVE paths[i] \in Places \X N
    <3>1. names[i] \in N
      BY <2>2
    <3>2. <<cwd, names[i]>> \in Places \X N
      BY <3>1
    <3>3. paths[i] = <<cwd, names[i]>>
      BY <2>2
    <3> QED BY <3>2, <3>3, Zenon
  <2> QED BY <1>1, <2>2, <2>3
<1>2. CASE names = <<>>
  <2>1. \E p \in {<<cwd, name>>, <<Home, name>>} : paths = <<p>> /\ Exists(p)
    BY <1>2, FindIn
  <2>2. PICK p \in {<<cwd, name>>, <<Home, name>>} : paths = <<p>>
    BY <2>1
  <2>3. p \in Places \X N
    OBVIOUS
  <2> QED BY <1>2, <2>2, <2>3
<1> QED BY <1>1, <1>2

LEMMA RememberedIn ==
  ASSUME NEW d, NEW cwd, NEW paths \in RememberedLayers(d, cwd)
  PROVE  /\ paths # <<>> /\ DOMAIN paths = DOMAIN stack[d].names
         /\ \A i \in DOMAIN paths : paths[i][2] = stack[d].names[i]
<1> DEFINE at == [i \in DOMAIN stack[d].names |->
                    FirstOf(<<<<d, stack[d].names[i]>>, <<cwd, stack[d].names[i]>>>>)]
<1>1. /\ paths = [i \in DOMAIN at |-> IF at[i] = {} THEN None ELSE CHOOSE q \in at[i] : TRUE]
      /\ paths # <<>> /\ \A i \in DOMAIN paths : paths[i] # None
  BY DEF RememberedLayers
<1>2. ASSUME NEW i \in DOMAIN paths PROVE paths[i][2] = stack[d].names[i]
  <2>1. i \in DOMAIN stack[d].names /\ paths[i] \in at[i]
    BY <1>1
  <2>2. paths[i] \in FirstOf(<<<<d, stack[d].names[i]>>, <<cwd, stack[d].names[i]>>>>)
    BY <2>1
  <2>3. \/ paths[i] = <<d, stack[d].names[i]>>
        \/ paths[i] = <<cwd, stack[d].names[i]>>
    BY <2>2, FirstOfIn
  <2> QED BY <2>3
<1> QED BY <1>1, <1>2

---------------------------------------------------------------------------
(* Shapes.                                                                 *)

(* Editing a file keeps contents and names in step.                        *)
LEMMA EditSuits ==
  ASSUME FilesSuit, NEW p \in Places, NEW n \in FileNames,
         NEW content \in {0} \cup {k \in DOMAIN Layer : Suits(k, n)},
         Edit(<<p, n>>, content)
  PROVE  FilesSuit'
<1>1. file' = [file EXCEPT ![p][n] = content]
  BY DEF Edit
<1>2. file' \in [Places -> [FileNames -> {0} \cup DOMAIN Layer]]
  BY <1>1 DEF FilesSuit
<1>3. ASSUME NEW q \in Places, NEW m \in FileNames, file'[q][m] # 0
      PROVE  Suits(file'[q][m], m)
  <2>1. CASE q = p /\ m = n
    BY <1>1, <1>3, <2>1 DEF FilesSuit
  <2>2. CASE ~(q = p /\ m = n)
    <3>1. file'[q][m] = file[q][m]
      BY <1>1, <2>2 DEF FilesSuit
    <3> QED BY <3>1, <1>3 DEF FilesSuit
  <2> QED BY <2>1, <2>2
<1> QED BY <1>2, <1>3 DEF FilesSuit, Suits

(* What is rendered, and what is read, keeps its form.                     *)
LEMMA ParseKeeps ==
  ASSUME FilesSuit, NEW r \in Renders, GenParse(r)
  PROVE  GenOK'
<1>1. PICK paths \in Find(r.names, FleetXml, r.cwd) :
        /\ paths # <<>>
        /\ gen' = [dir |-> r.dir, paths |-> paths, torn |-> FALSE,
                   names |-> IF r.names # <<>> THEN r.names ELSE <<FleetXml>>,
                   env |-> FleetToEnv(ParseLayers(LayersOf(paths)))]
  BY DEF GenParse
<1>2. r.dir \in Dirs \ {DefaultDir} /\ r.cwd \in Places /\ r.names \in Seq(XmlNames)
      /\ Home \in Places /\ FleetXml \in XmlNames
  BY ComposeAssumption DEF ComposeAssumption
<1>3. /\ gen'.names \in Seq(XmlNames) /\ DOMAIN paths = DOMAIN gen'.names
      /\ \A i \in DOMAIN paths : paths[i] \in Places \X XmlNames
  <2>1. gen'.names = IF r.names # <<>> THEN r.names ELSE <<FleetXml>>
    BY <1>1
  <2>2. /\ DOMAIN paths = DOMAIN (IF r.names # <<>> THEN r.names ELSE <<FleetXml>>)
        /\ \A i \in DOMAIN paths : paths[i] \in Places \X XmlNames
    BY <1>1, <1>2, FoundAt
  <2>3. <<FleetXml>> \in Seq(XmlNames)
    BY <1>2
  <2> QED BY <2>1, <2>2, <2>3, <1>2
<1>4. file' = file
  BY DEF GenParse
<1>5. LayersOf(paths)' = LayersOf(paths)
  BY <1>4 DEF LayersOf, Content
<1>6. gen'.env = FleetToEnv(ParseLayers(LayersOf(gen'.paths)))
  BY <1>1
<1> QED BY <1>1, <1>2, <1>3, <1>4, <1>6 DEF GenOK, LayersOf, Content

LEMMA WriteKeeps ==
  ASSUME FilesSuit, GenOK, StackOK, GenWrite
  PROVE  StackOK'
<1>1. CASE ~\A i \in DOMAIN gen.paths : Exists(gen.paths[i])
  <2>1. stack' = stack
    BY <1>1 DEF GenWrite
  <2> QED BY <2>1 DEF StackOK, IsRendered, Rendered
<1>2. CASE \A i \in DOMAIN gen.paths : Exists(gen.paths[i])
  <2> DEFINE new == [kind |-> "rendered", names |-> gen.names,
                     digest |-> EnvDigest(gen.paths), env |-> Baked(gen.env),
                     torn |-> gen.torn]
  <2>1. stack' = [stack EXCEPT ![gen.dir] = new] /\ gen.dir \in Dirs \ {DefaultDir}
    BY <1>2 DEF GenWrite, GenOK
  <2>2. stack' = [d \in Dirs |-> stack'[d]] /\ stack'[gen.dir] = new
        /\ \A d \in Dirs \ {gen.dir} : stack'[d] = stack[d]
    BY <2>1 DEF StackOK
  <2>3. /\ new.digest = [i \in DOMAIN gen.paths |-> Content(gen.paths[i])]
        /\ DOMAIN new.digest = DOMAIN gen.names
    BY DEF EnvDigest, Digest, Contents, GenOK, GenWrite
  <2>4. ASSUME NEW i \in DOMAIN new.digest
        PROVE  new.digest[i] \in DOMAIN Layer /\ "count" \in DOMAIN Layer[new.digest[i]]
    <3>1. i \in DOMAIN gen.paths /\ new.digest[i] = Content(gen.paths[i])
      BY <2>3
    <3>2. PICK p \in Places, n \in XmlNames : gen.paths[i] = <<p, n>>
      BY <3>1 DEF GenOK, GenWrite
    <3>3. new.digest[i] = file[p][n] /\ file[p][n] # 0
      BY <1>2, <3>1, <3>2 DEF Content, Exists
    <3>4. n \in FileNames
      BY ComposeAssumption DEF ComposeAssumption
    <3> QED BY <3>3, <3>4 DEF FilesSuit, Suits
  <2>5. ~gen.torn => new.env = Baked(FleetToEnv(ParseLayers([i \in DOMAIN new.digest |-> Layer[new.digest[i]]])))
    <3>1. LayersOf(gen.paths) = [i \in DOMAIN new.digest |-> Layer[new.digest[i]]]
      BY <2>3 DEF LayersOf
    <3>2. new.env = Baked(gen.env)
      OBVIOUS
    <3> HIDE DEF new
    <3> QED BY <3>1, <3>2 DEF GenOK, GenWrite
  <2>6. DOMAIN new.env = BakedKeys /\ gen.names \in Seq(XmlNames) /\ new.names = gen.names
        /\ new.torn = gen.torn /\ new.kind = "rendered"
    BY DEF Baked, BakedKeys, GenOK, GenWrite
  <2> HIDE DEF new
  <2>7. ASSUME NEW d \in Dirs, IsRendered(d)'
        PROVE  /\ d # DefaultDir
               /\ stack'[d].names \in Seq(XmlNames)
               /\ DOMAIN stack'[d].digest = DOMAIN stack'[d].names
               /\ \A i \in DOMAIN stack'[d].digest :
                     /\ stack'[d].digest[i] \in DOMAIN Layer
                     /\ "count" \in DOMAIN Layer[stack'[d].digest[i]]
               /\ DOMAIN stack'[d].env = BakedKeys
               /\ ~stack'[d].torn => stack'[d].env = Baked(FleetToEnv(ParseLayers(Rendered(d)')))
    <3>1. CASE d = gen.dir
      BY <3>1, <2>1, <2>2, <2>3, <2>4, <2>5, <2>6 DEF Rendered
    <3>2. CASE d # gen.dir
      <4>1. stack'[d] = stack[d] /\ IsRendered(d)
        BY <2>2, <2>7, <3>2 DEF IsRendered
      <4> QED BY <4>1 DEF StackOK, Rendered
    <3> QED BY <3>1, <3>2
  <2> QED BY <2>2, <2>7 DEF StackOK
<1> QED BY <1>1, <1>2

(* A command reads files by names of settings files, from a stack of ours. *)
LEMMA ChooseKeeps ==
  ASSUME StackOK, NEW c \in Commands, Choose(c)
  PROVE  CmdOK' /\ QuietOK'
<1>1. PICK t \in Targets(c) : \E paths \in SettingsFor(c, t) :
        cmd' = [pc |-> "check", c |-> c, dir |-> t.dir, rendered |-> t.rendered,
                paths |-> paths, env |-> SettingsToEnv(paths), fill |-> FALSE,
                warned |-> FALSE, denied |-> {}, quiet |-> TRUE]
  BY DEF Choose
<1>2. PICK paths \in SettingsFor(c, t) :
        cmd' = [pc |-> "check", c |-> c, dir |-> t.dir, rendered |-> t.rendered,
                paths |-> paths, env |-> SettingsToEnv(paths), fill |-> FALSE,
                warned |-> FALSE, denied |-> {}, quiet |-> TRUE]
  BY <1>1
<1>3. /\ c.dir \in DirOrNone /\ c.var \in DirOrNone /\ c.cwd \in Places
      /\ c.stack \in Generated \cup {DefaultDir, None} /\ c.names \in Seq(FileNames)
      /\ Home \in Places /\ DotEnv \in FileNames /\ DefaultDir \in Dirs
      /\ Generated \subseteq Dirs /\ XmlNames \subseteq FileNames
  BY ComposeAssumption DEF ComposeAssumption
<1>4. t.dir \in Dirs /\ t.rendered \in BOOLEAN
      /\ (t.rendered \/ t.dir \in Generated \cup {DefaultDir})
  <2>1. \/ t = At(c.dir, TRUE) /\ c.dir # None
        \/ t = At(c.stack, FALSE) /\ c.stack # None
        \/ t = At(c.var, TRUE) /\ c.var # None
        \/ t = At(c.cwd, TRUE) /\ c.cwd \in Dirs
        \/ t = At(DefaultDir, FALSE)
    BY DEF Targets, DiscoverStackDir
  <2>2. ASSUME NEW d, NEW rendered \in BOOLEAN, t = At(d, rendered)
        PROVE  t.dir = d /\ t.rendered = rendered
    BY <2>2 DEF At
  <2>3. CASE \E d \in Dirs : t = At(d, TRUE)
    BY <2>2, <2>3
  <2>4. CASE \E d \in Generated \cup {DefaultDir} : t = At(d, FALSE)
    BY <1>3, <2>2, <2>4
  <2> QED BY <1>3, <2>1, <2>3, <2>4 DEF DirOrNone
<1>5. /\ paths # <<>> => DOMAIN paths # {}
      /\ \A i \in DOMAIN paths : paths[i] \in Places \X FileNames \/ paths[i][2] \in XmlNames
  <2>1. CASE t.rendered /\ c.names = <<>> /\ IsRendered(t.dir)
    <3>1. paths \in RememberedLayers(t.dir, c.cwd)
      BY <1>2, <2>1 DEF SettingsFor
    <3>2. /\ paths # <<>> /\ DOMAIN paths = DOMAIN stack[t.dir].names
          /\ \A i \in DOMAIN paths : paths[i][2] = stack[t.dir].names[i]
      BY <3>1, RememberedIn
    <3>3. stack[t.dir].names \in Seq(XmlNames)
      BY <1>4, <2>1 DEF StackOK
    <3>4. \A i \in DOMAIN stack[t.dir].names : stack[t.dir].names[i] \in XmlNames
      BY <3>3
    <3>5. paths = [i \in DOMAIN paths |-> paths[i]]
      BY <3>1 DEF RememberedLayers
    <3> QED BY <3>2, <3>4, <3>5, FunctionOverNothing
  <2>2. CASE ~(t.rendered /\ c.names = <<>> /\ IsRendered(t.dir))
    <3>1. paths \in Find(c.names, DotEnv, c.cwd)
      BY <1>2, <2>2 DEF SettingsFor
    <3>2. CASE paths # <<>>
      <4>1. /\ DOMAIN paths = DOMAIN (IF c.names # <<>> THEN c.names ELSE <<DotEnv>>)
            /\ \A i \in DOMAIN paths : paths[i] \in Places \X FileNames
        BY <1>3, <3>1, <3>2, FoundAt
      <4>2. CASE c.names # <<>>
        <5>1. 1 \in DOMAIN c.names
          BY <1>3, <4>2, EmptySeq
        <5> QED BY <4>1, <4>2, <5>1
      <4>3. CASE c.names = <<>>
        BY <4>1, <4>3
      <4> QED BY <4>2, <4>3
    <3>3. CASE paths = <<>>
      BY <3>3
    <3> QED BY <3>2, <3>3
  <2> QED BY <2>1, <2>2
<1>6. file' = file
  BY DEF Choose
<1>7. SettingsToEnv(paths)' = SettingsToEnv(paths)
  BY <1>6 DEF SettingsToEnv, LayersOf, Content
<1>8. CmdOK'
  BY <1>2, <1>4, <1>5 DEF CmdOK
<1>9. QuietOK'
  BY <1>2, <1>7 DEF QuietOK
<1> QED BY <1>8, <1>9

LEMMA InitShapes == Init => Shapes
<1> SUFFICES ASSUME Init PROVE Shapes
  OBVIOUS
<1>1. FilesSuit
  BY ComposeAssumption DEF ComposeAssumption, Init, FilesSuit, Suits
<1>2. \A d \in Dirs : ~IsRendered(d)
  BY DEF Init, IsRendered, Foreign, NoStack
<1>3. StackOK
  BY <1>2 DEF Init, StackOK
<1>4. GenOK /\ CmdOK
  BY DEF Init, GenOK, CmdOK
<1> QED BY <1>1, <1>3, <1>4 DEF Shapes

LEMMA ShapesStep == Shapes /\ [Next]_vars => Shapes'
<1> SUFFICES ASSUME Shapes, [Next]_vars PROVE Shapes'
  OBVIOUS
<1> USE DEF Shapes
<1>a. ASSUME UNCHANGED file PROVE FilesSuit'
  BY <1>a DEF FilesSuit, Suits
<1>b. ASSUME UNCHANGED stack PROVE StackOK'
  BY <1>b DEF StackOK, IsRendered, Rendered
<1>c. ASSUME UNCHANGED <<file, gen>> PROVE GenOK'
  BY <1>c DEF GenOK, LayersOf, Content
<1>d. ASSUME UNCHANGED cmd PROVE CmdOK'
  BY <1>d DEF CmdOK
<1>0. CASE UNCHANGED vars
  BY <1>0, <1>a, <1>b, <1>c, <1>d DEF vars
<1>1. ASSUME NEW r \in Renders, GenParse(r) PROVE Shapes'
  <2>1. UNCHANGED <<file, stack, cmd>>
    BY <1>1 DEF GenParse
  <2> QED BY <1>1, <2>1, <1>a, <1>b, <1>d, ParseKeeps
<1>2. CASE GenWrite
  <2>1. UNCHANGED file /\ gen' = None
        /\ cmd' = IF cmd # None /\ cmd.dir = gen.dir THEN [cmd EXCEPT !.quiet = FALSE] ELSE cmd
    BY <1>2 DEF GenWrite
  <2>2. CmdOK'
    BY <2>1 DEF CmdOK
  <2>3. GenOK'
    BY <2>1 DEF GenOK
  <2> QED BY <1>2, <2>1, <2>2, <2>3, <1>a, WriteKeeps
<1>3. ASSUME NEW c \in Commands, Choose(c) PROVE Shapes'
  <2>1. UNCHANGED <<file, stack, gen>>
    BY <1>3 DEF Choose
  <2> QED BY <1>3, <2>1, <1>a, <1>b, <1>c, ChooseKeeps
<1>4. CASE Check
  <2>1. UNCHANGED <<file, stack, gen>> /\ cmd # None
    BY <1>4 DEF Check
  <2>2. PICK fill, denied : cmd' = [cmd EXCEPT !.pc = "exec", !.warned = Stale,
                                      !.fill = fill, !.denied = denied] /\ fill \in BOOLEAN
    BY <1>4 DEF Check
  <2>3. Stale \in BOOLEAN
    BY DEF Stale
  <2>4. CmdOK'
    BY <2>1, <2>2, <2>3 DEF CmdOK
  <2> QED BY <2>1, <2>4, <1>a, <1>b, <1>c
<1>5. CASE Refuse \/ Fails \/ WarnAboutSurvivors
  <2>1. UNCHANGED <<file, stack, gen>> /\ cmd' = None
    BY <1>5 DEF Refuse, Fails, WarnAboutSurvivors
  <2>2. CmdOK'
    BY <2>1 DEF CmdOK
  <2> QED BY <2>1, <2>2, <1>a, <1>b, <1>c
<1>6. CASE Exec
  <2>1. UNCHANGED <<file, stack, gen>> /\ cmd # None
        /\ (cmd' = None \/ cmd' = [cmd EXCEPT !.pc = "survivors"])
    BY <1>6 DEF Exec
  <2>2. CmdOK'
    BY <2>1 DEF CmdOK
  <2> QED BY <2>1, <2>2, <1>a, <1>b, <1>c
<1>7. ASSUME NEW p \in Places, NEW n \in FileNames,
             NEW content \in {0} \cup {k \in DOMAIN Layer : Suits(k, n)}, Edit(<<p, n>>, content)
      PROVE  Shapes'
  <2>1. /\ UNCHANGED stack
        /\ cmd' = IF cmd # None THEN [cmd EXCEPT !.quiet = FALSE] ELSE cmd
        /\ gen' = IF gen # None THEN [gen EXCEPT !.torn = TRUE] ELSE gen
    BY <1>7 DEF Edit
  <2>2. CmdOK'
    BY <2>1 DEF CmdOK
  <2>3. GenOK'
    BY <2>1 DEF GenOK
  <2> QED BY <1>7, <2>1, <2>2, <2>3, <1>b, EditSuits
<1> QED BY <1>0, <1>1, <1>2, <1>3, <1>4, <1>5, <1>6, <1>7 DEF Next

---------------------------------------------------------------------------
(* What a command that nothing was changed under does.                     *)

(* An exact digest is proof of the settings: the files read by then are    *)
(* XML, and say, key by key, what was baked in.                            *)
LEMMA UnwarnedAgrees ==
  ASSUME Shapes, QuietOK, cmd # None, cmd.pc = "exec", cmd.quiet, ~cmd.warned,
         cmd.paths # <<>>, IsRendered(cmd.dir), ~stack[cmd.dir].torn
  PROVE  /\ InForce = SettingsToEnv(cmd.paths)
         /\ stack[cmd.dir].env = Baked(InForce)
<1> DEFINE d == cmd.dir
<1>1. /\ d \in Dirs /\ d # DefaultDir
      /\ stack[d].env = Baked(FleetToEnv(ParseLayers(Rendered(d))))
      /\ \A i \in DOMAIN stack[d].digest :
            /\ stack[d].digest[i] \in DOMAIN Layer
            /\ "count" \in DOMAIN Layer[stack[d].digest[i]]
  BY DEF Shapes, StackOK, CmdOK
<1>2. stack[d].digest = [i \in DOMAIN cmd.paths |-> Content(cmd.paths[i])]
  <2>1. ~Stale /\ (cmd.rendered \/ d \in Generated)
    BY <1>1 DEF QuietOK, Shapes, CmdOK
  <2> QED BY <2>1 DEF Stale, EnvDigest, Digest, Contents
<1>3. Rendered(d) = LayersOf(cmd.paths)
  BY <1>2 DEF Rendered, LayersOf
<1>4. IsXml(cmd.paths)
  <2>1. PICK i \in DOMAIN cmd.paths : TRUE
    BY DEF Shapes, CmdOK
  <2>2. Content(cmd.paths[i]) \in DOMAIN Layer
        /\ "count" \in DOMAIN Layer[Content(cmd.paths[i])]
    BY <1>1, <1>2
  <2>3. CASE cmd.paths[i][2] \in XmlNames
    BY <2>3 DEF IsXml
  <2>4. CASE cmd.paths[i] \in Places \X FileNames
    <3>1. PICK p \in Places, n \in FileNames : cmd.paths[i] = <<p, n>>
      BY <2>4
    <3>2. CASE file[p][n] = 0
      <4>1. 0 \in DOMAIN Layer
        BY <2>2, <3>1, <3>2 DEF Content
      <4> QED BY <4>1, ComposeAssumption DEF ComposeAssumption
    <3>3. CASE file[p][n] # 0
      <4>1. Suits(file[p][n], n)
        BY <3>3 DEF Shapes, FilesSuit
      <4>2. n \in XmlNames
        BY <2>2, <3>1, <4>1 DEF Suits, Content
      <4> QED BY <3>1, <4>2 DEF IsXml
    <3> QED BY <3>2, <3>3
  <2> QED BY <2>3, <2>4 DEF Shapes, CmdOK
<1>5. SettingsToEnv(cmd.paths) = FleetToEnv(ParseLayers(LayersOf(cmd.paths)))
  BY <1>4 DEF SettingsToEnv
<1>6. InForce = SettingsToEnv(cmd.paths)
  BY <1>4 DEF InForce, QuietOK
<1> QED BY <1>1, <1>3, <1>5, <1>6

LEMMA InForceWhenQuiet ==
  ASSUME QuietOK, cmd # None, cmd.quiet
  PROVE  InForce = SettingsToEnv(cmd.paths)
  BY DEF QuietOK, InForce, SettingsToEnv

(* The user checked is the user docker compose takes.                      *)
LEMMA UserChecked ==
  ASSUME QuietOK, cmd # None, cmd.pc = "exec", cmd.quiet
  PROVE  ComposeUser # Bad
<1>1. InForce = SettingsToEnv(cmd.paths)
  BY InForceWhenQuiet
<1> QED BY <1>1 DEF QuietOK, ComposeUser, ResolveIdentity, InEnvironment, Bad, Caller, Unset

LEMMA SameSettings ==
  ASSUME UNCHANGED file, cmd'.paths = cmd.paths
  PROVE  SettingsToEnv(cmd.paths)' = SettingsToEnv(cmd.paths)
  BY DEF SettingsToEnv, LayersOf, Content

LEMMA QuietStep == Shapes /\ QuietOK /\ MadeOK /\ [Next]_vars => QuietOK'
<1> SUFFICES ASSUME Shapes, QuietOK, MadeOK, [Next]_vars PROVE QuietOK'
  OBVIOUS
<1>a. ASSUME UNCHANGED <<file, cmd>>, stack'[cmd.dir] = stack[cmd.dir] \/ cmd = None, UNCHANGED made
      PROVE  QuietOK'
  <2>1. ASSUME NEW paths PROVE SettingsToEnv(paths)' = SettingsToEnv(paths)
    BY <1>a DEF SettingsToEnv, LayersOf, Content
  <2>2. cmd # None => (Stale' <=> Stale)
    BY <1>a DEF Stale, IsRendered, EnvDigest, Digest, Contents, Content
  <2> QED BY <1>a, <2>1, <2>2 DEF QuietOK
<1>b. ASSUME cmd' = None \/ ~cmd'.quiet PROVE QuietOK'
  BY <1>b DEF QuietOK
<1>0. CASE UNCHANGED vars
  BY <1>0, <1>a DEF vars
<1>1. ASSUME NEW r \in Renders, GenParse(r) PROVE QuietOK'
  BY <1>1, <1>a DEF GenParse
<1>2. CASE GenWrite
  <2>1. CASE cmd # None /\ cmd.dir = gen.dir
    <3>1. ~cmd'.quiet
      BY <1>2, <2>1 DEF GenWrite, Shapes, CmdOK
    <3> QED BY <3>1, <1>b
  <2>2. CASE cmd # None /\ cmd.dir # gen.dir
    <3>1. stack'[cmd.dir] = stack[cmd.dir] /\ UNCHANGED <<file, cmd, made>>
      BY <1>2, <2>2 DEF GenWrite, Shapes, CmdOK, StackOK
    <3> QED BY <3>1, <1>a
  <2>3. CASE cmd = None
    BY <1>2, <2>3, <1>b DEF GenWrite
  <2> QED BY <2>1, <2>2, <2>3
<1>3. ASSUME NEW c \in Commands, Choose(c) PROVE QuietOK'
  BY <1>3, ChooseKeeps DEF Shapes
<1>4. CASE Check
  <2> DEFINE env == SettingsToEnv(cmd.paths)
             wanted == IF cmd.c.verb = "up" THEN PrecreateDataDirs(env) ELSE {}
  <2>1. /\ UNCHANGED <<file, stack>> /\ cmd # None
        /\ ResolveIdentity(cmd.c, env) # Bad
        /\ made' = [made EXCEPT !.ours = @ \cup (wanted \ (Denied \cup made.docker))]
        /\ cmd' = [cmd EXCEPT !.pc = "exec", !.warned = Stale,
                   !.fill = ~InEnvironment(cmd.c) /\ ~Given(env, "user"),
                   !.denied = wanted \cap Denied]
    BY <1>4 DEF Check
  <2>2. /\ cmd'.paths = cmd.paths /\ cmd'.env = cmd.env /\ cmd'.c = cmd.c /\ cmd'.quiet = cmd.quiet
        /\ cmd'.dir = cmd.dir /\ cmd'.rendered = cmd.rendered
        /\ cmd'.warned = Stale /\ cmd'.denied = wanted \cap Denied
        /\ cmd'.fill <=> ~InEnvironment(cmd.c) /\ ~Given(env, "user")
    <3> DEFINE fill == ~InEnvironment(cmd.c) /\ ~Given(env, "user")
               denied == wanted \cap Denied
               warned == Stale
    <3>1. cmd' = [cmd EXCEPT !.pc = "exec", !.warned = warned, !.fill = fill, !.denied = denied]
      BY <2>1
    <3> HIDE DEF env, wanted, fill, denied, warned
    <3>2. /\ cmd'.paths = cmd.paths /\ cmd'.env = cmd.env /\ cmd'.c = cmd.c /\ cmd'.quiet = cmd.quiet
          /\ cmd'.dir = cmd.dir /\ cmd'.rendered = cmd.rendered
          /\ cmd'.warned = warned /\ cmd'.denied = denied /\ cmd'.fill = fill
      BY <2>1, <3>1 DEF Shapes, CmdOK
    <3> QED BY <3>2 DEF fill, denied, warned
  <2>3. SettingsToEnv(cmd.paths)' = env
    BY <2>1, <2>2, SameSettings
  <2>4. Stale' <=> Stale
    BY <2>1, <2>2 DEF Stale, IsRendered, EnvDigest, Digest, Contents, Content
  <2>5. cmd.c.verb = "up" => Declared(env) \subseteq (made.ours \cup made.docker \cup cmd.denied)'
    <3>1. made'.ours = made.ours \cup (wanted \ (Denied \cup made.docker)) /\ made'.docker = made.docker
      BY <2>1 DEF MadeOK
    <3> QED BY <2>2, <3>1 DEF PrecreateDataDirs
  <2>6. cmd.quiet => cmd.env = env
    BY <2>1 DEF QuietOK
  <2> HIDE DEF env, wanted
  <2> QED BY <2>1, <2>2, <2>3, <2>4, <2>5, <2>6 DEF QuietOK
<1>5. CASE Refuse \/ Fails \/ WarnAboutSurvivors
  BY <1>5, <1>b DEF Refuse, Fails, WarnAboutSurvivors
<1>6. CASE Exec
  <2>1. CASE cmd' = None
    BY <2>1, <1>b
  <2>2. CASE cmd' = [cmd EXCEPT !.pc = "survivors"]
    <3>1. UNCHANGED file /\ cmd # None
      BY <1>6 DEF Exec
    <3>2. cmd'.pc = "survivors" /\ cmd'.env = cmd.env /\ cmd'.paths = cmd.paths /\ cmd'.quiet = cmd.quiet
      BY <2>2, <3>1 DEF Shapes, CmdOK
    <3>3. SettingsToEnv(cmd.paths)' = SettingsToEnv(cmd.paths)
      BY <3>1, <3>2, SameSettings
    <3> QED BY <3>1, <3>2, <3>3 DEF QuietOK
  <2> QED BY <1>6, <2>1, <2>2 DEF Exec
<1>7. ASSUME NEW p \in Places, NEW n \in FileNames, NEW content, Edit(<<p, n>>, content)
      PROVE  QuietOK'
  <2>1. cmd' = None \/ ~cmd'.quiet
    BY <1>7 DEF Edit, Shapes, CmdOK
  <2> QED BY <2>1, <1>b
<1> QED BY <1>0, <1>1, <1>2, <1>3, <1>4, <1>5, <1>6, <1>7 DEF Next

(* What `up` starts is what its settings say, or it was warned of.          *)
LEMMA UpStep ==
  ASSUME Shapes, QuietOK, MadeOK, DriftIsWarned, UserIsChecked,
         cmd # None, cmd.pc = "exec", cmd.c.verb = "up", Up
  PROVE  MadeOK' /\ DriftIsWarned' /\ UserIsChecked'
<1> DEFINE d == cmd.dir
           started == {s \in Services(cmd.dir) : Gated(s) => cmd.c.metrics}
           new == {[project |-> Project[cmd.dir], service |-> s, user |-> ComposeUser,
                    drifted |-> Drifted, warned |-> cmd.warned,
                    alone |-> cmd.quiet /\ ~stack[cmd.dir].torn] : s \in started}
           roots == IF cmd.c.metrics THEN Mounts(cmd.dir) \ (made.ours \cup made.docker) ELSE {}
           silent == {r \in roots : /\ ~cmd.warned /\ r \notin cmd.denied
                                    /\ cmd.quiet /\ ~stack[cmd.dir].torn
                                    /\ cmd.paths # <<>>}
           declared == {r \in roots : Given(InForce, r[1])}
<1>1. running' \subseteq running \cup new
  BY DEF Up
<1>2. made' = [made EXCEPT !.docker = @ \cup roots, !.unsaid = @ \cup silent,
                           !.declared = @ \cup declared]
  BY DEF Up
<1>3. cmd.quiet /\ ~stack[d].torn /\ ~cmd.warned => ~Drifted
  <2> SUFFICES ASSUME cmd.quiet, ~stack[d].torn, ~cmd.warned, Drifted PROVE FALSE
    OBVIOUS
  <2>1. stack[d].env = Baked(InForce)
    BY UnwarnedAgrees DEF Drifted
  <2> DEFINE force == InForce
  <2>2. PICK k \in DOMAIN stack[d].env : stack[d].env[k] # Get(force, k)
    BY DEF Drifted
  <2> HIDE DEF force
  <2>3. stack[d].env[k] = Get(force, k)
    BY <2>1, <2>2 DEF Baked, force
  <2> QED BY <2>2, <2>3
<1>4. cmd.quiet => ComposeUser # Bad
  BY UserChecked
<1>5. DriftIsWarned' /\ UserIsChecked'
  <2>1. ASSUME NEW r \in new
        PROVE  (r.drifted /\ r.alone => r.warned) /\ (r.alone => r.user # Bad)
    <3>1. PICK s \in started :
            r = [project |-> Project[cmd.dir], service |-> s, user |-> ComposeUser,
                 drifted |-> Drifted, warned |-> cmd.warned,
                 alone |-> cmd.quiet /\ ~stack[cmd.dir].torn]
      OBVIOUS
    <3> HIDE DEF started, new
    <3>2. r.user = ComposeUser /\ r.warned = cmd.warned
          /\ (r.drifted <=> Drifted) /\ (r.alone <=> cmd.quiet /\ ~stack[cmd.dir].torn)
      BY <3>1
    <3> QED BY <3>2, <1>3, <1>4
  <2> HIDE DEF new
  <2> QED BY <1>1, <2>1 DEF DriftIsWarned, UserIsChecked
<1>6. silent \cap declared = {}
  <2> SUFFICES ASSUME NEW r \in silent, r \in declared PROVE FALSE
    OBVIOUS
  <2>1. /\ r \in Mounts(d) /\ r \notin made.ours /\ r \notin made.docker /\ r \notin cmd.denied
        /\ ~cmd.warned /\ cmd.quiet /\ ~stack[d].torn /\ cmd.paths # <<>> /\ Given(InForce, r[1])
    OBVIOUS
  <2> HIDE DEF silent, declared, roots, new, started
  <2>2. PICK k \in DataKeys : r = <<k, stack[d].env[k]>> /\ IsRendered(d)
    BY <2>1 DEF Mounts
  <2>3. InForce = SettingsToEnv(cmd.paths) /\ stack[d].env = Baked(InForce)
    BY <2>1, <2>2, UnwarnedAgrees
  <2>4. k \in {"count", "loki", "prom"} /\ Given(InForce, k)
    BY <2>1, <2>2 DEF DataKeys
  <2>5. stack[d].env[k] = InForce[k]
    BY <2>3, <2>4 DEF Baked, Get
  <2>6. r \in Declared(InForce)
    BY <2>2, <2>4, <2>5 DEF Declared
  <2> QED BY <2>1, <2>3, <2>6 DEF QuietOK
<1>7. MadeOK'
  <2>1. silent \subseteq roots /\ declared \subseteq roots /\ roots \cap made.docker = {}
    OBVIOUS
  <2> HIDE DEF silent, declared, roots
  <2> QED BY <1>2, <1>6, <2>1 DEF MadeOK, DeclaredDirsAreOurs
<1> QED BY <1>5, <1>7

LEMMA SafeStep ==
  Shapes /\ QuietOK /\ MadeOK /\ DriftIsWarned /\ UserIsChecked /\ [Next]_vars
    => MadeOK' /\ DriftIsWarned' /\ UserIsChecked'
<1> SUFFICES ASSUME Shapes, QuietOK, MadeOK, DriftIsWarned, UserIsChecked, [Next]_vars
             PROVE  MadeOK' /\ DriftIsWarned' /\ UserIsChecked'
  OBVIOUS
<1>a. ASSUME UNCHANGED made PROVE MadeOK'
  BY <1>a DEF MadeOK, DeclaredDirsAreOurs
<1>b. ASSUME running' \subseteq running PROVE DriftIsWarned' /\ UserIsChecked'
  BY <1>b DEF DriftIsWarned, UserIsChecked
<1>0. CASE UNCHANGED vars
  BY <1>0, <1>a, <1>b DEF vars
<1>1. ASSUME NEW r \in Renders, GenParse(r) PROVE UNCHANGED <<running, made>>
  BY <1>1 DEF GenParse
<1>2. CASE GenWrite
  BY <1>2, <1>a, <1>b DEF GenWrite
<1>3. ASSUME NEW c \in Commands, Choose(c) PROVE UNCHANGED <<running, made>>
  BY <1>3 DEF Choose
<1>4. CASE Check
  <2>1. PICK wanted : made' = [made EXCEPT !.ours = @ \cup (wanted \ (Denied \cup made.docker))]
                     /\ UNCHANGED running
    BY <1>4 DEF Check
  <2>2. MadeOK'
    BY <2>1 DEF MadeOK, DeclaredDirsAreOurs
  <2> QED BY <2>1, <2>2, <1>b
<1>5. CASE Refuse \/ Fails \/ WarnAboutSurvivors
  <2>1. UNCHANGED made /\ running' \subseteq running
    BY <1>5 DEF Refuse, Fails, WarnAboutSurvivors
  <2> QED BY <2>1, <1>a, <1>b
<1>6. CASE Exec
  <2>1. CASE cmd.c.verb = "up"
    BY <1>6, <2>1, UpStep DEF Exec
  <2>2. CASE cmd.c.verb # "up"
    <3>1. Down
      BY <1>6, <2>2 DEF Exec
    <3>2. UNCHANGED made /\ running' \subseteq running
      BY <3>1 DEF Down
    <3> QED BY <3>2, <1>a, <1>b
  <2> QED BY <2>1, <2>2
<1>7. ASSUME NEW p \in Places, NEW n \in FileNames, NEW content, Edit(<<p, n>>, content)
      PROVE  UNCHANGED <<running, made>>
  BY <1>7 DEF Edit
<1> QED BY <1>0, <1>1, <1>2, <1>3, <1>4, <1>5, <1>6, <1>7, <1>a, <1>b DEF Next

LEMMA Invariance == Spec => []IInv
<1>1. Init => IInv
  <2> SUFFICES ASSUME Init PROVE IInv
    OBVIOUS
  <2>1. QuietOK /\ MadeOK /\ DriftIsWarned /\ UserIsChecked
    BY DEF Init, QuietOK, MadeOK, DeclaredDirsAreOurs, DriftIsWarned, UserIsChecked
  <2> QED BY <2>1, InitShapes DEF IInv
<1>2. IInv /\ [Next]_vars => IInv'
  BY ShapesStep, QuietStep, SafeStep DEF IInv
<1> QED BY <1>1, <1>2, PTL DEF Spec

---------------------------------------------------------------------------
(* A container runs with settings its stack was not rendered from only if  *)
(* the command that started it warned, or a file or the stack changed      *)
(* under that command.                                                     *)
THEOREM DriftWarned == Spec => []DriftIsWarned
  BY Invariance, PTL DEF IInv

(* The user a container runs as went through resolve_identity's check,     *)
(* whichever of environment, layers and caller docker compose took it from. *)
THEOREM UserRight == Spec => []UserIsChecked
  BY Invariance, PTL DEF IInv

(* No declared data directory is left for Docker to create as root without *)
(* a word: precreate_data_dirs reads the keys and values that are mounted. *)
THEOREM DirsOurs == Spec => []DeclaredDirsAreOurs
<1>1. IInv => DeclaredDirsAreOurs
  BY DEF IInv, MadeOK
<1> QED BY <1>1, Invariance, PTL

---------------------------------------------------------------------------
(* Layers.                                                                 *)

(* A nonempty set of layers has a last one.                                *)
LEMMA MaxIsGreatest ==
  ASSUME NEW n \in Nat, NEW S, S \subseteq 1..n, S # {}
  PROVE  Max(S) \in S /\ \A y \in S : Max(S) >= y
<1> DEFINE R == {ss \in Nat \X Nat : ss[1] < ss[2]}
           T == {n - y : y \in S}
<1>1. IsWellFoundedOn(R, Nat)
  BY NatLessThanWellFounded DEF OpToRel
<1>2. T \subseteq Nat /\ T # {}
  <2>1. ASSUME NEW y \in S PROVE n - y \in Nat
    OBVIOUS
  <2> QED BY <2>1
<1>3. PICK t \in T : \A u \in T : <<u, t>> \notin R
  <2> HIDE DEF R, T
  <2> QED BY <1>1, <1>2, WFMin
<1>4. PICK x \in S : t = n - x
  BY <1>3
<1>5. ASSUME NEW y \in S PROVE x >= y
  <2>1. n - y \in T /\ n - y \in Nat /\ n - x \in Nat
    BY <1>2, <1>4
  <2>2. n - y < n - x => <<n - y, n - x>> \in R
    BY <2>1
  <2> QED BY <1>3, <1>4, <2>1, <2>2
<1> QED BY <1>5 DEF Max

(* The layers of a set that name a setting, and what they come to.         *)
Namers(layers, s, f) == {i \in s : f \in DOMAIN layers[i]}
Overlaid(layers, s) ==
    IF s = {} THEN Default
    ELSE [f \in Tags |-> IF Namers(layers, s, f) = {} THEN Default[f]
                         ELSE layers[Max(Namers(layers, s, f))][f]]

(* What FoldLeft is a CHOOSE of: folds over the sets of the layers.         *)
IsFold(layers, h) ==
    h = [s \in SUBSET DOMAIN layers |->
            IF s = {} THEN Default ELSE Overlay(h[s \ {Max(s)}], layers[Max(s)])]

LEMMA ParseLayersIsFold ==
  ASSUME NEW layers
  PROVE  ParseLayers(layers) = (CHOOSE h : IsFold(layers, h))[DOMAIN layers]
  BY DEF ParseLayers, FoldLeft, MapThenFoldSet, IsFold

LEMMA OverlaidStep ==
  ASSUME NEW n \in Nat, NEW layers, NEW s, s \subseteq 1..n, s # {}
  PROVE  Overlaid(layers, s) = Overlay(Overlaid(layers, s \ {Max(s)}), layers[Max(s)])
<1> DEFINE m == Max(s)
           r == s \ {m}
<1>1. m \in s /\ \A y \in s : m >= y
  BY MaxIsGreatest
<1> HIDE DEF m
<1>2. ASSUME NEW f \in Tags
      PROVE  Overlaid(layers, s)[f] = IF f \in DOMAIN layers[m] THEN layers[m][f] ELSE Overlaid(layers, r)[f]
  <2>1. Overlaid(layers, s)[f] = IF Namers(layers, s, f) = {} THEN Default[f]
                                 ELSE layers[Max(Namers(layers, s, f))][f]
    BY DEF Overlaid
  <2>2. Overlaid(layers, r)[f] = IF Namers(layers, r, f) = {} THEN Default[f]
                                 ELSE layers[Max(Namers(layers, r, f))][f]
    BY DEF Overlaid, Namers
  <2>3. CASE f \in DOMAIN layers[m]
    <3>1. m \in Namers(layers, s, f) /\ Namers(layers, s, f) \subseteq s
      BY <1>1, <2>3 DEF Namers
    <3>2. /\ Max(Namers(layers, s, f)) \in s
          /\ Max(Namers(layers, s, f)) >= m
      BY <3>1, MaxIsGreatest
    <3>3. Max(Namers(layers, s, f)) = m
      <4> DEFINE x == Max(Namers(layers, s, f))
      <4>1. x \in 1..n /\ m \in 1..n /\ x >= m /\ m >= x
        BY <3>2, <1>1
      <4> HIDE DEF x
      <4>2. x = m
        BY <4>1
      <4> QED BY <4>2 DEF x
    <3> QED BY <2>1, <2>3, <3>1, <3>3
  <2>4. CASE f \notin DOMAIN layers[m]
    <3>1. Namers(layers, s, f) = Namers(layers, r, f)
      BY <2>4 DEF Namers
    <3> QED BY <2>1, <2>2, <2>4, <3>1
  <2> QED BY <2>3, <2>4
<1>3. Overlaid(layers, s) = [f \in Tags |-> IF f \in DOMAIN layers[m] THEN layers[m][f] ELSE Overlaid(layers, r)[f]]
  <2>1. Overlaid(layers, s) = [f \in Tags |-> Overlaid(layers, s)[f]]
    BY DEF Overlaid
  <2> QED BY <1>2, <2>1, Zenon
<1>4. Overlay(Overlaid(layers, r), layers[m])
        = [f \in Tags |-> IF f \in DOMAIN layers[m] THEN layers[m][f] ELSE Overlaid(layers, r)[f]]
  BY DEF Overlay, ParseWithFields
<1> QED BY <1>3, <1>4 DEF m

(* Two functions on sets of numbers that agree on a set wherever they agree *)
(* on it without its greatest number, agree.                               *)
LEMMA Agree ==
  ASSUME NEW n \in Nat, NEW h, NEW w, h[{}] = w[{}],
         \A s \in SUBSET (1..n) : s # {} /\ h[s \ {Max(s)}] = w[s \ {Max(s)}] => h[s] = w[s]
  PROVE  h[1..n] = w[1..n]
<1> DEFINE Wrong == {m \in 1..n : \E s \in SUBSET (1..n) : s # {} /\ Max(s) = m /\ h[s] # w[s]}
           R == {ss \in Nat \X Nat : ss[1] < ss[2]}
<1>1. Wrong = {}
  <2> SUFFICES ASSUME Wrong # {} PROVE FALSE
    OBVIOUS
  <2>1. PICK m \in Wrong : \A k \in Wrong : <<k, m>> \notin R
    <3>1. IsWellFoundedOn(R, Nat)
      BY NatLessThanWellFounded DEF OpToRel
    <3>2. Wrong \subseteq Nat
      OBVIOUS
    <3> HIDE DEF R, Wrong
    <3> QED BY <3>1, <3>2, WFMin
  <2>2. PICK s \in SUBSET (1..n) : s # {} /\ Max(s) = m /\ h[s] # w[s]
    BY <2>1
  <2>3. m \in s /\ \A y \in s : m >= y
    BY <2>2, MaxIsGreatest
  <2> DEFINE r == s \ {m}
  <2>4. h[r] = w[r]
    <3>1. CASE r = {}
      BY <3>1
    <3>2. CASE r # {}
      <4>1. Max(r) \in r /\ r \in SUBSET (1..n)
        BY <3>2, MaxIsGreatest
      <4> DEFINE x == Max(r)
      <4>2. x \in 1..n /\ x < m /\ m \in 1..n
        <5>1. x \in r /\ r \subseteq 1..n
          BY <4>1
        <5> HIDE DEF x
        <5> QED BY <2>3, <5>1
      <4>3. <<Max(r), m>> \in R
        BY <4>2
      <4>4. Max(r) \notin Wrong
        BY <2>1, <4>3
      <4> QED BY <3>2, <4>1, <4>2, <4>4
    <3> QED BY <3>1, <3>2
  <2> QED BY <2>2, <2>4
<1>2. CASE n = 0
  <2>1. 1..n = {}
    BY <1>2
  <2> QED BY <2>1
<1>3. CASE n # 0
  <2> DEFINE all == 1..n
  <2>1. all # {} /\ all \in SUBSET (1..n)
    BY <1>3
  <2> HIDE DEF all
  <2>2. Max(all) \in all
    BY <2>1, MaxIsGreatest
  <2>3. Max(1..n) \in 1..n /\ 1..n # {}
    BY <2>1, <2>2 DEF all
  <2>4. h[1..n] # w[1..n] => Max(1..n) \in Wrong
    BY <2>3
  <2> HIDE DEF Wrong
  <2> QED BY <1>1, <2>4
<1> QED BY <1>2, <1>3

(* A setting is what the last layer that names it says.                    *)
LEMMA LastNamerWins ==
  ASSUME NEW n \in Nat, NEW layers, DOMAIN layers = 1..n
  PROVE  ParseLayers(layers) = Overlaid(layers, 1..n)
<1> DEFINE h == CHOOSE g : IsFold(layers, g)
           w == [s \in SUBSET (1..n) |-> Overlaid(layers, s)]
<1>1. ASSUME NEW s \in SUBSET (1..n)
      PROVE  w[s] = IF s = {} THEN Default ELSE Overlay(w[s \ {Max(s)}], layers[Max(s)])
  <2>1. CASE s = {}
    BY <2>1 DEF Overlaid
  <2>2. CASE s # {}
    <3>1. w[s \ {Max(s)}] = Overlaid(layers, s \ {Max(s)}) /\ w[s] = Overlaid(layers, s)
      OBVIOUS
    <3> HIDE DEF w
    <3> QED BY <2>2, <3>1, OverlaidStep
  <2> QED BY <2>1, <2>2
<1>2. w = [s \in SUBSET (1..n) |-> w[s]] /\ w[1..n] = Overlaid(layers, 1..n)
  OBVIOUS
<1> HIDE DEF w
<1>3. IsFold(layers, w)
  BY <1>1, <1>2 DEF IsFold
<1>4. IsFold(layers, h)
  BY <1>3
<1> HIDE DEF h
<1>5. h = [s \in SUBSET (1..n) |->
            IF s = {} THEN Default ELSE Overlay(h[s \ {Max(s)}], layers[Max(s)])]
  BY <1>4 DEF IsFold
<1>6. h[{}] = w[{}]
  BY <1>1, <1>5
<1>7. \A s \in SUBSET (1..n) : s # {} /\ h[s \ {Max(s)}] = w[s \ {Max(s)}] => h[s] = w[s]
  BY <1>1, <1>5
<1>8. h[1..n] = w[1..n]
  BY <1>6, <1>7, Agree
<1> QED BY <1>2, <1>8, ParseLayersIsFold DEF h

(* A stack that is rendered has in it what the last layer says.             *)
LEMMA RenderedLastLayer ==
  ASSUME StackOK
  PROVE  LastLayerWins
<1> SUFFICES ASSUME NEW d \in Dirs, IsRendered(d), ~stack[d].torn,
                    NEW k \in DOMAIN stack[d].env, Naming(d, k) # {}
             PROVE  stack[d].env[k] = Get(Layer[stack[d].digest[Max(Naming(d, k))]], k)
  BY DEF LastLayerWins
<1> DEFINE n == Len(stack[d].names)
           layers == Rendered(d)
           cfg == ParseLayers(layers)
           m == Max(Naming(d, k))
<1>1. /\ stack[d].names \in Seq(XmlNames) /\ DOMAIN stack[d].digest = 1..n /\ n \in Nat
      /\ stack[d].env = Baked(FleetToEnv(cfg)) /\ k \in BakedKeys
  BY DEF StackOK
<1>2. DOMAIN layers = 1..n /\ Naming(d, k) = Namers(layers, 1..n, k)
  BY <1>1 DEF Rendered, Naming, Namers
<1>3. k \in Tags /\ k \notin Scaled
  BY <1>1, ComposeAssumption DEF ComposeAssumption, BakedKeys, Keys
<1>4. m \in 1..n /\ k \in DOMAIN layers[m] /\ layers[m] = Layer[stack[d].digest[m]]
  <2>1. Naming(d, k) \subseteq 1..n /\ Naming(d, k) # {}
    BY <1>1 DEF Naming
  <2>2. m \in Naming(d, k)
    BY <1>1, <2>1, MaxIsGreatest
  <2> HIDE DEF m
  <2> QED BY <1>1, <1>2, <2>2 DEF Naming, Rendered
<1>5. cfg[k] = layers[m][k] /\ DOMAIN cfg = Tags
  <2>1. cfg = Overlaid(layers, 1..n)
    BY <1>1, <1>2, LastNamerWins
  <2> HIDE DEF layers, cfg, n
  <2> QED BY <1>2, <1>3, <1>4, <2>1 DEF Overlaid
<1>6. Get(FleetToEnv(cfg), k) = Get(layers[m], k)
  <2> HIDE DEF layers, cfg, n, m
  <2> QED BY <1>3, <1>4, <1>5 DEF Get, Given, FleetToEnv
<1> HIDE DEF layers, cfg, n, m
<1>7. stack[d].env[k] = Get(FleetToEnv(cfg), k)
  BY <1>1 DEF Baked, BakedKeys
<1> QED BY <1>4, <1>6, <1>7 DEF m

(* What a stack bakes in, setting by setting, is what the last layer that   *)
(* names it says: an overlay that sets a default back is no silence, and   *)
(* the digest names the very layers that were read.                        *)
THEOREM LastLayer == Spec => []LastLayerWins
<1>1. IInv => LastLayerWins
  BY RenderedLastLayer DEF IInv, Shapes
<1> QED BY <1>1, Invariance, PTL

---------------------------------------------------------------------------
(* A teardown's last word stands until containers come or go.              *)
LEMMA TeardownStep == TeardownStopsOrSays /\ [Next]_vars => TeardownStopsOrSays'
<1> SUFFICES ASSUME TeardownStopsOrSays, [Next]_vars PROVE TeardownStopsOrSays'
  OBVIOUS
<1>1. CASE UNCHANGED <<running, last>>
  BY <1>1 DEF TeardownStopsOrSays
<1>2. CASE Exec \/ Fails
  BY <1>2 DEF Exec, Fails, TeardownStopsOrSays
<1>3. CASE WarnAboutSurvivors
  <2>1. PICK answers \in BOOLEAN :
          last' = [project |-> Project[cmd.dir], answered |-> answers,
                   named |-> {r.service : r \in {x \in running : answers /\ x.project = Asked}}]
    BY <1>3 DEF WarnAboutSurvivors
  <2>2. running' = running
    BY <1>3 DEF WarnAboutSurvivors
  <2> QED BY <2>1, <2>2 DEF TeardownStopsOrSays, Asked
<1>4. CASE UNCHANGED vars
  BY <1>4, <1>1 DEF vars
<1>5. ASSUME NEW r \in Renders, GenParse(r) PROVE UNCHANGED <<running, last>>
  BY <1>5 DEF GenParse
<1>6. ASSUME NEW c \in Commands, Choose(c) PROVE UNCHANGED <<running, last>>
  BY <1>6 DEF Choose
<1>7. ASSUME NEW p, NEW content, Edit(p, content) PROVE UNCHANGED <<running, last>>
  BY <1>7 DEF Edit
<1>8. CASE GenWrite \/ Check \/ Refuse
  BY <1>8, <1>1 DEF GenWrite, Check, Refuse
<1> QED BY <1>1, <1>2, <1>3, <1>4, <1>5, <1>6, <1>7, <1>8 DEF Next

(* After a teardown without profiles that docker answered, whatever of the *)
(* project still runs was named.                                           *)
THEOREM TeardownSays == Spec => []TeardownStopsOrSays
<1>1. Init => TeardownStopsOrSays
  BY DEF Init, TeardownStopsOrSays
<1> QED BY <1>1, TeardownStep, PTL DEF Spec

---------------------------------------------------------------------------
(* One guest's settings. Env files are merged by a fold as well.           *)

Keyed(layers, s) == UNION {DOMAIN layers[i] : i \in s}
Merged(layers, s) == [k \in Keyed(layers, s) |-> layers[Max(Namers(layers, s, k))][k]]

IsMerge(layers, h) ==
    h = [s \in SUBSET DOMAIN layers |->
            IF s = {} THEN <<>> ELSE Before(layers[Max(s)], h[s \ {Max(s)}])]

LEMMA MergeIsFold ==
  ASSUME NEW layers
  PROVE  Merge(layers) = (CHOOSE h : IsMerge(layers, h))[DOMAIN layers]
  BY DEF Merge, FoldLeft, MapThenFoldSet, IsMerge

LEMMA MergedStep ==
  ASSUME NEW n \in Nat, NEW layers, NEW s, s \subseteq 1..n, s # {}
  PROVE  Merged(layers, s) = Before(layers[Max(s)], Merged(layers, s \ {Max(s)}))
<1> DEFINE m == Max(s)
           r == s \ {m}
<1>1. m \in s /\ (\A y \in s : m >= y) /\ m \in 1..n
  BY MaxIsGreatest
<1> HIDE DEF m
<1>2. Keyed(layers, s) = DOMAIN layers[m] \cup Keyed(layers, r)
  BY <1>1 DEF Keyed
<1>3. ASSUME NEW k \in Keyed(layers, s)
      PROVE  layers[Max(Namers(layers, s, k))][k]
               = IF k \in DOMAIN layers[m] THEN layers[m][k] ELSE Merged(layers, r)[k]
  <2>1. CASE k \in DOMAIN layers[m]
    <3> DEFINE x == Max(Namers(layers, s, k))
    <3>1. m \in Namers(layers, s, k) /\ Namers(layers, s, k) \subseteq s
      BY <1>1, <2>1 DEF Namers
    <3>2. x \in s /\ x >= m
      BY <3>1, MaxIsGreatest
    <3> HIDE DEF x
    <3>3. x = m
      BY <1>1, <3>2
    <3> QED BY <2>1, <3>3 DEF x
  <2>2. CASE k \notin DOMAIN layers[m]
    <3>1. Namers(layers, s, k) = Namers(layers, r, k)
      BY <2>2 DEF Namers
    <3>2. k \in Keyed(layers, r)
      BY <1>2, <2>2
    <3> QED BY <2>2, <3>1, <3>2 DEF Merged
  <2> QED BY <2>1, <2>2
<1>4. Merged(layers, s) = [k \in Keyed(layers, s) |->
         IF k \in DOMAIN layers[m] THEN layers[m][k] ELSE Merged(layers, r)[k]]
  BY <1>3 DEF Merged
<1>5. DOMAIN Merged(layers, r) = Keyed(layers, r)
  BY DEF Merged
<1> QED BY <1>2, <1>4, <1>5 DEF Before, m

(* An env file's key has its value in the last file that has the key.      *)
LEMMA LastFileWins ==
  ASSUME NEW n \in Nat, NEW layers, DOMAIN layers = 1..n
  PROVE  Merge(layers) = Merged(layers, 1..n)
<1> DEFINE h == CHOOSE g : IsMerge(layers, g)
           w == [s \in SUBSET (1..n) |-> Merged(layers, s)]
<1>1. ASSUME NEW s \in SUBSET (1..n)
      PROVE  w[s] = IF s = {} THEN <<>> ELSE Before(layers[Max(s)], w[s \ {Max(s)}])
  <2>1. CASE s = {}
    <3>1. Keyed(layers, s) = {}
      BY <2>1 DEF Keyed
    <3>2. Merged(layers, s) = <<>>
      BY <3>1 DEF Merged
    <3> QED BY <2>1, <3>2
  <2>2. CASE s # {}
    <3>1. w[s \ {Max(s)}] = Merged(layers, s \ {Max(s)}) /\ w[s] = Merged(layers, s)
      OBVIOUS
    <3>2. Merged(layers, s) = Before(layers[Max(s)], Merged(layers, s \ {Max(s)}))
      BY <2>2, MergedStep
    <3> HIDE DEF w
    <3> QED BY <2>2, <3>1, <3>2
  <2> QED BY <2>1, <2>2
<1>2. w = [s \in SUBSET (1..n) |-> w[s]] /\ w[1..n] = Merged(layers, 1..n)
  OBVIOUS
<1> HIDE DEF w
<1>3. IsMerge(layers, w)
  BY <1>1, <1>2 DEF IsMerge
<1>4. IsMerge(layers, h)
  BY <1>3
<1> HIDE DEF h
<1>5. h = [s \in SUBSET (1..n) |->
            IF s = {} THEN <<>> ELSE Before(layers[Max(s)], h[s \ {Max(s)}])]
  BY <1>4 DEF IsMerge
<1>6. h[{}] = w[{}]
  BY <1>1, <1>5
<1>7. \A s \in SUBSET (1..n) : s # {} /\ h[s \ {Max(s)}] = w[s \ {Max(s)}] => h[s] = w[s]
  BY <1>1, <1>5
<1>8. h[1..n] = w[1..n]
  BY <1>6, <1>7, Agree
<1> QED BY <1>2, <1>8, MergeIsFold DEF h

(* What the env files give of a key.                                       *)
LEMMA EnvSays ==
  ASSUME NEW envs \in EnvFiles, NEW k
  PROVE  /\ Given(Merge(envs), k) <=> SaidByEnv(envs, k)
         /\ SaidByEnv(envs, k) => Merge(envs)[k] = envs[Max(NamedBy(envs, k))][k]
<1>1. envs \in Seq(Range(envs))
  BY VmAssumption DEF VmAssumption
<1>2. Len(envs) \in Nat /\ DOMAIN envs = 1..Len(envs)
  BY <1>1
<1>3. Merge(envs) = Merged(envs, 1..Len(envs))
  BY <1>2, LastFileWins
<1>4. NamedBy(envs, k) = Namers(envs, 1..Len(envs), k)
  BY <1>2 DEF NamedBy, Namers
<1>5. k \in Keyed(envs, 1..Len(envs)) <=> NamedBy(envs, k) # {}
  BY <1>4 DEF Keyed, Namers
<1>6. NamedBy(envs, k) # {} => k \in DOMAIN envs[Max(NamedBy(envs, k))]
  <2>1. NamedBy(envs, k) \subseteq 1..Len(envs)
    BY <1>2 DEF NamedBy
  <2>2. NamedBy(envs, k) # {} => Max(NamedBy(envs, k)) \in NamedBy(envs, k)
    BY <1>2, <2>1, MaxIsGreatest
  <2> QED BY <2>2 DEF NamedBy
<1>7. /\ k \in DOMAIN Merge(envs) <=> NamedBy(envs, k) # {}
      /\ NamedBy(envs, k) # {} => Merge(envs)[k] = envs[Max(NamedBy(envs, k))][k]
  BY <1>3, <1>4, <1>5 DEF Merged
<1> QED BY <1>6, <1>7 DEF Given, SaidByEnv

(* What a flag puts where: to its own field, and nothing else goes there.   *)
LEMMA FlagsGoHome ==
  ASSUME NEW s \in DOMAIN Flags, NEW cli, DOMAIN cli \subseteq Flags[s],
         NEW f \in Fields, f \notin Cleared(DOMAIN cli),
         f \in DOMAIN cli => FlagField(f) = f
  PROVE  /\ f \in DOMAIN ExtractCliOverrides(cli) <=> f \in DOMAIN cli
         /\ f \in DOMAIN cli => ExtractCliOverrides(cli)[f] = cli[f]
<1> DEFINE typed == DOMAIN cli
           places == {FlagField(g) : g \in typed}
           at == [k \in places |-> cli[CHOOSE g \in typed : FlagField(g) = k]]
<1>0. "ca_cert" \notin Fields
  BY DEF Fields, VMConfig
<1>1. ASSUME NEW g \in typed PROVE FlagField(g) = f <=> g = f
  BY <1>0, <1>1 DEF FlagField
<1>2. f \in places <=> f \in typed
  BY <1>1
<1>3. f \in typed => at[f] = cli[f]
  <2> SUFFICES ASSUME f \in typed PROVE at[f] = cli[f]
    OBVIOUS
  <2>1. (CHOOSE g \in typed : FlagField(g) = f) = f
    BY <1>1
  <2> QED BY <1>2, <2>1
<1>4. ExtractCliOverrides(cli) = Before([g \in Cleared(typed) |-> 0], at)
  BY DEF ExtractCliOverrides
<1> HIDE DEF typed, places, at
<1>5. DOMAIN at = places
  BY DEF at
<1>6. /\ DOMAIN ExtractCliOverrides(cli) = Cleared(typed) \cup places
      /\ f \in places => ExtractCliOverrides(cli)[f] = at[f]
  BY <1>4, <1>5 DEF Before, typed
<1> QED BY <1>2, <1>3, <1>6 DEF typed

(* What was cleared is empty.                                              *)
LEMMA ClearedIsEmpty ==
  ASSUME NEW cli, NEW f \in Cleared(DOMAIN cli)
  PROVE  f \in DOMAIN ExtractCliOverrides(cli) /\ ExtractCliOverrides(cli)[f] = 0
  BY DEF ExtractCliOverrides, Before

(* What a command was told, and what came of it.                            *)
Obeyed ==
    \E s \in DOMAIN Flags :
        LET t == done.told IN
        /\ DOMAIN t.cli \subseteq Flags[s]
        /\ t.envs \in EnvFiles
        /\ done.refused => ~Validate(done.cfg)
        /\ \E fleet : /\ t.fleets = <<>> => fleet = <<>>
                      /\ done.cfg = BuildConfig(done.base, fleet, Merge(t.envs), t.cli)

Untold == /\ done.told.cli = <<>> /\ done.told.envs = <<>> /\ done.cfg = done.base
          /\ ~done.refused

LEMMA ToldObeyed ==
  ASSUME NEW t \in Tellings, NEW s \in DOMAIN Flags, Told(s, t)
  PROVE  Obeyed'
<1>1. /\ DOMAIN t.cli \subseteq Flags[s]
      /\ done' = [told |-> t, base |-> Base(t), cfg |-> Built(t),
                  refused |-> s = "gen-vm" /\ ~Validate(Built(t))]
      /\ t.envs \in EnvFiles
  BY DEF Told, Tellings
<1>2. /\ done'.told = t /\ done'.base = Base(t) /\ done'.cfg = Built(t)
      /\ done'.refused => ~Validate(Built(t))
  BY <1>1
<1> DEFINE fleet == FleetEnv(t)
<1>3. t.fleets = <<>> => fleet = <<>>
  BY DEF FleetEnv
<1>4. Built(t) = BuildConfig(Base(t), fleet, Merge(t.envs), t.cli)
  BY DEF Built
<1> HIDE DEF fleet
<1> QED BY <1>1, <1>2, <1>3, <1>4 DEF Obeyed

LEMMA VmStep ==
  ASSUME VmNext PROVE \E t \in Tellings, s \in DOMAIN Flags : Told(s, t)
<1>1. "run-vm" \in DOMAIN Flags
  BY VmAssumption DEF VmAssumption
<1> QED BY <1>1 DEF VmNext, Use, ConvertToLibvirt

LEMMA AlwaysObeyed == VmSpec => [](Untold \/ Obeyed)
<1>1. VmInit => Untold
  BY DEF VmInit, Untold
<1>2. (Untold \/ Obeyed) /\ [VmNext]_vmVars => (Untold \/ Obeyed)'
  <2> SUFFICES ASSUME Untold \/ Obeyed, [VmNext]_vmVars PROVE (Untold \/ Obeyed)'
    OBVIOUS
  <2>1. CASE VmNext
    BY <2>1, VmStep, ToldObeyed
  <2>2. CASE UNCHANGED vmVars
    BY <2>2 DEF vmVars, Untold, Obeyed
  <2> QED BY <2>1, <2>2
<1> QED BY <1>1, <1>2, PTL DEF VmSpec

LEMMA UntoldWins ==
  ASSUME Untold PROVE HighestLayerWins /\ TypedBackingStands
<1>1. \A k : NamedBy(<<>>, k) = {}
  BY DEF NamedBy
<1>2. DOMAIN <<>> = {}
  OBVIOUS
<1> QED BY <1>1, <1>2 DEF Untold, HighestLayerWins, SaidByEnv, TypedBackingStands

LEMMA ObeyedWins ==
  ASSUME Obeyed PROVE HighestLayerWins
<1> DEFINE t == done.told
           env == Merge(t.envs)
           lost == {f \in DOMAIN t.cli : FlagField(f) # f}
           paired == IF Backings \cap DOMAIN t.cli = {} THEN {} ELSE Backings
<1>1. PICK s, fleet :
        /\ s \in DOMAIN Flags
        /\ DOMAIN t.cli \subseteq Flags[s] /\ t.envs \in EnvFiles
        /\ t.fleets = <<>> => fleet = <<>>
        /\ done.cfg = BuildConfig(done.base, fleet, env, t.cli)
  BY DEF Obeyed
<1> SUFFICES ASSUME t.fleets = <<>>, NEW f \in Fields \ (lost \cup paired)
             PROVE  done.cfg[f] =
                      IF f \in DOMAIN t.cli THEN t.cli[f]
                      ELSE IF f \notin NotConfigurable /\ SaidByEnv(t.envs, EnvKey[f])
                           THEN t.envs[Max(NamedBy(t.envs, EnvKey[f]))][EnvKey[f]]
                           ELSE done.base[f]
  BY DEF HighestLayerWins
<1>2. f \notin Cleared(DOMAIN t.cli) /\ (f \in DOMAIN t.cli => FlagField(f) = f)
  BY DEF Cleared, Backings
<1>3. /\ f \in DOMAIN ExtractCliOverrides(t.cli) <=> f \in DOMAIN t.cli
      /\ f \in DOMAIN t.cli => ExtractCliOverrides(t.cli)[f] = t.cli[f]
  BY <1>1, <1>2, FlagsGoHome
<1>4. /\ Given(env, EnvKey[f]) <=> SaidByEnv(t.envs, EnvKey[f])
      /\ SaidByEnv(t.envs, EnvKey[f]) => env[EnvKey[f]] = t.envs[Max(NamedBy(t.envs, EnvKey[f]))][EnvKey[f]]
  BY <1>1, EnvSays
<1> HIDE DEF env, t, lost, paired
<1>5. /\ f \in DOMAIN Overrides(env) <=> f \notin NotConfigurable /\ Given(env, EnvKey[f])
      /\ f \in DOMAIN Overrides(env) => Overrides(env)[f] = env[EnvKey[f]]
  BY DEF Overrides
<1>6. f \notin DOMAIN fleet
  <2>1. DOMAIN <<>> = {}
    OBVIOUS
  <2> QED BY <1>1, <2>1
<1>7. done.cfg[f] = IF f \in DOMAIN ExtractCliOverrides(t.cli) THEN ExtractCliOverrides(t.cli)[f]
                    ELSE IF f \in DOMAIN Overrides(env) THEN Overrides(env)[f] ELSE done.base[f]
  BY <1>1, <1>6 DEF BuildConfig, Over
<1> QED BY <1>3, <1>4, <1>5, <1>7

(* Where no fleet file is given, each setting of a guest is what the       *)
(* highest layer says: a flag, unless that is lost, else the last env file *)
(* that names it, else the domain XML (cli._build_config).                 *)
THEOREM HighestWins == VmSpec => []HighestLayerWins
<1>1. Untold \/ Obeyed => HighestLayerWins
  BY UntoldWins, ObeyedWins
<1> QED BY <1>1, AlwaysObeyed, PTL

LEMMA ObeyedStands ==
  ASSUME Obeyed PROVE TypedBackingStands
<1> DEFINE cli == done.told.cli
<1>1. PICK s, low :
        /\ s \in DOMAIN Flags
        /\ DOMAIN cli \subseteq Flags[s]
        /\ done.cfg = Over(low, ExtractCliOverrides(cli))
        /\ done.refused => ~Validate(done.cfg)
  BY DEF Obeyed, BuildConfig
<1>2. /\ Backings \subseteq Fields
      /\ \A f \in Backings : FlagField(f) = f
  BY DEF Backings, Fields, VMConfig, FlagField
<1>3. ASSUME NEW f \in Backings, f \in DOMAIN cli, f \notin Cleared(DOMAIN cli)
      PROVE  done.cfg[f] = cli[f]
  <2>1. f \in DOMAIN ExtractCliOverrides(cli) /\ ExtractCliOverrides(cli)[f] = cli[f]
    BY <1>1, <1>2, <1>3, FlagsGoHome
  <2> QED BY <1>1, <1>2, <2>1 DEF Over
<1>4. ASSUME NEW f \in Backings, f \in Cleared(DOMAIN cli) PROVE done.cfg[f] = 0
  <2>1. f \in DOMAIN ExtractCliOverrides(cli) /\ ExtractCliOverrides(cli)[f] = 0
    BY <1>4, ClearedIsEmpty
  <2> QED BY <1>1, <1>2, <2>1 DEF Over
<1> HIDE DEF cli
<1> SUFFICES ASSUME NEW f \in Backings, DOMAIN cli \cap Backings = {f}
             PROVE  /\ done.cfg[f] = cli[f] /\ \A g \in Backings \ {f} : done.cfg[g] = 0
                    /\ ~done.refused
  BY DEF TypedBackingStands, cli
<1>5. Cleared(DOMAIN cli) = Backings \ {f}
  BY DEF Cleared, Backings
<1>6. done.cfg[f] = cli[f]
  BY <1>3, <1>5
<1>7. \A g \in Backings \ {f} : done.cfg[g] = 0
  BY <1>4, <1>5
<1>8. ~done.refused
  BY <1>1, <1>7 DEF Validate, Backings
<1> QED BY <1>6, <1>7, <1>8

(* A backing that one flag names is the only one gen-vm is given, and it    *)
(* does not refuse it, whatever env files and fleets say                   *)
(* (cli._extract_cli_overrides, gen_vm._validate).                         *)
THEOREM BackingStands == VmSpec => []TypedBackingStands
<1>1. Untold \/ Obeyed => TypedBackingStands
  BY UntoldWins, ObeyedStands
<1> QED BY <1>1, AlwaysObeyed, PTL

---------------------------------------------------------------------------
(* A domain XML, there and back.                                           *)

(* What is read off a domain XML's hints.                                  *)
LEMMA HintsTell ==
  ASSUME NEW c, NEW f \in Hinted, Arguments(c) # {}, NEW otherwise
  PROVE  Hint(Emit(c), f, otherwise) =
           IF c[f] # VMConfig[f] THEN Split(f, c[f]) ELSE otherwise
  BY DEF Hint, Emit, BuildHints, Hinted

LEMMA NoHints ==
  ASSUME NEW c, NEW f, NEW otherwise, f \notin Hinted \/ Arguments(c) = {}
  PROVE  Hint(Emit(c), f, otherwise) = otherwise
<1>1. DOMAIN <<>> = {}
  OBVIOUS
<1> QED BY <1>1 DEF Hint, Emit, BuildHints, Hinted

LEMMA ElementsTell ==
  ASSUME NEW c
  PROVE  LET cfg == ParseDevices(Emit(c)) IN
         /\ cfg.name = c.name /\ cfg.vcpus = c.vcpus
         /\ c.shared = No => cfg.images = c.images
         /\ cfg.hostfwd = IF c.hostfwd = 1 THEN 1 ELSE 0
         /\ c.agent = Yes => cfg.agent = Yes
         /\ c.agent # Yes => cfg.agent = Hint(Emit(c), "agent", Yes)
         /\ \A f \in {"nvme", "recreate", "shared", "userdev"} : cfg[f] = VMConfig[f]
<1> DEFINE xml == Emit(c)
           disk == IF c.shared = Yes THEN {} ELSE {<<c.images, c.name>>}
<1>1. /\ xml.name = c.name /\ xml.vcpus = c.vcpus
      /\ xml.devices.disk = disk /\ xml.devices.forward = (IF c.hostfwd = 1 THEN 1 ELSE 0)
      /\ xml.devices.channel = (c.agent = Yes)
  BY DEF Emit, EmitDevices
<1>2. disk # {} => (CHOOSE d \in disk : TRUE) = <<c.images, c.name>>
  OBVIOUS
<1>3. No # Yes
  BY DEF No, Yes
<1> HIDE DEF xml
<1>4. VMConfig.agent = Yes
  BY DEF VMConfig
<1> DEFINE cfg == ParseDevices(xml)
<1>5. /\ cfg.name = c.name /\ cfg.vcpus = c.vcpus
      /\ c.shared = No => cfg.images = c.images
      /\ cfg.hostfwd = IF c.hostfwd = 1 THEN 1 ELSE 0
  BY <1>1, <1>2, <1>3 DEF ParseDevices, VMConfig
<1>6. cfg.agent = IF xml.devices.channel THEN Yes ELSE Hint(xml, "agent", Yes)
  <2> DEFINE other == Hint(xml, "agent", VMConfig.agent)
  <2>1. other = Hint(xml, "agent", Yes)
    BY <1>4
  <2> HIDE DEF other
  <2>2. cfg.agent = IF xml.devices.channel THEN Yes ELSE other
    BY DEF ParseDevices, VMConfig, other
  <2> QED BY <2>1, <2>2
<1>7. /\ c.agent = Yes => cfg.agent = Yes
      /\ c.agent # Yes => cfg.agent = Hint(xml, "agent", Yes)
  BY <1>1, <1>6
<1>8. /\ cfg.nvme = VMConfig.nvme /\ cfg.recreate = VMConfig.recreate
      /\ cfg.shared = VMConfig.shared /\ cfg.userdev = VMConfig.userdev
  BY DEF ParseDevices, VMConfig
<1> HIDE DEF cfg
<1>9. \A f \in {"nvme", "recreate", "shared", "userdev"} : cfg[f] = VMConfig[f]
  BY <1>8
<1> QED BY <1>5, <1>9, <1>7 DEF cfg, xml

LEMMA ThereAndBack ==
  ASSUME NEW c, CanEmit(c)
  PROVE  LET back == Parse(Emit(c)) IN
         /\ \A f \in Elements : back[f] = c[f]
         /\ c.shared = No => back.images = c.images
         /\ Arguments(c) # {} /\ Whole(c) => \A f \in Hinted : back[f] = c[f]
         /\ back.userdev # 0 => c.switch = 0
<1> DEFINE xml == Emit(c)
           cfg == ParseDevices(xml)
           back == Parse(xml)
<1>1. /\ cfg.name = c.name /\ cfg.vcpus = c.vcpus
      /\ c.shared = No => cfg.images = c.images
      /\ cfg.hostfwd = IF c.hostfwd = 1 THEN 1 ELSE 0
      /\ c.agent = Yes => cfg.agent = Yes
      /\ c.agent # Yes => cfg.agent = Hint(xml, "agent", Yes)
      /\ \A f \in {"nvme", "recreate", "shared", "userdev"} : cfg[f] = VMConfig[f]
  BY ElementsTell
<1> HIDE DEF cfg, xml
<1>2. \A f \in Fields : back[f] = IF f = "agent" THEN cfg[f] ELSE Hint(xml, f, cfg[f])
  BY DEF Parse, ApplyHints, cfg
<1> HIDE DEF back
<1>3. Hinted \cup Elements \cup {"images"} \subseteq Fields
  BY DEF Hinted, Elements, Fields, VMConfig
<1>4. \A f \in Elements \cup {"images"} : back[f] = cfg[f]
  BY <1>2, <1>3, NoHints DEF Elements, Hinted, xml
<1>5. ASSUME Arguments(c) # {}, Whole(c), NEW f \in Hinted PROVE back[f] = c[f]
  <2>0. Split(f, c[f]) = c[f]
    BY <1>5 DEF Split, Whole
  <2>1. \A other : Hint(xml, f, other) = IF c[f] # VMConfig[f] THEN c[f] ELSE other
    BY <1>5, <2>0, HintsTell DEF xml
  <2>2. CASE f = "agent"
    BY <1>1, <1>2, <1>3, <2>1, <2>2 DEF VMConfig
  <2>3. CASE f = "hostfwd"
    BY <1>1, <1>2, <1>3, <2>1, <2>3 DEF VMConfig
  <2>4. CASE f \in {"nvme", "recreate", "shared", "userdev"}
    BY <1>1, <1>2, <1>3, <2>1, <2>4
  <2> QED BY <2>2, <2>3, <2>4 DEF Hinted
<1>6. ASSUME back.userdev # 0 PROVE c.userdev # 0
  <2>1. VMConfig.userdev = 0 /\ "userdev" \in Hinted /\ "userdev" \in Fields
    BY DEF VMConfig, Hinted, Fields
  <2>2. back.userdev = Hint(xml, "userdev", cfg.userdev) /\ cfg.userdev = 0
    BY <1>1, <1>2, <2>1
  <2>3. CASE Arguments(c) = {}
    BY <1>6, <2>2, <2>3, NoHints DEF xml
  <2>4. CASE Arguments(c) # {}
    BY <1>6, <2>1, <2>2, <2>4, HintsTell DEF xml
  <2> QED BY <2>3, <2>4
<1> QED BY <1>1, <1>4, <1>5, <1>6 DEF CanEmit, Elements, back, xml

Written == \E c : CanEmit(c) /\ domain = [from |-> c, xml |-> Emit(c)]

(* A domain XML gives back the guest it was written from - its hints where  *)
(* there is an argument to write them beside and no ';' in a text - what-   *)
(* ever the guest's settings are and wherever they came from                *)
(* (libvirt_xml.py).                                                       *)
THEOREM GuestKept == VmSpec => []DomainKeepsGuest
<1> DEFINE Inv == domain = NoDomain \/ Written
<1>1. VmInit => Inv
  BY DEF VmInit
<1>2. Inv /\ [VmNext]_vmVars => Inv'
  <2> SUFFICES ASSUME Inv, [VmNext]_vmVars PROVE Inv'
    OBVIOUS
  <2>1. ASSUME NEW t \in Tellings, ConvertToLibvirt(t) PROVE Written'
    BY <2>1 DEF ConvertToLibvirt, Written
  <2>2. ASSUME NEW t \in Tellings, NEW s \in DOMAIN Flags, Use(s, t) PROVE domain' = domain
    BY <2>2 DEF Use
  <2>3. domain' = domain => Inv'
    BY DEF Written
  <2> QED BY <2>1, <2>2, <2>3 DEF VmNext, vmVars
<1>3. Inv => DomainKeepsGuest
  <2> SUFFICES ASSUME Inv, domain # NoDomain PROVE DomainKeepsGuest
    BY DEF DomainKeepsGuest
  <2>1. PICK c : CanEmit(c) /\ domain = [from |-> c, xml |-> Emit(c)]
    BY DEF Written
  <2>2. domain.from = c /\ domain.xml = Emit(c)
    BY <2>1
  <2> QED BY <2>1, <2>2, ThereAndBack DEF DomainKeepsGuest
<1> QED BY <1>1, <1>2, <1>3, PTL DEF VmSpec
=============================================================================
