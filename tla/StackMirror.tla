---------------------------- MODULE StackMirror ----------------------------
(* gen-compose writing a stack: it renders the three generated files, then *)
(* mirrors the assets of the repository's stack into the output directory, *)
(* deleting what the repository does not have and keeping what the stack   *)
(* was told to store its data in. The output directory is shared: its      *)
(* operator edits it, Docker creates missing bind-mount sources there, the *)
(* containers write their data, at any moment of a run. Any read, write or *)
(* copy may fail, for want of a permission or of room.                     *)
EXTENDS Naturals, Sequences

CONSTANTS Paths,     \* the paths of a stack directory, sequences of names
          Source,    \* what the repository's stack has at each of them
          Assets,    \* the top-level names every rendered stack refers to
          Settings,  \* per fleet: the relative paths its data is to live in
          Files,     \* the generated files
          Torn,      \* what a generated file holds that is no rendering
          Places,    \* what the generated files may be found as
          Trees,     \* the output directories a behaviour may start from
          Outside,   \* what is found at a path when it is reached by a link
          Stuck,     \* paths that, in some behaviours, cannot be removed
          MaxEdits   \* changes by others, kills and failures in a behaviour

(* A path is absent, a directory, a symbolic link, or a file: one of the    *)
(* repository's or one of the operator's.                                   *)
Kinds == {"none", "dir", "link", "repo", "user"}

IsPrefixOf(p, q) == Len(p) <= Len(q) /\ SubSeq(q, 1, Len(p)) = p
Under(a) == {p \in Paths : IsPrefixOf(a, p)}
Above(p) == {q \in Paths : IsPrefixOf(q, p) /\ q # p}

PathsAssumption ==
    /\ Paths \subseteq Seq(STRING)
    /\ \A p \in Paths : Len(p) > 0
SourceAssumption ==
    /\ Source \in [Paths -> {"none", "dir", "repo"}]
    /\ Assets \subseteq {p \in Paths : Len(p) = 1 /\ Source[p] # "none"}
    /\ \A p \in Paths : Source[p] # "none" => \A q \in Above(p) : Source[q] = "dir"
(* No fleet keeps its data below a name that is a file in the repository.   *)
DataAssumption ==
    /\ Settings \subseteq SUBSET Paths
    /\ \A s \in Settings : \A r \in s : \A q \in Above(r) : Source[q] # "repo"
(* A generated file is a file (or absent), a link to one elsewhere, or a    *)
(* directory Docker created for a bind mount.                               *)
PlaceKinds == {"file", "link", "dir"}
FilesAssumption == Places \subseteq [Files -> PlaceKinds] /\ Torn \notin Settings
(* copy2 onto a directory puts the file inside it, under its own name.      *)
Inner(p) == Append(p, p[Len(p)])
InnerAssumption == \A p \in Paths : Source[p] = "repo" => Inner(p) \in Paths

VARIABLES tree,      \* the output directory
          outside,   \* what lies behind the links
          aliased,   \* assets linked to the repository's own
          place,     \* what each generated file is found as
          stuck,     \* the paths that cannot be removed
          settings,  \* the fleet asked for
          rendered,  \* the fleet each generated file was rendered for, or Torn
          pc,        \* step of the run
          fleet,     \* the fleet the run renders
          todo,      \* assets, then generated files, the run has not done
          asset, diff, \* the asset it is at, and how it found it
          problems,  \* it has something to report at its end
          exit,      \* "none" (running or never run), "ok", "problems", "died"
          failed,    \* a read, a write or a copy of the run failed
          quiet,     \* nobody else changed the stack since the run started
          edits
world == <<tree, outside, aliased, place, stuck, settings>>
vars == <<tree, outside, aliased, place, stuck, settings, rendered, pc, fleet, todo,
          asset, diff, problems, exit, failed, quiet, edits>>

Is(p, t) == t[p] # "none"
WellFormed(t) == \A p \in Paths : Is(p, t) => \A q \in Above(p) : t[q] = "dir"
TreesAssumption == /\ Trees \subseteq {t \in [Paths -> Kinds] : WellFormed(t)}
                   /\ Outside \in [Paths -> {"none", "dir", "user"}]
ASSUME StackAssumption == /\ PathsAssumption /\ SourceAssumption /\ DataAssumption
                          /\ FilesAssumption /\ InnerAssumption /\ TreesAssumption

NoDiff == [missing |-> {}, modified |-> {}, retyped |-> {}, extra |-> {}, unowned |-> {}]

---------------------------------------------------------------------------
(* References of the compose file the repository has nothing for: the       *)
(* operator's, at any depth. A top-level one is no asset to begin with.     *)
Protected(s) == {r \in s : Len(r) > 1 /\ ~Is(r, Source)}
Shields_NotAncestors(r, p) == IsPrefixOf(r, p)
Shields(r, p) == IsPrefixOf(r, p) \/ IsPrefixOf(p, r)
Kept(p, s) == \E r \in Protected(s) : Shields(r, p)
(* The assets: names the compose file refers to, itself or for a fleet's    *)
(* data, of which the repository has something that the stack does not hold *)
(* a link to already.                                                       *)
Referred(s) == Assets \union
    {a \in Paths : Len(a) = 1 /\ Is(a, Source) /\ \E r \in s : IsPrefixOf(a, r)}
Owned(s) == Referred(s) \ aliased

(* What the file system shows at a path, links followed.                    *)
Through(p, t) == \E q \in Paths : IsPrefixOf(q, p) /\ t[q] = "link"
Looks(p, t) == IF Through(p, t) THEN outside[p] ELSE t[p]
Retyped(p, t) == /\ Looks(p, t) # "none"
                 /\ (Looks(p, t) = "dir") # (Source[p] = "dir")

(* _walk_owned: the links it will not cross, and the real paths it finds.   *)
Links_Below(a, t) == {p \in Under(a) \ {a} : t[p] = "link"}
Links(a, t) == {p \in Under(a) : t[p] = "link"}
Present(a, t) == {p \in Under(a) : Looks(p, t) # "none"}

(* _asset_diff. An asset that is itself of the wrong type is replaced as it *)
(* is; one with a link on it is left alone; any other is compared path by   *)
(* path.                                                                    *)
Missing_Unseen(a, t) == {}
Missing(a, t) == {p \in Under(a) : Is(p, Source)} \ Present(a, t)
Extra(a, t, s) == {p \in Present(a, t) : ~Is(p, Source) /\ ~Kept(p, s)}
AssetDiff(a, t, s) ==
    LET both == {p \in Present(a, t) : Is(p, Source)}
        retyped == {p \in both : Retyped(p, t)}
        edited == {p \in both : Source[p] = "repo" /\ Looks(p, t) = "user"}
    IN CASE a \in Links(a, t) -> [NoDiff EXCEPT !.unowned = {a}]
         [] a \notin Links(a, t) /\ a \in retyped ->
              [NoDiff EXCEPT !.modified = {a}, !.retyped = {a}]
         [] Links(a, t) # {} /\ a \notin Links(a, t) /\ a \notin retyped ->
              [NoDiff EXCEPT !.unowned = Links(a, t)]
         [] OTHER -> [missing |-> Missing(a, t), modified |-> retyped \union edited,
                      retyped |-> retyped, extra |-> Extra(a, t, s), unowned |-> {}]

(* --check: nothing a regeneration would write, copy, remove or refuse.     *)
UpToDate == /\ \A f \in Files : rendered[f] = settings
            /\ \A a \in Owned(settings) :
                 LET d == AssetDiff(a, tree, settings)
                 IN d.missing = {} /\ d.modified = {} /\ d.extra = {} /\ d.unowned = {}

---------------------------------------------------------------------------
Init == /\ tree \in Trees
        /\ outside = Outside
        /\ aliased = {} /\ place \in Places
        /\ stuck \in {{}, Stuck}
        /\ settings \in Settings
        /\ rendered = [f \in Files |-> {}]
        /\ pc = "idle" /\ fleet = settings /\ todo = {} /\ asset = <<>> /\ diff = NoDiff
        /\ problems = FALSE /\ exit = "none" /\ failed = FALSE /\ quiet = FALSE /\ edits = 0

Start == /\ pc = "idle"
         /\ pc' = "write" /\ fleet' = settings /\ todo' = Files
         /\ problems' = FALSE /\ exit' = "none" /\ failed' = FALSE /\ quiet' = TRUE
         /\ UNCHANGED <<world, edits, rendered, asset, diff>>

(* write_text follows a link. Where it fails, the file may be left torn,    *)
(* and the error ends the run.                                              *)
Died == /\ pc' = "idle" /\ exit' = "died" /\ diff' = NoDiff /\ todo' = {} /\ asset' = <<>>
Fails == Died /\ failed' = TRUE /\ edits < MaxEdits /\ edits' = edits + 1
Write(f) == /\ pc = "write" /\ f \in todo /\ place[f] # "dir"
            /\ rendered' = [rendered EXCEPT ![f] = fleet]
            /\ todo' = IF todo = {f} THEN Owned(fleet) ELSE todo \ {f}
            /\ pc' = IF todo = {f} THEN "assets" ELSE "write"
            /\ UNCHANGED <<world, edits, fleet, asset, diff, problems, exit, failed, quiet>>
WriteFails(f) ==
    /\ pc = "write" /\ f \in todo /\ Fails
    /\ \/ rendered' = rendered
       \/ place[f] # "dir" /\ rendered' = [rendered EXCEPT ![f] = Torn]
    /\ UNCHANGED <<world, fleet, problems, quiet>>

(* The next asset: refused for its links, or to be mirrored.                *)
Refusal_Printed(d) == FALSE
Refusal(d) == d.unowned # {}
Compare(a) ==
    /\ pc = "assets" /\ a \in todo
    /\ asset' = a /\ todo' = todo \ {a}
    /\ diff' = AssetDiff(a, tree, fleet)
    /\ problems' = (problems \/ Refusal(diff'))
    /\ pc' = IF diff'.unowned = {} THEN "retype" ELSE "assets"
    /\ UNCHANGED <<world, edits, rendered, fleet, exit, failed, quiet>>
CompareFails(a) == /\ pc = "assets" /\ a \in todo /\ Fails
                   /\ UNCHANGED <<world, rendered, fleet, problems, quiet>>

(* Removing p: unlink, or rmtree, which removes the links it finds, refuses *)
(* to start at one, and stops at the first entry it cannot remove, with any *)
(* of the others gone.                                                      *)
Beyond(p) == \E q \in Above(p) : tree[q] = "link"
Entries(p) == {q \in Under(p) : Is(q, IF Beyond(p) THEN outside ELSE tree)}
Removable(p) == /\ Entries(p) # {} /\ Entries(p) \cap stuck = {}
                /\ ~(tree[p] = "link" /\ outside[p] = "dir")
PartOf(p) == {g \in SUBSET (Entries(p) \ stuck) :
                p \notin g /\ \A q \in g : Entries(q) \subseteq g}
Without(f, gone) == [q \in Paths |-> IF q \in gone THEN "none" ELSE f[q]]
Gone(p, gone) ==
    IF Beyond(p) THEN outside' = Without(outside, gone) /\ tree' = tree
    ELSE tree' = Without(tree, gone) /\ outside' = outside

(* An entry of the wrong type goes before the copy; if it cannot, the error *)
(* ends the run.                                                            *)
Retype(p) ==
    /\ pc = "retype" /\ p \in diff.retyped
    /\ \/ /\ Removable(p) /\ Gone(p, Entries(p))
          /\ diff' = [diff EXCEPT !.retyped = @ \ {p}]
          /\ UNCHANGED <<pc, exit, todo, asset>>
       \/ /\ ~Removable(p)
          /\ \E g \in PartOf(p) : Gone(p, g)
          /\ Died
    /\ UNCHANGED <<aliased, place, stuck, settings, edits, rendered, fleet, problems, failed, quiet>>

(* copytree makes a directory where there is none and raises on any other   *)
(* entry there; copy2 puts a file inside a directory it finds in its place; *)
(* both write through the links they meet. What fails (bad) leaves a        *)
(* directory unmade, a file absent, as it was or torn; copytree copies all  *)
(* it can and then raises.                                                  *)
Wanted(a) == {p \in Under(a) : Is(p, Source)}
Unmade(bad) == {q \in Wanted(asset) : /\ Source[q] = "dir" /\ Looks(q, tree) # "dir"
                                      /\ q \in bad \/ Is(q, tree) \/ Looks(q, tree) # "none"}
Landing(p) == IF Source[p] = "repo" /\ Looks(p, tree) = "dir" THEN Inner(p) ELSE p
Blocked(bad) == {p \in Wanted(asset) : \/ \E q \in Unmade(bad) : IsPrefixOf(q, p)
                                       \/ Source[p] = "repo" /\ Looks(Landing(p), tree) = "dir"}
Copied(placed, stray, t, behind) ==
    [x \in Paths |-> CASE behind # Through(x, tree) -> t[x]
                       [] behind = Through(x, tree) /\ x \in placed -> Source[x]
                       [] behind = Through(x, tree) /\ x \in stray \ placed -> "user"
                       [] OTHER -> t[x]]
Copy(bad, torn) ==
    /\ pc = "retype" /\ diff.retyped = {}
    /\ \/ bad = {} /\ UNCHANGED <<failed, edits>>
       \/ bad # {} /\ failed' = TRUE /\ edits < MaxEdits /\ edits' = edits + 1
    /\ bad \subseteq Wanted(asset)
    /\ torn \subseteq {p \in bad \ Blocked(bad) : Source[p] = "repo"}
    /\ LET whole == Wanted(asset) \ (bad \union Blocked(bad))
           placed == {p \in whole : Landing(p) = p}
           stray == {Landing(p) : p \in (whole \ placed) \union torn}
       IN /\ tree' = Copied(placed, stray, tree, FALSE)
          /\ outside' = Copied(placed, stray, outside, TRUE)
    /\ IF bad \union Blocked(bad) = {}
       THEN pc' = "prune" /\ UNCHANGED <<exit, diff, todo, asset>>
       ELSE Died
    /\ UNCHANGED <<aliased, place, stuck, settings, rendered, fleet, problems, quiet>>

(* What the repository does not have, deepest first; what cannot be removed *)
(* is remembered and the rest goes on.                                      *)
PruneFails_Raises(p) == Died
PruneFails(p) == /\ diff' = [diff EXCEPT !.extra = @ \ {p}]
                 /\ UNCHANGED <<pc, exit, todo, asset>>
Prune(p) ==
    /\ pc = "prune" /\ p \in diff.extra
    /\ Under(p) \cap diff.extra = {p}
    /\ \/ /\ Removable(p) /\ Gone(p, Entries(p))
          /\ diff' = [diff EXCEPT !.extra = @ \ {p}]
          /\ UNCHANGED <<pc, exit, todo, asset, problems>>
       \/ /\ ~Removable(p)
          /\ \E g \in PartOf(p) : Gone(p, g)
          /\ problems' = TRUE /\ PruneFails(p)
    /\ UNCHANGED <<aliased, place, stuck, settings, edits, rendered, fleet, failed, quiet>>

NextAsset == /\ pc = "prune" /\ diff.extra = {} /\ pc' = "assets"
             /\ UNCHANGED <<world, edits, rendered, fleet, todo, asset, diff, problems, exit, failed,
                            quiet>>

Finish == /\ pc = "assets" /\ todo = {}
          /\ pc' = "idle" /\ exit' = IF problems THEN "problems" ELSE "ok"
          /\ asset' = <<>> /\ diff' = NoDiff
          /\ UNCHANGED <<world, edits, rendered, fleet, todo, problems, failed, quiet>>

---------------------------------------------------------------------------
(* A kill, at any step of the run.                                          *)
Kill == /\ pc # "idle" /\ edits < MaxEdits /\ edits' = edits + 1
        /\ Died /\ quiet' = FALSE
        /\ UNCHANGED <<tree, outside, aliased, place, stuck, settings, rendered, fleet,
                       problems, failed>>

(* Anyone else, at any moment: the operator edits, links and deletes,       *)
(* Docker creates a bind-mount source, a container writes its data.         *)
Edit(p, k) ==
    /\ edits < MaxEdits /\ edits' = edits + 1
    /\ tree[p] # k
    /\ k # "none" => \A q \in Above(p) : tree[q] = "dir"
    /\ k # "dir" => \A q \in Under(p) \ {p} : ~Is(q, tree)
    /\ tree' = [tree EXCEPT ![p] = k] /\ aliased' = aliased \ {p} /\ quiet' = FALSE
    /\ UNCHANGED <<outside, place, stuck, settings, rendered, pc, fleet, todo, asset, diff,
                   problems, exit, failed>>

(* A generated file is edited, linked elsewhere or made a directory.        *)
EditFile(f, k) ==
    /\ edits < MaxEdits /\ edits' = edits + 1
    /\ place' = [place EXCEPT ![f] = k] /\ rendered' = [rendered EXCEPT ![f] = Torn]
    /\ quiet' = FALSE
    /\ UNCHANGED <<tree, outside, aliased, stuck, settings, pc, fleet, todo, asset, diff,
                   problems, exit, failed>>

(* An asset is replaced by a link to the repository's own (between runs).   *)
Alias(a) ==
    /\ edits < MaxEdits /\ edits' = edits + 1 /\ pc = "idle"
    /\ Len(a) = 1 /\ Is(a, Source)
    /\ tree' = [q \in Paths |-> IF q = a THEN "link" ELSE IF q \in Under(a) THEN "none" ELSE tree[q]]
    /\ aliased' = aliased \union {a} /\ quiet' = FALSE
    /\ UNCHANGED <<outside, place, stuck, settings, rendered, pc, fleet, todo, asset, diff,
                   problems, exit, failed>>

(* The fleet is changed.                                                    *)
Resettle == /\ edits < MaxEdits /\ edits' = edits + 1
            /\ settings' \in Settings \ {settings}
            /\ UNCHANGED <<tree, outside, aliased, place, stuck, rendered, pc, fleet, todo,
                           asset, diff, problems, exit, failed, quiet>>

Run == \/ Start \/ NextAsset \/ Finish
       \/ \E f \in Files : Write(f) \/ WriteFails(f)
       \/ \E p \in Paths : Compare(p) \/ CompareFails(p) \/ Retype(p) \/ Prune(p)
       \/ \E bad \in SUBSET Wanted(asset) : \E torn \in SUBSET bad : Copy(bad, torn)
Others == \/ Kill \/ Resettle
          \/ \E p \in Paths, k \in Kinds \ {"repo"} : Edit(p, k)
          \/ \E f \in Files, k \in PlaceKinds : EditFile(f, k)
          \/ \E a \in Paths : Alias(a)
Next == Run \/ Others
Spec == Init /\ [][Next]_vars

---------------------------------------------------------------------------
(* What the fleet keeps its data in survives every step of a run, with all  *)
(* that is below it, whoever else is at work: _protected_paths, and the     *)
(* ancestors _asset_diff shields. The one exception is an entry of the      *)
(* wrong type that somebody makes a directory with data in it after it was  *)
(* compared and before it is replaced.                                      *)
ReferencedDataKept ==
    [][\A p \in Paths : tree'[p] # tree[p] /\ (\E r \in Protected(fleet) : IsPrefixOf(r, p))
         => \/ Others
            \/ ~quiet /\ \E q \in diff.retyped : IsPrefixOf(q, p)]_vars

(* A run alone in the directory deletes and writes nothing that lies behind *)
(* a link (_walk_owned's invariant), but for a generated file that is a     *)
(* link itself: that one is written through it, once, before the mirror.    *)
Exposed == [f \in {g \in Files : place[g] = "link"} |-> rendered[f]]
MirrorStaysInside ==
    [][quiet /\ quiet' => /\ outside' = outside
                          /\ Exposed' = Exposed \/ \E f \in todo : Write(f) \/ WriteFails(f)]_vars

(* What a mirrored asset is: what the repository has, and besides it only   *)
(* what the fleet's data shields, with no link on it.                       *)
Mirrored(a, s) == \A p \in Under(a) :
    /\ tree[p] # "link"
    /\ IF Is(p, Source) THEN tree[p] = Source[p] ELSE Is(p, tree) => Kept(p, s)

(* A run that says it succeeded, undisturbed, has mirrored every asset and  *)
(* rendered all three files, however often it was killed before.            *)
SuccessIsMirrored ==
    exit = "ok" /\ quiet => /\ \A a \in Owned(fleet) : Mirrored(a, fleet)
                            /\ \A f \in Files : rendered[f] = fleet

(* --check says up to date of exactly the directories a regeneration would  *)
(* leave as they are.                                                       *)
CheckIsExact ==
    pc = "idle" => (UpToDate <=> /\ \A a \in Owned(settings) : Mirrored(a, settings)
                                 /\ \A f \in Files : rendered[f] = settings)

(* Whether the run left a alone for its links, or with all the repository   *)
(* has in it.                                                               *)
Complete(a) == \/ Links(a, tree) # {}
               \/ \A p \in Wanted(a) : tree[p] = Source[p]

(* What cannot be pruned costs no asset its files: every undisturbed run    *)
(* that comes to its end, whether or not it reports problems, leaves every  *)
(* asset refused or complete. One that does not was ended by a read, a      *)
(* write or a copy that failed, or by an entry of the wrong type that could *)
(* not be removed.                                                          *)
FailuresCostNoAsset ==
    exit # "none" /\ quiet =>
        \/ \A a \in Owned(fleet) : Complete(a)
        \/ /\ exit = "died"
           /\ failed \/ \E p \in Paths : /\ Is(p, Source) /\ Retyped(p, tree)
                                          /\ Entries(p) \cap stuck # {}
=============================================================================
