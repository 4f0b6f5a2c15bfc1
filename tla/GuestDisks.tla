----------------------------- MODULE GuestDisks -----------------------------
(***************************************************************************)
(* The images directory: backing images, the tag recorded beside each, and *)
(* the overlays that stand on them.  gen-vm by hand, the overlay steps of  *)
(* `quick-start up`, `qcow --clean` and the running guests all work on the *)
(* same files and lock none of them (VM_BACKING_SHARED switches QEMU's own *)
(* image locking off); each can be killed between two steps.               *)
(*                                                                         *)
(* A qcow2 is abstracted to its content: a published tag, the result of a  *)
(* bake, or an unfinished file.  An overlay remembers the content it was   *)
(* created over; over any other content it is garbage.                     *)
(***************************************************************************)
EXTENDS Integers

CONSTANTS
  N,        \* guests of the fleet; guest 1 owns the backing they share
  T,        \* published tags 1..T; the settings file names one of them
  Modes,    \* the ways users run gen-vm by hand
  MaxGens,  \* bound: gen-vm runs by hand
  MaxUps    \* bound: runs of `quick-start up`

AllModes == {"image", "file", "restore", "ansible", "bake"}

ASSUME NAssumption     == N \in Nat \ {0}
ASSUME TAssumption     == T \in Nat \ {0}
ASSUME ModesAssumption == Modes \subseteq AllModes
ASSUME BoundAssumption == MaxGens \in Nat /\ MaxUps \in Nat

VMs        == 1 .. N
Tags       == 1 .. T
None       == 0            \* no such file, no such tag
Unfinished == -1           \* half copied, half unpacked, or a guest's live disk
Contents   == -1 .. (T + MaxGens)    \* T + n: the result of the n-th gen-vm run
Alone      == N + 1        \* an "overlay" that is a whole image (--no-backing)

VARIABLES
  backing,   \* <vm>-backing.qcow2: its content, or None
  ref,       \* <vm>-backing.qcow2.image-ref: a tag, or None
  overlay,   \* <vm>.qcow2: whose backing file it names; None, or Alone
  base,      \* the content that backing file had when <vm>.qcow2 was made
  newest,    \* <backing-ref> of the settings file
  pc, job,   \* the gen-vm working on each VM: its step, its command line
  upPc, upAt,\* `quick-start up`: its step and guest
  cleaner,   \* `qcow --clean` of each VM
  running,   \* VMs whose QEMU has <vm>.qcow2 open
  writers,   \* history: how each backing file was ever written
  cut,       \* history: VMs with a pull over a recorded tag begun, none ended since
  gens, ups  \* runs so far

disk  == <<backing, ref, overlay, base>>
up    == <<upPc, upAt>>
count == <<gens, ups>>
hist  == <<writers, cut>>
vars  == <<disk, newest, pc, job, up, cleaner, running, hist, count>>

NoJob == [mode |-> "image", tag |-> 1, force |-> FALSE, noBacking |-> FALSE,
          by |-> "user"]

(* One command at a time works on one VM name: nothing in the code sees to *)
(* it, users do.  (The shared backing file is everybody's.)                *)
Free(v) == pc[v] = "idle" /\ cleaner[v] = "idle"

Goes(v, to) == pc' = [pc EXCEPT ![v] = to]

Remove(v) ==
  /\ overlay' = [overlay EXCEPT ![v] = None]
  /\ base'    = [base EXCEPT ![v] = None]

(* _create_overlay, `qemu-img create` in qcow, rename: nothing is locked,  *)
(* an overlay in use is overwritten.                                       *)
Place(v, on, content) ==
  /\ overlay' = [overlay EXCEPT ![v] = on]
  /\ base'    = [base EXCEPT ![v] = content]

Init ==
  /\ backing = [v \in VMs |-> None] /\ ref = [v \in VMs |-> None]
  /\ overlay = [v \in VMs |-> None] /\ base = [v \in VMs |-> None]
  /\ newest = 1
  /\ pc = [v \in VMs |-> "idle"]
  /\ job = [v \in VMs |-> NoJob]
  /\ upPc = "idle" /\ upAt = 1
  /\ cleaner = [v \in VMs |-> "idle"]
  /\ running = {}
  /\ writers = [v \in VMs |-> {}] /\ cut = {}
  /\ gens = 0 /\ ups = 0

(* The user edits <backing-ref>: a later tag, or back to an earlier one.   *)
(* quick-start reads the file once, so an edit while it runs comes later.  *)
Upgrade ==
  /\ upPc = "idle" /\ newest' \in Tags \ {newest}
  /\ UNCHANGED <<disk, pc, job, up, cleaner, running, hist, count>>

-----------------------------------------------------------------------------
(* gen-vm: run(), from its first look at the files to the overlay.         *)

(* The backing file an overlay of v will name. *)
Target(v, m) == IF m = "file" THEN 1 ELSE v

FirstStep == [image |-> "check", file |-> "overlay", restore |-> "overlay",
              ansible |-> "bake", bake |-> "bake"]

(* _validate, the existence checks of each mode, _check_not_in_use. *)
Accepts(v, m) ==
  /\ m \in {"file", "restore", "ansible"} => backing[Target(v, m)] # None
  /\ m = "restore" => ~(overlay[v] # None /\ v \in running)

Begin(v, m, t, f, nb, who) ==
  /\ Free(v) /\ Accepts(v, m)
  /\ Goes(v, FirstStep[m])
  /\ job' = [job EXCEPT ![v] = [mode |-> m, tag |-> t, force |-> f,
                                noBacking |-> nb, by |-> who]]

(* By hand, with any published tag as --backing-image. *)
GenVm(v) ==
  /\ gens < MaxGens
  /\ \E m \in Modes, t \in Tags, f, nb \in BOOLEAN :
       /\ m # "image" => ~f /\ t = newest
       /\ nb => m \in {"ansible", "bake"}
       /\ Begin(v, m, t, f, nb, "user")
  /\ gens' = gens + 1
  /\ UNCHANGED <<disk, newest, up, cleaner, running, hist, ups>>

(* The process is done with v; quick-start goes on to its next guest. *)
Finish(v) ==
  /\ Goes(v, "idle") /\ job' = [job EXCEPT ![v] = NoJob]
  /\ upAt' = IF job[v].by = "up" THEN upAt + 1 ELSE upAt
  /\ UNCHANGED upPc

UpToDate(v) == ~job[v].force /\ backing[v] # None /\ ref[v] = job[v].tag

(* Mutant: the overlay of the old backing image is kept. *)
Check_KeepsStale(v) ==
  /\ pc[v] = "check"
  /\ Goes(v, IF UpToDate(v) THEN "overlay" ELSE "pull")
  /\ UNCHANGED <<disk, newest, job, up, cleaner, running, hist, count>>

(* _fetch_backing_image up to the pull: an image that is up to date is     *)
(* kept, and the overlay of one that is not is removed first.              *)
Check(v) ==
  /\ pc[v] = "check"
  /\ Goes(v, IF UpToDate(v) THEN "overlay" ELSE "pull")
  /\ IF ~UpToDate(v) /\ backing[v] # None /\ ~job[v].force
     THEN Remove(v)
     ELSE UNCHANGED <<overlay, base>>
  /\ UNCHANGED <<backing, ref, newest, job, up, cleaner, running, hist, count>>

(* Mutant: the tag is recorded before the image is there. *)
Unpack_RefFirst(v) ==
  /\ pc[v] = "pull"
  /\ Goes(v, "unpack")
  /\ backing' = [backing EXCEPT ![v] = Unfinished]
  /\ ref' = [ref EXCEPT ![v] = job[v].tag]
  /\ writers' = [writers EXCEPT ![v] = @ \union {IF job[v].force THEN "force" ELSE "pull"}]
  /\ cut' = IF ref[v] # None THEN cut \union {v} ELSE cut
  /\ UNCHANGED <<overlay, base, newest, job, up, cleaner, running, count>>

(* `oras pull` into a temporary directory; then zstd or cp begins to write *)
(* the backing file under its final name.                                  *)
Unpack(v) ==
  /\ pc[v] = "pull"
  /\ Goes(v, "unpack")
  /\ backing' = [backing EXCEPT ![v] = Unfinished]
  /\ writers' = [writers EXCEPT ![v] = @ \union {IF job[v].force THEN "force" ELSE "pull"}]
  /\ cut' = IF ref[v] # None THEN cut \union {v} ELSE cut
  /\ UNCHANGED <<ref, overlay, base, newest, job, up, cleaner, running, count>>

Unpacked(v) ==
  /\ pc[v] = "unpack"
  /\ Goes(v, "ref")
  /\ backing' = [backing EXCEPT ![v] = job[v].tag]
  /\ UNCHANGED <<ref, overlay, base, newest, job, up, cleaner, running, hist, count>>

WriteRef(v) ==
  /\ pc[v] = "ref"
  /\ Goes(v, "overlay")
  /\ ref' = [ref EXCEPT ![v] = job[v].tag]
  /\ cut' = cut \ {v}
  /\ UNCHANGED <<backing, overlay, base, newest, job, up, cleaner, running, writers, count>>

(* cp of the cloud image over the backing file and the first boot, or      *)
(* --ansible-only: the backing image itself is a guest's root disk.        *)
Bake(v) ==
  /\ pc[v] = "bake"
  /\ Goes(v, "baking")
  /\ backing' = [backing EXCEPT ![v] = Unfinished]
  /\ writers' = [writers EXCEPT ![v] = @ \union {job[v].mode}]
  /\ UNCHANGED <<ref, overlay, base, newest, job, up, cleaner, running, cut, count>>

(* The guest powered off.  _compact_backing, whether it is skipped, fails  *)
(* or replaces the file, leaves the content it found.                      *)
Baked(v) ==
  /\ pc[v] = "baking"
  /\ Goes(v, IF job[v].noBacking THEN "rename" ELSE "overlay")
  /\ backing' = [backing EXCEPT ![v] = T + gens]
  /\ UNCHANGED <<ref, overlay, base, newest, job, up, cleaner, running, hist, count>>

(* --no-backing: the backing file becomes the image; image-ref stays. *)
Rename(v) ==
  /\ pc[v] = "rename"
  /\ Place(v, Alone, backing[v])
  /\ backing' = [backing EXCEPT ![v] = None]
  /\ Finish(v)
  /\ UNCHANGED <<ref, newest, cleaner, running, hist, count>>

(* _create_overlay; the sidecar and the keypair are not modelled here. *)
MakeOverlay(v) ==
  /\ pc[v] = "overlay"
  /\ LET on == Target(v, job[v].mode)
     IN  backing[on] # None /\ Place(v, on, backing[on])
  /\ Finish(v)
  /\ UNCHANGED <<backing, ref, newest, cleaner, running, hist, count>>

(* The process is killed, or a command of it fails (check=True, sys.exit); *)
(* quick-start runs gen-vm in its own process and ends with it.  A zstd    *)
(* that fails on its own removes what it wrote.                            *)
GenDies(v) ==
  /\ pc[v] # "idle"
  /\ Goes(v, "idle") /\ job' = [job EXCEPT ![v] = NoJob]
  /\ \/ backing' = backing
     \/ pc[v] = "unpack" /\ backing' = [backing EXCEPT ![v] = None]
  /\ upPc' = IF job[v].by = "up" THEN "idle" ELSE upPc
  /\ UNCHANGED <<ref, overlay, base, newest, upAt, cleaner, running, hist, count>>

-----------------------------------------------------------------------------
(* quick-start up --clean-overlays, and the overlays of up.                *)

UpStart ==
  /\ upPc = "idle" /\ ups < MaxUps
  /\ upPc' \in {"clean", "make"}
  /\ upAt' = 1 /\ ups' = ups + 1
  /\ UNCHANGED <<disk, newest, pc, job, cleaner, running, hist, gens>>

(* clean_overlays, guest by guest; nobody asks whether a guest runs. *)
UpClean ==
  /\ upPc = "clean" /\ upAt \in VMs /\ Free(upAt)
  /\ Remove(upAt)
  /\ upAt' = IF upAt = N THEN 1 ELSE upAt + 1
  /\ upPc' = IF upAt = N THEN "make" ELSE "clean"
  /\ UNCHANGED <<backing, ref, newest, pc, job, cleaner, running, hist, count>>

UpNext ==
  /\ upPc = "make" /\ upAt \in VMs /\ Free(upAt)

(* make_overlays: an overlay that exists is left alone. *)
UpKeep ==
  /\ UpNext /\ overlay[upAt] # None
  /\ upAt' = upAt + 1
  /\ UNCHANGED <<disk, newest, pc, job, upPc, cleaner, running, hist, count>>

(* Mutant: the overlay is made whether there is one or not. *)
UpMake_Always ==
  /\ UpNext
  /\ Begin(upAt, IF upAt = 1 THEN "image" ELSE "file", newest, FALSE, FALSE, "up")
  /\ UNCHANGED <<disk, newest, up, cleaner, running, hist, count>>

(* ... guest 1's is made from the published image, the others' over its    *)
(* backing file.                                                           *)
UpMake ==
  /\ UpNext /\ overlay[upAt] = None
  /\ Begin(upAt, IF upAt = 1 THEN "image" ELSE "file", newest, FALSE, FALSE, "up")
  /\ UNCHANGED <<disk, newest, up, cleaner, running, hist, count>>

(* The overlays are there, or up ends early: killed, or gen-vm refused. *)
UpEnds ==
  /\ upPc # "idle"
  /\ upAt \in VMs => Free(upAt)
  /\ upPc' = "idle"
  /\ UNCHANGED <<disk, newest, pc, job, upAt, cleaner, running, hist, count>>

-----------------------------------------------------------------------------
(* qcow --clean, and the guests.                                           *)

(* clean(): a VM that is running is refused, but a scan that fails counts  *)
(* as not running; then the question "Proceed?".                           *)
CleanAsk(v) ==
  /\ Free(v) /\ overlay[v] # None
  /\ upPc # "idle" => upAt # v
  /\ v \notin running
  /\ cleaner' = [cleaner EXCEPT ![v] = "asked"]
  /\ UNCHANGED <<disk, newest, pc, job, up, running, hist, count>>

CleanBlind(v) ==
  /\ Free(v) /\ overlay[v] # None
  /\ upPc # "idle" => upAt # v
  /\ v \in running
  /\ cleaner' = [cleaner EXCEPT ![v] = "asked"]
  /\ UNCHANGED <<disk, newest, pc, job, up, running, hist, count>>

CleanRemove(v) ==
  /\ cleaner[v] = "asked"
  /\ cleaner' = [cleaner EXCEPT ![v] = "removed"]
  /\ Remove(v)
  /\ UNCHANGED <<backing, ref, newest, pc, job, up, running, hist, count>>

(* Recreated over <vm>-backing.qcow2, which only guest 1 of a fleet with a *)
(* shared backing has: the others' overlays are gone.                      *)
CleanCreate(v) ==
  /\ cleaner[v] = "removed"
  /\ cleaner' = [cleaner EXCEPT ![v] = "idle"]
  /\ IF backing[v] # None THEN Place(v, v, backing[v])
                          ELSE UNCHANGED <<overlay, base>>
  /\ UNCHANGED <<backing, ref, newest, pc, job, up, running, hist, count>>

(* "Aborted.", or the process is killed. *)
CleanEnds(v) ==
  /\ cleaner[v] # "idle"
  /\ cleaner' = [cleaner EXCEPT ![v] = "idle"]
  /\ UNCHANGED <<disk, newest, pc, job, up, running, hist, count>>

(* run-vm in the stack's container, and its end. *)
GuestStarts(v) ==
  /\ v \notin running /\ overlay[v] # None
  /\ overlay[v] # Alone => backing[overlay[v]] # None
  /\ running' = running \union {v}
  /\ UNCHANGED <<disk, newest, pc, job, up, cleaner, hist, count>>

GuestStops(v) ==
  /\ v \in running
  /\ running' = running \ {v}
  /\ UNCHANGED <<disk, newest, pc, job, up, cleaner, hist, count>>

Gen(v) ==
  \/ GenVm(v) \/ Check(v) \/ Unpack(v) \/ Unpacked(v) \/ WriteRef(v)
  \/ Bake(v) \/ Baked(v) \/ Rename(v) \/ MakeOverlay(v) \/ GenDies(v)

Clean(v) ==
  CleanAsk(v) \/ CleanBlind(v) \/ CleanRemove(v) \/ CleanCreate(v) \/ CleanEnds(v)

Up == UpStart \/ UpClean \/ UpKeep \/ UpMake \/ UpEnds

Next ==
  \/ Upgrade \/ Up
  \/ \E v \in VMs : Gen(v) \/ Clean(v) \/ GuestStarts(v) \/ GuestStops(v)

Spec == Init /\ [][Next]_vars
-----------------------------------------------------------------------------
(* Every variable keeps its type. *)
TypeOK ==
  /\ backing \in [VMs -> Contents] /\ ref \in [VMs -> Tags \union {None}]
  /\ overlay \in [VMs -> 0 .. Alone] /\ base \in [VMs -> Contents]
  /\ newest \in Tags
  /\ pc \in [VMs -> {"idle", "check", "pull", "unpack", "ref", "bake", "baking",
                     "rename", "overlay"}]
  /\ job \in [VMs -> [mode : AllModes, tag : Tags, force : BOOLEAN,
                       noBacking : BOOLEAN, by : {"user", "up"}]]
  /\ upPc \in {"idle", "clean", "make"} /\ upAt \in 1 .. (N + 1)
  /\ cleaner \in [VMs -> {"idle", "asked", "removed"}]
  /\ running \subseteq VMs
  /\ writers \in [VMs -> SUBSET {"pull", "force", "ansible", "bake"}] /\ cut \subseteq VMs
  /\ gens \in 0 .. MaxGens /\ ups \in 0 .. MaxUps

Pulled(v)    == writers[v] \subseteq {"pull"}
Published(v) == writers[v] \subseteq {"pull", "force"}

(* What gen-vm --backing-image (by hand or for up) is about to build its   *)
(* overlay on is exactly the published image it was asked for, in whatever *)
(* order the tags are asked for: a killed pull is never taken for "Backing *)
(* image up to date" where no tag was recorded before it, and no longer    *)
(* once a later pull ended.  A pull killed over a recorded tag is the one  *)
(* exception (WholeImage).  A bake or a playbook writes the file without   *)
(* touching image-ref, which is what they are for.                         *)
AskedImage ==
  \A v \in VMs : pc[v] = "overlay" /\ job[v].mode = "image" /\ Published(v) =>
                    backing[v] = job[v].tag \/ v \in cut

(* CHANGELOG.md:69 has image-ref record the tag last used to pull, so that *)
(* an image is up to date just when that is the tag asked for.  What the   *)
(* code does: a pull killed half way leaves the tag of the pull before it, *)
(* beside a file that is no image.                                         *)
WholeImage ==
  \A v \in VMs : pc[v] = "overlay" /\ job[v].mode = "image" /\ Published(v) =>
                    backing[v] = job[v].tag

(* "Removing stale overlay": the owner of a backing image never has an     *)
(* overlay over a content the file no longer has, killed or not, because   *)
(* the overlay goes before the pull begins.                                *)
OwnOverlaySound ==
  \A v \in VMs : overlay[v] = v /\ Pulled(v) => base[v] = backing[v]

(* make_overlays leaves a guest's disk alone: up without --clean-overlays  *)
(* never removes or replaces an overlay it found, whatever it repairs.     *)
UpKeepsOverlays ==
  [][\A v \in VMs : overlay[v] # None /\ overlay'[v] # overlay[v] =>
        \/ upPc = "clean" /\ upAt = v
        \/ pc[v] # "idle" /\ job[v].by = "user"
        \/ cleaner[v] # "idle"]_vars

=============================================================================
