-------------------------- MODULE QuickStartImages --------------------------
(***************************************************************************)
(* quick-start, the image it pins and what ships with it: the guest's      *)
(* keypair and account.  Like the ports (QuickStartPorts) they reach the   *)
(* next verb only through files: the generated overlays env.images and     *)
(* env.image-login beside the stack, the key directory with its image-ref, *)
(* and <images>/keys.  A verb can be killed between any two steps.  The    *)
(* variants of quick-start have a fleet file and a stack each, but all     *)
(* fall back to one key directory where the default ones are root's.       *)
(*                                                                         *)
(* What gen-vm makes of the pin is in GuestDisks.                          *)
(***************************************************************************)
EXTENDS Integers

CONSTANTS
  P,          \* published images 1..P
  Carries,    \* [1..P -> SUBSET {"key", "info"}], what the referrer of each has
  Variants,   \* the variants that share the key directory
  Account,    \* [1..P -> Logins], the account vm-info.json of each names
  Logins,
  XmlLogin,   \* VM_USERNAME of the fleet XML
  Dirs,       \* images directories
  XmlDir,     \* <vm-images-dir> of the fleet XML
  MaxVerbs    \* bound: verbs started

ASSUME PinAssumption     == P \in Nat \ {0}
ASSUME CarriesAssumption == Carries \in [1 .. P -> SUBSET {"key", "info"}]
ASSUME VariantAssumption == Variants # {}
ASSUME AccountAssumption == Account \in [1 .. P -> Logins] /\ XmlLogin \in Logins
ASSUME DirAssumption     == XmlDir \in Dirs /\ "none" \notin Dirs /\ "none" \notin Logins
ASSUME BoundAssumption   == MaxVerbs \in Nat

Pins    == 1 .. P
NoPin   == 0
Absent  == "none"        \* a key no layer has, an option nobody gave
NoLayer == [pin |-> NoPin, dir |-> Absent]
NoKeys  == [pub |-> NoPin, private |-> NoPin]
Verbs   == {"up", "all", "test", "preflight", "down"}

VARIABLES
  xml,       \* <backing-ref> (and the other image refs) of each fleet file
  writable,  \* the images directories this user can create or write
  layer,     \* env.images of each stack: the image refs and VM_IMAGES_DIR
  login,     \* env.image-login of each stack: VM_USERNAME
  keyDir,    \* <key-dir>: image-ref, and whose id_rsa and vm-info.json
  over,      \* history: a pull over a recorded image began, none ended since
  keys,      \* <images>/keys/quickstart_id_rsa(.pub), per images directory
  verb, variant, pc, \* the running verb, its variant and its step
  username,  \* _State.username
  verbs

stackDir == <<layer, login>>
env      == <<xml, writable>>
process  == <<verb, variant, username>>
guestKey == <<keyDir, over>>
vars     == <<env, stackDir, guestKey, keys, process, pc, verbs>>

(* _reload: the overlays of the running verb's stack beat its fleet file.  *)
PinOf(v) == IF layer[v].pin # NoPin THEN layer[v].pin ELSE xml[v]
DirOf(v) == IF layer[v].dir # Absent THEN layer[v].dir ELSE XmlDir

Pin   == PinOf(variant)
Dir   == DirOf(variant)
Login == IF login[variant] # Absent THEN login[variant] ELSE XmlLogin

Init ==
  /\ xml \in [Variants -> Pins] /\ writable \in {w \in SUBSET Dirs : w # {}}
  /\ layer = [v \in Variants |-> NoLayer] /\ login = [v \in Variants |-> Absent]
  /\ keyDir = [ref |-> NoPin, key |-> NoPin, info |-> NoPin] /\ over = FALSE
  /\ keys = [d \in Dirs |-> NoKeys]
  /\ verb = "up" /\ variant \in Variants /\ pc = "idle"
  /\ username = XmlLogin /\ verbs = 0

(* Between verbs: another fleet file, a later or an earlier one; the stack *)
(* directory deleted.                                                      *)
Upgrade ==
  /\ pc = "idle"
  /\ \E v \in Variants, p \in Pins : xml' = [xml EXCEPT ![v] = p]
  /\ UNCHANGED <<writable, stackDir, guestKey, keys, process, pc, verbs>>

RemoveStack ==
  /\ pc = "idle"
  /\ \E v \in Variants : /\ layer' = [layer EXCEPT ![v] = NoLayer]
                         /\ login' = [login EXCEPT ![v] = Absent]
  /\ UNCHANGED <<env, guestKey, keys, process, pc, verbs>>

-----------------------------------------------------------------------------
(* run(): every verb rescans the overlays and writes env.images anew, from *)
(* the merged values and --images.                                         *)
Start(v, of, images) ==
  /\ pc = "idle" /\ verbs < MaxVerbs
  /\ verb' = v /\ variant' = of /\ verbs' = verbs + 1
  /\ layer' = [layer EXCEPT ![of] =
       [pin |-> PinOf(of), dir |-> IF images # Absent THEN images ELSE DirOf(of)]]
  /\ pc' = "adopt"
  /\ UNCHANGED <<env, login, guestKey, keys, username>>

(* _adopt_login: the account the image reports beats every layer. *)
Adopt ==
  LET account == IF keyDir.info = NoPin THEN Login ELSE Account[keyDir.info]
  IN  /\ username' = account
      /\ login' = IF account # Login THEN [login EXCEPT ![variant] = account] ELSE login

(* Mutant: the account is read from the settings alone. *)
AdoptLogin_Settings ==
  /\ pc = "adopt"
  /\ username' = Login
  /\ pc' = IF verb = "down" THEN "idle" ELSE "preflight"
  /\ UNCHANGED <<env, stackDir, guestKey, keys, verb, variant, verbs>>

AdoptLogin ==
  /\ pc = "adopt"
  /\ Adopt
  /\ pc' = IF verb = "down" THEN "idle" ELSE "preflight"
  /\ UNCHANGED <<env, layer, guestKey, keys, verb, variant, verbs>>

AfterPreflight ==
  IF verb = "test" THEN "wait" ELSE IF verb = "preflight" THEN "idle" ELSE "confirm"

(* preflight -> _resolve_images_dir, for test as well: a directory this    *)
(* user cannot write is asked for, and env.images rewritten to hold only   *)
(* the answer.                                                             *)
Preflight ==
  /\ pc = "preflight"
  /\ IF Dir \in writable THEN UNCHANGED layer
     ELSE \E d \in writable :
          layer' = [layer EXCEPT ![variant] = [pin |-> NoPin, dir |-> d]]
  /\ pc' = AfterPreflight
  /\ UNCHANGED <<env, login, guestKey, keys, process, verbs>>

Confirm ==
  /\ pc = "confirm"
  /\ pc' \in {"fetch", "idle"}
  /\ UNCHANGED <<env, stackDir, guestKey, keys, process, verbs>>

(* fetch_key: a key whose recorded image is the pinned one is kept. *)
Fetch ==
  /\ pc = "fetch"
  /\ pc' = IF keyDir.key # NoPin /\ keyDir.ref = Pin THEN "readopt" ELSE "pull"
  /\ UNCHANGED <<env, stackDir, guestKey, keys, process, verbs>>

(* `oras pull` of the referrer into the key directory, file by file. *)
Written(files) ==
  [keyDir EXCEPT !.key  = IF "key" \in files THEN Pin ELSE @,
                 !.info = IF "info" \in files THEN Pin ELSE @]

(* A pull that writes any file does so over what was recorded, if anything *)
(* was.                                                                    *)
Overwrites(files) == over' = (over \/ (files # {} /\ keyDir.ref # NoPin))

(* Mutant: the image is recorded before the pull. *)
Pull_RefFirst ==
  /\ pc = "pull"
  /\ \E files \in SUBSET Carries[Pin] :
       /\ keyDir' = [Written(files) EXCEPT !.ref = Pin]
       /\ Overwrites(files)
       /\ pc' = IF files = Carries[Pin] /\ keyDir'.key # NoPin THEN "ref" ELSE "idle"
  /\ UNCHANGED <<env, stackDir, keys, process, verbs>>

(* It may end half way: oras fails, or the process is killed in it.  When  *)
(* it succeeds, an id_rsa has to be there, of this pull or of one before.  *)
Pull ==
  /\ pc = "pull"
  /\ \E files \in SUBSET Carries[Pin] :
       /\ keyDir' = Written(files)
       /\ Overwrites(files)
       /\ \/ pc' = "idle"
          \/ files = Carries[Pin] /\ keyDir'.key # NoPin /\ pc' = "ref"
  /\ UNCHANGED <<env, stackDir, keys, process, verbs>>

WriteRef ==
  /\ pc = "ref"
  /\ keyDir' = [keyDir EXCEPT !.ref = Pin] /\ over' = FALSE
  /\ pc' = "readopt"
  /\ UNCHANGED <<env, stackDir, keys, process, verbs>>

ReadoptLogin ==
  /\ pc = "readopt"
  /\ Adopt
  /\ pc' = "publish"
  /\ UNCHANGED <<env, layer, guestKey, keys, verb, variant, verbs>>

(* Mutant: the private half goes with the public one or not at all. *)
PublishPub_Gates ==
  /\ pc = "publish"
  /\ keys' = [keys EXCEPT ![Dir].pub = IF @ = NoPin THEN keyDir.key ELSE @]
  /\ pc' = IF keys[Dir].pub = NoPin THEN "private" ELSE "compose"
  /\ UNCHANGED <<env, stackDir, guestKey, process, verbs>>

(* _publish_keypair: each half is written if it is not there. *)
PublishPub ==
  /\ pc = "publish"
  /\ keys' = [keys EXCEPT ![Dir].pub = IF @ = NoPin THEN keyDir.key ELSE @]
  /\ pc' = "private"
  /\ UNCHANGED <<env, stackDir, guestKey, process, verbs>>

PublishPrivate ==
  /\ pc = "private"
  /\ keys' = [keys EXCEPT ![Dir].private = IF @ = NoPin THEN keyDir.key ELSE @]
  /\ pc' = "compose"
  /\ UNCHANGED <<env, stackDir, guestKey, process, verbs>>

(* The overlays are made and `docker compose up` starts the stack, or it   *)
(* does not: without QEMU_IMAGE in an env-file there is no image to start. *)
Compose ==
  /\ pc = "compose"
  /\ pc' \in {"idle"} \union (IF layer[variant].pin # NoPin /\ verb = "all" THEN {"wait"} ELSE {})
  /\ UNCHANGED <<env, stackDir, guestKey, keys, process, verbs>>

(* wait_for_guests and the playbook: ssh -i <key> <username>@... *)
Wait ==
  /\ pc = "wait"
  /\ pc' = "idle"
  /\ UNCHANGED <<env, stackDir, guestKey, keys, process, verbs>>

Killed ==
  /\ pc # "idle"
  /\ pc' = "idle"
  /\ UNCHANGED <<env, stackDir, guestKey, keys, process, verbs>>

Next ==
  \/ Upgrade \/ RemoveStack
  \/ \E v \in Verbs, of \in Variants, images \in writable \union {Absent} :
       Start(v, of, images)
  \/ AdoptLogin \/ Preflight \/ Confirm \/ Fetch \/ Pull \/ WriteRef
  \/ ReadoptLogin \/ PublishPub \/ PublishPrivate \/ Compose \/ Wait \/ Killed

Spec == Init /\ [][Next]_vars
-----------------------------------------------------------------------------
(* Every variable keeps its type: paths stay resolved ones. *)
TypeOK ==
  /\ xml \in [Variants -> Pins] /\ writable \subseteq Dirs
  /\ layer \in [Variants -> [pin : Pins \union {NoPin}, dir : Dirs \union {Absent}]]
  /\ login \in [Variants -> Logins \union {Absent}]
  /\ keyDir \in [ref : Pins \union {NoPin}, key : Pins \union {NoPin},
                 info : Pins \union {NoPin}] /\ over \in BOOLEAN
  /\ keys \in [Dirs -> [pub : Pins \union {NoPin}, private : Pins \union {NoPin}]]
  /\ variant \in Variants
  /\ verb \in Verbs
  /\ pc \in {"idle", "adopt", "preflight", "confirm", "fetch", "pull", "ref",
             "readopt", "publish", "private", "compose", "wait"}
  /\ username \in Logins
  /\ verbs \in 0 .. MaxVerbs

Fetched == pc \in {"readopt", "publish", "private", "compose"}
           \/ (pc = "wait" /\ verb = "all")

(* From fetch_key on, the private key and the account file are those of    *)
(* the image this run pins, as far as it ships them, in whatever order the *)
(* variants pin images, whatever pulls were cut short between the files or *)
(* before image-ref.  The exception is a pull begun over the files of a    *)
(* recorded image and never ended: the record then vouches for other files.*)
KeyIsPinned ==
  Fetched /\ ~over =>
    /\ "key" \in Carries[Pin] => keyDir.key = Pin
    /\ "info" \in Carries[Pin] => keyDir.info = Pin

(* `up` and `test` are separate processes: whichever waits for the guests  *)
(* logs in as the account of the vm-info.json on disk, also when the run   *)
(* that pulled it died before it adopted it, and the layers tell inspect,  *)
(* gen-vm and gen-compose the same account.                                *)
AccountAgrees ==
  pc \in {"publish", "private", "compose", "wait"} =>
    /\ keyDir.info # NoPin => username = Account[keyDir.info]
    /\ Login = username

(* _publish_keypair: "BOTH halves, and the private one is the whole        *)
(* point": once a run has published, both are there, also when an earlier  *)
(* run was killed between them.                                            *)
BothHalves ==
  pc = "compose" => keys[Dir].pub # NoPin /\ keys[Dir].private # NoPin

=============================================================================
