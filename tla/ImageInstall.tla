----------------------------- MODULE ImageInstall -----------------------------
(***************************************************************************)
(* Replacing the system image in place: InstallImage of mgmtd, the install *)
(* of hemlock_common::image with the steps that touch flash, and the       *)
(* staging area of webd that one of the two front ends installs from.      *)
(*                                                                         *)
(* An image is its version; all images are for the platform of the switch, *)
(* whose name is read from the installed overlay.  A power cut may come    *)
(* between any two steps.  It tears what is being written, and what was    *)
(* written without fsync and not yet written back.  Renames are taken in   *)
(* the order they are made, as a journal replays them.  The install record *)
(* is left out: it only feeds a display.                                   *)
(***************************************************************************)
EXTENDS Integers, Sequences, FiniteSets

CONSTANTS
    Images,         \* the versions there are
    Factory,        \* the one that is installed at first
    Operators,      \* who may ask for an install, each for one at a time
    MayCancel,      \* whether an operator may give up once their install has begun
    MaxRequests,    \* uploads and installs together
    MaxTroubles     \* power cuts and failing operations together

ASSUME FactoryIsAnImage == Factory \in Images

VARIABLES
    flash,          \* the installed boot files
    fresh,          \* <file>.new
    overlay,        \* hemlock/platform, platform.new and platform.old
    unsynced,       \* those of them that are not written back
    upload,         \* the upload of each operator that is under way
    part,           \* image.bin.part in webd's state directory
    staged,         \* image.bin there
    extract,        \* .hemlock-extract beside the image, by directory
    install,        \* where the install an operator asked for is
    writing,        \* where the copy of each install is going
    engineLock,     \* the install that holds mgmtd's engine mutex
    cutShort,       \* installs that ended between copying and placing an overlay,
                    \* since one was last placed (history)
    cutTore,        \* a power cut has torn the overlay since then (history)
    installs, uploads, cuts, flashFaults

bootFiles == <<flash, fresh, writing>>
overlayState == <<overlay, unsynced, cutShort, cutTore>>
staging == <<upload, part, staged>>
imageBounds == <<installs, uploads, cuts, flashFaults>>
imageVars == <<bootFiles, overlayState, staging, extract, install, engineLock, imageBounds>>

Missing == "missing"
Partial == "partial"
Content == Images \cup {Missing, Partial}
Free == "free"

ASSUME NamesAreDistinct == Missing \notin Images /\ Partial \notin Images /\ Free \notin Operators

Assets == <<"rootfs", "vmlinuz", "initrd", "grub">>
Boot == {Assets[i] : i \in DOMAIN Assets}
Platforms == {"live", "new", "old"}
Staging == "staging"            \* webd's; hemlockctl installs from elsewhere
Directories == {Staging, "elsewhere"}

NoInstall == [pc |-> "idle", image |-> Missing, dir |-> Staging, force |-> FALSE, asset |-> 1,
              read |-> Missing]
Working(o) == install[o].pc \notin {"idle", "waiting", "respond"}
At(o, pc) == install[o].pc = pc
Go(o, pc) == install' = [install EXCEPT ![o].pc = pc]
AtOverlay(o) == install[o].pc \in {"filling", "move", "place"}
Asset(o) == Assets[install[o].asset]
Payload(o) == extract[install[o].dir]

\* The image at the path of the request.
Image(o) == IF install[o].dir = Staging THEN staged ELSE install[o].image

-----------------------------------------------------------------------------
(* The front ends                                                          *)

\* stage_upload(): the upload goes to image.bin.part, which two uploads share ...
BeginUpload(o, v) ==
    /\ upload[o] = Missing /\ installs + uploads < MaxRequests /\ uploads' = uploads + 1
    /\ upload' = [upload EXCEPT ![o] = v]
    /\ part' = IF \E p \in Operators \ {o} : upload[p] # Missing THEN Partial ELSE v
    /\ UNCHANGED <<bootFiles, overlayState, staged, extract, install, engineLock,
                   installs, cuts, flashFaults>>

\* ... and lands in image.bin once all is written and the header checked, or the
\* upload breaks off and the part is removed.
EndUpload(o) ==
    /\ upload[o] # Missing
    /\ upload' = [upload EXCEPT ![o] = Missing]
    /\ part' = Missing
    /\ \/ part # Missing /\ staged' = IF part = upload[o] THEN part ELSE Partial
       \/ UNCHANGED staged
    /\ UNCHANGED <<bootFiles, overlayState, extract, install, engineLock, imageBounds>>

Ask(o, request) ==
    /\ At(o, "idle") /\ installs + uploads < MaxRequests /\ installs' = installs + 1
    /\ install' = [install EXCEPT ![o] = request]
    /\ UNCHANGED <<bootFiles, overlayState, staging, extract, engineLock,
                   uploads, cuts, flashFaults>>

\* upgrade_apply() of webd: there must be a staged image; which one it is turns
\* out when mgmtd opens it.
UpgradeApply(o, force) ==
    /\ staged # Missing
    /\ Ask(o, [NoInstall EXCEPT !.pc = "waiting", !.force = force])

\* hemlockctl upgrade, with an image of its own.
UpgradeRun(o, v, force) ==
    Ask(o, [NoInstall EXCEPT !.pc = "waiting", !.image = v, !.dir = "elsewhere", !.force = force])

\* The operator gives up, or their connection breaks: the handler is dropped with
\* its lock, while an install that has begun goes on without it.
Cancel(o) ==
    /\ ~At(o, "idle")
    /\ Working(o) => MayCancel /\ engineLock = o
    /\ install' = IF Working(o) THEN install ELSE [install EXCEPT ![o] = NoInstall]
    /\ engineLock' = IF engineLock = o THEN Free ELSE engineLock
    /\ UNCHANGED <<bootFiles, overlayState, staging, extract, imageBounds>>

\* discard_staged(): with what is left of an extraction.
Discarded ==
    /\ staged' = Missing /\ part' = Missing
    /\ extract' = [extract EXCEPT ![Staging] = Missing]

DiscardStaged ==
    /\ staged # Missing /\ Discarded
    /\ UNCHANGED <<upload, bootFiles, overlayState, install, engineLock, imageBounds>>

\* The answer arrives; webd then discards what is staged by now.
Respond(o) ==
    /\ At(o, "respond")
    /\ IF install[o].dir = Staging THEN Discarded ELSE UNCHANGED <<part, staged, extract>>
    /\ install' = [install EXCEPT ![o] = NoInstall]
    /\ UNCHANGED <<upload, bootFiles, overlayState, engineLock, imageBounds>>

-----------------------------------------------------------------------------
(* install()                                                               *)

\* An error: the extraction is removed, the lock given up, and the operator told.
Refused(o) ==
    /\ install' = [install EXCEPT ![o] = NoInstall]
    /\ engineLock' = IF engineLock = o THEN Free ELSE engineLock

\* install_image() gets the lock; read_header() and check_platform() follow.
BeginInstall(o) ==
    /\ At(o, "waiting") /\ engineLock = Free
    /\ IF Image(o) # Missing /\ (overlay["live"] \in Images \/ install[o].force)
       THEN Go(o, "extract") /\ engineLock' = o
       ELSE Refused(o)
    /\ UNCHANGED <<bootFiles, overlayState, staging, extract, imageBounds>>

\* What was extracted before is removed, and the image that is there by now unpacks
\* itself, unless it is a mixture ...
Unpack(o) ==
    /\ At(o, "extract")
    /\ IF Image(o) \in Images
       THEN /\ install' = [install EXCEPT ![o].pc = "extracting", ![o].image = Image(o)]
            /\ extract' = [extract EXCEPT ![install[o].dir] = Partial]
            /\ UNCHANGED engineLock
       ELSE Refused(o) /\ extract' = [extract EXCEPT ![install[o].dir] = Missing]
    /\ UNCHANGED <<bootFiles, overlayState, staging, imageBounds>>

\* ... into the directory, if that is still there.
Unpacked(o) ==
    /\ At(o, "extracting")
    /\ IF Payload(o) # Missing
       THEN /\ extract' = [extract EXCEPT ![install[o].dir] = install[o].image]
            /\ Go(o, "copy") /\ UNCHANGED engineLock
       ELSE Refused(o) /\ UNCHANGED extract
    /\ UNCHANGED <<bootFiles, overlayState, staging, imageBounds>>

\* Mutant: the copy goes straight over the installed file.
CopyFileInPlace(o) ==
    /\ At(o, "copy") /\ Payload(o) # Missing
    /\ install' = [install EXCEPT ![o].pc = "copying", ![o].read = Payload(o)]
    /\ flash' = [flash EXCEPT ![Asset(o)] = Partial]
    /\ writing' = [writing EXCEPT ![o] = "installed"]
    /\ UNCHANGED <<fresh, overlayState, staging, extract, engineLock, imageBounds>>

\* install_file(): the copy into <file>.new begins by emptying it ...
CopyFile(o) ==
    /\ At(o, "copy") /\ Payload(o) # Missing
    /\ install' = [install EXCEPT ![o].pc = "copying", ![o].read = Payload(o)]
    /\ fresh' = [fresh EXCEPT ![Asset(o)] = Partial]
    /\ writing' = [writing EXCEPT ![o] = "new"]
    /\ UNCHANGED <<flash, overlayState, staging, extract, engineLock, imageBounds>>

\* ... and ends where the file it opened is by then; fsync follows, on what has
\* the name.
SyncFile(o) ==
    LET target == Asset(o)
        here == [f |-> IF writing[o] = "installed" THEN [flash EXCEPT ![target] = install[o].read]
                       ELSE flash,
                 n |-> IF writing[o] = "new" THEN [fresh EXCEPT ![target] = install[o].read]
                       ELSE fresh]
    IN  /\ At(o, "copying")
        /\ flash' = here.f /\ fresh' = here.n
        /\ writing' = [writing EXCEPT ![o] = "nowhere"]
        /\ IF fresh'[target] # Missing
           THEN Go(o, "rename") /\ UNCHANGED <<extract, engineLock>>
           ELSE Refused(o) /\ extract' = [extract EXCEPT ![install[o].dir] = Missing]
        /\ UNCHANGED <<overlayState, staging, imageBounds>>

\* The rename.  Another install that is copying this file goes on in what is now
\* the installed file.
RenameFile(o) ==
    LET target == Asset(o)
        Moved(p) == IF At(p, "copying") /\ Asset(p) = target /\ p # o
                    THEN IF writing[p] = "new" THEN "installed" ELSE "nowhere"
                    ELSE writing[p]
    IN  /\ At(o, "rename")
        /\ \/ /\ fresh[target] # Missing
              /\ flash' = [flash EXCEPT ![target] = fresh[target]]
              /\ fresh' = [fresh EXCEPT ![target] = Missing]
              /\ writing' = [p \in Operators |-> Moved(p)]
              /\ IF install[o].asset < Len(Assets)
                 THEN install' = [install EXCEPT ![o].pc = "copy", ![o].asset = @ + 1]
                 ELSE Go(o, "overlay")
              /\ UNCHANGED <<extract, engineLock>>
           \/ /\ fresh[target] = Missing
              /\ Refused(o) /\ extract' = [extract EXCEPT ![install[o].dir] = Missing]
              /\ UNCHANGED bootFiles
        /\ UNCHANGED <<overlayState, staging, imageBounds>>

\* The overlay: what an earlier install left is removed, and copy_dir() begins ...
CopyOverlay(o) ==
    /\ At(o, "overlay") /\ Payload(o) # Missing /\ Go(o, "filling")
    /\ overlay' = [overlay EXCEPT !["new"] = Partial, !["old"] = Missing]
    /\ unsynced' = unsynced \ {"new", "old"}
    /\ UNCHANGED <<bootFiles, cutShort, cutTore, staging, extract, engineLock, imageBounds>>

\* ... and ends, if nobody took away the source; nothing is synced.
FillOverlay(o) ==
    /\ At(o, "filling") /\ Payload(o) # Missing /\ overlay["new"] # Missing /\ Go(o, "move")
    /\ overlay' = [overlay EXCEPT !["new"] = Payload(o)]
    /\ unsynced' = unsynced \cup {"new"}
    /\ UNCHANGED <<bootFiles, cutShort, cutTore, staging, extract, engineLock, imageBounds>>

\* Mutant: the old overlay is removed instead of moved aside.
MoveOverlayRemoved(o) ==
    /\ At(o, "move") /\ Go(o, "place")
    /\ overlay' = [overlay EXCEPT !["live"] = Missing]
    /\ UNCHANGED <<bootFiles, unsynced, cutShort, cutTore, staging, extract, engineLock, imageBounds>>

Renamed(from, to) ==
    /\ overlay' = [overlay EXCEPT ![to] = overlay[from], ![from] = Missing]
    /\ unsynced' = (unsynced \ {from, to}) \cup (IF from \in unsynced THEN {to} ELSE {})

\* The two renames.
MoveOverlay(o) ==
    /\ At(o, "move") /\ Go(o, "place")
    /\ overlay["live"] = Missing \/ overlay["old"] = Missing
    /\ IF overlay["live"] # Missing THEN Renamed("live", "old") ELSE UNCHANGED <<overlay, unsynced>>
    /\ UNCHANGED <<bootFiles, cutShort, cutTore, staging, extract, engineLock, imageBounds>>

PlaceOverlay(o) ==
    /\ At(o, "place") /\ overlay["new"] # Missing /\ overlay["live"] = Missing
    /\ Renamed("new", "live") /\ Go(o, "finish")
    /\ cutShort' = 0 /\ cutTore' = FALSE
    /\ UNCHANGED <<bootFiles, staging, extract, engineLock, imageBounds>>

\* What was moved aside and what was extracted are removed.
Finish(o) ==
    /\ At(o, "finish")
    /\ overlay' = [overlay EXCEPT !["old"] = Missing] /\ unsynced' = unsynced \ {"old"}
    /\ extract' = [extract EXCEPT ![install[o].dir] = Missing]
    /\ IF engineLock = o THEN Go(o, "respond") /\ engineLock' = Free
       ELSE install' = [install EXCEPT ![o] = NoInstall] /\ UNCHANGED engineLock
    /\ UNCHANGED <<bootFiles, cutShort, cutTore, staging, imageBounds>>

\* The source is gone, or another install is in the way of the overlay.
Blocked(o) ==
    \/ install[o].pc \in {"copy", "overlay", "filling"} /\ Payload(o) = Missing
    \/ At(o, "filling") /\ overlay["new"] = Missing
    \/ At(o, "move") /\ overlay["live"] # Missing /\ overlay["old"] # Missing
    \/ At(o, "place") /\ (overlay["new"] = Missing \/ overlay["live"] # Missing)

GivesUp(o) ==
    /\ Refused(o)
    /\ extract' = [extract EXCEPT ![install[o].dir] = Missing]
    /\ writing' = [writing EXCEPT ![o] = "nowhere"]
    /\ cutShort' = IF AtOverlay(o) THEN cutShort + 1 ELSE cutShort
    /\ UNCHANGED <<flash, fresh, overlay, unsynced, cutTore, staging>>

Errs(o) ==
    /\ Blocked(o) /\ GivesUp(o)
    /\ UNCHANGED imageBounds

\* Any operation on flash may fail; the install ends there.
FlashFault(o) ==
    /\ Working(o) /\ install[o].pc # "finish"
    /\ cuts + flashFaults < MaxTroubles /\ flashFaults' = flashFaults + 1
    /\ GivesUp(o)
    /\ UNCHANGED <<installs, uploads, cuts>>

-----------------------------------------------------------------------------
(* The switch                                                              *)

\* The kernel writes back what was not synced.
WriteBack ==
    /\ unsynced # {} /\ unsynced' = {}
    /\ UNCHANGED <<bootFiles, overlay, cutShort, cutTore, staging, extract, install, engineLock,
                   imageBounds>>

\* Power is cut, or somebody reboots the switch.
PowerCut ==
    /\ cuts + flashFaults < MaxTroubles /\ cuts' = cuts + 1
    /\ \E lost \in SUBSET unsynced :
          /\ overlay' = [d \in Platforms |-> IF d \in lost THEN Partial ELSE overlay[d]]
          /\ cutTore' = (cutTore \/ lost \ {"new"} # {})
    /\ cutShort' = IF \E o \in Operators : AtOverlay(o) THEN cutShort + 1 ELSE cutShort
    /\ unsynced' = {}
    /\ install' = [o \in Operators |-> NoInstall]
    /\ writing' = [o \in Operators |-> "nowhere"]
    /\ engineLock' = Free
    /\ upload' = [o \in Operators |-> Missing]
    /\ UNCHANGED <<flash, fresh, part, staged, extract, installs, uploads, flashFaults>>

\* Nobody is installing.
ImageRest ==
    /\ \A o \in Operators : At(o, "idle") /\ upload[o] = Missing
    /\ UNCHANGED imageVars

ImageInit ==
    /\ flash = [a \in Boot |-> Factory] /\ fresh = [a \in Boot |-> Missing]
    /\ overlay = [d \in Platforms |-> IF d = "live" THEN Factory ELSE Missing]
    /\ unsynced = {} /\ cutShort = 0 /\ cutTore = FALSE
    /\ staged = Missing /\ part = Missing /\ upload = [o \in Operators |-> Missing]
    /\ extract = [d \in Directories |-> Missing]
    /\ install = [o \in Operators |-> NoInstall]
    /\ writing = [o \in Operators |-> "nowhere"]
    /\ engineLock = Free
    /\ installs = 0 /\ uploads = 0 /\ cuts = 0 /\ flashFaults = 0

ImageNext ==
    \/ DiscardStaged \/ WriteBack \/ PowerCut \/ ImageRest
    \/ \E o \in Operators :
          \/ \E force \in BOOLEAN :
                UpgradeApply(o, force) \/ \E v \in Images : UpgradeRun(o, v, force)
          \/ (\E v \in Images : BeginUpload(o, v)) \/ EndUpload(o)
          \/ Cancel(o) \/ Respond(o)
          \/ BeginInstall(o) \/ Unpack(o) \/ Unpacked(o)
          \/ CopyFile(o) \/ SyncFile(o) \/ RenameFile(o)
          \/ CopyOverlay(o) \/ FillOverlay(o) \/ MoveOverlay(o) \/ PlaceOverlay(o) \/ Finish(o)
          \/ Errs(o) \/ FlashFault(o)

ImageSpec == ImageInit /\ [][ImageNext]_imageVars

-----------------------------------------------------------------------------
(* Properties                                                              *)

InstallSteps == {"idle", "waiting", "extract", "extracting", "copy", "copying", "rename", "overlay",
          "filling", "move", "place", "finish", "respond"}
Installs == [pc : InstallSteps, image : Content, dir : Directories, force : BOOLEAN,
             asset : DOMAIN Assets, read : Content]

\* Files and directories hold images or parts of one, and one install holds the
\* engine at most (image.rs, maint.rs, install_image).
ImageTypeOK ==
    /\ flash \in [Boot -> Content] /\ fresh \in [Boot -> Content]
    /\ overlay \in [Platforms -> Content] /\ unsynced \subseteq Platforms
    /\ upload \in [Operators -> Images \cup {Missing}]
    /\ staged \in Content /\ part \in Content /\ extract \in [Directories -> Content]
    /\ install \in [Operators -> Installs] /\ engineLock \in Operators \cup {Free}
    /\ writing \in [Operators -> {"nowhere", "new", "installed"}]
    /\ cutShort \in Nat /\ cutTore \in BOOLEAN
    /\ installs \in Nat /\ uploads \in Nat /\ cuts \in Nat /\ flashFaults \in Nat

\* "a power cut mid-copy leaves the previous file intact" (install_file): whenever
\* power is cut, every boot file is whole, of one image or another.
BootFilesAreWhole == \A a \in Boot : flash[a] \in Images

\* No failure costs the overlay, nor does a power cut that tears none (install_payload):
\* a whole one is in place or moved aside at every step, and the first install that
\* is cut short since one was placed leaves it there.  The next one then removes what
\* was moved aside before it has copied its own, so a second failure may cost it.  A
\* power cut that tears the overlay is left out: copy_dir syncs nothing, so the cut
\* may come when the old one has been removed and the new one is not written back.
OverlayIsKept ==
    ~cutTore /\ cutShort <= 1 =>
        \/ \E d \in {"live", "old"} : overlay[d] \in Images
        \/ cutShort = 1 /\ \E o \in Operators : AtOverlay(o)

\* "swap by rename, so a failure keeps the old overlay in place" (install_payload).
\* It does not hold: a failure between the two renames leaves none in place.
OverlayStaysInPlace ==
    overlay["live"] = Missing => \E o \in Operators : At(o, "place")
=============================================================================
