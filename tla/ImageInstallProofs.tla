------------------------- MODULE ImageInstallProofs -------------------------
(***************************************************************************)
(* Proofs about the in-place install, for every set of images and          *)
(* operators and any number of requests, power cuts and failures: as long  *)
(* as no request is dropped while its install is under way, the engine's   *)
(* mutex is enough to keep the boot files whole and the overlay in reach.  *)
(***************************************************************************)
EXTENDS ImageInstall, TLAPS

\* The mutex of mgmtd: who is past read_header() holds it.
HoldsLock == \A o \in Operators : Working(o) => engineLock = o

\* No install was cut short, and no power cut tore the overlay, since one was placed.
Undisturbed == ~cutTore /\ cutShort = 0

\* Until then the overlay is in place but for the moment between the two renames.
SwappedInPlace ==
    Undisturbed => overlay["live"] \in Images \/ \E o \in Operators : At(o, "place")

\* What an install has made sure of by the time it is at a step of install() or
\* install_payload().
SureOf(o) ==
    /\ writing[o] = IF At(o, "copying") THEN "new" ELSE "nowhere"
    /\ At(o, "extracting") => install[o].image \in Images
    /\ install[o].pc \in {"copy", "copying", "rename", "overlay", "filling"} =>
          Payload(o) \in Images \cup {Missing}
    /\ At(o, "copying") => install[o].read \in Images
    /\ At(o, "rename") => fresh[Asset(o)] \in Images
    /\ install[o].pc \in {"filling", "move"} =>
          (Undisturbed => overlay["live"] \in Images)
    /\ install[o].pc \in {"move", "place"} => overlay["new"] \in Images
    /\ At(o, "place") => (Undisturbed => overlay["old"] \in Images)
    /\ At(o, "finish") => overlay["live"] \in Images

\* The inductive invariant.
ImageInv ==
    /\ ImageTypeOK /\ HoldsLock
    /\ \A o \in Operators : SureOf(o)
    /\ BootFilesAreWhole /\ OverlayIsKept /\ SwappedInPlace

-----------------------------------------------------------------------------
(* Constants                                                               *)

\* The four boot files.
LEMMA AssetFacts ==
    /\ DOMAIN Assets = 1 .. 4 /\ Len(Assets) = 4
    /\ \A i \in 1 .. 4 : Assets[i] \in Boot
  BY DEF Assets, Boot

\* A request that is over.
LEMMA NoInstallFacts == NoInstall \in Installs /\ NoInstall.pc = "idle"
  BY AssetFacts DEF NoInstall, Installs, InstallSteps, Content, Directories, Staging

-----------------------------------------------------------------------------
(* Moves of an install                                                     *)

\* Going to the next step of install() changes nothing else about the install.
LEMMA GoTo ==
    ASSUME install \in [Operators -> Installs], NEW o \in Operators, NEW pc \in InstallSteps, Go(o, pc)
    PROVE  /\ install' \in [Operators -> Installs]
           /\ install'[o].pc = pc
           /\ install'[o].dir = install[o].dir /\ install'[o].asset = install[o].asset
           /\ install'[o].image = install[o].image /\ install'[o].read = install[o].read
           /\ \A p \in Operators \ {o} : install'[p] = install[p]
  BY Zenon DEF Go, Installs

\* An error ends the install and gives up the lock.
LEMMA RefusedFacts ==
    ASSUME install \in [Operators -> Installs], NEW o \in Operators, Refused(o)
    PROVE  /\ install' \in [Operators -> Installs]
           /\ install'[o] = NoInstall
           /\ \A p \in Operators \ {o} : install'[p] = install[p]
           /\ engineLock' = IF engineLock = o THEN Free ELSE engineLock
  BY NoInstallFacts, Zenon DEF Refused

LEMMA AskFacts ==
    ASSUME install \in [Operators -> Installs], NEW o \in Operators, NEW request \in Installs,
           Ask(o, request)
    PROVE  /\ install' \in [Operators -> Installs]
           /\ install'[o] = request
           /\ \A p \in Operators \ {o} : install'[p] = install[p]
  BY Zenon DEF Ask

\* The requests of the two front ends.
LEMMA RequestFacts ==
    ASSUME NEW v \in Images, NEW force \in BOOLEAN
    PROVE  LET web == [NoInstall EXCEPT !.pc = "waiting", !.force = force]
               ctl == [NoInstall EXCEPT !.pc = "waiting", !.image = v, !.dir = "elsewhere",
                                        !.force = force]
           IN  /\ web \in Installs /\ web.pc = "waiting"
               /\ ctl \in Installs /\ ctl.pc = "waiting"
<1>1. "waiting" \in InstallSteps /\ "elsewhere" \in Directories /\ v \in Content
  BY Zenon DEF InstallSteps, Directories, Content
<1> QED BY <1>1, NoInstallFacts, Zenon DEF Installs

\* The image unpacks itself.
LEMMA UnpackFacts ==
    ASSUME install \in [Operators -> Installs], NEW o \in Operators, NEW v \in Images,
           install' = [install EXCEPT ![o].pc = "extracting", ![o].image = v]
    PROVE  /\ install' \in [Operators -> Installs]
           /\ install'[o].pc = "extracting" /\ install'[o].image = v
           /\ install'[o].dir = install[o].dir
           /\ \A p \in Operators \ {o} : install'[p] = install[p]
<1>1. "extracting" \in InstallSteps /\ v \in Content
  BY Zenon DEF InstallSteps, Content
<1> QED BY <1>1, ZenonT(60) DEF Installs

\* install_file() reads its source.
LEMMA CopyFacts ==
    ASSUME install \in [Operators -> Installs], NEW o \in Operators, NEW c \in Content,
           install' = [install EXCEPT ![o].pc = "copying", ![o].read = c]
    PROVE  /\ install' \in [Operators -> Installs]
           /\ install'[o].pc = "copying" /\ install'[o].read = c
           /\ install'[o].dir = install[o].dir /\ install'[o].asset = install[o].asset
           /\ \A p \in Operators \ {o} : install'[p] = install[p]
<1>1. "copying" \in InstallSteps
  BY Zenon DEF InstallSteps
<1> QED BY <1>1, ZenonT(60) DEF Installs

\* ... and is called for the next file.
LEMMA NextAssetFacts ==
    ASSUME install \in [Operators -> Installs], NEW o \in Operators,
           install[o].asset < Len(Assets),
           install' = [install EXCEPT ![o].pc = "copy", ![o].asset = @ + 1]
    PROVE  /\ install' \in [Operators -> Installs]
           /\ install'[o].pc = "copy" /\ install'[o].dir = install[o].dir
           /\ \A p \in Operators \ {o} : install'[p] = install[p]
<1>1. install[o].asset + 1 \in DOMAIN Assets
  BY AssetFacts DEF Installs
<1> QED BY <1>1 DEF Installs, InstallSteps

\* An install is somewhere, for some file.
LEMMA InstallFacts ==
    ASSUME ImageTypeOK, NEW o \in Operators
    PROVE  /\ install[o].pc \in InstallSteps /\ install[o].dir \in Directories
           /\ Asset(o) \in Boot /\ Payload(o) \in Content /\ Image(o) \in Content
           /\ install[o].read \in Content
  BY AssetFacts, Zenon DEF ImageTypeOK, Installs, Asset, Payload, Image

-----------------------------------------------------------------------------
(* Types                                                                   *)

LEMMA TypesAreKept == ImageTypeOK /\ [ImageNext]_imageVars => ImageTypeOK'
<1> SUFFICES ASSUME ImageTypeOK, [ImageNext]_imageVars PROVE ImageTypeOK'
  BY Zenon
<1>a. /\ "extract" \in InstallSteps /\ "copy" \in InstallSteps /\ "rename" \in InstallSteps
      /\ "overlay" \in InstallSteps /\ "filling" \in InstallSteps /\ "move" \in InstallSteps
      /\ "place" \in InstallSteps /\ "finish" \in InstallSteps
      /\ "respond" \in InstallSteps
  BY Zenon DEF InstallSteps
<1>b. \A v : v \in Images \cup {Missing, Partial} => v \in Content
  BY Zenon DEF Content
<1>c. "live" \in Platforms /\ "new" \in Platforms /\ "old" \in Platforms /\ Staging \in Directories
  BY Zenon DEF Platforms, Directories
<1>1. CASE DiscardStaged
  BY <1>1, <1>b, Zenon DEF DiscardStaged, Discarded, ImageTypeOK, bootFiles, overlayState, imageBounds
<1>2. CASE WriteBack
  BY <1>2, Zenon DEF WriteBack, ImageTypeOK, bootFiles, staging, imageBounds
<1>3. CASE PowerCut
  <2>1. overlay' \in [Platforms -> Content]
    BY <1>3, <1>b, Zenon DEF PowerCut, ImageTypeOK
  <2>2. install' \in [Operators -> Installs]
    BY <1>3, NoInstallFacts, Zenon DEF PowerCut
  <2> QED BY <1>3, <2>1, <2>2 DEF PowerCut, ImageTypeOK
<1>4. CASE ImageRest \/ UNCHANGED imageVars
  BY <1>4, Zenon DEF ImageRest, ImageTypeOK, imageVars, bootFiles, overlayState, staging, imageBounds
<1>5. ASSUME NEW o \in Operators, NEW force \in BOOLEAN, UpgradeApply(o, force) PROVE ImageTypeOK'
  <2>1. PICK v : v \in Images
    BY FactoryIsAnImage, Zenon
  <2> DEFINE web == [NoInstall EXCEPT !.pc = "waiting", !.force = force]
  <2>2. web \in Installs /\ Ask(o, web)
    BY <1>5, <2>1, RequestFacts, Zenon DEF UpgradeApply
  <2> HIDE DEF web
  <2> QED BY <2>2, AskFacts DEF Ask, ImageTypeOK, bootFiles, overlayState, staging
<1>6. ASSUME NEW o \in Operators, NEW force \in BOOLEAN, NEW v \in Images, UpgradeRun(o, v, force)
      PROVE  ImageTypeOK'
  <2> DEFINE ctl == [NoInstall EXCEPT !.pc = "waiting", !.image = v, !.dir = "elsewhere",
                                      !.force = force]
  <2>1. ctl \in Installs /\ Ask(o, ctl)
    BY <1>6, RequestFacts, Zenon DEF UpgradeRun
  <2> HIDE DEF ctl
  <2> QED BY <2>1, AskFacts, SMTT(60) DEF Ask, ImageTypeOK, bootFiles, overlayState, staging
<1>7. ASSUME NEW o \in Operators, NEW v \in Images, BeginUpload(o, v) PROVE ImageTypeOK'
  BY <1>7, <1>b DEF BeginUpload, ImageTypeOK, bootFiles, overlayState
<1>8. ASSUME NEW o \in Operators, EndUpload(o) PROVE ImageTypeOK'
  BY <1>8, <1>b, Zenon DEF EndUpload, ImageTypeOK, bootFiles, overlayState, imageBounds
<1>9. ASSUME NEW o \in Operators, Cancel(o) PROVE ImageTypeOK'
  <2>1. install' \in [Operators -> Installs]
    BY <1>9, NoInstallFacts, Zenon DEF Cancel, ImageTypeOK
  <2> QED BY <1>9, <2>1, Zenon DEF Cancel, ImageTypeOK, bootFiles, overlayState, staging, imageBounds
<1>10. ASSUME NEW o \in Operators, Respond(o) PROVE ImageTypeOK'
  <2>1. install' \in [Operators -> Installs]
    BY <1>10, NoInstallFacts, Zenon DEF Respond, ImageTypeOK
  <2>2. part' \in Content /\ staged' \in Content /\ extract' \in [Directories -> Content]
    BY <1>10, <1>b, Zenon DEF Respond, Discarded, ImageTypeOK
  <2> QED BY <1>10, <2>1, <2>2, Zenon DEF Respond, ImageTypeOK, bootFiles, overlayState, imageBounds
<1>11. ASSUME NEW o \in Operators, BeginInstall(o) PROVE ImageTypeOK'
  <2>1. install' \in [Operators -> Installs] /\ engineLock' \in Operators \cup {Free}
    BY <1>11, <1>a, GoTo, RefusedFacts, Zenon DEF BeginInstall, ImageTypeOK
  <2> QED BY <1>11, <2>1, Zenon DEF BeginInstall, ImageTypeOK, bootFiles, overlayState, staging, imageBounds
<1>12. ASSUME NEW o \in Operators, Unpack(o) PROVE ImageTypeOK'
  <2>1. /\ install' \in [Operators -> Installs] /\ engineLock' \in Operators \cup {Free}
        /\ extract' \in [Directories -> Content]
    <3>1. CASE Image(o) \in Images
      <4>1. install' \in [Operators -> Installs]
        BY <1>12, <3>1, UnpackFacts, Zenon DEF Unpack, ImageTypeOK
      <4> QED BY <1>12, <3>1, <4>1, <1>b, Zenon DEF Unpack, ImageTypeOK
    <3>2. CASE Image(o) \notin Images
      BY <1>12, <3>2, <1>b, RefusedFacts, ZenonT(60) DEF Unpack, ImageTypeOK
    <3> QED BY <3>1, <3>2, Zenon
  <2> QED BY <1>12, <2>1, Zenon DEF Unpack, ImageTypeOK, bootFiles, overlayState, staging, imageBounds
<1>13. ASSUME NEW o \in Operators, Unpacked(o) PROVE ImageTypeOK'
  <2>1. /\ install' \in [Operators -> Installs] /\ engineLock' \in Operators \cup {Free}
    BY <1>13, <1>a, GoTo, RefusedFacts, Zenon DEF Unpacked, ImageTypeOK
  <2>2. install[o].image \in Content
    BY Zenon DEF ImageTypeOK, Installs
  <2>3. extract' \in [Directories -> Content]
    BY <1>13, <2>2, Zenon DEF Unpacked, ImageTypeOK
  <2> QED BY <1>13, <2>1, <2>3, Zenon DEF Unpacked, ImageTypeOK, bootFiles, overlayState, staging, imageBounds
<1>14. ASSUME NEW o \in Operators, CopyFile(o) PROVE ImageTypeOK'
  <2>1. install' \in [Operators -> Installs]
    BY <1>14, InstallFacts, CopyFacts, Zenon DEF CopyFile, ImageTypeOK
  <2>2. fresh' \in [Boot -> Content] /\ writing' \in [Operators -> {"nowhere", "new", "installed"}]
    BY <1>14, <1>b, Zenon DEF CopyFile, ImageTypeOK
  <2> QED BY <1>14, <2>1, <2>2, Zenon DEF CopyFile, ImageTypeOK, overlayState, staging, imageBounds
<1>15. ASSUME NEW o \in Operators, SyncFile(o) PROVE ImageTypeOK'
  <2>1. flash' \in [Boot -> Content] /\ fresh' \in [Boot -> Content]
        /\ writing' \in [Operators -> {"nowhere", "new", "installed"}]
    BY <1>15, InstallFacts, Zenon DEF SyncFile, ImageTypeOK
  <2>2. /\ install' \in [Operators -> Installs] /\ engineLock' \in Operators \cup {Free}
        /\ extract' \in [Directories -> Content]
    BY <1>15, <1>a, <1>b, GoTo, RefusedFacts, Zenon DEF SyncFile, ImageTypeOK
  <2> QED BY <1>15, <2>1, <2>2, Zenon DEF SyncFile, ImageTypeOK, overlayState, staging, imageBounds
<1>16. ASSUME NEW o \in Operators, RenameFile(o) PROVE ImageTypeOK'
  <2>1. flash' \in [Boot -> Content] /\ fresh' \in [Boot -> Content]
        /\ writing' \in [Operators -> {"nowhere", "new", "installed"}]
    BY <1>16, <1>b, InstallFacts, Zenon DEF RenameFile, ImageTypeOK, bootFiles
  <2>2. /\ install' \in [Operators -> Installs] /\ engineLock' \in Operators \cup {Free}
        /\ extract' \in [Directories -> Content]
    <3>1. CASE Refused(o) /\ extract' = [extract EXCEPT ![install[o].dir] = Missing]
      BY <3>1, <1>b, RefusedFacts, Zenon DEF ImageTypeOK
    <3>2. CASE UNCHANGED <<extract, engineLock>> /\ Go(o, "overlay")
      BY <3>2, <1>a, GoTo, Zenon DEF ImageTypeOK
    <3>3. CASE /\ UNCHANGED <<extract, engineLock>> /\ install[o].asset < Len(Assets)
               /\ install' = [install EXCEPT ![o].pc = "copy", ![o].asset = @ + 1]
      <4>1. install' \in [Operators -> Installs]
        BY <3>3, NextAssetFacts, Zenon DEF ImageTypeOK
      <4> QED BY <3>3, <4>1, Zenon DEF ImageTypeOK
    <3> QED BY <1>16, <3>1, <3>2, <3>3, Zenon DEF RenameFile
  <2> QED BY <1>16, <2>1, <2>2, Zenon DEF RenameFile, ImageTypeOK, overlayState, staging, imageBounds
<1>17. ASSUME NEW o \in Operators, CopyOverlay(o) PROVE ImageTypeOK'
  <2>1. install' \in [Operators -> Installs]
    BY <1>17, <1>a, GoTo, Zenon DEF CopyOverlay, ImageTypeOK
  <2>2. overlay' \in [Platforms -> Content] /\ unsynced' \subseteq Platforms
    BY <1>17, <1>b, Zenon DEF CopyOverlay, ImageTypeOK
  <2> QED BY <1>17, <2>1, <2>2, Zenon DEF CopyOverlay, ImageTypeOK, bootFiles, staging, imageBounds
<1>18. ASSUME NEW o \in Operators, FillOverlay(o) PROVE ImageTypeOK'
  <2>1. install' \in [Operators -> Installs]
    BY <1>18, <1>a, GoTo, Zenon DEF FillOverlay, ImageTypeOK
  <2>2. overlay' \in [Platforms -> Content] /\ unsynced' \subseteq Platforms
    BY <1>18, <1>c, InstallFacts, Zenon DEF FillOverlay, ImageTypeOK
  <2> QED BY <1>18, <2>1, <2>2, Zenon DEF FillOverlay, ImageTypeOK, bootFiles, staging, imageBounds
<1>19. ASSUME NEW o \in Operators, MoveOverlay(o) PROVE ImageTypeOK'
  <2>1. install' \in [Operators -> Installs]
    BY <1>19, <1>a, GoTo, Zenon DEF MoveOverlay, ImageTypeOK
  <2>2. overlay' \in [Platforms -> Content] /\ unsynced' \subseteq Platforms
    BY <1>19, <1>b, <1>c DEF MoveOverlay, Renamed, ImageTypeOK
  <2> QED BY <1>19, <2>1, <2>2, Zenon DEF MoveOverlay, ImageTypeOK, bootFiles, staging, imageBounds
<1>20. ASSUME NEW o \in Operators, PlaceOverlay(o) PROVE ImageTypeOK'
  <2>1. install' \in [Operators -> Installs]
    BY <1>20, <1>a, GoTo, Zenon DEF PlaceOverlay, ImageTypeOK
  <2>2. overlay' \in [Platforms -> Content] /\ unsynced' \subseteq Platforms
    BY <1>20, <1>b, <1>c, Zenon DEF PlaceOverlay, Renamed, ImageTypeOK
  <2> QED BY <1>20, <2>1, <2>2, Zenon DEF PlaceOverlay, ImageTypeOK, bootFiles, staging, imageBounds
<1>21. ASSUME NEW o \in Operators, Finish(o) PROVE ImageTypeOK'
  <2>1. install' \in [Operators -> Installs] /\ engineLock' \in Operators \cup {Free}
    BY <1>21, <1>a, GoTo, NoInstallFacts, Zenon DEF Finish, ImageTypeOK
  <2>2. overlay' \in [Platforms -> Content] /\ extract' \in [Directories -> Content]
    BY <1>21, <1>b, Zenon DEF Finish, ImageTypeOK
  <2> QED BY <1>21, <2>1, <2>2, Zenon DEF Finish, ImageTypeOK, bootFiles, staging, imageBounds
<1>22. ASSUME NEW o \in Operators, Errs(o) \/ FlashFault(o) PROVE ImageTypeOK'
  <2>1. GivesUp(o)
    BY <1>22, Zenon DEF Errs, FlashFault
  <2>2. /\ install' \in [Operators -> Installs] /\ engineLock' \in Operators \cup {Free}
        /\ extract' \in [Directories -> Content]
        /\ writing' \in [Operators -> {"nowhere", "new", "installed"}]
    BY <2>1, <1>b, RefusedFacts, Zenon DEF GivesUp, ImageTypeOK
  <2>3. installs' \in Nat /\ uploads' \in Nat /\ cuts' \in Nat /\ flashFaults' \in Nat
    BY <1>22 DEF Errs, FlashFault, imageBounds, ImageTypeOK
  <2>4. cutShort' \in Nat
    BY <2>1 DEF GivesUp, ImageTypeOK
  <2> QED BY <2>1, <2>2, <2>3, <2>4, Zenon DEF GivesUp, ImageTypeOK, staging
<1> QED BY <1>1, <1>2, <1>3, <1>4, <1>5, <1>6, <1>7, <1>8, <1>9, <1>10, <1>11, <1>12, <1>13, <1>14,
           <1>15, <1>16, <1>17, <1>18, <1>19, <1>20, <1>21, <1>22, Zenon DEF ImageNext

-----------------------------------------------------------------------------
(* What an install is sure of                                              *)

\* Who is not installing is sure of nothing but that they write nowhere.
LEMMA Bystander ==
    ASSUME NEW p \in Operators, ~Working(p), SureOf(p),
           install'[p] = install[p], writing'[p] = writing[p]
    PROVE  SureOf(p)' /\ ~Working(p)'
  BY Zenon DEF SureOf, Working, At

\* ... as is who has been told of an error.
LEMMA Told ==
    ASSUME NEW p \in Operators, install'[p] = NoInstall, writing'[p] = "nowhere"
    PROVE  SureOf(p)' /\ ~Working(p)'
  BY NoInstallFacts, Zenon DEF SureOf, Working, At

\* While one install is under way, the lock keeps all others out.
LEMMA Alone ==
    ASSUME HoldsLock, NEW o \in Operators, Working(o), NEW p \in Operators \ {o}
    PROVE  ~Working(p)
  BY Zenon DEF HoldsLock

\* While the lock is free nobody is installing.
LEMMA FreeMeansNobody ==
    ASSUME HoldsLock, engineLock = Free, NEW p \in Operators
    PROVE  ~Working(p)
  BY NamesAreDistinct, Zenon DEF HoldsLock

\* What an install does to the lock and to what the others are sure of.
LEMMA OnlyOne ==
    ASSUME HoldsLock, \A p \in Operators : SureOf(p),
           NEW o \in Operators, Working(o) \/ engineLock = Free,
           \A p \in Operators \ {o} : install'[p] = install[p] /\ writing'[p] = writing[p],
           Working(o)' => engineLock' = o,
           SureOf(o)'
    PROVE  HoldsLock' /\ (\A p \in Operators : SureOf(p))'
<1>1. ASSUME NEW p \in Operators \ {o} PROVE SureOf(p)' /\ ~Working(p)'
  BY Alone, FreeMeansNobody, Bystander, Zenon
<1>2. HoldsLock'
  BY <1>1, Zenon DEF HoldsLock
<1> QED BY <1>1, <1>2, Zenon

\* An install that ends with an error.
LEMMA EndsWithError ==
    ASSUME ImageTypeOK, HoldsLock, \A p \in Operators : SureOf(p),
           NEW o \in Operators, Working(o) \/ engineLock = Free, Refused(o),
           writing'[o] = "nowhere", \A p \in Operators \ {o} : writing'[p] = writing[p]
    PROVE  HoldsLock' /\ (\A p \in Operators : SureOf(p))'
<1>1. /\ install'[o] = NoInstall
      /\ \A p \in Operators \ {o} : install'[p] = install[p]
  BY RefusedFacts, Zenon DEF ImageTypeOK
<1>2. SureOf(o)' /\ ~Working(o)'
  BY <1>1, Told, Zenon
<1> QED BY <1>1, <1>2, OnlyOne, Zenon

\* The steps outside install(): nobody begins or ends an install, and a payload is
\* left alone or removed.
LEMMA OutsideIsHarmless ==
    ASSUME HoldsLock, \A p \in Operators : SureOf(p),
           NEW q \in Operators, ~Working(q), ~Working(q)',
           writing' = writing, fresh' = fresh, overlay' = overlay, cutShort' = cutShort /\ cutTore' = cutTore,
           \A p \in Operators \ {q} : install'[p] = install[p],
           \A p \in Operators : Working(p) => engineLock' = engineLock,
           \A d \in Directories : extract'[d] \in {extract[d], Missing},
           ImageTypeOK
    PROVE  HoldsLock' /\ (\A p \in Operators : SureOf(p))'
<1>1. ASSUME NEW p \in Operators PROVE SureOf(p)'
  <2>1. CASE p = q
    BY <2>1, Zenon DEF SureOf, Working, At
  <2>2. CASE p # q
    <3>1. install'[p] = install[p] /\ SureOf(p) /\ install[p].dir \in Directories
      BY <2>2, InstallFacts, Zenon
    <3>2. Payload(p)' \in {Payload(p), Missing}
      BY <3>1, Zenon DEF Payload
    <3>3. Asset(p)' = Asset(p)
      BY <3>1, Zenon DEF Asset
    <3> QED BY <3>1, <3>2, <3>3, Zenon DEF SureOf, At, Undisturbed
  <2> QED BY <2>1, <2>2, Zenon
<1>2. ASSUME NEW p \in Operators, Working(p)' PROVE engineLock' = p
  BY <1>2, Zenon DEF HoldsLock, Working
<1> QED BY <1>1, <1>2, Zenon DEF HoldsLock

\* With the mutex held for the whole install, every step keeps what installs are
\* sure of.
LEMMA SureIsKept ==
    ASSUME ~MayCancel, ImageTypeOK, HoldsLock, \A p \in Operators : SureOf(p),
           SwappedInPlace, [ImageNext]_imageVars
    PROVE  HoldsLock' /\ (\A p \in Operators : SureOf(p))'
<1> DEFINE Goal == HoldsLock' /\ (\A p \in Operators : SureOf(p))'
<1>a. /\ "extract" \in InstallSteps /\ "copy" \in InstallSteps /\ "rename" \in InstallSteps
      /\ "overlay" \in InstallSteps /\ "filling" \in InstallSteps /\ "move" \in InstallSteps
      /\ "place" \in InstallSteps /\ "finish" \in InstallSteps
      /\ "respond" \in InstallSteps
  BY Zenon DEF InstallSteps
<1>b. install \in [Operators -> Installs] /\ writing \in [Operators -> {"nowhere", "new", "installed"}]
      /\ extract \in [Directories -> Content] /\ overlay \in [Platforms -> Content]
      /\ fresh \in [Boot -> Content]
  BY Zenon DEF ImageTypeOK
<1>c. \A p \in Operators : ~At(p, "copying") => writing[p] = "nowhere"
  BY Zenon DEF SureOf
<1>1. ASSUME DiscardStaged \/ WriteBack \/ ImageRest \/ UNCHANGED imageVars PROVE Goal
  <2>1. /\ install' = install /\ writing' = writing /\ fresh' = fresh /\ overlay' = overlay
        /\ cutShort' = cutShort /\ cutTore' = cutTore /\ engineLock' = engineLock
        /\ extract' = extract \/ extract' = [extract EXCEPT ![Staging] = Missing]
    BY <1>1, Zenon DEF DiscardStaged, Discarded, WriteBack, ImageRest, imageVars, bootFiles, overlayState
  <2>2. \A d \in Directories : extract'[d] \in {extract[d], Missing}
    BY <2>1, <1>b, Zenon
  <2>3. ASSUME NEW p \in Operators PROVE SureOf(p)'
    <3>1. SureOf(p) /\ install[p].dir \in Directories
      BY InstallFacts, Zenon
    <3>2. Payload(p)' \in {Payload(p), Missing}
      BY <2>1, <2>2, <3>1, Zenon DEF Payload
    <3> QED BY <2>1, <3>1, <3>2, Zenon DEF SureOf, At, Asset, Undisturbed
  <2> QED BY <2>1, <2>3, Zenon DEF HoldsLock, Working
<1>2. ASSUME PowerCut PROVE Goal
  <2>1. ASSUME NEW p \in Operators PROVE SureOf(p)' /\ ~Working(p)'
    BY <1>2, Told, Zenon DEF PowerCut
  <2> QED BY <2>1, Zenon DEF HoldsLock
<1>3. ASSUME NEW o \in Operators, NEW force \in BOOLEAN,
             UpgradeApply(o, force) \/ \E v \in Images : UpgradeRun(o, v, force)
      PROVE  Goal
  <2>1. PICK request \in Installs : request.pc = "waiting" /\ Ask(o, request)
    BY <1>3, RequestFacts, FactoryIsAnImage, Zenon DEF UpgradeApply, UpgradeRun
  <2>2. install'[o] = request /\ \A p \in Operators \ {o} : install'[p] = install[p]
    BY <2>1, <1>b, AskFacts, Zenon
  <2>3. ~Working(o) /\ ~Working(o)'
    BY <2>1, <2>2, Zenon DEF Ask, Working, At
  <2> QED BY <2>1, <2>2, <2>3, <1>b, OutsideIsHarmless, Zenon DEF Ask, bootFiles, overlayState
<1>4. ASSUME NEW o \in Operators, EndUpload(o) \/ \E v \in Images : BeginUpload(o, v) PROVE Goal
  <2>1. /\ install' = install /\ writing' = writing /\ fresh' = fresh /\ overlay' = overlay
        /\ cutShort' = cutShort /\ cutTore' = cutTore /\ engineLock' = engineLock /\ extract' = extract
    BY <1>4, Zenon DEF EndUpload, BeginUpload, bootFiles, overlayState
  <2> QED BY <2>1, Zenon DEF HoldsLock, Working, SureOf, At, Asset, Payload, Undisturbed
<1>5. ASSUME NEW o \in Operators, Cancel(o) PROVE Goal
  <2>1. ~Working(o)
    BY <1>5, Zenon DEF Cancel
  <2>2. install'[o] = NoInstall /\ \A p \in Operators \ {o} : install'[p] = install[p]
    BY <1>5, <2>1, <1>b, Zenon DEF Cancel
  <2>3. ~Working(o)'
    BY <2>2, NoInstallFacts, Zenon DEF Working
  <2>4. \A p \in Operators : Working(p) => engineLock' = engineLock
    BY <1>5, <2>1, Zenon DEF Cancel, HoldsLock
  <2> QED BY <1>5, <2>1, <2>2, <2>3, <2>4, <1>b, OutsideIsHarmless, Zenon DEF Cancel, bootFiles, overlayState
<1>6. ASSUME NEW o \in Operators, Respond(o) PROVE Goal
  <2>1. install'[o] = NoInstall /\ \A p \in Operators \ {o} : install'[p] = install[p]
    BY <1>6, <1>b, Zenon DEF Respond
  <2>2. ~Working(o) /\ ~Working(o)'
    BY <1>6, <2>1, NoInstallFacts, Zenon DEF Respond, Working, At
  <2>3. \A d \in Directories : extract'[d] \in {extract[d], Missing}
    BY <1>6, <1>b, Zenon DEF Respond, Discarded
  <2> QED BY <1>6, <2>1, <2>2, <2>3, OutsideIsHarmless, Zenon DEF Respond, bootFiles, overlayState
<1>7. ASSUME NEW o \in Operators, BeginInstall(o) PROVE Goal
  <2>1. writing' = writing /\ writing[o] = "nowhere" /\ engineLock = Free
    BY <1>7, <1>c, Zenon DEF BeginInstall, At, bootFiles
  <2>2. CASE Refused(o)
    BY <2>1, <2>2, EndsWithError, Zenon
  <2>3. CASE Go(o, "extract") /\ engineLock' = o
    <3>1. install'[o].pc = "extract" /\ \A p \in Operators \ {o} : install'[p] = install[p]
      BY <2>3, <1>a, <1>b, GoTo, Zenon
    <3>2. SureOf(o)'
      BY <2>1, <3>1, Zenon DEF SureOf, At
    <3> QED BY <2>1, <2>3, <3>1, <3>2, OnlyOne, Zenon
  <2> QED BY <1>7, <2>2, <2>3, Zenon DEF BeginInstall
<1>8. ASSUME NEW o \in Operators, Unpack(o) PROVE Goal
  <2>1. writing' = writing /\ writing[o] = "nowhere" /\ Working(o)
    BY <1>8, <1>c, Zenon DEF Unpack, At, bootFiles, Working
  <2>2. CASE Refused(o)
    BY <2>1, <2>2, EndsWithError, Zenon
  <2>3. CASE ~Refused(o)
    <3> DEFINE v == Image(o)
    <3>1. /\ install' = [install EXCEPT ![o].pc = "extracting", ![o].image = v]
          /\ v \in Images /\ engineLock' = engineLock
      BY <1>8, <2>3, Zenon DEF Unpack
    <3> HIDE DEF v
    <3>2. /\ install'[o].pc = "extracting" /\ install'[o].image = v
          /\ \A p \in Operators \ {o} : install'[p] = install[p]
      BY <3>1, <1>b, UnpackFacts, Zenon
    <3>3. SureOf(o)'
      BY <2>1, <3>1, <3>2, Zenon DEF SureOf, At
    <3> QED BY <2>1, <3>1, <3>2, <3>3, OnlyOne, Zenon DEF HoldsLock
  <2> QED BY <2>2, <2>3, Zenon
<1>9. ASSUME NEW o \in Operators, Unpacked(o) PROVE Goal
  <2>1. writing' = writing /\ writing[o] = "nowhere" /\ Working(o)
    BY <1>9, <1>c, Zenon DEF Unpacked, At, bootFiles, Working
  <2>2. CASE Refused(o)
    BY <2>1, <2>2, EndsWithError, Zenon
  <2>3. CASE ~Refused(o)
    <3>1. /\ extract' = [extract EXCEPT ![install[o].dir] = install[o].image]
          /\ Go(o, "copy") /\ engineLock' = engineLock
      BY <1>9, <2>3, Zenon DEF Unpacked
    <3>2. /\ install'[o].pc = "copy" /\ install'[o].dir = install[o].dir
          /\ \A p \in Operators \ {o} : install'[p] = install[p]
      BY <3>1, <1>a, <1>b, GoTo, Zenon
    <3>3. Payload(o)' \in Images
      BY <1>9, <3>1, <3>2, <1>b, InstallFacts, Zenon DEF Unpacked, Payload, SureOf
    <3>4. SureOf(o)'
      BY <2>1, <3>2, <3>3, Zenon DEF SureOf, At
    <3> QED BY <2>1, <3>1, <3>2, <3>4, OnlyOne, Zenon DEF HoldsLock
  <2> QED BY <2>2, <2>3, Zenon
<1>10. ASSUME NEW o \in Operators, CopyFile(o) PROVE Goal
  <2>1. /\ Working(o) /\ Payload(o) \in Images /\ writing'[o] = "new"
        /\ extract' = extract /\ engineLock' = engineLock
        /\ \A p \in Operators \ {o} : writing'[p] = writing[p]
    BY <1>10, <1>b, Zenon DEF CopyFile, At, Working, SureOf
  <2>2. /\ install'[o].pc = "copying" /\ install'[o].read = Payload(o)
        /\ install'[o].dir = install[o].dir
        /\ \A p \in Operators \ {o} : install'[p] = install[p]
    BY <1>10, <1>b, InstallFacts, CopyFacts, Zenon DEF CopyFile
  <2>3. SureOf(o)'
    BY <2>1, <2>2, Zenon DEF SureOf, At, Payload
  <2> QED BY <2>1, <2>2, <2>3, OnlyOne, Zenon DEF HoldsLock
<1>11. ASSUME NEW o \in Operators, SyncFile(o) PROVE Goal
  <2>1. /\ Working(o) /\ writing[o] = "new" /\ install[o].read \in Images
        /\ Payload(o) \in Images \cup {Missing}
    BY <1>11, Zenon DEF SyncFile, At, Working, SureOf
  <2>2. /\ writing'[o] = "nowhere" /\ \A p \in Operators \ {o} : writing'[p] = writing[p]
        /\ fresh'[Asset(o)] = install[o].read
    BY <1>11, <2>1, <1>b, InstallFacts, Zenon DEF SyncFile
  <2>3. Go(o, "rename") /\ extract' = extract /\ engineLock' = engineLock
    BY <1>11, <2>1, <2>2, NamesAreDistinct, Zenon DEF SyncFile
  <2>4. /\ install'[o].pc = "rename" /\ install'[o].dir = install[o].dir
        /\ install'[o].asset = install[o].asset
        /\ \A p \in Operators \ {o} : install'[p] = install[p]
    BY <2>3, <1>a, <1>b, GoTo, Zenon
  <2>5. Payload(o)' = Payload(o) /\ fresh'[Asset(o)'] \in Images
    BY <2>1, <2>2, <2>3, <2>4, Zenon DEF Payload, Asset
  <2>6. SureOf(o)'
    BY <2>1, <2>2, <2>4, <2>5, Zenon DEF SureOf, At
  <2> QED BY <2>1, <2>2, <2>3, <2>4, <2>6, OnlyOne, Zenon DEF HoldsLock
<1>12. ASSUME NEW o \in Operators, RenameFile(o) PROVE Goal
  <2>1. /\ Working(o) /\ writing[o] = "nowhere" /\ fresh[Asset(o)] \in Images
        /\ Payload(o) \in Images \cup {Missing}
    BY <1>12, Zenon DEF RenameFile, At, Working, SureOf
  <2>2. /\ extract' = extract /\ engineLock' = engineLock
        /\ \/ Go(o, "overlay")
           \/ /\ install[o].asset < Len(Assets)
              /\ install' = [install EXCEPT ![o].pc = "copy", ![o].asset = @ + 1]
    BY <1>12, <2>1, NamesAreDistinct, Zenon DEF RenameFile
  <2>3. /\ install'[o].pc \in {"copy", "overlay"} /\ install'[o].dir = install[o].dir
        /\ \A p \in Operators \ {o} : install'[p] = install[p]
    BY <2>2, <1>a, <1>b, GoTo, NextAssetFacts, ZenonT(60)
  <2>4. \A p \in Operators : writing'[p] = writing[p]
    <3>1. \A p \in Operators \ {o} : ~At(p, "copying")
      BY <2>1, Alone, Zenon DEF Working, At
    <3> QED BY <1>12, <2>1, <3>1, <1>b, NamesAreDistinct, Zenon DEF RenameFile
  <2>5. Payload(o)' = Payload(o)
    BY <2>2, <2>3, Zenon DEF Payload
  <2>6. SureOf(o)'
    BY <2>1, <2>3, <2>4, <2>5, Zenon DEF SureOf, At
  <2> QED BY <2>1, <2>2, <2>3, <2>4, <2>6, OnlyOne, Zenon DEF HoldsLock
<1>13. ASSUME NEW o \in Operators, CopyOverlay(o) PROVE Goal
  <2>1. /\ Working(o) /\ writing' = writing /\ writing[o] = "nowhere"
        /\ extract' = extract /\ engineLock' = engineLock /\ Payload(o) \in Images \cup {Missing}
    BY <1>13, <1>c, Zenon DEF CopyOverlay, At, Working, SureOf, bootFiles
  <2>2. /\ install'[o].pc = "filling" /\ install'[o].dir = install[o].dir
        /\ \A p \in Operators \ {o} : install'[p] = install[p]
    BY <1>13, <1>a, <1>b, GoTo, Zenon DEF CopyOverlay
  <2>3. Payload(o)' = Payload(o) /\ (Undisturbed' => overlay'["live"] \in Images)
    <3>1. ASSUME NEW p \in Operators PROVE ~At(p, "place")
      BY <1>13, <2>1, Zenon DEF CopyOverlay, HoldsLock, Working, At
    <3> QED BY <1>13, <2>1, <2>2, <3>1, <1>b, Zenon DEF Payload, CopyOverlay, Platforms,
            SwappedInPlace, Undisturbed
  <2>4. SureOf(o)'
    BY <2>1, <2>2, <2>3, Zenon DEF SureOf, At
  <2> QED BY <2>1, <2>2, <2>4, OnlyOne, Zenon DEF HoldsLock
<1>14. ASSUME NEW o \in Operators, FillOverlay(o) PROVE Goal
  <2>1. /\ Working(o) /\ writing' = writing /\ writing[o] = "nowhere"
        /\ engineLock' = engineLock /\ Payload(o) \in Images
        /\ (Undisturbed => overlay["live"] \in Images)
    BY <1>14, <1>c, Zenon DEF FillOverlay, At, Working, SureOf, bootFiles
  <2>2. /\ install'[o].pc = "move"
        /\ \A p \in Operators \ {o} : install'[p] = install[p]
    BY <1>14, <1>a, <1>b, GoTo, Zenon DEF FillOverlay
  <2>3. overlay'["new"] \in Images /\ (Undisturbed' => overlay'["live"] \in Images)
    BY <1>14, <2>1, <1>b, Zenon DEF FillOverlay, Platforms, Undisturbed
  <2>4. SureOf(o)'
    BY <2>1, <2>2, <2>3, Zenon DEF SureOf, At
  <2> QED BY <2>1, <2>2, <2>4, OnlyOne, Zenon DEF HoldsLock
<1>15. ASSUME NEW o \in Operators, MoveOverlay(o) PROVE Goal
  <2>1. /\ Working(o) /\ writing' = writing /\ writing[o] = "nowhere"
        /\ engineLock' = engineLock /\ overlay["new"] \in Images
        /\ (Undisturbed => overlay["live"] \in Images)
    BY <1>15, <1>c, Zenon DEF MoveOverlay, At, Working, SureOf, bootFiles
  <2>2. /\ install'[o].pc = "place"
        /\ \A p \in Operators \ {o} : install'[p] = install[p]
    BY <1>15, <1>a, <1>b, GoTo, Zenon DEF MoveOverlay
  <2>3. overlay'["new"] \in Images /\ (Undisturbed' => overlay'["old"] \in Images)
    BY <1>15, <2>1, <1>b, NamesAreDistinct, Zenon DEF MoveOverlay, Renamed, Platforms, Undisturbed
  <2>4. SureOf(o)'
    BY <2>1, <2>2, <2>3, Zenon DEF SureOf, At
  <2> QED BY <2>1, <2>2, <2>4, OnlyOne, Zenon DEF HoldsLock
<1>16. ASSUME NEW o \in Operators, PlaceOverlay(o) PROVE Goal
  <2>1. /\ Working(o) /\ writing' = writing /\ writing[o] = "nowhere"
        /\ engineLock' = engineLock /\ overlay["new"] \in Images
    BY <1>16, <1>c, Zenon DEF PlaceOverlay, At, Working, SureOf, bootFiles
  <2>2. /\ install'[o].pc = "finish"
        /\ \A p \in Operators \ {o} : install'[p] = install[p]
    BY <1>16, <1>a, <1>b, GoTo, Zenon DEF PlaceOverlay
  <2>3. overlay'["live"] \in Images
    BY <1>16, <2>1, <1>b, Zenon DEF PlaceOverlay, Renamed, Platforms
  <2>4. SureOf(o)'
    BY <2>1, <2>2, <2>3, Zenon DEF SureOf, At
  <2> QED BY <2>1, <2>2, <2>4, OnlyOne, Zenon DEF HoldsLock
<1>17. ASSUME NEW o \in Operators, Finish(o) PROVE Goal
  <2>1. Working(o) /\ writing' = writing /\ writing[o] = "nowhere" /\ engineLock = o
    BY <1>17, <1>c, Zenon DEF Finish, At, Working, bootFiles, HoldsLock
  <2>2. /\ install'[o].pc = "respond"
        /\ \A p \in Operators \ {o} : install'[p] = install[p]
    BY <1>17, <2>1, <1>a, <1>b, GoTo, Zenon DEF Finish
  <2>3. SureOf(o)' /\ ~Working(o)'
    BY <2>1, <2>2, Zenon DEF SureOf, At, Working
  <2> QED BY <2>1, <2>2, <2>3, OnlyOne, Zenon
<1>18. ASSUME NEW o \in Operators, Errs(o) \/ FlashFault(o) PROVE Goal
  <2>1. Working(o) /\ GivesUp(o)
    BY <1>18, Zenon DEF Errs, FlashFault, Blocked, Working, At
  <2>2. writing'[o] = "nowhere" /\ \A p \in Operators \ {o} : writing'[p] = writing[p]
    BY <2>1, <1>b, Zenon DEF GivesUp
  <2> QED BY <2>1, <2>2, EndsWithError, Zenon DEF GivesUp
<1> HIDE DEF Goal
<1>19. Goal
  BY <1>1, <1>2, <1>3, <1>4, <1>5, <1>6, <1>7, <1>8, <1>9, <1>10, <1>11, <1>12, <1>13, <1>14,
     <1>15, <1>16, <1>17, <1>18, Zenon DEF ImageNext
<1> QED BY <1>19, Zenon DEF Goal

-----------------------------------------------------------------------------
(* The boot files and the overlay                                          *)

\* Only a rename touches a boot file, and what it puts there is whole.
LEMMA BootFilesAreKept ==
    ASSUME ImageInv, [ImageNext]_imageVars
    PROVE  BootFilesAreWhole'
<1>1. ASSUME NEW o \in Operators, SyncFile(o) PROVE flash' = flash
  <2>1. writing[o] = "new"
    BY <1>1, Zenon DEF SyncFile, ImageInv, SureOf
  <2> QED BY <1>1, <2>1, Zenon DEF SyncFile
<1>2. ASSUME NEW o \in Operators, RenameFile(o) PROVE BootFilesAreWhole'
  <2>1. fresh[Asset(o)] \in Images
    BY <1>2, Zenon DEF RenameFile, ImageInv, SureOf
  <2> QED BY <1>2, <2>1, Zenon DEF RenameFile, bootFiles, ImageInv, ImageTypeOK, BootFilesAreWhole
<1>3. CASE flash' = flash
  BY <1>3, Zenon DEF ImageInv, BootFilesAreWhole
<1> QED BY <1>1, <1>2, <1>3, ZenonT(60)
       DEF ImageNext, imageVars, bootFiles, DiscardStaged, WriteBack, PowerCut,
           ImageRest, UpgradeApply, UpgradeRun, Ask, BeginUpload, EndUpload, Cancel, Respond,
           BeginInstall, Unpack, Unpacked, CopyFile, CopyOverlay, FillOverlay, MoveOverlay,
           PlaceOverlay, Finish, Errs, FlashFault, GivesUp

\* Counting one more.
LEMMA OneMore ==
    \A n \in Nat : /\ n + 1 # 0 /\ (n + 1 <= 1 => n = 0)
                   /\ n <= 1 <=> n = 0 \/ n = 1
                   /\ ~(n = 0 /\ n = 1)
  BY SMT

\* The steps that move the overlay, and those that cut an install short.
LEMMA OverlayIsStillKept ==
    ASSUME ImageInv, [ImageNext]_imageVars, HoldsLock', (\A p \in Operators : SureOf(p))',
           ImageTypeOK'
    PROVE  OverlayIsKept' /\ SwappedInPlace'
<1> DEFINE Goal == OverlayIsKept' /\ SwappedInPlace'
<1>a. /\ overlay \in [Platforms -> Content] /\ cutShort \in Nat /\ cutTore \in BOOLEAN
      /\ cutShort' \in Nat /\ install \in [Operators -> Installs]
      /\ OverlayIsKept /\ SwappedInPlace
  BY Zenon DEF ImageInv, ImageTypeOK
<1>b. ASSUME NEW o \in Operators, AtOverlay(o)' PROVE Goal
  <2>1. SureOf(o)'
    OBVIOUS
  <2> QED BY <1>b, <2>1, <1>a, OneMore, Zenon
          DEF AtOverlay, SureOf, At, Undisturbed, OverlayIsKept, SwappedInPlace
<1>c. ASSUME overlay'["live"] \in Images PROVE Goal
  BY <1>c, Zenon DEF OverlayIsKept, SwappedInPlace
<1>d. ASSUME NEW o \in Operators, Working(o), ~AtOverlay(o),
             NEW p \in Operators, AtOverlay(p) PROVE FALSE
  BY <1>d, Zenon DEF ImageInv, HoldsLock, Working, AtOverlay
<1>1. ASSUME NEW o \in Operators, CopyOverlay(o) \/ FillOverlay(o) \/ MoveOverlay(o) PROVE Goal
  <2>1. AtOverlay(o)'
    BY <1>1, <1>a, GoTo, Zenon DEF CopyOverlay, FillOverlay, MoveOverlay, AtOverlay, InstallSteps
  <2> QED BY <2>1, <1>b, Zenon
<1>2. ASSUME NEW o \in Operators, PlaceOverlay(o) \/ Finish(o) PROVE Goal
  <2>1. CASE PlaceOverlay(o)
    <3>1. overlay["new"] \in Images
      BY <2>1, Zenon DEF PlaceOverlay, ImageInv, SureOf, At
    <3> QED BY <2>1, <3>1, <1>a, <1>c, Zenon DEF PlaceOverlay, Renamed, Platforms
  <2>2. CASE Finish(o)
    <3>1. overlay["live"] \in Images
      BY <2>2, Zenon DEF Finish, ImageInv, SureOf, At
    <3> QED BY <2>2, <3>1, <1>a, <1>c, Zenon DEF Finish, Platforms
  <2> QED BY <1>2, <2>1, <2>2, Zenon
<1>3. ASSUME ~cutTore' => (/\ ~cutTore /\ overlay'["live"] = overlay["live"]
                           /\ overlay'["old"] = overlay["old"]),
             \/ cutShort' = cutShort + 1
             \/ cutShort' = cutShort /\ \A p \in Operators : ~AtOverlay(p)
      PROVE  Goal
  <2>1. CASE cutShort' = cutShort + 1
    BY <2>1, <1>3, <1>a, OneMore, Zenon DEF OverlayIsKept, SwappedInPlace, Undisturbed
  <2>2. CASE cutShort' = cutShort /\ \A p \in Operators : ~AtOverlay(p)
    BY <2>2, <1>3, <1>a, Zenon DEF OverlayIsKept, SwappedInPlace, Undisturbed, AtOverlay, At
  <2> QED BY <1>3, <2>1, <2>2, Zenon
<1>4. ASSUME PowerCut PROVE Goal
  <2>1. ~cutTore' => (/\ ~cutTore /\ overlay'["live"] = overlay["live"]
                      /\ overlay'["old"] = overlay["old"])
    BY <1>4, <1>a, Zenon DEF PowerCut, Platforms
  <2> QED BY <1>4, <2>1, <1>3, Zenon DEF PowerCut
<1>5. ASSUME NEW o \in Operators, Errs(o) \/ FlashFault(o) PROVE Goal
  <2>1. Working(o) /\ GivesUp(o)
    BY <1>5, Zenon DEF Errs, FlashFault, Blocked, Working, At
  <2> QED BY <2>1, <1>d, <1>3, Zenon DEF GivesUp
<1>6. ASSUME UNCHANGED overlayState, NEW o \in Operators, ~AtOverlay(o),
             \A p \in Operators \ {o} : install'[p] = install[p]
      PROVE  Goal
  BY <1>6, <1>a, Zenon DEF overlayState, OverlayIsKept, SwappedInPlace, Undisturbed, AtOverlay, At
<1>7. ASSUME UNCHANGED <<overlay, cutShort, cutTore, install>> PROVE Goal
  BY <1>7, <1>a, Zenon DEF OverlayIsKept, SwappedInPlace, Undisturbed, AtOverlay, At
<1>8. ASSUME NEW o \in Operators, NEW force \in BOOLEAN,
             UpgradeApply(o, force) \/ \E v \in Images : UpgradeRun(o, v, force)
      PROVE  Goal
  <2>1. PICK request \in Installs : Ask(o, request)
    BY <1>8, RequestFacts, FactoryIsAnImage, Zenon DEF UpgradeApply, UpgradeRun
  <2>2. \A p \in Operators \ {o} : install'[p] = install[p]
    BY <2>1, <1>a, AskFacts, Zenon
  <2> QED BY <2>1, <2>2, <1>6, Zenon DEF Ask, At, AtOverlay
<1>9. ASSUME NEW o \in Operators, Cancel(o) \/ Respond(o) PROVE Goal
  BY <1>9, <1>a, <1>6, <1>7, Zenon DEF Cancel, Respond, Working, AtOverlay, At, overlayState
<1>10. ASSUME NEW o \in Operators,
              BeginInstall(o) \/ Unpack(o) \/ Unpacked(o) \/ CopyFile(o) \/ SyncFile(o)
                \/ RenameFile(o)
       PROVE  Goal
  <2>1. ~AtOverlay(o) /\ UNCHANGED overlayState
    BY <1>10, Zenon DEF BeginInstall, Unpack, Unpacked, CopyFile, SyncFile, RenameFile, At, AtOverlay
  <2>2. \A p \in Operators \ {o} : install'[p] = install[p]
    BY <1>10, <1>a, Zenon DEF BeginInstall, Unpack, Unpacked, CopyFile, SyncFile, RenameFile, Go,
       Refused
  <2> QED BY <2>1, <2>2, <1>6, Zenon
<1>11. ASSUME \/ DiscardStaged \/ WriteBack \/ ImageRest \/ UNCHANGED imageVars
              \/ \E o \in Operators : EndUpload(o) \/ \E v \in Images : BeginUpload(o, v)
       PROVE  Goal
  BY <1>11, <1>7, Zenon DEF DiscardStaged, WriteBack, ImageRest, imageVars, EndUpload, BeginUpload,
     overlayState
<1> HIDE DEF Goal
<1>12. Goal
  BY <1>1, <1>2, <1>4, <1>5, <1>8, <1>9, <1>10, <1>11, Zenon DEF ImageNext
<1> QED BY <1>12, Zenon DEF Goal

-----------------------------------------------------------------------------
(* The theorems                                                            *)

LEMMA ImageInitInv == ImageInit => ImageInv
<1> SUFFICES ASSUME ImageInit PROVE ImageInv
  BY Zenon
<1>1. \A o \in Operators : install[o].pc = "idle" /\ writing[o] = "nowhere"
  BY NoInstallFacts, Zenon DEF ImageInit
<1>2. ImageTypeOK
  BY NoInstallFacts, FactoryIsAnImage, Zenon DEF ImageInit, ImageTypeOK, Content
<1>3. HoldsLock /\ \A o \in Operators : SureOf(o)
  BY <1>1, Zenon DEF HoldsLock, Working, SureOf, At
<1>4. BootFilesAreWhole /\ OverlayIsKept /\ SwappedInPlace
  BY FactoryIsAnImage, Zenon DEF ImageInit, BootFilesAreWhole, OverlayIsKept, SwappedInPlace,
     Platforms
<1> QED BY <1>2, <1>3, <1>4, Zenon DEF ImageInv

\* The steps of an install see the state they rely on, whoever else uploads,
\* discards, waits or fails (image.rs, maint.rs, install_image).
THEOREM InstallsAreSerialized ==
    ASSUME ~MayCancel
    PROVE  ImageSpec => []ImageInv
<1>1. ImageInv /\ [ImageNext]_imageVars => ImageInv'
  <2> SUFFICES ASSUME ImageInv, [ImageNext]_imageVars PROVE ImageInv'
    BY Zenon
  <2>1. ImageTypeOK'
    BY TypesAreKept, Zenon DEF ImageInv
  <2>2. HoldsLock' /\ (\A p \in Operators : SureOf(p))'
    BY SureIsKept, Zenon DEF ImageInv
  <2>3. OverlayIsKept' /\ SwappedInPlace'
    BY <2>1, <2>2, OverlayIsStillKept, Zenon
  <2> QED BY <2>1, <2>2, <2>3, BootFilesAreKept, Zenon DEF ImageInv
<1> QED BY <1>1, ImageInitInv, PTL DEF ImageSpec

\* "a power cut mid-copy leaves the previous file intact" (install_file): for any
\* number of operators, installs, failures and power cuts, no boot file is ever a
\* part of an image, if the request of an install stays to its end.
THEOREM BootFilesAreAlwaysWhole ==
    ASSUME ~MayCancel
    PROVE  ImageSpec => []BootFilesAreWhole
<1>1. ImageInv => BootFilesAreWhole
  BY Zenon DEF ImageInv
<1> QED BY <1>1, InstallsAreSerialized, PTL

\* The swap of the overlay (install_payload): for any number of operators, installs,
\* failures and power cuts that tear no overlay, a whole one is in place or moved aside,
\* until an install that follows one cut short has removed what that left aside.
THEOREM OverlayIsAlwaysKept ==
    ASSUME ~MayCancel
    PROVE  ImageSpec => []OverlayIsKept
<1>1. ImageInv => OverlayIsKept
  BY Zenon DEF ImageInv
<1> QED BY <1>1, InstallsAreSerialized, PTL

\* Files, directories and requests keep their types, whether or not requests are
\* dropped (image.rs, maint.rs, install_image).
THEOREM ImageTypes == ImageSpec => []ImageTypeOK
<1>1. ImageInit => ImageTypeOK
  BY ImageInitInv, Zenon DEF ImageInv
<1> QED BY <1>1, TypesAreKept, PTL DEF ImageSpec
=============================================================================
