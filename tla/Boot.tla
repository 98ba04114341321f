-------------------------------- MODULE Boot --------------------------------
(***************************************************************************)
(* The boot script of a CD made by mklivecd, linuxrc: it looks through the *)
(* devices for the compressed image of the system, mounts it through a     *)
(* loop device, may copy it to memory, and hands over to rc.sysinit.       *)
(* printfatal replaces the script by a shell: nothing comes after it.      *)
(*                                                                         *)
(* What is mounted on MNTCDROM is a stack: bootfromiso may leave an ISO    *)
(* image there, and findcloop mounts over it.                              *)
(***************************************************************************)
EXTENDS Integers, Sequences, FiniteSets, SequencesExt

CONSTANTS
    MaxDevices,  \* bound on the devices in CDROM_LIST
    Media        \* what a device may hold

ASSUME BootAssumption ==
    /\ MaxDevices \in Nat
    /\ Media \subseteq [mountable : BOOLEAN,
                        image  : {"none", "bad", "good"},   \* $BASEIMG.sqfs
                        livecd : {"none", "bad", "good"},   \* livecd.sqfs
                        iso    : {"none", "noiso", "empty", "bad", "good"}]

VARIABLES
    pc,
    media,    \* what the devices of CDROM_LIST hold, in order
    options,  \* the boot codes: iso, toram, and base: $BASEIMG is "livecd"
    machine,  \* memory: there is enough; node: /dev/loop0 exists; frees: umount
              \* detaches the loop device
    i,        \* the device looked at
    isodev,   \* LOOP_DEV, 0 when empty
    cdrom,    \* what is mounted on MNTCDROM, the top first
    part,     \* the device mounted on /part, or 0
    loop,     \* the file behind each loop device
    livecd,   \* the image mounted on MNTLIVECD
    ram,      \* the tmpfs of copy2ram is mounted
    loopmnt   \* LOOPMNT is set

env  == <<media, options, machine>>
vars == <<pc, env, i, isodev, cdrom, part, loop, livecd, ram, loopmnt>>

Loops   == 0 .. 2
Nothing == [on |-> "nothing", of |-> 0]
\* A mounted file system, or the one that holds the file behind a loop
\* device: a device, the ISO image on a device, /part or the memory.
Device(d) == [on |-> "device", of |-> d]
Iso(d)    == [on |-> "iso", of |-> d]
Part(d)   == [on |-> "part", of |-> d]
Memory(d) == [on |-> "memory", of |-> d]

Init ==
    /\ pc = "ramdisk"
    /\ media \in UNION {[1 .. n -> Media] : n \in 0 .. MaxDevices}
    /\ options \in [iso : BOOLEAN, toram : BOOLEAN, base : BOOLEAN]
    /\ options.base => \A d \in 1 .. Len(media) : media[d].livecd = media[d].image
    /\ machine \in [memory : BOOLEAN, node : BOOLEAN, frees : BOOLEAN]
    /\ i = 1 /\ isodev = 0
    /\ cdrom = <<>> /\ part = 0 /\ loop = [l \in Loops |-> Nothing] /\ livecd = Nothing
    /\ ram = FALSE /\ loopmnt = FALSE

Mounts == <<cdrom, part, loop, livecd, ram>>
Goes(to) == pc' = to
Fatal    == Goes("shell")

----------------------------------------------------------------------------
(***************************************************************************)
(* createramdisk, find_cdroms and the search for the ISO image.            *)
(***************************************************************************)

\* printfatal when memory is short, and when there is no device.
Start ==
    /\ pc = "ramdisk"
    /\ \/ ~machine.memory /\ Fatal
       \/ machine.memory /\ media = <<>> /\ Fatal
       \/ machine.memory /\ media # <<>> /\ Goes(IF options.iso THEN "iso" ELSE "find")
    /\ UNCHANGED <<env, i, isodev, Mounts, loopmnt>>

\* One turn of the loop: the device is mounted on MNTCDROM, looked at and
\* unmounted; the first that has the file is taken.
SearchIso ==
    /\ pc = "iso" /\ i <= Len(media)
    /\ IF media[i].mountable /\ media[i].iso # "none"
       THEN isodev' = i /\ Goes("isomount") /\ i' = 1
       ELSE i' = i + 1 /\ UNCHANGED <<isodev, pc>>
    /\ UNCHANGED <<env, Mounts, loopmnt>>

\* No ISO image: the failure is printed and the devices are tried.
NoIso ==
    /\ pc = "iso" /\ i > Len(media)
    /\ Goes("find") /\ i' = 1
    /\ UNCHANGED <<env, isodev, Mounts, loopmnt>>

\* /part, loop1 and MNTCDROM; without the image in it, printfatal.  An image
\* that cannot be mounted leaves LOOPMNT empty and all of this mounted.
MountIso ==
    /\ pc = "isomount"
    /\ LET iso == media[isodev].iso
           in  == [loop EXCEPT ![1] = Part(isodev)]
       IN  /\ part' = isodev
           /\ cdrom' = IF iso = "noiso" THEN <<>> ELSE <<Iso(isodev)>>
           /\ IF iso \in {"noiso", "empty"}
              THEN Fatal /\ loop' = in /\ UNCHANGED <<livecd, loopmnt>>
              ELSE /\ loop' = [in EXCEPT ![2] = Iso(isodev)]
                   /\ livecd' = IF iso = "good" THEN Iso(isodev) ELSE Nothing
                   /\ loopmnt' = (iso = "good")
                   /\ Goes(IF iso = "good" THEN "found" ELSE "find")
    /\ UNCHANGED <<env, i, isodev, ram>>

----------------------------------------------------------------------------
(***************************************************************************)
(* findcloop.                                                              *)
(***************************************************************************)

\* mountit fails -- as it may for the device mounted read-only on /part -- or
\* the image is not there and the device is unmounted.
SkipDevice ==
    /\ pc = "find" /\ i <= Len(media)
    /\ ~media[i].mountable \/ media[i].image = "none" \/ part = i
    /\ i' = i + 1
    /\ UNCHANGED <<pc, env, isodev, Mounts, loopmnt>>

\* Mutant of MountFailed: the next device is tried.
MountFailedNext ==
    /\ Goes("find") /\ i' = i + 1
    /\ UNCHANGED <<cdrom, loop, livecd, loopmnt>>

\* printfatal, with the device mounted and loop0 set up.
MountFailed ==
    /\ Fatal
    /\ cdrom' = <<Device(i)>> \o cdrom
    /\ loop' = IF machine.node THEN [loop EXCEPT ![0] = Device(i)] ELSE loop
    /\ UNCHANGED <<i, livecd, loopmnt>>

\* Mutant of Mountable: the result of mount is not looked at.
MountableAlways == machine.node

\* mount -r -t squashfs, through loop0 when its node exists
Mountable == machine.node /\ media[i].image = "good"

MountImage ==
    /\ pc = "find" /\ i <= Len(media)
    /\ media[i].mountable /\ media[i].image # "none"
    /\ IF Mountable
       THEN /\ cdrom' = <<Device(i)>> \o cdrom
            /\ loop' = [loop EXCEPT ![0] = Device(i)]
            /\ livecd' = IF media[i].image = "good" THEN Device(i) ELSE Nothing
            /\ loopmnt' = TRUE
            /\ Goes(IF options.toram THEN "tmpfs" ELSE "found")
            /\ UNCHANGED i
       ELSE MountFailed
    /\ UNCHANGED <<env, isodev, part, ram>>

\* No device has the image.
NotFound ==
    /\ pc = "find" /\ i > Len(media)
    /\ Goes("found")
    /\ UNCHANGED <<env, i, isodev, Mounts, loopmnt>>

----------------------------------------------------------------------------
(***************************************************************************)
(* copy2ram.                                                               *)
(***************************************************************************)

\* The tmpfs may not be mounted, and cp may fail: the file it copies is
\* always livecd.sqfs.  Both are only reported, the boot goes on from the CD.
Copy ==
    /\ pc = "tmpfs"
    /\ \/ media[i].livecd # "none" /\ Goes("free") /\ ram' = TRUE
       \/ Goes("found") /\ ram' = FALSE
    /\ UNCHANGED <<env, i, isodev, cdrom, part, loop, livecd, loopmnt>>

Busy(fs, lp) == \E l \in Loops : lp[l] = fs

\* Mutant of Unmounted: MNTCDROM is left as it is.
UnmountedNot(lp) == cdrom

\* umount of the top of MNTCDROM: it fails while a loop device has a file of
\* it open.
Unmounted(lp) == IF Busy(Head(cdrom), lp) THEN cdrom ELSE Tail(cdrom)

\* umount MNTLIVECD, umount MNTCDROM, losetup -d, losetup, mount: none of
\* them is checked, and LOOPMNT stays set.
Free ==
    /\ pc = "free"
    /\ LET lp == IF machine.frees THEN [loop EXCEPT ![0] = Nothing] ELSE loop
       IN  cdrom' = Unmounted(lp)
    /\ loop' = [loop EXCEPT ![0] = Memory(i)]
    /\ livecd' \in {Nothing} \cup (IF media[i].livecd = "good" THEN {Memory(i)} ELSE {})
    /\ Goes("found")
    /\ UNCHANGED <<env, i, isodev, part, ram, loopmnt>>

----------------------------------------------------------------------------
HandOver ==
    /\ pc = "found"
    /\ Goes(IF loopmnt THEN "sysinit" ELSE "shell")
    /\ UNCHANGED <<env, i, isodev, Mounts, loopmnt>>

Next ==
    \/ Start \/ SearchIso \/ NoIso \/ MountIso
    \/ SkipDevice \/ MountImage \/ NotFound
    \/ Copy \/ Free \/ HandOver

Spec == Init /\ [][Next]_vars

----------------------------------------------------------------------------
HasImage(d) == media[d].mountable /\ media[d].image # "none"
First(S)    == CHOOSE d \in S : \A e \in S : d <= e

\* rc.sysinit finds a system on MNTLIVECD, and it is the one of the image
\* that was asked for -- unless copy2ram has taken the CD's image away: then
\* there may be none, or that of livecd.sqfs.
SysinitHasImage ==
    pc = "sysinit" =>
        \/ livecd.on = "device" /\ media[livecd.of].image = "good" /\ ~ram
        \/ livecd.on = "iso" /\ media[livecd.of].iso = "good" /\ options.iso
        \/ ram /\ options.toram /\ livecd.on \in {"memory", "nothing"}

\* The first device with the image decides; the one on /part may count or not,
\* for it may not be mounted twice.  A system on a device is that of the first
\* one.  The boot ends in a shell only if memory is short, the first ISO image
\* found cannot be mounted or is without the image, no device has the image,
\* there is no loop device, or the first device's image is bad: in the second,
\* the fourth and the last case a good image on another device is not tried.
FirstMediumDecides ==
    LET withImage == {d \in 1 .. Len(media) : HasImage(d)}
        first     == {First(S) : S \in {withImage, withImage \ {part}} \ {{}}}
    IN  /\ pc = "sysinit" /\ livecd.on \in {"device", "memory"} => livecd.of \in first
        /\ pc = "shell" =>
               \/ ~machine.memory
               \/ isodev # 0 /\ media[isodev].iso \in {"noiso", "empty"}
               \/ withImage \ {part} = {}
               \/ ~machine.node
               \/ \E d \in first : media[d].image = "bad"

\* "free the boot device" (linuxrc.in:453): with the image in memory no file
\* system of the device is left on MNTCDROM -- if umount of MNTLIVECD has
\* detached loop0.  Otherwise the device is busy until losetup -d, which comes
\* too late, and stays mounted.
MediumFreed ==
    pc = "sysinit" /\ ram => ((\E n \in 1 .. Len(cdrom) : cdrom[n].on = "device") <=> ~machine.frees)
=============================================================================
