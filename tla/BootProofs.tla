----------------------------- MODULE BootProofs -----------------------------
(***************************************************************************)
(* Proofs about the boot script for any number of devices, whatever they   *)
(* hold: what rc.sysinit finds on MNTLIVECD, which device it is from, and  *)
(* whether the boot device is free.                                        *)
(***************************************************************************)
EXTENDS Boot, SequenceTheorems, TLAPS

----------------------------------------------------------------------------
(***************************************************************************)
(* The inductive invariant.  Of an ISO image that could not be mounted,    *)
(* part, cdrom, loop1 and loop2 are left, and nothing else: Under and      *)
(* LoopsWith say so.  The rest says, for each place of the script, what    *)
(* has been mounted by then.                                               *)
(***************************************************************************)

\* What findcloop mounts over on MNTCDROM.
Under == IF part = 0 THEN <<>> ELSE <<Iso(part)>>

LeftOf(l) ==
    IF part = 0 THEN Nothing ELSE IF l = 1 THEN Part(part) ELSE Iso(part)

\* The loop devices, with x behind loop0.
LoopsWith(x) ==
    [l \in Loops |-> IF l = 0 THEN x ELSE LeftOf(l)]

\* The devices before this one have no image, or are in use at /part.
Passed == \A d \in 1 .. Len(media) : d < i => ~HasImage(d) \/ part = d

\* The image of device i is the one looked for.
Found ==
    /\ i \in 1 .. Len(media) /\ HasImage(i)
    /\ part \in {0, isodev}
    /\ Passed

Fresh == part = 0 /\ cdrom = <<>> /\ loop = LoopsWith(Nothing) /\ livecd = Nothing
Unset == ~ram /\ ~loopmnt

\* The image of device i is mounted through loop0.
OnDevice ==
    /\ Found /\ loopmnt
    /\ media[i].image = "good"
    /\ cdrom = <<Device(i)>> \o Under /\ loop = LoopsWith(Device(i)) /\ livecd = Device(i)

\* It was taken from the memory, or is in neither.
InMemory ==
    /\ Found /\ loopmnt /\ ram /\ options.toram
    /\ livecd \in {Nothing, Memory(i)}
    /\ cdrom = IF machine.frees THEN Under ELSE <<Device(i)>> \o Under

\* The ISO image is mounted.
FromIso ==
    /\ loopmnt /\ ~ram /\ options.iso
    /\ isodev \in 1 .. Len(media)
    /\ media[isodev].iso = "good" /\ livecd = Iso(isodev)

\* No device has the image.
NoneFound == Unset /\ i = Len(media) + 1 /\ Passed

BootTypes ==
    /\ pc \in {"ramdisk", "iso", "isomount", "find", "tmpfs", "free", "found", "sysinit", "shell"}
    /\ \E n \in 0 .. MaxDevices : media \in [1 .. n -> Media]
    /\ options \in [iso : BOOLEAN, toram : BOOLEAN, base : BOOLEAN]
    /\ machine \in [memory : BOOLEAN, node : BOOLEAN, frees : BOOLEAN]
    /\ i \in Nat /\ i >= 1

AtStart   == pc = "ramdisk" => Fresh /\ Unset /\ isodev = 0 /\ i = 1
AtIso     == pc = "iso" => Fresh /\ Unset /\ isodev = 0 /\ options.iso
AtMount   == pc = "isomount" => /\ Fresh /\ Unset /\ options.iso /\ i = 1
                                /\ isodev \in 1 .. Len(media)
AtFind    == pc = "find" => /\ part = isodev /\ cdrom = Under /\ loop = LoopsWith(Nothing)
                            /\ livecd = Nothing /\ Unset /\ isodev \in 0 .. Len(media)
                            /\ i <= Len(media) + 1 /\ Passed
AtTmpfs   == pc = "tmpfs" => OnDevice /\ ~ram /\ options.toram
AtFree    == pc = "free" => OnDevice /\ ram /\ options.toram
AtFound   == pc = "found" => NoneFound \/ (OnDevice /\ ~ram) \/ FromIso \/ InMemory
AtSysinit == pc = "sysinit" => (OnDevice /\ ~ram) \/ FromIso \/ InMemory
AtShell   == pc = "shell" =>
                 \/ ~machine.memory
                 \/ media = <<>>
                 \/ isodev # 0 /\ media[isodev].iso \in {"noiso", "empty"}
                 \/ NoneFound
                 \/ Found /\ (~machine.node \/ media[i].image = "bad")

BootInv ==
    /\ BootTypes
    /\ AtStart /\ AtIso /\ AtMount /\ AtFind
    /\ AtTmpfs /\ AtFree /\ AtFound /\ AtSysinit /\ AtShell

----------------------------------------------------------------------------
(***************************************************************************)
(* Lemmas about devices, loop devices and the stack on MNTCDROM.           *)
(***************************************************************************)

\* The devices are a sequence, and what one holds is one of Media.
LEMMA MediaTypes ==
    ASSUME BootTypes
    PROVE  /\ media \in Seq(Media) /\ Len(media) \in Nat
           /\ \A d \in 1 .. Len(media) :
                  /\ media[d] \in Media
                  /\ media[d].mountable \in BOOLEAN
                  /\ media[d].image \in {"none", "bad", "good"}
                  /\ media[d].iso \in {"none", "noiso", "empty", "bad", "good"}
  <1>1. PICK n \in 0 .. MaxDevices : media \in [1 .. n -> Media]
    BY DEF BootTypes
  <1>2. n \in Nat
    BY BootAssumption
  <1>3. media \in Seq(Media) /\ Len(media) = n
    BY <1>1, <1>2
  <1>4. \A m \in Media : /\ m.mountable \in BOOLEAN
                         /\ m.image \in {"none", "bad", "good"}
                         /\ m.iso \in {"none", "noiso", "empty", "bad", "good"}
    BY BootAssumption
  <1>5. QED
    BY <1>1, <1>2, <1>3, <1>4

\* The least of a set of numbers is the one below the others.
LEMMA FirstIs ==
    ASSUME NEW S, NEW d \in S, S \subseteq Int, \A e \in S : d <= e
    PROVE  First(S) = d
  <1>1. First(S) \in S /\ \A e \in S : First(S) <= e
    BY DEF First
  <1>2. First(S) <= d /\ d <= First(S) /\ d \in Int /\ First(S) \in Int
    BY <1>1
  <1>3. QED
    BY <1>2

\* The top of MNTCDROM.
LEMMA Stacked ==
    ASSUME NEW x
    PROVE  /\ <<x>> \o Under # <<>>
           /\ Head(<<x>> \o Under) = x
           /\ Tail(<<x>> \o Under) = Under
           /\ Len(<<x>> \o Under) >= 1
           /\ (<<x>> \o Under)[1] = x
  <1>1. CASE part = 0
    <2>1. Under = <<>>
      BY <1>1 DEF Under
    <2>2. <<x>> \o <<>> = <<x>>
      OBVIOUS
    <2>3. QED
      BY <2>1, <2>2
  <1>2. CASE part # 0
    <2>1. Under = <<Iso(part)>>
      BY <1>2 DEF Under
    <2>2. PICK y : y = Iso(part)
      OBVIOUS
    <2>3. Under = <<y>>
      BY <2>1, <2>2
    <2>4. PICK s : s = <<x>> \o <<y>>
      OBVIOUS
    <2>5. <<x>> \in Seq({x, y}) /\ <<y>> \in Seq({x, y})
      OBVIOUS
    <2>6. /\ s \in Seq({x, y}) /\ Len(s) = 2 /\ s[1] = x /\ s[2] = y
      BY <2>4, <2>5, ConcatProperties
    <2>7. s # <<>> /\ Head(s) = x
      BY <2>6
    <2>8. /\ Tail(s) \in Seq({x, y}) /\ Len(Tail(s)) = 1
          /\ Tail(s)[1] = y
      BY <2>6, <2>7, HeadTailProperties
    <2>9. Tail(s) = <<y>>
      <3>1. Len(<<y>>) = 1 /\ <<y>>[1] = y
        OBVIOUS
      <3>2. ASSUME NEW t \in Seq({x, y}), Len(t) = 1, t[1] = y PROVE t = <<y>>
        <4>1. ASSUME NEW n \in 1 .. Len(t) PROVE t[n] = <<y>>[n]
          <5>1. n = 1
            BY <3>2
          <5>2. QED
            BY <3>1, <3>2, <5>1
        <4>2. QED
          BY <2>5, <3>1, <3>2, <4>1, SeqEqual
      <3>3. QED
        BY <2>8, <3>2
    <2>10. QED
      BY <2>3, <2>4, <2>6, <2>7, <2>9
  <1>3. QED
    BY <1>1, <1>2

\* What findcloop mounts over is no device.
LEMMA NoDeviceUnder ==
    \A n \in 1 .. Len(Under) : Under[n].on # "device"
  BY DEF Under, Iso

\* Of the loop devices only loop0 has a file of a device behind it.
LEMMA LoopsFacts ==
    ASSUME NEW x
    PROVE  /\ LoopsWith(x)[0] = x
           /\ LoopsWith(x)[1].on # "device"
           /\ LoopsWith(x)[2].on # "device"
           /\ \A y : [LoopsWith(x) EXCEPT ![0] = y] = LoopsWith(y)
           /\ \A d : Busy(Device(d), LoopsWith(x)) <=> x = Device(d)
  <1>1. Loops = {0, 1, 2}
    BY DEF Loops
  <1>2. /\ LoopsWith(x)[0] = x
        /\ LoopsWith(x)[1] = IF part = 0 THEN Nothing ELSE Part(part)
        /\ LoopsWith(x)[2] = IF part = 0 THEN Nothing ELSE Iso(part)
    BY <1>1 DEF LoopsWith, LeftOf
  <1>3. Nothing.on # "device" /\ \A d : Part(d).on # "device" /\ Iso(d).on # "device"
    BY DEF Nothing, Part, Iso
  <1>4. \A d : Device(d).on = "device"
    BY DEF Device
  <1>5. \A y : [LoopsWith(x) EXCEPT ![0] = y] = LoopsWith(y)
    BY <1>1 DEF LoopsWith
  <1>6. \A d : Busy(Device(d), LoopsWith(x)) <=> x = Device(d)
    BY <1>1, <1>2, <1>3, <1>4 DEF Busy
  <1>7. QED
    BY <1>2, <1>3, <1>5, <1>6

----------------------------------------------------------------------------
(***************************************************************************)
(* The invariant holds.                                                    *)
(***************************************************************************)

\* When the script starts nothing is mounted.
LEMMA BootInit == Init => BootInv
  <1> SUFFICES ASSUME Init PROVE BootInv
    OBVIOUS
  <1>1. PICK n \in 0 .. MaxDevices : media \in [1 .. n -> Media]
    BY DEF Init
  <1>2. BootTypes
    BY <1>1 DEF Init, BootTypes
  <1>3. loop = LoopsWith(Nothing)
    BY DEF Init, LoopsWith, LeftOf
  <1>4. AtStart
    BY <1>3 DEF Init, AtStart, Fresh, Unset
  <1>5. QED
    BY <1>2, <1>4 DEF Init, BootInv, AtIso, AtMount, AtFind, AtTmpfs, AtFree, AtFound,
                      AtSysinit, AtShell

\* What was found stays found while no other device is looked at.
LEMMA FoundStays ==
    ASSUME UNCHANGED <<media, i, part, isodev>>
    PROVE  /\ Passed' = Passed /\ Found' = Found /\ Under' = Under
           /\ \A x : LoopsWith(x)' = LoopsWith(x)
  BY DEF Passed, Found, HasImage, Under, LoopsWith, LeftOf

\* Every step preserves it.
LEMMA BootNext == BootInv /\ [Next]_vars => BootInv'
  <1> SUFFICES ASSUME BootInv, [Next]_vars PROVE BootInv'
    OBVIOUS
  <1> USE DEF Goes, Fatal, env, Mounts
  <1>1. BootTypes
    BY DEF BootInv
  <1>2. Len(media) \in Nat
    BY <1>1, MediaTypes
  <1>3. ASSUME Start PROVE BootInv'
    <2>1. UNCHANGED <<media, options, machine, i, isodev, cdrom, part, loop, livecd, ram, loopmnt>>
      BY <1>3 DEF Start
    <2>2. Fresh /\ Unset /\ isodev = 0 /\ i = 1 /\ AtStart
      BY <1>3 DEF Start, BootInv, AtStart
    <2>3. Fresh' /\ Unset' /\ isodev' = 0 /\ i' = 1 /\ Under' = <<>>
      BY <2>1, <2>2, FoundStays DEF Fresh, Unset, Under
    <2>4. Passed'
      BY <2>3, <2>1, <1>2 DEF Passed
    <2>5. BootTypes'
      BY <1>1, <1>3, <2>1 DEF Start, BootTypes
    <2>6. CASE pc' = "shell"
      BY <1>3, <2>1, <2>3, <2>5, <2>6 DEF Start, BootInv, AtStart, AtIso, AtMount, AtFind, AtTmpfs, AtFree,
                              AtFound, AtSysinit, AtShell, Fresh
    <2>7. CASE pc' = "iso"
      <3>1. options.iso
        BY <1>3, <2>7 DEF Start
      <3>2. QED
        BY <2>1, <2>3, <2>5, <2>7, <3>1 DEF BootInv, AtStart, AtIso, AtMount, AtFind, AtTmpfs,
                           AtFree, AtFound, AtSysinit, AtShell
    <2>8. CASE pc' = "find"
      BY <2>1, <2>3, <2>4, <2>5, <2>8, <1>2 DEF BootInv, AtStart, AtIso, AtMount, AtFind,
                           AtTmpfs, AtFree, AtFound, AtSysinit, AtShell, Fresh
    <2>9. QED
      BY <1>3, <2>6, <2>7, <2>8 DEF Start
  <1>4. ASSUME SearchIso PROVE BootInv'
    <2>1. UNCHANGED <<media, options, machine, cdrom, part, loop, livecd, ram, loopmnt>>
      BY <1>4 DEF SearchIso
    <2>2. Fresh /\ Unset /\ isodev = 0 /\ options.iso /\ i \in 1 .. Len(media)
      BY <1>1, <1>2, <1>4 DEF SearchIso, BootInv, AtIso, BootTypes
    <2>3. Fresh' /\ Unset' /\ options'.iso
      BY <2>1, <2>2 DEF Fresh, Unset, LoopsWith, LeftOf
    <2>4. BootTypes'
      BY <1>1, <1>4, <2>1 DEF SearchIso, BootTypes
    <2>5. \/ pc' = "isomount" /\ isodev' = i /\ i' = 1
          \/ pc' = "iso" /\ isodev' = 0 /\ i' = i + 1
      BY <1>4, <2>2 DEF SearchIso
    <2>6. QED
      BY <2>1, <2>2, <2>3, <2>4, <2>5 DEF BootInv, AtStart, AtIso, AtMount, AtFind, AtTmpfs,
                           AtFree, AtFound, AtSysinit, AtShell
  <1>5. ASSUME NoIso PROVE BootInv'
    <2>1. UNCHANGED <<media, options, machine, isodev, cdrom, part, loop, livecd, ram, loopmnt>>
      BY <1>5 DEF NoIso
    <2>2. Fresh /\ Unset /\ isodev = 0
      BY <1>5 DEF NoIso, BootInv, AtIso
    <2>3. Fresh' /\ Unset' /\ isodev' = 0 /\ i' = 1 /\ pc' = "find" /\ Under' = <<>>
      BY <1>5, <2>1, <2>2 DEF NoIso, Fresh, Unset, LoopsWith, LeftOf, Under
    <2>4. BootTypes' /\ Passed'
      BY <1>1, <1>2, <2>1, <2>3 DEF BootTypes, Passed
    <2>5. QED
      BY <1>2, <2>1, <2>3, <2>4 DEF BootInv, AtStart, AtIso, AtMount, AtFind, AtTmpfs,
                           AtFree, AtFound, AtSysinit, AtShell, Fresh
  <1>6. ASSUME MountIso PROVE BootInv'
    <2>1. /\ UNCHANGED <<media, options, machine, i, isodev, ram>>
          /\ part' = isodev
      BY <1>6 DEF MountIso
    <2>2. Fresh /\ Unset /\ options.iso /\ i = 1 /\ isodev \in 1 .. Len(media)
      BY <1>6 DEF MountIso, BootInv, AtMount
    <2>3. isodev # 0 /\ part' # 0 /\ isodev' = isodev
      BY <1>2, <2>1, <2>2
    <2>4. BootTypes'
      BY <1>1, <1>6, <2>1 DEF MountIso, BootTypes
    <2>5. Passed'
      BY <2>1, <2>2, <1>2 DEF Passed
    <2>6. CASE media[isodev].iso \in {"noiso", "empty"}
      <3>1. pc' = "shell"
        BY <1>6, <2>6 DEF MountIso
      <3>2. AtShell'
        BY <2>1, <2>3, <2>6 DEF AtShell
      <3>3. QED
        BY <2>4, <3>1, <3>2 DEF BootInv, AtStart, AtIso, AtMount, AtFind, AtTmpfs, AtFree,
                           AtFound, AtSysinit
    <2>7. CASE media[isodev].iso = "good"
      <3>1. pc' = "found" /\ loopmnt' /\ livecd' = Iso(isodev)
        BY <1>6, <2>7 DEF MountIso
      <3>2. FromIso'
        BY <2>1, <2>2, <2>7, <3>1 DEF FromIso, Unset, Iso
      <3>3. QED
        BY <2>4, <3>1, <3>2 DEF BootInv, AtStart, AtIso, AtMount, AtFind, AtTmpfs,
                           AtFree, AtFound, AtSysinit, AtShell
    <2>8. CASE media[isodev].iso \notin {"noiso", "empty", "good"}
      <3>1. /\ pc' = "find" /\ ~loopmnt' /\ livecd' = Nothing
            /\ cdrom' = <<Iso(isodev)>>
            /\ loop' = [loop EXCEPT ![1] = Part(isodev), ![2] = Iso(isodev)]
        BY <1>6, <2>8 DEF MountIso
      <3>2. Under' = <<Iso(isodev)>>
        BY <2>1, <2>3 DEF Under, Iso
      <3>3. loop = [l \in Loops |-> Nothing]
        BY <2>2 DEF Fresh, LoopsWith, LeftOf
      <3>4. LoopsWith(Nothing)' = [l \in Loops |-> IF l = 0 THEN Nothing
                                                   ELSE IF l = 1 THEN Part(isodev) ELSE Iso(isodev)]
        BY <2>1, <2>3 DEF LoopsWith, LeftOf, Part, Iso, Nothing
      <3>5. loop' = LoopsWith(Nothing)'
        <4>1. Loops = {0, 1, 2}
          BY DEF Loops
        <4>2. \A a, b : [[l \in Loops |-> Nothing] EXCEPT ![1] = a, ![2] = b] =
                       [l \in Loops |-> IF l = 0 THEN Nothing ELSE IF l = 1 THEN a ELSE b]
          BY <4>1
        <4>3. QED
          BY <3>1, <3>3, <3>4, <4>2
      <3>6. AtFind'
        <4>1. livecd' = Nothing'
          BY <3>1 DEF Nothing
        <4>2. Unset'
          BY <2>1, <2>2, <3>1 DEF Unset
        <4>3. isodev' \in 0 .. Len(media') /\ i' <= Len(media') + 1 /\ part' = isodev'
          BY <1>2, <2>1, <2>2
        <4>4. QED
          BY <2>1, <2>5, <3>1, <3>2, <3>5, <4>1, <4>2, <4>3 DEF AtFind
      <3>7. QED
        BY <2>4, <3>1, <3>6 DEF BootInv, AtStart, AtIso, AtMount, AtTmpfs,
               AtFree, AtFound, AtSysinit, AtShell
    <2>9. QED
      BY <2>6, <2>7, <2>8
  <1>7. ASSUME SkipDevice PROVE BootInv'
    <2>1. /\ UNCHANGED <<pc, media, options, machine, isodev, cdrom, part, loop, livecd, ram, loopmnt>>
          /\ pc = "find" /\ i \in Nat /\ i <= Len(media) /\ i' = i + 1
          /\ ~HasImage(i) \/ part = i
      BY <1>1, <1>7 DEF SkipDevice, HasImage, BootTypes
    <2>2. AtFind /\ Passed
      BY <2>1 DEF BootInv, AtFind
    <2>3. BootTypes'
      BY <1>1, <2>1 DEF BootTypes
    <2>4. Passed'
      <3>1. ASSUME NEW d \in 1 .. Len(media), d < i + 1 PROVE ~HasImage(d) \/ part = d
        <4>1. d < i \/ d = i
          BY <2>1, <3>1
        <4>2. QED
          BY <2>1, <2>2, <4>1 DEF Passed
      <3>2. \A d : HasImage(d)' = HasImage(d)
        BY <2>1 DEF HasImage
      <3>3. QED
        BY <2>1, <3>1, <3>2 DEF Passed
    <2>5. Under' = Under /\ LoopsWith(Nothing)' = LoopsWith(Nothing)
      BY <2>1 DEF Under, LoopsWith, LeftOf
    <2>6. i' <= Len(media) + 1
      BY <1>2, <2>1
    <2>7. QED
      BY <2>1, <2>2, <2>3, <2>4, <2>5, <2>6 DEF BootInv, AtStart, AtIso, AtMount, AtFind,
                           AtTmpfs, AtFree, AtFound, AtSysinit, AtShell, Unset
  <1>8. ASSUME MountImage PROVE BootInv'
    <2>1. /\ UNCHANGED <<media, options, machine, isodev, part, ram>>
          /\ pc = "find" /\ i \in 1 .. Len(media) /\ HasImage(i)
      BY <1>1, <1>2, <1>8 DEF MountImage, HasImage, BootTypes
    <2>2. /\ part = isodev /\ cdrom = Under /\ loop = LoopsWith(Nothing) /\ Unset
          /\ livecd = Nothing /\ Passed
      BY <2>1 DEF BootInv, AtFind
    <2>3. i' = i
      BY <1>8 DEF MountImage, MountFailed
    <2>4. Found /\ Found' /\ Passed'
      BY <1>2, <2>1, <2>2, <2>3, FoundStays DEF Found
    <2>5. BootTypes'
      <3>1. pc' \in {"tmpfs", "found", "shell"}
        BY <1>8 DEF MountImage, MountFailed
      <3>2. QED
        BY <1>1, <2>1, <2>3, <3>1 DEF BootTypes
    <2>6. CASE Mountable
      <3>1. /\ cdrom' = <<Device(i)>> \o cdrom /\ loop' = [loop EXCEPT ![0] = Device(i)]
            /\ livecd' = Device(i) /\ loopmnt'
            /\ pc' = IF options.toram THEN "tmpfs" ELSE "found"
        BY <1>8, <2>6 DEF MountImage, Mountable
      <3>2. cdrom' = (<<Device(i)>> \o Under)'
        BY <2>1, <2>2, <2>3, <3>1, FoundStays DEF Device
      <3>3. loop' = LoopsWith(Device(i))'
        <4>1. loop' = LoopsWith(Device(i))
          BY <2>2, <3>1, LoopsFacts
        <4>2. QED
          BY <2>1, <2>3, <4>1 DEF LoopsWith, LeftOf, Device
      <3>4. OnDevice' /\ ~ram'
        BY <2>1, <2>2, <2>3, <2>4, <2>6, <3>1, <3>2, <3>3 DEF OnDevice, Mountable, Device, Unset
      <3>5. QED
        BY <2>1, <2>5, <3>1, <3>4 DEF BootInv, AtStart, AtIso, AtMount, AtFind, AtTmpfs,
                           AtFree, AtFound, AtSysinit, AtShell
    <2>7. CASE ~Mountable
      <3>1. pc' = "shell"
        BY <1>8, <2>7 DEF MountImage, MountFailed
      <3>3. ~machine.node \/ media[i].image = "bad"
        BY <1>1, <2>1, <2>7, MediaTypes DEF Mountable, HasImage
      <3>4. QED
        BY <2>1, <2>3, <2>4, <2>5, <3>1, <3>3 DEF BootInv, AtStart, AtIso, AtMount,
                           AtFind, AtTmpfs, AtFree, AtFound, AtSysinit, AtShell
    <2>8. QED
      BY <2>6, <2>7
  <1>9. ASSUME NotFound PROVE BootInv'
    <2>1. /\ UNCHANGED <<media, options, machine, i, isodev, cdrom, part, loop, livecd, ram, loopmnt>>
          /\ pc = "find" /\ pc' = "found" /\ i > Len(media) /\ i \in Nat
      BY <1>1, <1>9 DEF NotFound, BootTypes
    <2>2. AtFind
      BY DEF BootInv
    <2>3. NoneFound
      BY <1>2, <2>1, <2>2 DEF AtFind, NoneFound, Under
    <2>4. NoneFound'
      BY <2>1, <2>3, FoundStays DEF NoneFound, Unset
    <2>5. BootTypes'
      BY <1>1, <2>1 DEF BootTypes
    <2>6. QED
      BY <2>1, <2>4, <2>5 DEF BootInv, AtStart, AtIso, AtMount, AtFind, AtTmpfs,
                           AtFree, AtFound, AtSysinit, AtShell
  <1>10. ASSUME Copy PROVE BootInv'
    <2>1. /\ UNCHANGED <<media, options, machine, i, isodev, cdrom, part, loop, livecd, loopmnt>>
          /\ pc = "tmpfs"
          /\ \/ pc' = "free" /\ ram' = TRUE
             \/ pc' = "found" /\ ram' = FALSE
      BY <1>10 DEF Copy
    <2>2. OnDevice /\ options.toram
      BY <2>1 DEF BootInv, AtTmpfs
    <2>3. OnDevice' /\ options'.toram
      BY <2>1, <2>2, FoundStays DEF OnDevice
    <2>4. BootTypes'
      BY <1>1, <2>1 DEF BootTypes
    <2>5. QED
      BY <2>1, <2>3, <2>4 DEF BootInv, AtStart, AtIso, AtMount, AtFind, AtTmpfs,
                           AtFree, AtFound, AtSysinit, AtShell
  <1>11. ASSUME Free PROVE BootInv'
    <2>1. /\ UNCHANGED <<media, options, machine, i, isodev, part, ram, loopmnt>>
          /\ pc = "free" /\ pc' = "found"
          /\ livecd' \in {Nothing, Memory(i)}
      BY <1>11 DEF Free
    <2>2. OnDevice /\ ram /\ options.toram
      BY <2>1 DEF BootInv, AtFree
    <2>3. cdrom' = IF machine.frees THEN Under ELSE <<Device(i)>> \o Under
      <3>1. Device(i) # Nothing
        BY DEF Device, Nothing
      <3>2. cdrom' = Unmounted(IF machine.frees THEN LoopsWith(Nothing) ELSE LoopsWith(Device(i)))
        BY <1>11, <2>2, LoopsFacts DEF Free, OnDevice
      <3>3. Head(cdrom) = Device(i) /\ Tail(cdrom) = Under
        BY <2>2, Stacked DEF OnDevice
      <3>4. Busy(Head(cdrom), LoopsWith(Device(i))) /\ ~Busy(Head(cdrom), LoopsWith(Nothing))
        BY <3>1, <3>3, LoopsFacts
      <3>5. cdrom = <<Device(i)>> \o Under
        BY <2>2 DEF OnDevice
      <3>6. machine.frees \in BOOLEAN
        BY <1>1 DEF BootTypes
      <3>7. QED
        BY <3>2, <3>3, <3>4, <3>5, <3>6 DEF Unmounted
    <2>4. InMemory'
      BY <2>1, <2>2, <2>3, FoundStays DEF InMemory, OnDevice, Memory, Device
    <2>5. BootTypes'
      BY <1>1, <2>1 DEF BootTypes
    <2>6. QED
      BY <2>1, <2>4, <2>5 DEF BootInv, AtStart, AtIso, AtMount, AtFind, AtTmpfs,
                           AtFree, AtFound, AtSysinit, AtShell
  <1>12. ASSUME HandOver PROVE BootInv'
    <2>1. /\ UNCHANGED <<media, options, machine, i, isodev, cdrom, part, loop, livecd, ram, loopmnt>>
          /\ pc = "found" /\ pc' = IF loopmnt THEN "sysinit" ELSE "shell"
      BY <1>12 DEF HandOver
    <2>2. NoneFound \/ (OnDevice /\ ~ram) \/ FromIso \/ InMemory
      BY <2>1 DEF BootInv, AtFound
    <2>3. /\ OnDevice' = OnDevice /\ NoneFound' = NoneFound
          /\ FromIso' = FromIso /\ InMemory' = InMemory
      BY <2>1, FoundStays DEF OnDevice, NoneFound, FromIso, InMemory, Unset
    <2>4. BootTypes'
      BY <1>1, <2>1 DEF BootTypes
    <2>5. NoneFound => ~loopmnt
      BY DEF NoneFound, Unset
    <2>6. (OnDevice \/ FromIso \/ InMemory) => loopmnt
      BY DEF OnDevice, FromIso, InMemory
    <2>7. QED
      BY <2>1, <2>2, <2>3, <2>4, <2>5, <2>6 DEF BootInv, AtStart, AtIso, AtMount, AtFind,
                           AtTmpfs, AtFree, AtFound, AtSysinit, AtShell
  <1>13. CASE UNCHANGED vars
    <2>1. UNCHANGED <<pc, media, options, machine, i, isodev, cdrom, part, loop, livecd, ram, loopmnt>>
      BY <1>13 DEF vars
    <2>2. /\ OnDevice' = OnDevice /\ NoneFound' = NoneFound /\ Fresh' = Fresh /\ Unset' = Unset
          /\ FromIso' = FromIso /\ InMemory' = InMemory /\ Passed' = Passed /\ Found' = Found
          /\ Under' = Under /\ LoopsWith(Nothing)' = LoopsWith(Nothing)
      BY <2>1, FoundStays DEF OnDevice, NoneFound, FromIso, InMemory, Unset, Fresh
    <2>3. BootTypes'
      BY <1>1, <2>1 DEF BootTypes
    <2>4. QED
      BY <2>1, <2>2, <2>3 DEF BootInv, AtStart, AtIso, AtMount, AtFind, AtTmpfs,
                           AtFree, AtFound, AtSysinit, AtShell
  <1>14. QED
    BY <1>3, <1>4, <1>5, <1>6, <1>7, <1>8, <1>9, <1>10, <1>11, <1>12, <1>13 DEF Next

\* The invariant holds of every state.
LEMMA BootInvariant == Spec => []BootInv
  BY BootInit, BootNext, PTL DEF Spec

----------------------------------------------------------------------------
(***************************************************************************)
(* What the boot comes to.                                                 *)
(***************************************************************************)

\* What rc.sysinit finds on MNTLIVECD is the image that was asked for, from
\* the device that was found or the ISO image, unless copy2ram has replaced
\* it: mount_image, bootfromiso and copy2ram agree on it.
THEOREM SystemIsMounted == Spec => []SysinitHasImage
  <1>1. ASSUME BootInv PROVE SysinitHasImage
    <2> SUFFICES ASSUME pc = "sysinit" PROVE SysinitHasImage
      BY DEF SysinitHasImage
    <2>1. (OnDevice /\ ~ram) \/ FromIso \/ InMemory
      BY <1>1 DEF BootInv, AtSysinit
    <2>2. CASE OnDevice /\ ~ram
      BY <2>2 DEF OnDevice, Device, SysinitHasImage
    <2>3. CASE FromIso
      BY <2>3 DEF FromIso, Iso, SysinitHasImage
    <2>4. CASE InMemory
      BY <2>4 DEF InMemory, Memory, Nothing, SysinitHasImage
    <2>5. QED
      BY <2>1, <2>2, <2>3, <2>4
  <1>2. QED
    BY <1>1, BootInvariant, PTL

\* findcloop takes the first device that has the image, or the first but the
\* one on /part.
LEMMA FoundIsFirst ==
    ASSUME BootInv, Found
    PROVE  LET withImage == {d \in 1 .. Len(media) : HasImage(d)}
           IN  i \in {First(S) : S \in {withImage, withImage \ {part}} \ {{}}}
  <1> DEFINE withImage == {d \in 1 .. Len(media) : HasImage(d)}
  <1>1. i \in withImage /\ Len(media) \in Nat
    BY MediaTypes DEF Found, BootInv
  <1>2. \A d \in withImage \ {part} : i <= d
    BY <1>1 DEF Found, Passed
  <1>3. withImage \subseteq Int
    BY <1>1
  <1>4. CASE part = i \/ part \notin withImage
    <2>1. \A d \in withImage : i <= d
      BY <1>1, <1>2, <1>4
    <2>2. First(withImage) = i
      <3> HIDE DEF withImage
      <3>1. QED
        BY <1>1, <1>3, <2>1, FirstIs
    <2>3. QED
      BY <1>1, <2>2
  <1>5. CASE part # i /\ part \in withImage
    <2>1. First(withImage \ {part}) = i
      <3> HIDE DEF withImage
      <3>1. i \in withImage \ {part} /\ withImage \ {part} \subseteq Int
        BY <1>1, <1>3, <1>5
      <3>2. QED
        BY <1>2, <3>1, FirstIs
    <2>2. part # 0
      BY <1>1, <1>5
    <2>3. QED
      BY <1>1, <1>5, <2>1, <2>2
  <1>6. QED
    BY <1>4, <1>5

\* The device rc.sysinit's system is from, and every way to the shell, for any
\* number of devices and whatever they hold: the first ISO image, and after it
\* the first device with the image, decide, good or bad.
THEOREM FirstDeviceDecides == Spec => []FirstMediumDecides
  <1>1. ASSUME BootInv PROVE FirstMediumDecides
    <2> DEFINE withImage == {d \in 1 .. Len(media) : HasImage(d)}
               first     == {First(S) : S \in {withImage, withImage \ {part}} \ {{}}}
    <2>1. ASSUME pc = "sysinit", livecd.on \in {"device", "memory"} PROVE livecd.of \in first
      <3>1. OnDevice \/ FromIso \/ InMemory
        BY <1>1, <2>1 DEF BootInv, AtSysinit
      <3>2. ~FromIso
        BY <2>1 DEF FromIso, Iso
      <3>3. Found /\ livecd.of = i
        BY <2>1, <3>1, <3>2 DEF OnDevice, InMemory, Device, Memory, Nothing
      <3>4. QED
        BY <1>1, <3>3, FoundIsFirst
    <2>2. ASSUME pc = "shell", machine.memory, machine.node, withImage \ {part} # {},
                 ~(isodev # 0 /\ media[isodev].iso \in {"noiso", "empty"})
          PROVE  \E d \in first : media[d].image = "bad"
      <3>1. Len(media) \in Nat /\ media # <<>>
        BY <1>1, <2>2, MediaTypes DEF BootInv
      <3>2. NoneFound \/ (Found /\ media[i].image = "bad")
        BY <1>1, <2>2, <3>1 DEF BootInv, AtShell
      <3>3. ~NoneFound
        BY <2>2, <3>1 DEF NoneFound, Passed
      <3>4. QED
        BY <1>1, <3>2, <3>3, FoundIsFirst
    <2>3. QED
      BY <2>1, <2>2 DEF FirstMediumDecides
  <1>2. QED
    BY <1>1, BootInvariant, PTL

\* With the image in memory the boot device is off MNTCDROM if, and only if,
\* umount of MNTLIVECD detaches loop0: losetup -d comes after umount MNTCDROM.
THEOREM DeviceIsFree == Spec => []MediumFreed
  <1>1. ASSUME BootInv PROVE MediumFreed
    <2> SUFFICES ASSUME pc = "sysinit", ram
                 PROVE  (\E n \in 1 .. Len(cdrom) : cdrom[n].on = "device") <=> ~machine.frees
      BY DEF MediumFreed
    <2>1. cdrom = IF machine.frees THEN Under ELSE <<Device(i)>> \o Under
      BY <1>1 DEF BootInv, AtSysinit, InMemory, FromIso
    <2>2. machine.frees \in BOOLEAN
      BY <1>1 DEF BootInv, BootTypes
    <2>3. CASE machine.frees
      BY <2>1, <2>3, NoDeviceUnder
    <2>4. CASE ~machine.frees
      <3>1. 1 \in 1 .. Len(cdrom) /\ cdrom[1].on = "device"
        <4>1. cdrom = <<Device(i)>> \o Under
          BY <2>1, <2>4
        <4>2. cdrom[1] = Device(i) /\ Len(cdrom) >= 1
          BY <4>1, Stacked
        <4>3. Len(cdrom) \in Nat
          BY <4>1 DEF Under
        <4>4. QED
          BY <4>2, <4>3 DEF Device
      <3>2. QED
        BY <2>4, <3>1
    <2>5. QED
      BY <2>2, <2>3, <2>4
  <1>2. QED
    BY <1>1, BootInvariant, PTL
=============================================================================
