----------------------------- MODULE MCDiskInfo -----------------------------
(* Small mount tables for DiskInfo. *)
EXTENDS DiskInfo, TLC

Entry(fsname, type, dir, blocks, bsize, frsize, reserved) ==
  [fsname |-> fsname, type |-> type, dir |-> dir, reachable |-> type # "nfs",
   blocks |-> blocks, bsize |-> bsize, frsize |-> frsize, reserved |-> reserved]

Root == Entry("sda1", "ext4", <<>>, 6, 2, 2, 1)
Dev  == Entry("tmp", "tmpfs", <<"dev">>, 4, 1, 1, 0)
Snap == Entry("loop", "squashfs", <<"a">>, 3, 1, 1, 0)
Ctr  == Entry("sda2", "ext4", <<"var", "lib", "docker", "x">>, 4, 1, 1, 0)
Void == Entry("empty", "tmpfs", <<"b">>, 0, 1, 1, 0)
Lost == Entry("server", "nfs", <<"c">>, 2, 4, 4, 0)
Home == Entry("sdb1", "xfs", <<"home">>, 5, 3, 3, 0)
Cover == Entry("sdc1", "btrfs", <<"home">>, 9, 2, 2, 0)
Nest == Entry("sdd1", "ext4", <<"home", "n">>, 3, 1, 1, 1)

\* A root, an ignored mount point, a disk, a disk that can be mounted over it,
\* one inside it, an empty one and an unreachable one.  Cover overflows Word.
MCMounts == {Root, Dev, Ctr, Snap, Void, Lost, Home, Cover, Nest}
MCMounted == <<Root, Dev, Ctr, Lost, Home, Void, Nest>>

Setting(platform, scans, mounts, mounted, maxChanges) ==
  [platform |-> platform, scans |-> scans, mounts |-> mounts, table |-> mounted,
   maxChanges |-> maxChanges]

\* One scan of the full table on each platform.
OneScan == [p \in {"Linux", "macOS"} |-> Setting(p, {"t1"}, MCMounts, MCMounted, 2)]

\* Two scans at once of two disks.
Both(p) == Setting(p, {"t1", "t2"}, {Root, Home}, <<Root, Home>>, 1)
Overlapping == "Linux, two scans" :> Both("Linux") @@ "macOS, two scans" :> Both("macOS")

MCSettings == OneScan @@ Overlapping

\* A FUSE file system reports blocks of f_frsize 1 and f_bsize 4.
Fuse == Entry("sshfs", "fuse", <<"f">>, 3, 4, 1, 0)
MCFuse == [p \in {"Linux", "macOS"} |-> Setting(p, {"t1"}, {Root, Fuse}, <<Root, Fuse>>, 0)]
=============================================================================
